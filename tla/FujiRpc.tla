------------------------------ MODULE FujiRpc ------------------------------
(***************************************************************************)
(* What the programs above fujicom.c rely on: a call runs alone, the       *)
(* device carries it out at most once, and the reply tells which - 'C'     *)
(* when it did (a read then holds the device's answer), anything else when *)
(* it did not.                                                             *)
(***************************************************************************)
EXTENDS Integers, Sequences

CONSTANTS Ops, MaxCalls, Payload, COMPLETE

VARIABLES
  running,  \* the number of the call in progress, 0 when there is none
  op, id,   \* the entry point and number of the newest call
  log,      \* the commands carried out, in order
  last      \* the call that returned last

vars == <<running, op, id, log, last>>

Done == \E i \in DOMAIN log : log[i].id = id

Init ==
  /\ running = 0 /\ op = "none" /\ id = 0 /\ log = <<>>
  /\ last = [op |-> "none", id |-> 0, reply |-> COMPLETE, buf |-> <<>>]

Begin ==
  /\ running = 0 /\ id < MaxCalls
  /\ op' \in Ops /\ id' = id + 1 /\ running' = id'
  /\ UNCHANGED <<log, last>>

CarryOut ==
  /\ running # 0 /\ ~Done
  /\ log' = Append(log, [op |-> op, id |-> id, data |-> id])
  /\ UNCHANGED <<running, op, id, last>>

Finish ==
  /\ running # 0
  /\ running' = 0
  /\ last'.op = op /\ last'.id = id
  /\ last'.reply = COMPLETE <=> Done
  /\ op = "read" /\ Done => last'.buf = Payload[id]
  /\ UNCHANGED <<op, id, log>>

Next == Begin \/ CarryOut \/ Finish

Spec == Init /\ [][Next]_vars
=============================================================================
