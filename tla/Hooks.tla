------------------------------- MODULE Hooks --------------------------------
(***************************************************************************)
(* What programs that hook an interrupt rely on: their handlers are a      *)
(* stack.  One that comes is met first; only the one that is met first may *)
(* go, and with it its program; nothing else changes whom a call meets.    *)
(***************************************************************************)
EXTENDS Sequences

CONSTANT Programs  \* programs that may hook the interrupt

VARIABLES
  chain,    \* the handlers that a call meets, in their order
  resident  \* the programs in memory whose handlers have been hooked

vars == <<chain, resident>>

Init == chain = <<>> /\ resident = {}

Hook(p) ==
  /\ p \notin resident
  /\ chain' = <<p>> \o chain
  /\ resident' = resident \cup {p}

Unhook ==
  /\ chain # <<>>
  /\ chain' = Tail(chain)
  /\ resident' = resident \ {Head(chain)}

Next == Unhook \/ \E p \in Programs : Hook(p)

Spec == Init /\ [][Next]_vars
=============================================================================
