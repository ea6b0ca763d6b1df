------------------------------ MODULE Fujicom ------------------------------
(***************************************************************************)
(* The host side of the FujiNet serial protocol: fujicom_command,          *)
(* fujicom_command_read and fujicom_command_write of fujicom/fujicom.c     *)
(* over the polled UART routines of fujicom/com.c.  The calls run with     *)
(* receive interrupts off, one at a time; what runs beside them is the     *)
(* device at the other end of the line.  The device is not part of the     *)
(* repository: it is modelled from what the host code expects of it.       *)
(*                                                                         *)
(* Towards the device the line carries whole command frames (delimited by  *)
(* DTR) and whole payloads; towards the host it carries single bytes,      *)
(* because the host tells them apart by position only.  A call is known by *)
(* its number: it stands for the device, command and aux bytes of the      *)
(* frame and for the contents of the payload.                              *)
(***************************************************************************)
EXTENDS Cksum, FiniteSets, SequencesExt

CONSTANTS
  MAX_RETRIES,  \* attempts of a read or write command (fujicom.c:21)
  LEN,          \* bytes in the payload of a read
  MaxCalls,     \* bound: calls made by the programs above
  MaxFaults,    \* bound: faults of the line
  Ops,          \* the entry points the programs call
  Payload,      \* Payload[k]: what the device answers to read number k
  Check,        \* Check[k]: the checksum byte it sends after it
  Late,         \* the waits an answer may miss and still arrive afterwards
  Faults,       \* the kinds of fault that may happen
  Noise         \* the values a damaged byte may take

Calls == 1..MaxCalls

ASSUME RetriesAssumption == MAX_RETRIES \in Nat \ {0}
ASSUME LenAssumption == LEN \in Nat \ {0}
ASSUME BoundsAssumption == MaxCalls \in Nat /\ MaxFaults \in Nat
ASSUME OpsAssumption == Ops \subseteq {"command", "read", "write"}
ASSUME PayloadAssumption == Payload \in [Calls -> Seq(Byte)]
ASSUME PayloadLenAssumption == \A k \in Calls : Len(Payload[k]) = LEN
ASSUME CheckAssumption ==
  /\ Check \in [Calls -> Byte]
  /\ \A k \in Calls : Check[k] = fujicom_cksum(Payload[k])
ASSUME NoiseAssumption == Noise \subseteq Byte

ACK == 65               \* 'A'
NAK == 78               \* 'N'
COMPLETE == 67          \* 'C', REPLY_COMPLETE
ERROR == 69             \* 'E', REPLY_ERROR
FUJICOM_TIMEOUT == -1   \* port_getc_nobuf gave up

VARIABLES
  pc,       \* where the running call is, "idle" between calls
  op, id,   \* its entry point and its number
  retries,  \* the loop counter of _read and _write
  buf,      \* the caller's buffer, as far as it is filled
  last,     \* the call that returned last, with its reply and buffer
  toDev,    \* frames and payloads on their way to the device
  toHost,   \* bytes the device is sending, those at the front in the host's receiver
  dev,      \* the device: what it is doing and for which call
  log,      \* the commands the device carried out, in order
  naks,     \* the calls whose frame or payload the device refused
  faults    \* faults so far

hostVars == <<pc, op, id, retries, buf, last>>
devVars == <<dev, log, naks>>
vars == <<pc, op, id, retries, buf, last, toDev, toHost, dev, log, naks, faults>>

Idle == [st |-> "idle", op |-> "none", id |-> 0, data |-> 0]

Init ==
  /\ pc = "idle" /\ op = "none" /\ id = 0 /\ retries = 0 /\ buf = <<>>
  /\ last = [op |-> "none", id |-> 0, reply |-> COMPLETE, buf |-> <<>>]
  /\ toDev = <<>> /\ toHost = <<>>
  /\ dev = Idle /\ log = <<>> /\ naks = {}
  /\ faults = 0

-----------------------------------------------------------------------------
(* The receive side of com.c. *)

\* Nothing is coming any more: the line is empty and the device waits or died.
Quiet ==
  /\ toHost = <<>>
  /\ dev.st = "dead" \/ (toDev = <<>> /\ dev.st # "exec")

\* The results port_getc_nobuf may have under the given timeout.
port_getc_nobuf(timeout) ==
  (IF toHost = <<>> THEN {} ELSE {Head(toHost)})
    \cup (IF Quiet \/ timeout \in Late THEN {FUJICOM_TIMEOUT} ELSE {})

\* The receive register after a getc that returned b.
Taken(b) == IF b = FUJICOM_TIMEOUT THEN toHost ELSE Tail(toHost)

\* port_wait_for_rx_empty discards what has arrived and stops at the first look at
\* an empty register: any number of bytes may still be on their way.
port_wait_for_rx_empty ==
  \E n \in 0..Len(toHost) : toHost' = SubSeq(toHost, n + 1, Len(toHost))

-----------------------------------------------------------------------------
(* The three entry points. *)

\* fujicom_command goes straight to the frame; the others flush first.
Call(o) ==
  /\ pc = "idle" /\ id < MaxCalls
  /\ pc' = IF o = "command" THEN "send" ELSE "flush"
  /\ op' = o /\ id' = id + 1 /\ retries' = 0 /\ buf' = <<>>
  /\ UNCHANGED <<last, toDev, toHost, devVars, faults>>

Return(reply) ==
  /\ pc' = "idle"
  /\ last' = [op |-> op, id |-> id, reply |-> reply, buf |-> buf']

Flush ==
  /\ pc = "flush"
  /\ port_wait_for_rx_empty
  /\ pc' = "send"
  /\ UNCHANGED <<op, id, retries, buf, last, toDev, devVars, faults>>

\* The frame, with its checksum, between raising and dropping DTR.
SendFrame ==
  /\ pc = "send"
  /\ toDev' = Append(toDev, [t |-> "frame", op |-> op, id |-> id, ok |-> TRUE])
  /\ pc' = "ack"
  /\ UNCHANGED <<op, id, retries, buf, last, toHost, devVars, faults>>

\* Variants: one attempt too many, and an 'N' that is tried again uncounted.
AckNextOnceMore(b) ==
  \/ op = "command" /\ pc' = "complete" /\ UNCHANGED <<retries, last>>
  \/ /\ op # "command" /\ b \in {ACK, NAK}
     /\ pc' = IF op = "read" THEN "complete" ELSE "putdata"
     /\ UNCHANGED <<retries, last>>
  \/ /\ op # "command" /\ b \notin {ACK, NAK}
     /\ retries' = retries + 1
     /\ IF retries' > MAX_RETRIES
        THEN Return(b)
        ELSE pc' = "flush" /\ UNCHANGED last

AckNextUncounted(b) ==
  \/ op = "command" /\ pc' = "complete" /\ UNCHANGED <<retries, last>>
  \/ /\ op # "command" /\ b = ACK
     /\ pc' = IF op = "read" THEN "complete" ELSE "putdata"
     /\ UNCHANGED <<retries, last>>
  \/ op # "command" /\ b # ACK /\ pc' = "flush" /\ UNCHANGED <<retries, last>>

\* What the caller of _fujicom_send_command does with its result b:
\* fujicom_command drops it; the loops leave on an 'A' and on an 'N' alike and
\* go round again on anything else, until the attempts are used up.
AckNext(b) ==
  \/ /\ op = "command"
     /\ pc' = "complete"
     /\ UNCHANGED <<retries, last>>
  \/ /\ op # "command" /\ b \in {ACK, NAK}
     /\ pc' = IF op = "read" THEN "complete" ELSE "putdata"
     /\ UNCHANGED <<retries, last>>
  \/ /\ op # "command" /\ b \notin {ACK, NAK}
     /\ retries' = retries + 1
     /\ IF retries' = MAX_RETRIES
        THEN Return(b)
        ELSE pc' = "flush" /\ UNCHANGED last

WaitAck ==
  /\ pc = "ack"
  /\ \E b \in port_getc_nobuf("TIMEOUT") :
       /\ toHost' = Taken(b)
       /\ UNCHANGED buf
       /\ AckNext(b)
  /\ UNCHANGED <<op, id, toDev, devVars, faults>>

\* The payload of a write and its checksum.
PutData ==
  /\ pc = "putdata"
  /\ toDev' = Append(toDev, [t |-> "data", op |-> op, id |-> id, ok |-> TRUE])
  /\ pc' = "dataack"
  /\ UNCHANGED <<op, id, retries, buf, last, toHost, devVars, faults>>

\* Variants: the 'A' taken for the completion, and a write that starts over when
\* its payload is not acknowledged.
WaitDataAckIsEnough ==
  /\ pc = "dataack"
  /\ \E b \in port_getc_nobuf("TIMEOUT_SLOW") :
       /\ toHost' = Taken(b)
       /\ UNCHANGED buf
       /\ Return(IF b = ACK THEN COMPLETE ELSE b)
  /\ UNCHANGED <<op, id, retries, toDev, devVars, faults>>

WaitDataAckRetries ==
  /\ pc = "dataack"
  /\ \E b \in port_getc_nobuf("TIMEOUT_SLOW") :
       /\ toHost' = Taken(b)
       /\ pc' = IF b = ACK THEN "complete" ELSE "flush"
  /\ UNCHANGED <<op, id, retries, buf, last, toDev, devVars, faults>>

WaitDataAck ==
  /\ pc = "dataack"
  /\ \E b \in port_getc_nobuf("TIMEOUT_SLOW") :
       /\ toHost' = Taken(b)
       /\ UNCHANGED buf
       /\ IF b = ACK THEN pc' = "complete" /\ UNCHANGED last ELSE Return(b)
  /\ UNCHANGED <<op, id, retries, toDev, devVars, faults>>

\* A variant: a read is done with its 'C', as a write is.
WaitCompleteIsEnough ==
  /\ pc = "complete"
  /\ \E b \in port_getc_nobuf(IF op = "command" THEN "TIMEOUT" ELSE "TIMEOUT_SLOW") :
       /\ toHost' = Taken(b)
       /\ UNCHANGED buf
       /\ Return(b)
  /\ UNCHANGED <<op, id, retries, toDev, devVars, faults>>

\* The completion: fujicom_command waits TIMEOUT for it, the others longer.
WaitComplete ==
  /\ pc = "complete"
  /\ \E b \in port_getc_nobuf(IF op = "command" THEN "TIMEOUT" ELSE "TIMEOUT_SLOW") :
       /\ toHost' = Taken(b)
       /\ UNCHANGED buf
       /\ IF op = "read" /\ b = COMPLETE
          THEN pc' = "payload" /\ UNCHANGED last
          ELSE Return(b)
  /\ UNCHANGED <<op, id, retries, toDev, devVars, faults>>

\* A variant that reads one byte too few.
GetByteStopsEarly ==
  /\ pc = "payload" /\ toHost # <<>>
  /\ buf' = Append(buf, Head(toHost))
  /\ toHost' = Tail(toHost)
  /\ pc' = IF Len(buf') = LEN - 1 THEN "cksum" ELSE "payload"
  /\ UNCHANGED <<op, id, retries, last, toDev, devVars, faults>>

\* One byte of port_getbuf.  It spins with interrupts disabled, so the BIOS
\* tick its timeout is measured with stands still and it never gives up.
GetByte ==
  /\ pc = "payload" /\ toHost # <<>>
  /\ buf' = Append(buf, Head(toHost))
  /\ toHost' = Tail(toHost)
  /\ pc' = IF Len(buf') = LEN THEN "cksum" ELSE "payload"
  /\ UNCHANGED <<op, id, retries, last, toDev, devVars, faults>>

\* The checksum byte is kept in a uint8_t: a timeout reads as 0xFF.
CheckSum ==
  /\ pc = "cksum"
  /\ \E b \in port_getc_nobuf("TIMEOUT_SLOW") :
       /\ toHost' = Taken(b)
       /\ UNCHANGED buf
       /\ Return(IF b % 256 = fujicom_cksum(buf) THEN COMPLETE ELSE ERROR)
  /\ UNCHANGED <<op, id, retries, toDev, devVars, faults>>

HostStep ==
  \/ Flush \/ SendFrame \/ WaitAck \/ PutData \/ WaitDataAck
  \/ WaitComplete \/ GetByte \/ CheckSum

-----------------------------------------------------------------------------
(* The device. *)

DevReady == dev.st \in {"idle", "want"} /\ toDev # <<>>

\* It refuses what it cannot accept.
Refuse ==
  /\ toHost' = Append(toHost, NAK)
  /\ naks' = naks \cup {Head(toDev).id}
  /\ dev' = Idle

\* A command frame: refused, accepted, or - when damaged - not recognised.
DevFrame ==
  /\ DevReady /\ Head(toDev).t = "frame"
  /\ toDev' = Tail(toDev)
  /\ \/ Refuse
     \/ /\ ~Head(toDev).ok
        /\ UNCHANGED <<toHost, naks, dev>>
     \/ /\ Head(toDev).ok
        /\ toHost' = Append(toHost, ACK)
        /\ dev' = [st |-> IF Head(toDev).op = "write" THEN "want" ELSE "exec",
                   op |-> Head(toDev).op, id |-> Head(toDev).id,
                   data |-> Head(toDev).id]
        /\ UNCHANGED naks
  /\ UNCHANGED <<hostVars, log, faults>>

\* A payload: taken for the write that was accepted last, ignored otherwise.
DevData ==
  /\ DevReady /\ Head(toDev).t = "data"
  /\ toDev' = Tail(toDev)
  /\ \/ /\ dev.st = "want" /\ Head(toDev).ok
        /\ toHost' = Append(toHost, ACK)
        /\ dev' = [dev EXCEPT !.st = "exec", !.data = Head(toDev).id]
        /\ UNCHANGED naks
     \/ dev.st = "want" /\ ~Head(toDev).ok /\ Refuse
     \/ dev.st = "idle" /\ UNCHANGED <<toHost, naks, dev>>
  /\ UNCHANGED <<hostVars, log, faults>>

Answer ==
  IF dev.op = "read"
  THEN <<COMPLETE>> \o Append(Payload[dev.id], Check[dev.id])
  ELSE <<COMPLETE>>

\* The whole answer is under way: how much of it has arrived when the host looks is
\* left open, to a getc by Late, to the flush by its n.
DevDone ==
  /\ dev.st = "exec"
  /\ toHost' = toHost \o Answer
  /\ log' = Append(log, [op |-> dev.op, id |-> dev.id, data |-> dev.data])
  /\ dev' = Idle
  /\ UNCHANGED <<hostVars, toDev, naks, faults>>

DevFail ==
  /\ dev.st = "exec"
  /\ toHost' = Append(toHost, ERROR)
  /\ dev' = Idle
  /\ UNCHANGED <<hostVars, toDev, log, naks, faults>>

DeviceStep == DevFrame \/ DevData \/ DevDone \/ DevFail

-----------------------------------------------------------------------------
(* Faults of the line and of the device. *)

Fault(kind) == kind \in Faults /\ faults < MaxFaults /\ faults' = faults + 1

LoseToDev ==
  /\ Fault("lose_frame")
  /\ \E i \in DOMAIN toDev : toDev' = RemoveAt(toDev, i)
  /\ UNCHANGED <<hostVars, toHost, devVars>>

DamageToDev ==
  /\ Fault("damage_frame")
  /\ \E i \in DOMAIN toDev : toDev' = [toDev EXCEPT ![i].ok = FALSE]
  /\ UNCHANGED <<hostVars, toHost, devVars>>

LoseToHost ==
  /\ Fault("lose_byte")
  /\ \E i \in DOMAIN toHost : toHost' = RemoveAt(toHost, i)
  /\ UNCHANGED <<hostVars, toDev, devVars>>

DamageToHost ==
  /\ Fault("damage_byte")
  /\ \E i \in DOMAIN toHost, b \in Noise : toHost' = [toHost EXCEPT ![i] = b]
  /\ UNCHANGED <<hostVars, toDev, devVars>>

\* The device is switched off in the middle of an answer.
DevDies ==
  /\ Fault("die")
  /\ dev.st = "exec"
  /\ \E n \in 0..Len(Answer) - 1 : toHost' = toHost \o SubSeq(Answer, 1, n)
  /\ dev' = [Idle EXCEPT !.st = "dead"]
  /\ UNCHANGED <<hostVars, toDev, log, naks>>

FaultStep == LoseToDev \/ DamageToDev \/ LoseToHost \/ DamageToHost \/ DevDies

\* Every call the bound allows has been made.
Finished == pc = "idle" /\ id = MaxCalls /\ UNCHANGED vars

Next ==
  \/ \E o \in Ops : Call(o)
  \/ HostStep \/ DeviceStep \/ FaultStep \/ Finished

Spec == Init /\ [][Next]_vars

\* The host spins in its polling loops until they end, and a device that is
\* alive goes on working; neither calls nor faults have to happen.
FairSpec == Spec /\ WF_vars(HostStep) /\ WF_vars(DeviceStep)

-----------------------------------------------------------------------------
(* Properties. *)

HostPC == {"idle", "flush", "send", "ack", "putdata", "dataack", "complete",
           "payload", "cksum"}
Reply == Byte \cup {FUJICOM_TIMEOUT}
Packet == [t : {"frame", "data"}, op : Ops, id : Calls, ok : BOOLEAN]

TypeOK ==
  /\ pc \in HostPC
  /\ op \in Ops \cup {"none"} /\ id \in 0..MaxCalls
  /\ retries \in 0..MAX_RETRIES
  /\ buf \in Seq(Byte)
  /\ last \in [op : Ops \cup {"none"}, id : 0..MaxCalls, reply : Reply, buf : Seq(Byte)]
  /\ toDev \in Seq(Packet) /\ toHost \in Seq(Byte)
  /\ dev \in [st : {"idle", "want", "exec", "dead"}, op : Ops \cup {"none"},
              id : 0..MaxCalls, data : 0..MaxCalls]
  /\ log \in Seq([op : Ops, id : Calls, data : Calls])
  /\ naks \subseteq Calls
  /\ faults \in Nat

\* The device never carries out the payload of one write call twice, whatever
\* is lost, damaged or late: fujicom_command_write repeats the frame up to
\* MAX_RETRIES times but hands over its payload at most once.
WriteAtMostOnce ==
  \A i, j \in DOMAIN log :
    log[i].op = "write" /\ log[j].op = "write" /\ log[i].data = log[j].data => i = j

\* One call makes the device carry out its command at most MAX_RETRIES times,
\* and a call without a retry loop at most once.
ExecutionsBounded ==
  \A k \in Calls :
    LET runs == {i \in DOMAIN log : log[i].id = k}
    IN  Cardinality(runs) <= (IF \E i \in runs : log[i].op = "command"
                              THEN 1 ELSE MAX_RETRIES)

\* A read that returns 'C' filled the buffer with the answer to this read, and
\* not with the leftovers of an earlier attempt or call.
ReadIsOwn ==
  last.op = "read" /\ last.reply = COMPLETE => last.buf = Payload[last.id]

\* A call that returns 'C' was carried out by the device.
CompleteMeansDone ==
  last.id > 0 /\ last.reply = COMPLETE => \E i \in DOMAIN log : log[i].id = last.id

\* Between calls the conversation is over: no byte is left for the next call
\* to mistake for its own, and the device is not busy with the last one.
NothingLeftOver == pc = "idle" => toHost = <<>> /\ toDev = <<>> /\ dev.st # "exec"

\* fujicom.c implements FujiRpc: every step of a call, of the device and of the
\* line is a step of FujiRpc or none of its business.
Rpc == INSTANCE FujiRpc WITH running <- IF pc = "idle" THEN 0 ELSE id
ImplementsRpc == Rpc!Spec

\* Every call returns to its caller.
CallReturns == (pc # "idle") ~> (pc = "idle")

\* fujinet-bios.md:105: the 'A' of the protocol is not seen by user programs.
AckStaysInside == last.reply # ACK

\* fujicom.h:182: a call whose frame the device refused returns 'N'.  The code does not
\* keep to it: the loops break out of the retries on 'N' into the wait for the reply.
NakIsReported == last.id \in naks => last.reply = NAK
=============================================================================
