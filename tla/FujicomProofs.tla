--------------------------- MODULE FujicomProofs ---------------------------
(***************************************************************************)
(* Theorems about Fujicom, for every number of retries, calls and faults,  *)
(* every payload, and every choice of late answers and kinds of fault.     *)
(***************************************************************************)
EXTENDS Fujicom, FiniteSetTheorems, SeqLemmas

-----------------------------------------------------------------------------
(* Type correctness. *)

\* What a getc hands to the host is a byte or the timeout, and what it leaves
\* in the register is a sequence of bytes.
LEMMA GetcType ==
  ASSUME TypeOK, NEW timeout, NEW b \in port_getc_nobuf(timeout)
  PROVE  b \in Reply /\ Taken(b) \in Seq(Byte)
<1>1. toHost \in Seq(Byte)
  BY DEF TypeOK
<1>2. CASE toHost = <<>>
  BY <1>1, <1>2 DEF port_getc_nobuf, Taken, Reply, FUJICOM_TIMEOUT
<1>3. CASE toHost # <<>>
  <2>1. Head(toHost) \in Byte /\ Tail(toHost) \in Seq(Byte)
    BY <1>1, <1>3, HeadTailProperties
  <2> QED BY <1>1, <2>1 DEF port_getc_nobuf, Taken, Reply, FUJICOM_TIMEOUT
<1> QED BY <1>2, <1>3

\* The packet at the head of the line.
LEMMA HeadPacket ==
  ASSUME TypeOK, toDev # <<>>
  PROVE  Head(toDev) \in Packet /\ Tail(toDev) \in Seq(Packet)
  BY HeadTailProperties DEF TypeOK

\* A reply code is a byte, and so is the line with one more of them a sequence.
LEMMA CodeType ==
  ASSUME TypeOK, NEW c \in {ACK, NAK, COMPLETE, ERROR}
  PROVE  Append(toHost, c) \in Seq(Byte)
<1>1. c \in Byte
  BY DEF ACK, NAK, COMPLETE, ERROR, Byte
<1> QED BY <1>1, AppendType DEF TypeOK

\* The answer to a command is made of bytes.
LEMMA AnswerType ==
  ASSUME TypeOK, dev.st = "exec", dev.id \in Calls
  PROVE  Answer \in Seq(Byte)
<1>1. <<COMPLETE>> \in Seq(Byte)
  BY DEF COMPLETE, Byte
<1>2. Payload[dev.id] \in Seq(Byte) /\ Check[dev.id] \in Byte
  BY PayloadAssumption, CheckAssumption
<1>3. Append(Payload[dev.id], Check[dev.id]) \in Seq(Byte)
  BY <1>2, AppendType
<1>4. <<COMPLETE>> \o Append(Payload[dev.id], Check[dev.id]) \in Seq(Byte)
  BY <1>1, <1>3, ConcatProperties
<1> QED BY <1>1, <1>4 DEF Answer

\* A busy device works for a call that was made, through one of the entry points.
BusyOK ==
  dev.st \in {"want", "exec"} => dev.op \in Ops /\ dev.id \in Calls /\ dev.data \in Calls

\* A running call has an entry point and a number, and a call that is about to
\* send its frame still has an attempt left.
CallOK ==
  /\ pc # "idle" => op \in Ops /\ id \in Calls
  /\ pc \in {"flush", "send", "ack"} => retries < MAX_RETRIES

TypeInv == TypeOK /\ BusyOK /\ CallOK

LEMMA TypeInit == Init => TypeInv
<1> SUFFICES ASSUME Init PROVE TypeInv
  OBVIOUS
<1>1. TypeOK
  BY BoundsAssumption, RetriesAssumption
  DEF Init, TypeOK, HostPC, Reply, Byte, Idle, COMPLETE, Calls
<1>2. BusyOK /\ CallOK
  BY DEF Init, BusyOK, CallOK, Idle
<1> QED BY <1>1, <1>2 DEF TypeInv

LEMMA TypeHost == TypeInv /\ HostStep => TypeInv'
<1> SUFFICES ASSUME TypeInv, HostStep PROVE TypeInv'
  OBVIOUS
<1> USE RetriesAssumption, BoundsAssumption DEF TypeInv, Calls, devVars
<1>1. CASE Flush
  <2>1. PICK n \in 0..Len(toHost) : toHost' = SubSeq(toHost, n + 1, Len(toHost))
    BY <1>1, LenProperties DEF Flush, port_wait_for_rx_empty, TypeOK
  <2>2. toHost' \in Seq(Byte)
    BY <2>1, DropType DEF TypeOK
  <2>3. TypeOK'
    BY <1>1, <2>2 DEF Flush, TypeOK, HostPC
  <2> QED BY <1>1, <2>3 DEF Flush, BusyOK, CallOK
<1>2. CASE SendFrame
  <2>1. [t |-> "frame", op |-> op, id |-> id, ok |-> TRUE] \in Packet
    BY <1>2 DEF SendFrame, CallOK, Packet
  <2>2. toDev' \in Seq(Packet)
    BY <1>2, <2>1, AppendType DEF SendFrame, TypeOK
  <2>3. TypeOK'
    BY <1>2, <2>2 DEF SendFrame, TypeOK, HostPC
  <2> QED BY <1>2, <2>3 DEF SendFrame, BusyOK, CallOK
<1>3. CASE WaitAck
  <2>1. PICK b \in port_getc_nobuf("TIMEOUT") :
          toHost' = Taken(b) /\ buf' = buf /\ AckNext(b)
    BY <1>3 DEF WaitAck
  <2>2. b \in Reply /\ toHost' \in Seq(Byte)
    BY <2>1, GetcType
  <2>3. UNCHANGED <<op, id, toDev, dev, log, naks, faults>>
    BY <1>3 DEF WaitAck
  <2>4. /\ pc' \in HostPC /\ retries' \in 0..MAX_RETRIES
        /\ last' \in [op : Ops \cup {"none"}, id : 0..MaxCalls, reply : Reply, buf : Seq(Byte)]
        /\ pc' \in {"flush", "send", "ack"} => retries' < MAX_RETRIES
    BY <1>3, <2>1, <2>2 DEF WaitAck, AckNext, Return, TypeOK, HostPC, CallOK
  <2> QED BY <1>3, <2>1, <2>2, <2>3, <2>4 DEF WaitAck, TypeOK, BusyOK, CallOK
<1>4. CASE PutData
  <2>1. [t |-> "data", op |-> op, id |-> id, ok |-> TRUE] \in Packet
    BY <1>4 DEF PutData, CallOK, Packet
  <2>2. toDev' \in Seq(Packet)
    BY <1>4, <2>1, AppendType DEF PutData, TypeOK
  <2>3. TypeOK'
    BY <1>4, <2>2 DEF PutData, TypeOK, HostPC
  <2> QED BY <1>4, <2>3 DEF PutData, BusyOK, CallOK
<1>5. CASE WaitDataAck
  <2>1. PICK b \in port_getc_nobuf("TIMEOUT_SLOW") :
          /\ toHost' = Taken(b) /\ buf' = buf
          /\ IF b = ACK THEN pc' = "complete" /\ UNCHANGED last ELSE Return(b)
    BY <1>5 DEF WaitDataAck
  <2>2. b \in Reply /\ toHost' \in Seq(Byte)
    BY <2>1, GetcType
  <2>3. TypeOK' /\ pc' \in {"complete", "idle"}
    BY <1>5, <2>1, <2>2 DEF WaitDataAck, Return, TypeOK, HostPC
  <2> QED BY <1>5, <2>3 DEF WaitDataAck, BusyOK, CallOK
<1>6. CASE WaitComplete
  <2>1. PICK b \in port_getc_nobuf(IF op = "command" THEN "TIMEOUT" ELSE "TIMEOUT_SLOW") :
          /\ toHost' = Taken(b) /\ buf' = buf
          /\ IF op = "read" /\ b = COMPLETE
             THEN pc' = "payload" /\ UNCHANGED last ELSE Return(b)
    BY <1>6 DEF WaitComplete
  <2>2. b \in Reply /\ toHost' \in Seq(Byte)
    BY <2>1, GetcType
  <2>3. TypeOK' /\ pc' \in {"payload", "idle"}
    BY <1>6, <2>1, <2>2 DEF WaitComplete, Return, TypeOK, HostPC
  <2> QED BY <1>6, <2>3 DEF WaitComplete, BusyOK, CallOK
<1>7. CASE GetByte
  <2>1. Head(toHost) \in Byte /\ toHost' \in Seq(Byte)
    BY <1>7, HeadTailProperties DEF GetByte, TypeOK
  <2>2. buf' \in Seq(Byte)
    BY <1>7, <2>1, AppendType DEF GetByte, TypeOK
  <2>3. TypeOK' /\ pc' \in {"cksum", "payload"}
    BY <1>7, <2>1, <2>2 DEF GetByte, TypeOK, HostPC
  <2> QED BY <1>7, <2>3 DEF GetByte, BusyOK, CallOK
<1>8. CASE CheckSum
  <2>1. PICK b \in port_getc_nobuf("TIMEOUT_SLOW") :
          /\ toHost' = Taken(b) /\ buf' = buf
          /\ Return(IF b % 256 = fujicom_cksum(buf) THEN COMPLETE ELSE ERROR)
    BY <1>8 DEF CheckSum
  <2>2. toHost' \in Seq(Byte)
    BY <2>1, GetcType
  <2>3. (IF b % 256 = fujicom_cksum(buf) THEN COMPLETE ELSE ERROR) \in Reply
    BY DEF COMPLETE, ERROR, Reply, Byte
  <2>4. TypeOK' /\ pc' = "idle"
    BY <1>8, <2>1, <2>2, <2>3 DEF CheckSum, Return, TypeOK, HostPC
  <2> QED BY <1>8, <2>4 DEF CheckSum, BusyOK, CallOK
<1> QED BY <1>1, <1>2, <1>3, <1>4, <1>5, <1>6, <1>7, <1>8 DEF HostStep

LEMMA TypeDevice == TypeInv /\ DeviceStep => TypeInv'
<1> SUFFICES ASSUME TypeInv, DeviceStep PROVE TypeInv'
  OBVIOUS
<1> USE BoundsAssumption DEF TypeInv, Calls, hostVars, Idle
<1>1. CASE DevFrame
  <2>1. Head(toDev) \in Packet /\ toDev' \in Seq(Packet)
    BY <1>1, HeadPacket DEF DevFrame, DevReady
  <2>2. toHost' \in Seq(Byte)
    <3>1. toHost' \in {toHost, Append(toHost, ACK), Append(toHost, NAK)}
      BY <1>1 DEF DevFrame, Refuse
    <3> QED BY <3>1, CodeType DEF TypeOK
  <2>3. naks' \subseteq Calls
    BY <1>1, <2>1 DEF DevFrame, Refuse, TypeOK, Packet
  <2>4. /\ dev' \in [st : {"idle", "want", "exec", "dead"}, op : Ops \cup {"none"},
                    id : 0..MaxCalls, data : 0..MaxCalls]
        /\ BusyOK'
    BY <1>1, <2>1 DEF DevFrame, Refuse, TypeOK, Packet, BusyOK
  <2> QED BY <1>1, <2>1, <2>2, <2>3, <2>4 DEF DevFrame, TypeOK, CallOK
<1>2. CASE DevData
  <2>1. Head(toDev) \in Packet /\ toDev' \in Seq(Packet)
    BY <1>2, HeadPacket DEF DevData, DevReady
  <2>2. toHost' \in Seq(Byte)
    <3>1. toHost' \in {toHost, Append(toHost, ACK), Append(toHost, NAK)}
      BY <1>2 DEF DevData, Refuse
    <3> QED BY <3>1, CodeType DEF TypeOK
  <2>3. naks' \subseteq Calls
    BY <1>2, <2>1 DEF DevData, Refuse, TypeOK, Packet
  <2>4. /\ dev' \in [st : {"idle", "want", "exec", "dead"}, op : Ops \cup {"none"},
                    id : 0..MaxCalls, data : 0..MaxCalls]
        /\ BusyOK'
    <3>1. CASE dev' = dev
      BY <3>1 DEF TypeOK, BusyOK
    <3>2. CASE dev' = Idle
      BY <3>2 DEF TypeOK, BusyOK
    <3>3. CASE dev.st = "want" /\ dev' = [dev EXCEPT !.st = "exec", !.data = Head(toDev).id]
      <4>1. /\ Head(toDev).id \in Calls /\ Head(toDev).id \in 0..MaxCalls
            /\ dev \in [st : {"idle", "want", "exec", "dead"}, op : Ops \cup {"none"},
                       id : 0..MaxCalls, data : 0..MaxCalls]
        BY <2>1 DEF Packet, TypeOK
      <4>2. dev.op \in Ops /\ dev.id \in Calls
        BY <3>3 DEF BusyOK
      <4> QED BY <3>3, <4>1, <4>2 DEF BusyOK
    <3> HIDE DEF Idle
    <3> QED BY <1>2, <3>1, <3>2, <3>3 DEF DevData, Refuse
  <2> QED BY <1>2, <2>1, <2>2, <2>3, <2>4 DEF DevData, TypeOK, CallOK
<1>3. CASE DevDone
  <2>1. Answer \in Seq(Byte)
    BY <1>3, AnswerType DEF DevDone, BusyOK
  <2>2. toHost' \in Seq(Byte)
    BY <1>3, <2>1, ConcatProperties DEF DevDone, TypeOK
  <2>3. [op |-> dev.op, id |-> dev.id, data |-> dev.data] \in [op : Ops, id : Calls, data : Calls]
    BY <1>3 DEF DevDone, BusyOK
  <2>4. log' \in Seq([op : Ops, id : Calls, data : Calls])
    BY <1>3, <2>3, AppendType DEF DevDone, TypeOK
  <2> QED BY <1>3, <2>2, <2>4 DEF DevDone, TypeOK, BusyOK, CallOK
<1>4. CASE DevFail
  <2>1. toHost' \in Seq(Byte)
    BY <1>4, AppendType DEF DevFail, TypeOK, ERROR, Byte
  <2> QED BY <1>4, <2>1 DEF DevFail, TypeOK, BusyOK, CallOK
<1> QED BY <1>1, <1>2, <1>3, <1>4 DEF DeviceStep

LEMMA TypeFault == TypeInv /\ FaultStep => TypeInv'
<1> SUFFICES ASSUME TypeInv, FaultStep PROVE TypeInv'
  OBVIOUS
<1> USE BoundsAssumption DEF TypeInv, Calls, hostVars, devVars, Fault
<1>1. faults' \in Nat
  <2>1. \E kind \in {"lose_frame", "damage_frame", "lose_byte", "damage_byte", "die"} :
          Fault(kind)
    BY DEF FaultStep, LoseToDev, DamageToDev, LoseToHost, DamageToHost, DevDies
  <2> QED BY <2>1 DEF TypeOK
<1>2. CASE LoseToDev
  <2>1. toDev' \in Seq(Packet)
    <3>1. PICK i \in 1..Len(toDev) : toDev' = RemoveAt(toDev, i)
      BY <1>2, LenProperties DEF LoseToDev, TypeOK
    <3> QED BY <3>1, RemoveAtType DEF TypeOK
  <2> QED BY <1>1, <1>2, <2>1 DEF LoseToDev, TypeOK, BusyOK, CallOK
<1>3. CASE DamageToDev
  <2>1. PICK i \in 1..Len(toDev) : toDev' = [toDev EXCEPT ![i].ok = FALSE]
    BY <1>3, LenProperties DEF DamageToDev, TypeOK
  <2>2. toDev[i] \in Packet
    BY ElementOfSeq DEF TypeOK
  <2>3. [toDev[i] EXCEPT !.ok = FALSE] \in Packet
    BY <2>2 DEF Packet
  <2>4. toDev' \in Seq(Packet)
    BY <2>1, <2>3, ExceptSeq DEF TypeOK
  <2> QED BY <1>1, <1>3, <2>4 DEF DamageToDev, TypeOK, BusyOK, CallOK
<1>4. CASE LoseToHost
  <2>1. toHost' \in Seq(Byte)
    <3>1. PICK i \in 1..Len(toHost) : toHost' = RemoveAt(toHost, i)
      BY <1>4, LenProperties DEF LoseToHost, TypeOK
    <3> QED BY <3>1, RemoveAtType DEF TypeOK
  <2> QED BY <1>1, <1>4, <2>1 DEF LoseToHost, TypeOK, BusyOK, CallOK
<1>5. CASE DamageToHost
  <2>1. toHost' \in Seq(Byte)
    BY <1>5, ExceptSeq, NoiseAssumption DEF DamageToHost, TypeOK
  <2> QED BY <1>1, <1>5, <2>1 DEF DamageToHost, TypeOK, BusyOK, CallOK
<1>6. CASE DevDies
  <2>1. Answer \in Seq(Byte)
    BY <1>6, AnswerType DEF DevDies, BusyOK
  <2>2. PICK n \in 0..Len(Answer) - 1 : toHost' = toHost \o SubSeq(Answer, 1, n)
    BY <1>6 DEF DevDies
  <2>3. SubSeq(Answer, 1, n) \in Seq(Byte)
    <3>1. Len(Answer) \in Nat /\ \A i \in 1..Len(Answer) : Answer[i] \in Byte
      BY <2>1, LenProperties, ElementOfSeq
    <3>2. n \in Int /\ \A i \in 1..n : Answer[i] \in Byte
      BY <3>1
    <3> QED BY <3>2, SubSeqProperties
  <2>4. toHost' \in Seq(Byte)
    BY <2>2, <2>3, ConcatProperties DEF TypeOK
  <2>5. dev' \in [st : {"dead"}, op : {"none"}, id : {0}, data : {0}]
    BY <1>6 DEF DevDies, Idle
  <2>6. dev' \in [st : {"idle", "want", "exec", "dead"}, op : Ops \cup {"none"},
                 id : 0..MaxCalls, data : 0..MaxCalls]
    BY <2>5
  <2>7. UNCHANGED <<pc, op, id, retries, buf, last, toDev, log, naks>>
    BY <1>6 DEF DevDies
  <2>8. TypeOK'
    BY <1>1, <2>4, <2>6, <2>7 DEF TypeOK
  <2> QED BY <2>5, <2>7, <2>8 DEF BusyOK, CallOK
<1> QED BY <1>2, <1>3, <1>4, <1>5, <1>6 DEF FaultStep

LEMMA TypeStep == TypeInv /\ [Next]_vars => TypeInv'
<1> SUFFICES ASSUME TypeInv, [Next]_vars PROVE TypeInv'
  OBVIOUS
<1>1. ASSUME NEW o \in Ops, Call(o) PROVE TypeInv'
  <2>1. id' \in Calls /\ op' \in Ops /\ retries' = 0 /\ buf' \in Seq(Byte)
    BY <1>1, BoundsAssumption DEF Call, TypeInv, TypeOK, Calls
  <2>2. TypeOK' /\ BusyOK'
    BY <1>1, <2>1, RetriesAssumption
    DEF Call, TypeInv, TypeOK, BusyOK, HostPC, devVars, Calls
  <2>3. CallOK'
    BY <1>1, <2>1, RetriesAssumption DEF Call, CallOK
  <2> QED BY <2>2, <2>3 DEF TypeInv
<1>2. CASE Finished \/ UNCHANGED vars
  BY <1>2 DEF Finished, vars, devVars, hostVars, TypeInv, TypeOK, BusyOK, CallOK
<1> QED BY <1>1, <1>2, TypeHost, TypeDevice, TypeFault DEF Next

\* In every reachable state the variables are in their types; in particular
\* the retry counter of the loops never exceeds MAX_RETRIES.
THEOREM TypeCorrect == Spec => []TypeOK
<1>1. TypeInv => TypeOK
  BY DEF TypeInv
<1> QED BY <1>1, TypeInit, TypeStep, PTL DEF Spec

-----------------------------------------------------------------------------
(* A payload is carried out at most once. *)

\* The call numbered k has no payload to hand over any more, or never had.
Sent(k) ==
  /\ k \in Calls
  /\ k < id \/ (k = id /\ pc \notin {"flush", "send", "ack", "putdata"})

IsData(p) == p.t = "data"

\* The device is carrying out a write.
Storing == dev.st = "exec" /\ dev.op = "write"

\* A payload on the line has been handed over, and it is there once.
LineOnce ==
  /\ \A i \in 1..Len(toDev) : IsData(toDev[i]) => Sent(toDev[i].id)
  /\ \A i, j \in 1..Len(toDev) :
       IsData(toDev[i]) /\ IsData(toDev[j]) /\ toDev[i].id = toDev[j].id => i = j

\* The payload the device is storing is not on the line as well.
StoringOnce ==
  Storing => /\ Sent(dev.data)
             /\ \A i \in 1..Len(toDev) : IsData(toDev[i]) => toDev[i].id # dev.data

\* A payload that was stored is neither on the line nor being stored again.
LogOnce ==
  \A k \in 1..Len(log) :
    log[k].op = "write" =>
      /\ Sent(log[k].data)
      /\ \A i \in 1..Len(toDev) : IsData(toDev[i]) => toDev[i].id # log[k].data
      /\ Storing => dev.data # log[k].data

\* WriteAtMostOnce is not inductive: a payload could be stored twice if two
\* copies of it existed.  A payload exists in at most one of three places - on
\* the line, in the device, in the log - and in none before the host sends it.
OnceInv == LineOnce /\ StoringOnce /\ LogOnce /\ WriteAtMostOnce

LEMMA OnceInit == Init => OnceInv
  BY DEF Init, OnceInv, LineOnce, StoringOnce, LogOnce, WriteAtMostOnce, Storing, Idle

\* A step that leaves the line, the device and its log alone keeps the invariant.
LEMMA OnceFrame ==
  ASSUME OnceInv, UNCHANGED <<toDev, dev, log>>, \A k : Sent(k) => Sent(k)'
  PROVE  OnceInv'
  BY DEF OnceInv, LineOnce, StoringOnce, LogOnce, WriteAtMostOnce, Storing, IsData

\* No step makes a payload unsent.
LEMMA SentStays ==
  ASSUME TypeInv, Next, NEW k, Sent(k)
  PROVE  Sent(k)'
<1>1. id \in Nat /\ (k \in Calls => k \in Nat)
  BY BoundsAssumption DEF TypeInv, TypeOK, Calls
<1>2. ASSUME NEW o \in Ops, Call(o) PROVE Sent(k)'
  BY <1>1, <1>2 DEF Call, Sent
<1>3. CASE HostStep
  BY <1>3 DEF HostStep, Flush, SendFrame, WaitAck, PutData, WaitDataAck, WaitComplete,
     GetByte, CheckSum, Return, Sent
<1>4. CASE DeviceStep
  BY <1>4 DEF DeviceStep, DevFrame, DevData, DevDone, DevFail, hostVars, Sent
<1>5. CASE FaultStep
  BY <1>5 DEF FaultStep, LoseToDev, DamageToDev, LoseToHost, DamageToHost, DevDies,
     hostVars, Sent
<1>6. CASE Finished
  BY <1>6 DEF Finished, vars, Sent
<1> QED BY <1>2, <1>3, <1>4, <1>5, <1>6 DEF Next

\* A line whose packets all come from the old one, each from a place of its own,
\* carries every payload at most once, and none the old one did not carry.
LEMMA LineShrinks ==
  ASSUME OnceInv, \A k : Sent(k) => Sent(k)',
         NEW f \in [1..Len(toDev') -> 1..Len(toDev)],
         \A i, j \in 1..Len(toDev') : f[i] = f[j] => i = j,
         \A i \in 1..Len(toDev') :
           toDev'[i].t = toDev[f[i]].t /\ toDev'[i].id = toDev[f[i]].id
  PROVE  /\ LineOnce'
         /\ \A d : (\A i \in 1..Len(toDev) : IsData(toDev[i]) => toDev[i].id # d)
              => \A i \in 1..Len(toDev') : IsData(toDev'[i]) => toDev'[i].id # d
  BY DEF OnceInv, LineOnce, IsData

\* The line after its head was taken off.
LEMMA LineTail ==
  ASSUME TypeInv, OnceInv, \A k : Sent(k) => Sent(k)', toDev # <<>>, toDev' = Tail(toDev)
  PROVE  /\ LineOnce'
         /\ \A d : (\A i \in 1..Len(toDev) : IsData(toDev[i]) => toDev[i].id # d)
              => \A i \in 1..Len(toDev') : IsData(toDev'[i]) => toDev'[i].id # d
         /\ \A i \in 1..Len(toDev') : i + 1 \in 1..Len(toDev) /\ toDev'[i] = toDev[i + 1]
<1>1. toDev \in Seq(Packet) /\ Len(toDev) \in Nat
  BY LenProperties DEF TypeInv, TypeOK
<1>2. Len(toDev') = Len(toDev) - 1 /\ \A i \in 1..Len(toDev') : toDev'[i] = toDev[i + 1]
  BY <1>1, HeadTailProperties
<1> DEFINE f == [i \in 1..Len(toDev') |-> i + 1]
<1>3. f \in [1..Len(toDev') -> 1..Len(toDev)]
  BY <1>1, <1>2
<1>4. \A i, j \in 1..Len(toDev') : f[i] = f[j] => i = j
  BY <1>1, <1>2
<1>5. \A i \in 1..Len(toDev') : toDev'[i] = toDev[f[i]]
  BY <1>2
<1> HIDE DEF f
<1>6. /\ LineOnce'
      /\ \A d : (\A i \in 1..Len(toDev) : IsData(toDev[i]) => toDev[i].id # d)
           => \A i \in 1..Len(toDev') : IsData(toDev'[i]) => toDev'[i].id # d
  BY <1>3, <1>4, <1>5, LineShrinks
<1> QED BY <1>1, <1>2, <1>6

LEMMA OnceStep == TypeInv /\ OnceInv /\ [Next]_vars => OnceInv'
<1> SUFFICES ASSUME TypeInv, OnceInv, [Next]_vars PROVE OnceInv'
  OBVIOUS
<1>1. CASE UNCHANGED vars
  BY <1>1 DEF vars, OnceInv, LineOnce, StoringOnce, LogOnce, WriteAtMostOnce, Storing, Sent
<1> SUFFICES ASSUME Next PROVE OnceInv'
  BY <1>1
<1>2. \A k : Sent(k) => Sent(k)'
  BY SentStays
<1>3. /\ toDev \in Seq(Packet) /\ Len(toDev) \in Nat
      /\ \A i \in 1..Len(toDev) : toDev[i] \in Packet
      /\ log \in Seq([op : Ops, id : Calls, data : Calls]) /\ Len(log) \in Nat
      /\ DOMAIN log = 1..Len(log)
  BY LenProperties, ElementOfSeq DEF TypeInv, TypeOK
<1>4. CASE (\E o \in Ops : Call(o)) \/ Finished
  BY <1>2, <1>4, OnceFrame DEF Call, Finished, vars, devVars
<1>5. CASE HostStep
  <2>1. CASE \/ Flush \/ WaitAck \/ WaitDataAck \/ WaitComplete \/ GetByte \/ CheckSum
    BY <1>2, <2>1, OnceFrame
    DEF Flush, WaitAck, WaitDataAck, WaitComplete, GetByte, CheckSum, devVars
  <2>2. ASSUME NEW p \in Packet, toDev' = Append(toDev, p), UNCHANGED <<dev, log>>,
               IsData(p) => ~Sent(p.id) /\ Sent(p.id)'
        PROVE  OnceInv'
    <3>1. /\ Len(toDev') = Len(toDev) + 1 /\ toDev'[Len(toDev) + 1] = p
          /\ \A i \in 1..Len(toDev) : toDev'[i] = toDev[i]
      BY <1>3, <2>2, AppendType
    <3>2. \A i \in 1..Len(toDev') : i \in 1..Len(toDev) \/ i = Len(toDev) + 1
      BY <1>3, <3>1
    <3>3. LineOnce'
      BY <1>2, <2>2, <3>1, <3>2 DEF OnceInv, LineOnce, IsData
    <3>4. StoringOnce'
      BY <1>2, <2>2, <3>1, <3>2 DEF OnceInv, StoringOnce, Storing, IsData
    <3>5. LogOnce' /\ WriteAtMostOnce'
      BY <1>2, <2>2, <3>1, <3>2 DEF OnceInv, LogOnce, Storing, WriteAtMostOnce, IsData
    <3> QED BY <3>3, <3>4, <3>5 DEF OnceInv
  <2>3. CASE SendFrame
    <3>1. [t |-> "frame", op |-> op, id |-> id, ok |-> TRUE] \in Packet
      BY <2>3 DEF SendFrame, TypeInv, CallOK, Packet
    <3> QED BY <2>2, <2>3, <3>1 DEF SendFrame, devVars, IsData
  <2>4. CASE PutData
    <3>1. [t |-> "data", op |-> op, id |-> id, ok |-> TRUE] \in Packet
      BY <2>4 DEF PutData, TypeInv, CallOK, Packet
    <3>2. ~Sent(id) /\ Sent(id)'
      BY <2>4, BoundsAssumption DEF PutData, TypeInv, CallOK, Sent, Calls
    <3> QED BY <2>2, <2>4, <3>1, <3>2 DEF PutData, devVars, IsData
  <2> QED BY <1>5, <2>1, <2>3, <2>4 DEF HostStep
<1>6. CASE DevFrame
  <2>1. /\ toDev # <<>> /\ toDev' = Tail(toDev) /\ log' = log
        /\ ~Storing'
    BY <1>6 DEF DevFrame, DevReady, Refuse, Storing, Idle
  <2>2. /\ LineOnce'
        /\ \A d : (\A i \in 1..Len(toDev) : IsData(toDev[i]) => toDev[i].id # d)
             => \A i \in 1..Len(toDev') : IsData(toDev'[i]) => toDev'[i].id # d
    BY <1>2, <2>1, LineTail
  <2>3. LogOnce'
    BY <1>2, <2>1, <2>2 DEF OnceInv, LogOnce
  <2> QED BY <2>1, <2>2, <2>3 DEF OnceInv, StoringOnce, WriteAtMostOnce
<1>7. CASE DevData
  <2>1. toDev # <<>> /\ toDev' = Tail(toDev) /\ log' = log /\ ~Storing
    BY <1>7 DEF DevData, DevReady, Storing
  <2>2. /\ LineOnce'
        /\ \A d : (\A i \in 1..Len(toDev) : IsData(toDev[i]) => toDev[i].id # d)
             => \A i \in 1..Len(toDev') : IsData(toDev'[i]) => toDev'[i].id # d
        /\ \A i \in 1..Len(toDev') : i + 1 \in 1..Len(toDev) /\ toDev'[i] = toDev[i + 1]
    BY <1>2, <2>1, LineTail
  <2>3. 1 \in 1..Len(toDev) /\ Head(toDev) = toDev[1] /\ IsData(toDev[1])
    BY <1>3, <1>7, <2>1, EmptySeq DEF DevData, IsData
  <2>4. Storing' => dev'.data = toDev[1].id
    <3>1. dev \in [st : {"idle", "want", "exec", "dead"}, op : Ops \cup {"none"},
                  id : 0..MaxCalls, data : 0..MaxCalls]
      BY DEF TypeInv, TypeOK
    <3>2. \/ dev' = dev \/ dev' = Idle
          \/ dev' = [dev EXCEPT !.st = "exec", !.data = toDev[1].id]
      BY <1>7, <2>3 DEF DevData, Refuse
    <3>3. CASE dev' = dev
      BY <2>1, <3>3 DEF Storing
    <3>4. CASE dev' = Idle
      BY <3>4 DEF Storing, Idle
    <3>5. CASE dev' = [dev EXCEPT !.st = "exec", !.data = toDev[1].id]
      BY <3>1, <3>5
    <3> QED BY <3>2, <3>3, <3>4, <3>5
  <2>5. StoringOnce'
    <3>1. SUFFICES ASSUME Storing' PROVE StoringOnce'
      BY DEF StoringOnce
    <3> PICK d : d = toDev[1].id
      OBVIOUS
    <3>2. Sent(d)'
      BY <1>2, <2>3 DEF OnceInv, LineOnce
    <3>3. ASSUME NEW i \in 1..Len(toDev'), IsData(toDev'[i]) PROVE toDev'[i].id # d
      <4>1. i + 1 # 1 /\ i + 1 \in 1..Len(toDev) /\ toDev'[i] = toDev[i + 1]
        BY <2>2
      <4> QED BY <2>3, <3>3, <4>1 DEF OnceInv, LineOnce
    <3> QED BY <2>4, <3>1, <3>2, <3>3 DEF StoringOnce
  <2>6. LogOnce'
    BY <1>2, <2>1, <2>2, <2>3, <2>4 DEF OnceInv, LogOnce
  <2> QED BY <2>1, <2>2, <2>5, <2>6 DEF OnceInv, WriteAtMostOnce
<1>8. CASE DevDone
  <2> DEFINE e == [op |-> dev.op, id |-> dev.id, data |-> dev.data]
  <2>1. /\ UNCHANGED toDev /\ log' = Append(log, e) /\ ~Storing'
        /\ e.op = "write" => Storing
    BY <1>8 DEF DevDone, Storing, Idle
  <2>2. e \in [op : Ops, id : Calls, data : Calls] /\ e.op = dev.op /\ e.data = dev.data
    BY <1>8 DEF DevDone, TypeInv, BusyOK
  <2> HIDE DEF e
  <2>3. /\ Len(log') = Len(log) + 1 /\ log'[Len(log) + 1] = e
        /\ \A i \in 1..Len(log) : log'[i] = log[i]
        /\ DOMAIN log' = 1..Len(log')
    BY <1>3, <2>1, <2>2, AppendType, LenProperties
  <2>4. \A i \in 1..Len(log') : i \in 1..Len(log) \/ i = Len(log) + 1
    BY <1>3, <2>3
  <2>5. LineOnce'
    BY <1>2, <2>1 DEF OnceInv, LineOnce, IsData
  <2>6. LogOnce'
    BY <1>2, <2>1, <2>2, <2>3, <2>4 DEF OnceInv, LogOnce, StoringOnce, IsData
  <2>7. WriteAtMostOnce'
    BY <1>3, <2>1, <2>2, <2>3, <2>4 DEF OnceInv, LogOnce, WriteAtMostOnce
  <2> QED BY <2>1, <2>5, <2>6, <2>7 DEF OnceInv, StoringOnce
<1>9. CASE DevFail \/ DevDies
  <2>1. UNCHANGED <<toDev, log>> /\ ~Storing'
    BY <1>9 DEF DevFail, DevDies, Storing, Idle
  <2> QED BY <1>2, <2>1
      DEF OnceInv, LineOnce, StoringOnce, LogOnce, WriteAtMostOnce, IsData
<1>10. CASE LoseToDev
  <2>1. PICK k \in 1..Len(toDev) : toDev' = RemoveAt(toDev, k)
    BY <1>3, <1>10, LenProperties DEF LoseToDev
  <2>2. /\ Len(toDev') = Len(toDev) - 1
        /\ \A i \in 1..Len(toDev') : toDev'[i] = toDev[IF i < k THEN i ELSE i + 1]
    BY <1>3, <2>1, RemoveAtType
  <2> DEFINE f == [i \in 1..Len(toDev') |-> IF i < k THEN i ELSE i + 1]
  <2>3. f \in [1..Len(toDev') -> 1..Len(toDev)]
    BY <1>3, <2>2
  <2>4. \A i, j \in 1..Len(toDev') : f[i] = f[j] => i = j
    BY <1>3, <2>2
  <2>5. \A i \in 1..Len(toDev') : toDev'[i] = toDev[f[i]]
    BY <2>2
  <2> HIDE DEF f
  <2>6. UNCHANGED <<dev, log>>
    BY <1>10 DEF LoseToDev, devVars
  <2>7. /\ LineOnce'
        /\ \A d : (\A i \in 1..Len(toDev) : IsData(toDev[i]) => toDev[i].id # d)
             => \A i \in 1..Len(toDev') : IsData(toDev'[i]) => toDev'[i].id # d
    BY <1>2, <2>3, <2>4, <2>5, LineShrinks
  <2> QED BY <1>2, <2>6, <2>7 DEF OnceInv, StoringOnce, LogOnce, WriteAtMostOnce, Storing
<1>11. CASE DamageToDev
  <2>1. PICK k \in 1..Len(toDev) : toDev' = [toDev EXCEPT ![k].ok = FALSE]
    BY <1>3, <1>11, LenProperties DEF DamageToDev
  <2>2. Len(toDev') = Len(toDev) /\ \A i \in 1..Len(toDev') :
          toDev'[i].t = toDev[i].t /\ toDev'[i].id = toDev[i].id
    BY <1>3, <2>1 DEF Packet
  <2> DEFINE f == [i \in 1..Len(toDev') |-> i]
  <2>3. f \in [1..Len(toDev') -> 1..Len(toDev)]
        /\ \A i, j \in 1..Len(toDev') : f[i] = f[j] => i = j
    BY <2>2
  <2>4. \A i \in 1..Len(toDev') :
          toDev'[i].t = toDev[f[i]].t /\ toDev'[i].id = toDev[f[i]].id
    BY <2>2
  <2> HIDE DEF f
  <2>5. UNCHANGED <<dev, log>>
    BY <1>11 DEF DamageToDev, devVars
  <2>6. /\ LineOnce'
        /\ \A d : (\A i \in 1..Len(toDev) : IsData(toDev[i]) => toDev[i].id # d)
             => \A i \in 1..Len(toDev') : IsData(toDev'[i]) => toDev'[i].id # d
    BY <1>2, <2>3, <2>4, LineShrinks
  <2> QED BY <1>2, <2>5, <2>6 DEF OnceInv, StoringOnce, LogOnce, WriteAtMostOnce, Storing
<1>12. CASE LoseToHost \/ DamageToHost
  BY <1>2, <1>12, OnceFrame DEF LoseToHost, DamageToHost, devVars
<1> QED BY <1>4, <1>5, <1>6, <1>7, <1>8, <1>9, <1>10, <1>11, <1>12
    DEF Next, DeviceStep, FaultStep

\* However frames and answers are lost, damaged or late, the device never
\* carries out the payload of one fujicom_command_write call twice.
THEOREM WriteOnce == Spec => []WriteAtMostOnce
<1>1. OnceInv => WriteAtMostOnce
  BY DEF OnceInv
<1> QED BY <1>1, TypeInit, TypeStep, OnceInit, OnceStep, PTL DEF Spec

-----------------------------------------------------------------------------
(* How often a call is carried out. *)

\* What the frames of call k have become: on the line, accepted, carried out.
FramesOf(k) == {i \in 1..Len(toDev) : toDev[i].t = "frame" /\ toDev[i].id = k}
Held(k) == dev.st \in {"want", "exec"} /\ dev.id = k
RunsOf(k) == {i \in 1..Len(log) : log[i].id = k}

\* The number of the executions that call k has asked for and that have not
\* come to nothing.
Asked(k) ==
  Cardinality(FramesOf(k)) + Cardinality(RunsOf(k)) + (IF Held(k) THEN 1 ELSE 0)

\* One of them is of fujicom_command, which sends its frame once.
Commanded(k) ==
  \/ \E i \in FramesOf(k) : toDev[i].op = "command"
  \/ \E i \in RunsOf(k) : log[i].op = "command"
  \/ Held(k) /\ dev.op = "command"

\* The frames the running call has sent.
SentNow == IF pc \in {"flush", "send"} THEN retries ELSE retries + 1

AskedOK(k) ==
  /\ Asked(k) <= MAX_RETRIES
  /\ Commanded(k) => Asked(k) <= 1
  /\ k > id => Asked(k) = 0
  /\ k = id /\ pc # "idle" => Asked(k) <= SentNow /\ (Commanded(k) => op = "command")

\* fujicom_command neither flushes nor tries again.
CommandOnce == pc # "idle" /\ op = "command" => pc # "flush" /\ retries = 0

\* ExecutionsBounded is not inductive: the log says nothing of the frames that
\* are still to be carried out.  Every execution comes from a frame of its own,
\* and the retry counter bounds the frames.
AskedInv == CommandOnce /\ \A k \in Calls : AskedOK(k)

LEMMA CountFinite ==
  ASSUME NEW n \in Nat, NEW S \in SUBSET (1..n)
  PROVE  IsFiniteSet(S) /\ Cardinality(S) \in Nat
<1>1. IsFiniteSet(1..n)
  BY FS_Interval
<1>2. IsFiniteSet(S)
  BY <1>1, FS_Subset
<1> QED BY <1>2, FS_CardinalityType

LEMMA AskedFinite ==
  ASSUME TypeInv, NEW k
  PROVE  /\ IsFiniteSet(FramesOf(k)) /\ Cardinality(FramesOf(k)) \in Nat
         /\ IsFiniteSet(RunsOf(k)) /\ Cardinality(RunsOf(k)) \in Nat
         /\ Asked(k) \in Nat
<1>1. Len(toDev) \in Nat /\ Len(log) \in Nat
  BY LenProperties DEF TypeInv, TypeOK
<1>2. FramesOf(k) \in SUBSET (1..Len(toDev)) /\ RunsOf(k) \in SUBSET (1..Len(log))
  BY DEF FramesOf, RunsOf
<1>3. /\ IsFiniteSet(FramesOf(k)) /\ Cardinality(FramesOf(k)) \in Nat
      /\ IsFiniteSet(RunsOf(k)) /\ Cardinality(RunsOf(k)) \in Nat
  BY <1>1, <1>2, CountFinite
<1> QED BY <1>3 DEF Asked

LEMMA AskedFiniteNext ==
  ASSUME TypeInv', NEW k
  PROVE  /\ IsFiniteSet(FramesOf(k)') /\ Cardinality(FramesOf(k)') \in Nat
         /\ IsFiniteSet(RunsOf(k)') /\ Cardinality(RunsOf(k)') \in Nat
         /\ Asked(k)' \in Nat
<1>1. Len(toDev') \in Nat /\ Len(log') \in Nat
  BY LenProperties DEF TypeInv, TypeOK
<1>2. FramesOf(k)' \in SUBSET (1..Len(toDev')) /\ RunsOf(k)' \in SUBSET (1..Len(log'))
  BY DEF FramesOf, RunsOf
<1>3. /\ IsFiniteSet(FramesOf(k)') /\ Cardinality(FramesOf(k)') \in Nat
      /\ IsFiniteSet(RunsOf(k)') /\ Cardinality(RunsOf(k)') \in Nat
  BY <1>1, <1>2, CountFinite
<1> QED BY <1>3 DEF Asked

\* A call of which something is left has asked for at least one execution.
LEMMA CommandedAsked ==
  ASSUME TypeInv, NEW k, Asked(k) = 0
  PROVE  ~Commanded(k)
<1>1. ~Held(k) /\ Cardinality(FramesOf(k)) = 0 /\ Cardinality(RunsOf(k)) = 0
  BY AskedFinite DEF Asked
<1>2. FramesOf(k) = {} /\ RunsOf(k) = {}
  BY <1>1, AskedFinite, FS_EmptySet
<1> QED BY <1>1, <1>2 DEF Commanded

\* A line whose packets all come from the old one, each from a place of its own
\* outside X, has no more frames of a call than the old one had outside X.
LEMMA FramesShrink ==
  ASSUME TypeInv, NEW k, NEW X,
         NEW f \in [1..Len(toDev') -> 1..Len(toDev)],
         \A i, j \in 1..Len(toDev') : f[i] = f[j] => i = j,
         \A i \in 1..Len(toDev') :
           /\ toDev'[i].t = toDev[f[i]].t /\ toDev'[i].id = toDev[f[i]].id
           /\ toDev'[i].op = toDev[f[i]].op /\ f[i] \notin X
  PROVE  /\ Cardinality(FramesOf(k)') <= Cardinality(FramesOf(k) \ X)
         /\ (\E i \in FramesOf(k)' : toDev'[i].op = "command")
              => \E i \in FramesOf(k) : toDev[i].op = "command"
<1> DEFINE S == FramesOf(k)'
           T == FramesOf(k) \ X
           g == [i \in S |-> f[i]]
<1>1. \A i \in S : i \in 1..Len(toDev') /\ f[i] \in T /\ f[i] \in FramesOf(k)
  BY DEF FramesOf
<1>2. g \in Injection(S, T)
  BY <1>1 DEF Injection, IsInjective
<1>3. IsFiniteSet(FramesOf(k)) /\ T \in SUBSET FramesOf(k)
  BY AskedFinite
<1>4. IsFiniteSet(T)
  BY <1>3, FS_Subset
<1> HIDE DEF S, T, g
<1>5. Cardinality(S) <= Cardinality(T)
  BY <1>2, <1>4, FS_Injection
<1> QED BY <1>1, <1>5 DEF S, T

\* A step of the device or of the line that adds nothing to what call k asked for.
LEMMA AskedShrinks ==
  ASSUME TypeInv, TypeInv', NEW k \in Calls, AskedOK(k), UNCHANGED hostVars,
         Asked(k)' <= Asked(k), Commanded(k)' => Commanded(k)
  PROVE  AskedOK(k)'
<1>1. Asked(k) \in Nat /\ MAX_RETRIES \in Nat /\ retries \in Nat
  BY AskedFinite, RetriesAssumption DEF TypeInv, TypeOK
<1>2. Asked(k)' \in Nat
  BY AskedFiniteNext
<1> QED BY <1>1, <1>2 DEF AskedOK, hostVars, SentNow

LEMMA AskedInit == Init => AskedInv
<1> SUFFICES ASSUME Init PROVE AskedInv
  OBVIOUS
<1>1. TypeInv
  BY TypeInit
<1>2. ASSUME NEW k \in Calls PROVE AskedOK(k)
  <2>1. FramesOf(k) = {} /\ RunsOf(k) = {} /\ ~Held(k)
    BY DEF Init, FramesOf, RunsOf, Held, Idle
  <2>2. Asked(k) = 0
    BY <2>1, FS_EmptySet DEF Asked
  <2>3. ~Commanded(k)
    BY <2>1 DEF Commanded
  <2> QED BY <2>2, <2>3, RetriesAssumption DEF AskedOK, Init
<1> QED BY <1>2 DEF AskedInv, CommandOnce, Init

\* A step that leaves the line, the device and its log alone keeps what was asked.
LEMMA AskedSame ==
  ASSUME UNCHANGED <<toDev, dev, log>>, NEW k
  PROVE  Asked(k)' = Asked(k) /\ (Commanded(k)' <=> Commanded(k))
  BY DEF Asked, Commanded, FramesOf, RunsOf, Held

LEMMA AskedStep == TypeInv /\ AskedInv /\ [Next]_vars => AskedInv'
<1> SUFFICES ASSUME TypeInv, AskedInv, [Next]_vars PROVE AskedInv'
  OBVIOUS
<1>1. TypeInv'
  BY TypeStep
<1>2. /\ toDev \in Seq(Packet) /\ Len(toDev) \in Nat
      /\ \A i \in 1..Len(toDev) : toDev[i] \in Packet
      /\ log \in Seq([op : Ops, id : Calls, data : Calls]) /\ Len(log) \in Nat
  BY LenProperties, ElementOfSeq DEF TypeInv, TypeOK
<1>3. /\ retries \in Nat /\ MAX_RETRIES \in Nat \ {0} /\ id \in Nat
      /\ \A k \in Calls : k \in Nat
  BY RetriesAssumption, BoundsAssumption DEF TypeInv, TypeOK, Calls
<1>4. ASSUME NEW o \in Ops, Call(o) PROVE AskedInv'
  <2>1. CommandOnce'
    BY <1>4 DEF Call, CommandOnce
  <2>2. ASSUME NEW k \in Calls PROVE AskedOK(k)'
    <3>1. Asked(k)' = Asked(k) /\ (Commanded(k)' <=> Commanded(k))
      BY <1>4, AskedSame DEF Call, devVars
    <3>2. AskedOK(k) /\ Asked(k) \in Nat
      BY AskedFinite DEF AskedInv
    <3>3. id' = id + 1 /\ SentNow' = 0
      BY <1>4 DEF Call, SentNow
    <3>4. k >= id' => Asked(k) = 0 /\ ~Commanded(k)
      BY <1>3, <3>2, <3>3, CommandedAsked DEF AskedOK
    <3> QED BY <1>3, <3>1, <3>2, <3>3, <3>4 DEF AskedOK
  <2> QED BY <2>1, <2>2 DEF AskedInv
<1>5. ASSUME UNCHANGED <<toDev, dev, log, id>>, CommandOnce',
             pc' # "idle" => pc # "idle" /\ SentNow' >= SentNow /\ op' = op
      PROVE  AskedInv'
  <2>1. ASSUME NEW k \in Calls PROVE AskedOK(k)'
    <3>1. Asked(k)' = Asked(k) /\ (Commanded(k)' <=> Commanded(k))
      BY <1>5, AskedSame
    <3>2. AskedOK(k) /\ Asked(k) \in Nat
      BY AskedFinite DEF AskedInv
    <3>3. retries' \in Nat
      BY <1>1, <1>3 DEF TypeInv, TypeOK
    <3>4. SentNow \in Nat /\ SentNow' \in Nat
      <4>1. SentNow \in Nat
        BY <1>3 DEF SentNow
      <4>2. PICK r \in Nat : r = retries'
        BY <3>3
      <4>3. SentNow' = (IF pc' \in {"flush", "send"} THEN r ELSE r + 1)
        BY <4>2 DEF SentNow
      <4> QED BY <4>1, <4>3
    <3> QED BY <1>3, <1>5, <3>1, <3>2, <3>4 DEF AskedOK
  <2> QED BY <1>5, <2>1 DEF AskedInv
<1>6. CASE HostStep
  <2>1. CASE Flush \/ PutData
    <3>1. CASE Flush
      <4>1. CommandOnce' /\ SentNow' >= SentNow
        BY <1>3, <3>1 DEF Flush, CommandOnce, AskedInv, SentNow
      <4> QED BY <1>5, <3>1, <4>1 DEF Flush, devVars
    <3>2. CASE PutData
      <4> DEFINE p == [t |-> "data", op |-> op, id |-> id, ok |-> TRUE]
      <4>1. p \in Packet /\ p.t = "data"
        BY <3>2 DEF PutData, TypeInv, CallOK, Packet
      <4>2. toDev' = Append(toDev, p) /\ UNCHANGED <<dev, log, id, op, retries>>
        BY <3>2 DEF PutData, devVars
      <4> HIDE DEF p
      <4>3. /\ Len(toDev') = Len(toDev) + 1 /\ toDev'[Len(toDev) + 1] = p
            /\ \A i \in 1..Len(toDev) : toDev'[i] = toDev[i]
        BY <1>2, <4>1, <4>2, AppendType
      <4>4. ASSUME NEW k PROVE FramesOf(k)' = FramesOf(k)
        BY <1>2, <4>1, <4>3 DEF FramesOf
      <4>5. ASSUME NEW k PROVE Asked(k)' = Asked(k) /\ (Commanded(k)' <=> Commanded(k))
        <5>1. RunsOf(k)' = RunsOf(k) /\ (Held(k)' <=> Held(k))
          BY <4>2 DEF RunsOf, Held
        <5>2. \A i \in FramesOf(k) : toDev'[i] = toDev[i]
          BY <4>3 DEF FramesOf
        <5> QED BY <4>2, <4>4, <5>1, <5>2 DEF Asked, Commanded
      <4>6. pc = "putdata" /\ pc' = "dataack" /\ SentNow' = SentNow
        BY <3>2, <4>2 DEF PutData, SentNow
      <4> QED BY <1>3, <4>2, <4>5, <4>6 DEF AskedInv, AskedOK, CommandOnce
    <3> QED BY <2>1, <3>1, <3>2
  <2>2. CASE SendFrame
    <3> DEFINE p == [t |-> "frame", op |-> op, id |-> id, ok |-> TRUE]
               n == Len(toDev) + 1
    <3>1. p \in Packet /\ p.t = "frame" /\ p.id = id /\ p.op = op /\ id \in Calls
      BY <2>2 DEF SendFrame, TypeInv, CallOK, Packet
    <3>2. /\ toDev' = Append(toDev, p) /\ UNCHANGED <<dev, log, id, op, retries>>
          /\ pc = "send" /\ pc' = "ack"
      BY <2>2 DEF SendFrame, devVars
    <3> HIDE DEF p
    <3>3. /\ Len(toDev') = n /\ toDev'[n] = p
          /\ \A i \in 1..Len(toDev) : toDev'[i] = toDev[i]
      BY <1>2, <3>1, <3>2, AppendType
    <3>4. \A i \in 1..Len(toDev') : i \in 1..Len(toDev) \/ i = n
      BY <1>2, <3>3
    <3>5. n \in 1..Len(toDev') /\ n \notin 1..Len(toDev)
          /\ \A i \in 1..Len(toDev) : i \in 1..Len(toDev')
      BY <1>2, <3>3
    <3> HIDE DEF n
    <3>6. CommandOnce'
      BY <3>2 DEF AskedInv, CommandOnce
    <3>7. ASSUME NEW k \in Calls PROVE AskedOK(k)'
      <4>1. RunsOf(k)' = RunsOf(k) /\ (Held(k)' <=> Held(k))
        BY <3>2 DEF RunsOf, Held
      <4>2. \A i \in FramesOf(k) : toDev'[i] = toDev[i]
        BY <3>3 DEF FramesOf
      <4>3. CASE k # id
        <5>1. FramesOf(k)' = FramesOf(k)
          BY <3>1, <3>3, <3>4, <3>5, <4>3 DEF FramesOf
        <5>2. Asked(k)' = Asked(k) /\ (Commanded(k)' <=> Commanded(k))
          BY <3>2, <4>1, <4>2, <5>1 DEF Asked, Commanded
        <5> QED BY <3>2, <4>3, <5>2 DEF AskedInv, AskedOK
      <4>4. CASE k = id
        <5>1. FramesOf(k)' = FramesOf(k) \cup {n}
          BY <3>1, <3>3, <3>4, <3>5, <4>4 DEF FramesOf
        <5>2. n \notin FramesOf(k)
          BY <3>5 DEF FramesOf
        <5>3. Cardinality(FramesOf(k)') = Cardinality(FramesOf(k)) + 1
          BY <5>1, <5>2, AskedFinite, FS_AddElement
        <5>4. Asked(k)' = Asked(k) + 1
          BY <4>1, <5>3, AskedFinite DEF Asked
        <5>5. Commanded(k)' => op = "command"
          BY <3>1, <3>2, <3>3, <4>1, <4>2, <4>4, <5>1 DEF Commanded, AskedInv, AskedOK
        <5>6. Asked(k) <= retries /\ Asked(k) \in Nat /\ SentNow' = retries + 1
          BY <3>2, <4>4, AskedFinite DEF AskedInv, AskedOK, SentNow
        <5>7. op = "command" => retries = 0
          BY <3>2 DEF AskedInv, CommandOnce
        <5>8. retries < MAX_RETRIES
          BY <3>2 DEF TypeInv, CallOK
        <5> QED BY <1>3, <3>2, <4>4, <5>4, <5>5, <5>6, <5>7, <5>8 DEF AskedOK
      <4> QED BY <4>3, <4>4
    <3> QED BY <3>6, <3>7 DEF AskedInv
  <2>3. CASE WaitAck
    <3>1. PICK b : AckNext(b)
      BY <2>3 DEF WaitAck
    <3>2. pc = "ack" /\ UNCHANGED <<toDev, dev, log, id, op>>
      BY <2>3 DEF WaitAck, devVars
    <3>3. CommandOnce' /\ (pc' # "idle" => SentNow' >= SentNow)
      BY <1>3, <3>1, <3>2 DEF AckNext, Return, AskedInv, CommandOnce, SentNow
    <3> QED BY <1>5, <3>2, <3>3
  <2>4. CASE WaitDataAck \/ WaitComplete \/ GetByte \/ CheckSum
    <3>1. /\ UNCHANGED <<toDev, dev, log, id, op, retries>> /\ pc # "idle"
          /\ pc \notin {"flush", "send"} /\ pc' \notin {"flush", "send"}
      BY <2>4 DEF WaitDataAck, WaitComplete, GetByte, CheckSum, Return, devVars
    <3>2. CommandOnce' /\ SentNow' >= SentNow
      BY <1>3, <3>1 DEF AskedInv, CommandOnce, SentNow
    <3> QED BY <1>5, <3>1, <3>2
  <2> QED BY <1>6, <2>1, <2>2, <2>3, <2>4 DEF HostStep
<1>7. ASSUME UNCHANGED hostVars,
             \A k \in Calls : Asked(k)' <= Asked(k) /\ (Commanded(k)' => Commanded(k))
      PROVE  AskedInv'
  <2>1. CommandOnce'
    BY <1>7 DEF hostVars, AskedInv, CommandOnce
  <2>2. ASSUME NEW k \in Calls PROVE AskedOK(k)'
    BY <1>1, <1>7, AskedShrinks DEF AskedInv
  <2> QED BY <2>1, <2>2 DEF AskedInv
<1>8. ASSUME DevReady, toDev' = Tail(toDev)
      PROVE  /\ \A k : Cardinality(FramesOf(k)') <= Cardinality(FramesOf(k) \ {1})
             /\ \A k : (\E i \in FramesOf(k)' : toDev'[i].op = "command")
                        => \E i \in FramesOf(k) : toDev[i].op = "command"
  <2>1. toDev # <<>>
    BY <1>8 DEF DevReady
  <2>2. Len(toDev') = Len(toDev) - 1 /\ \A i \in 1..Len(toDev') : toDev'[i] = toDev[i + 1]
    BY <1>2, <1>8, <2>1, HeadTailProperties
  <2> DEFINE f == [i \in 1..Len(toDev') |-> i + 1]
  <2>3. f \in [1..Len(toDev') -> 1..Len(toDev)]
    BY <1>2, <2>2
  <2>4. \A i, j \in 1..Len(toDev') : f[i] = f[j] => i = j
    BY <1>2, <2>2
  <2>5. \A i \in 1..Len(toDev') :
          /\ toDev'[i].t = toDev[f[i]].t /\ toDev'[i].id = toDev[f[i]].id
          /\ toDev'[i].op = toDev[f[i]].op /\ f[i] \notin {1}
    BY <1>2, <2>2
  <2> HIDE DEF f
  <2>6. ASSUME NEW k
        PROVE  /\ Cardinality(FramesOf(k)') <= Cardinality(FramesOf(k) \ {1})
               /\ (\E i \in FramesOf(k)' : toDev'[i].op = "command")
                    => \E i \in FramesOf(k) : toDev[i].op = "command"
    BY <2>3, <2>4, <2>5, FramesShrink
  <2> QED BY <2>6
<1>9. ASSUME NEW k
      PROVE  /\ Cardinality(FramesOf(k) \ {1}) \in Nat
             /\ Cardinality(FramesOf(k) \ {1}) <= Cardinality(FramesOf(k))
             /\ 1 \in FramesOf(k)
                  => Cardinality(FramesOf(k) \ {1}) = Cardinality(FramesOf(k)) - 1
  <2>1. IsFiniteSet(FramesOf(k)) /\ FramesOf(k) \ {1} \in SUBSET FramesOf(k)
    BY AskedFinite
  <2>2. /\ IsFiniteSet(FramesOf(k) \ {1})
        /\ Cardinality(FramesOf(k) \ {1}) <= Cardinality(FramesOf(k))
    BY <2>1, FS_Subset
  <2>3. 1 \in FramesOf(k)
          => Cardinality(FramesOf(k) \ {1}) = Cardinality(FramesOf(k)) - 1
    BY <2>1, FS_RemoveElement
  <2> QED BY <2>2, <2>3, FS_CardinalityType
<1>10. CASE DevFrame
  <2>1. /\ UNCHANGED hostVars /\ UNCHANGED log
        /\ DevReady /\ toDev' = Tail(toDev) /\ Head(toDev).t = "frame"
    BY <1>10 DEF DevFrame
  <2>2. /\ 1 \in 1..Len(toDev) /\ Head(toDev) = toDev[1]
    BY <1>2, <2>1, EmptySeq DEF DevReady
  <2>3. ASSUME NEW k \in Calls PROVE Asked(k)' <= Asked(k) /\ (Commanded(k)' => Commanded(k))
    <3>1. RunsOf(k)' = RunsOf(k)
      BY <2>1 DEF RunsOf
    <3>2. /\ Cardinality(FramesOf(k)') <= Cardinality(FramesOf(k) \ {1})
          /\ (\E i \in FramesOf(k)' : toDev'[i].op = "command")
               => \E i \in FramesOf(k) : toDev[i].op = "command"
      BY <1>8, <2>1
    <3>3. /\ Cardinality(FramesOf(k)) \in Nat /\ Cardinality(FramesOf(k)') \in Nat
          /\ Cardinality(RunsOf(k)) \in Nat
      BY <1>1, AskedFinite, AskedFiniteNext
    <3>4. CASE Held(k)' => Held(k) /\ dev' = dev
      <4>1. Asked(k)' <= Asked(k)
        BY <1>9, <3>1, <3>2, <3>3, <3>4 DEF Asked
      <4> QED BY <2>1, <3>1, <3>2, <3>4, <4>1 DEF Commanded
    <3>5. CASE k = toDev[1].id /\ dev'.op = toDev[1].op
      <4>1. 1 \in FramesOf(k)
        BY <2>1, <2>2, <3>5 DEF FramesOf
      <4>2. Asked(k)' <= Asked(k)
        BY <1>9, <3>1, <3>2, <3>3, <4>1 DEF Asked
      <4> QED BY <2>1, <3>1, <3>2, <3>5, <4>1, <4>2 DEF Commanded
    <3>6. CASE dev' = dev \/ dev' = Idle
      <4>1. Held(k)' => Held(k) /\ dev' = dev
        BY <3>6 DEF Held, Idle
      <4> QED BY <3>4, <4>1
    <3>7. CASE dev' = [st |-> IF toDev[1].op = "write" THEN "want" ELSE "exec",
                       op |-> toDev[1].op, id |-> toDev[1].id, data |-> toDev[1].id]
      <4>1. dev'.id = toDev[1].id /\ dev'.op = toDev[1].op
        BY <3>7
      <4>2. CASE k = toDev[1].id
        BY <3>5, <4>1, <4>2
      <4>3. CASE k # toDev[1].id
        BY <3>4, <4>1, <4>3 DEF Held
      <4> QED BY <4>2, <4>3
    <3> QED BY <1>10, <2>2, <3>6, <3>7 DEF DevFrame, Refuse
  <2> QED BY <1>7, <2>1, <2>3
<1>11. CASE DevData
  <2>1. UNCHANGED hostVars /\ UNCHANGED log /\ DevReady /\ toDev' = Tail(toDev)
    BY <1>11 DEF DevData
  <2>2. ASSUME NEW k \in Calls PROVE Asked(k)' <= Asked(k) /\ (Commanded(k)' => Commanded(k))
    <3>1. RunsOf(k)' = RunsOf(k)
      BY <2>1 DEF RunsOf
    <3>2. /\ Cardinality(FramesOf(k)') <= Cardinality(FramesOf(k) \ {1})
          /\ (\E i \in FramesOf(k)' : toDev'[i].op = "command")
               => \E i \in FramesOf(k) : toDev[i].op = "command"
      BY <1>8, <2>1
    <3>3. /\ Cardinality(FramesOf(k)) \in Nat /\ Cardinality(FramesOf(k)') \in Nat
          /\ Cardinality(RunsOf(k)) \in Nat
      BY <1>1, AskedFinite, AskedFiniteNext
    <3>4. Held(k)' => Held(k) /\ dev'.op = dev.op
      <4>1. dev \in [st : {"idle", "want", "exec", "dead"}, op : Ops \cup {"none"},
                     id : 0..MaxCalls, data : 0..MaxCalls]
        BY DEF TypeInv, TypeOK
      <4>2. CASE dev' = dev
        BY <4>2 DEF Held
      <4>3. CASE dev' = Idle
        BY <4>3 DEF Held, Idle
      <4>4. CASE dev.st = "want"
                 /\ dev' = [dev EXCEPT !.st = "exec", !.data = Head(toDev).id]
        BY <4>1, <4>4 DEF Held
      <4> QED BY <1>11, <4>2, <4>3, <4>4 DEF DevData, Refuse
    <3>5. Asked(k)' <= Asked(k)
      BY <1>9, <3>1, <3>2, <3>3, <3>4 DEF Asked
    <3> QED BY <2>1, <3>1, <3>2, <3>4, <3>5 DEF Commanded
  <2> QED BY <1>7, <2>1, <2>2
<1>12. CASE DevDone
  <2> DEFINE e == [op |-> dev.op, id |-> dev.id, data |-> dev.data]
             n == Len(log) + 1
  <2>1. /\ UNCHANGED hostVars /\ UNCHANGED toDev
        /\ log' = Append(log, e) /\ dev' = Idle /\ dev.st = "exec"
    BY <1>12 DEF DevDone
  <2>2. e \in [op : Ops, id : Calls, data : Calls] /\ e.op = dev.op /\ e.id = dev.id
    BY <2>1 DEF TypeInv, BusyOK
  <2> HIDE DEF e
  <2>3. /\ Len(log') = n /\ log'[n] = e
        /\ \A i \in 1..Len(log) : log'[i] = log[i]
    BY <1>2, <2>1, <2>2, AppendType
  <2>4. /\ \A i \in 1..Len(log') : i \in 1..Len(log) \/ i = n
        /\ n \in 1..Len(log') /\ n \notin 1..Len(log)
        /\ \A i \in 1..Len(log) : i \in 1..Len(log')
    BY <1>2, <2>3
  <2> HIDE DEF n
  <2>5. ASSUME NEW k \in Calls PROVE Asked(k)' <= Asked(k) /\ (Commanded(k)' => Commanded(k))
    <3>1. FramesOf(k)' = FramesOf(k) /\ ~Held(k)'
      BY <2>1 DEF FramesOf, Held, Idle
    <3>2. \A i \in RunsOf(k) : log'[i] = log[i]
      BY <2>3 DEF RunsOf
    <3>3. CASE dev.id # k
      <4>1. RunsOf(k)' = RunsOf(k)
        BY <2>2, <2>3, <2>4, <3>3 DEF RunsOf
      <4>2. Asked(k)' <= Asked(k)
        BY <3>1, <4>1, AskedFinite DEF Asked
      <4> QED BY <2>1, <3>1, <3>2, <4>1, <4>2 DEF Commanded
    <3>4. CASE dev.id = k
      <4>1. RunsOf(k)' = RunsOf(k) \cup {n} /\ n \notin RunsOf(k)
        BY <2>2, <2>3, <2>4, <3>4 DEF RunsOf
      <4>2. Cardinality(RunsOf(k)') = Cardinality(RunsOf(k)) + 1
        BY <4>1, AskedFinite, FS_AddElement
      <4>3. Held(k)
        BY <2>1, <3>4 DEF Held
      <4>4. Asked(k)' <= Asked(k)
        BY <3>1, <4>2, <4>3, AskedFinite DEF Asked
      <4> QED BY <2>1, <2>2, <2>3, <3>1, <3>2, <4>1, <4>3, <4>4 DEF Commanded
    <3> QED BY <3>3, <3>4
  <2> QED BY <1>7, <2>1, <2>5
<1>13. CASE DevFail \/ DevDies
  <2>1. UNCHANGED hostVars /\ UNCHANGED <<toDev, log>> /\ dev'.st \in {"idle", "dead"}
    BY <1>13 DEF DevFail, DevDies, Idle
  <2>2. ASSUME NEW k \in Calls PROVE Asked(k)' <= Asked(k) /\ (Commanded(k)' => Commanded(k))
    <3>1. FramesOf(k)' = FramesOf(k) /\ RunsOf(k)' = RunsOf(k) /\ ~Held(k)'
      BY <2>1 DEF FramesOf, RunsOf, Held
    <3>2. Asked(k)' <= Asked(k)
      BY <3>1, AskedFinite DEF Asked
    <3> QED BY <2>1, <3>1, <3>2 DEF Commanded
  <2> QED BY <1>7, <2>1, <2>2
<1>14. ASSUME UNCHANGED hostVars, UNCHANGED <<dev, log>>,
              NEW f \in [1..Len(toDev') -> 1..Len(toDev)],
              \A i, j \in 1..Len(toDev') : f[i] = f[j] => i = j,
              \A i \in 1..Len(toDev') :
                /\ toDev'[i].t = toDev[f[i]].t /\ toDev'[i].id = toDev[f[i]].id
                /\ toDev'[i].op = toDev[f[i]].op
       PROVE  AskedInv'
  <2>1. ASSUME NEW k \in Calls PROVE Asked(k)' <= Asked(k) /\ (Commanded(k)' => Commanded(k))
    <3>1. /\ Cardinality(FramesOf(k)') <= Cardinality(FramesOf(k) \ {0})
          /\ (\E i \in FramesOf(k)' : toDev'[i].op = "command")
               => \E i \in FramesOf(k) : toDev[i].op = "command"
      <4>1. \A i \in 1..Len(toDev') :
              /\ toDev'[i].t = toDev[f[i]].t /\ toDev'[i].id = toDev[f[i]].id
              /\ toDev'[i].op = toDev[f[i]].op /\ f[i] \notin {0}
        BY <1>2, <1>14
      <4>2. /\ f \in [1..Len(toDev') -> 1..Len(toDev)]
            /\ \A i, j \in 1..Len(toDev') : f[i] = f[j] => i = j
        BY <1>14
      <4> QED BY <4>1, <4>2, FramesShrink
    <3>2. FramesOf(k) \ {0} = FramesOf(k)
      BY <1>2 DEF FramesOf
    <3>3. RunsOf(k)' = RunsOf(k) /\ (Held(k)' <=> Held(k))
      BY <1>14 DEF RunsOf, Held
    <3>4. /\ Cardinality(FramesOf(k)) \in Nat /\ Cardinality(FramesOf(k)') \in Nat
          /\ Cardinality(RunsOf(k)) \in Nat
      BY <1>1, AskedFinite, AskedFiniteNext
    <3>5. Cardinality(FramesOf(k)') <= Cardinality(FramesOf(k))
      BY <3>1, <3>2
    <3>6. Asked(k)' <= Asked(k)
      BY <3>3, <3>4, <3>5 DEF Asked
    <3> QED BY <1>14, <3>1, <3>3, <3>6 DEF Commanded
  <2> QED BY <1>7, <1>14, <2>1
<1>15. CASE LoseToDev
  <2>1. PICK k \in 1..Len(toDev) : toDev' = RemoveAt(toDev, k)
    BY <1>2, <1>15, LenProperties DEF LoseToDev
  <2>2. /\ Len(toDev') = Len(toDev) - 1
        /\ \A i \in 1..Len(toDev') : toDev'[i] = toDev[IF i < k THEN i ELSE i + 1]
    BY <1>2, <2>1, RemoveAtType
  <2> DEFINE f == [i \in 1..Len(toDev') |-> IF i < k THEN i ELSE i + 1]
  <2>3. f \in [1..Len(toDev') -> 1..Len(toDev)]
    BY <1>2, <2>2
  <2>4. \A i, j \in 1..Len(toDev') : f[i] = f[j] => i = j
    BY <1>2, <2>2
  <2>5. \A i \in 1..Len(toDev') : toDev'[i] = toDev[f[i]]
    BY <2>2
  <2> HIDE DEF f
  <2>6. UNCHANGED hostVars /\ UNCHANGED <<dev, log>>
    BY <1>15 DEF LoseToDev, devVars
  <2> QED BY <1>14, <2>3, <2>4, <2>5, <2>6
<1>16. CASE DamageToDev
  <2>1. PICK k \in 1..Len(toDev) : toDev' = [toDev EXCEPT ![k].ok = FALSE]
    BY <1>2, <1>16, LenProperties DEF DamageToDev
  <2>2. Len(toDev') = Len(toDev) /\ \A i \in 1..Len(toDev') :
          /\ toDev'[i].t = toDev[i].t /\ toDev'[i].id = toDev[i].id
          /\ toDev'[i].op = toDev[i].op
    BY <1>2, <2>1 DEF Packet
  <2> DEFINE f == [i \in 1..Len(toDev') |-> i]
  <2>3. f \in [1..Len(toDev') -> 1..Len(toDev)]
        /\ \A i, j \in 1..Len(toDev') : f[i] = f[j] => i = j
    BY <2>2
  <2>4. \A i \in 1..Len(toDev') :
          /\ toDev'[i].t = toDev[f[i]].t /\ toDev'[i].id = toDev[f[i]].id
          /\ toDev'[i].op = toDev[f[i]].op
    BY <2>2
  <2> HIDE DEF f
  <2>5. UNCHANGED hostVars /\ UNCHANGED <<dev, log>>
    BY <1>16 DEF DamageToDev, devVars
  <2> QED BY <1>14, <2>3, <2>4, <2>5
<1>17. CASE LoseToHost \/ DamageToHost \/ Finished \/ UNCHANGED vars
  <2>1. UNCHANGED hostVars /\ UNCHANGED <<toDev, dev, log>>
    BY <1>17 DEF LoseToHost, DamageToHost, Finished, vars, hostVars, devVars
  <2>2. ASSUME NEW k \in Calls PROVE Asked(k)' <= Asked(k) /\ (Commanded(k)' => Commanded(k))
    BY <2>1, AskedSame, AskedFinite
  <2> QED BY <1>7, <2>1, <2>2
<1> QED BY <1>4, <1>6, <1>10, <1>11, <1>12, <1>13, <1>15, <1>16, <1>17
    DEF Next, DeviceStep, FaultStep

\* However often frames and answers are lost, damaged or late, the device
\* carries out a fujicom_command at most once and a fujicom_command_read or
\* _write at most MAX_RETRIES times.
THEOREM ExecutionsBoundedHolds == Spec => []ExecutionsBounded
<1>1. TypeInv /\ AskedInv => ExecutionsBounded
  <2> SUFFICES ASSUME TypeInv, AskedInv, NEW k \in Calls
               PROVE  Cardinality(RunsOf(k)) <=
                        (IF \E i \in RunsOf(k) : log[i].op = "command"
                         THEN 1 ELSE MAX_RETRIES)
    <3>1. DOMAIN log = 1..Len(log)
      BY LenProperties DEF TypeInv, TypeOK
    <3> QED BY <3>1 DEF ExecutionsBounded, RunsOf
  <2>1. Cardinality(RunsOf(k)) <= Asked(k)
    BY AskedFinite DEF Asked
  <2> QED BY <2>1, AskedFinite, RetriesAssumption DEF AskedInv, AskedOK, Commanded
<1> QED BY <1>1, TypeInit, TypeStep, AskedInit, AskedStep, PTL DEF Spec

-----------------------------------------------------------------------------
(* A line that loses what it carries, and programs that do not read. *)

\* The device carried out call k.
CarriedOut(k) == \E i \in DOMAIN log : log[i].id = k

\* With no answer late, a getc gives the next byte, and times out only when
\* none can come any more.
LEMMA GetcCases ==
  ASSUME TypeInv, Late = {}, NEW timeout, NEW b \in port_getc_nobuf(timeout)
  PROVE  \/ /\ toHost # <<>> /\ Len(toHost) \in Nat \ {0}
            /\ b = toHost[1] /\ b = Head(toHost) /\ b \in Byte /\ b # FUJICOM_TIMEOUT
            /\ Taken(b) = Tail(toHost) /\ Len(Taken(b)) = Len(toHost) - 1
            /\ \A i \in 1..Len(Taken(b)) : Taken(b)[i] = toHost[i + 1]
         \/ /\ toHost = <<>> /\ b = FUJICOM_TIMEOUT /\ Taken(b) = <<>> /\ Quiet
<1>1. toHost \in Seq(Byte)
  BY DEF TypeInv, TypeOK
<1>2. CASE toHost # <<>>
  <2>1. /\ Len(toHost) \in Nat \ {0} /\ Head(toHost) \in Byte
        /\ Len(Tail(toHost)) = Len(toHost) - 1
        /\ \A i \in 1..Len(Tail(toHost)) : Tail(toHost)[i] = toHost[i + 1]
    BY <1>1, <1>2, EmptySeq, HeadTailProperties
  <2>2. Head(toHost) = toHost[1]
    BY <1>1, <1>2
  <2>3. b = Head(toHost)
    BY <1>2 DEF port_getc_nobuf, Quiet
  <2>4. b # FUJICOM_TIMEOUT
    <3>1. b \in 0..255
      BY <2>1, <2>3 DEF Byte
    <3> QED BY <3>1 DEF FUJICOM_TIMEOUT
  <2> QED BY <1>2, <2>1, <2>2, <2>3, <2>4 DEF Taken
<1>3. CASE toHost = <<>>
  BY <1>3 DEF port_getc_nobuf, Taken
<1> QED BY <1>2, <1>3

\* What is on the line to a device that is on belongs to the running call, which
\* waits for it to be taken.
ApartLine ==
  dev.st # "dead" =>
    /\ Len(toDev) <= 1
    /\ \A i \in 1..Len(toDev) :
         /\ toDev[i].id = id /\ toDev[i].op = op
         /\ pc = (IF toDev[i].t = "frame" THEN "ack" ELSE "dataack")
         /\ toHost = <<>> /\ dev.st # "exec"

\* The device is busy with the running call only, while that call waits.
ApartDevice ==
  /\ dev.st = "exec" =>
       /\ dev.id = id /\ pc \in {"ack", "dataack", "complete"}
       /\ Len(toHost) <= 1 /\ \A i \in 1..Len(toHost) : toHost[i] = ACK
       /\ pc = "ack" => op # "write"
       /\ pc = "complete" => toHost = <<>>
  /\ dev.st = "want" /\ (pc \in {"putdata", "dataack"} \/ (pc = "ack" /\ toHost # <<>>))
       => dev.id = id

\* The reply codes by which the device tells that it has not carried out a command.
Codes == {ACK, NAK, ERROR}

\* What comes in for the running call: at most an 'A' and an outcome behind it, and
\* no 'C' until it is carried out; nothing is left when it ends or starts over.
ApartBytes ==
  /\ pc \in {"idle", "flush", "send", "putdata"} => toHost = <<>>
  /\ pc \in {"putdata", "dataack"} => op = "write"
  /\ Len(toHost) <= 2
  /\ Len(toHost) = 2 => toHost[1] = ACK /\ toHost[2] # ACK
  /\ pc = "ack" /\ op = "write" =>
       Len(toHost) <= 1 /\ \A i \in 1..Len(toHost) : toHost[i] \in {ACK, NAK}
  /\ pc = "complete" => Len(toHost) <= 1 /\ \A i \in 1..Len(toHost) : toHost[i] # ACK
  /\ ~CarriedOut(id) => \A i \in 1..Len(toHost) : toHost[i] \in Codes
  /\ pc \notin {"payload", "cksum"}

\* CompleteMeansDone is not inductive: a 'C' of an earlier call must not come in
\* when a call looks for its completion, and the flush, which may leave bytes behind, does
\* not see to that: without reads nothing is there when it is called.
Apart == ApartLine /\ ApartDevice /\ ApartBytes /\ CompleteMeansDone /\ AckStaysInside

LEMMA ApartInit == Init => Apart
<1> SUFFICES ASSUME Init PROVE Apart
  OBVIOUS
<1>1. Len(toDev) = 0 /\ Len(toHost) = 0 /\ toHost = <<>>
  BY EmptySeq DEF Init
<1>2. ApartLine
  BY <1>1 DEF ApartLine
<1>3. ApartDevice
  BY <1>1 DEF ApartDevice, Init, Idle
<1>4. ApartBytes
  BY <1>1 DEF ApartBytes, Init
<1>5. CompleteMeansDone /\ AckStaysInside
  BY DEF CompleteMeansDone, AckStaysInside, Init, ACK, COMPLETE
<1> QED BY <1>2, <1>3, <1>4, <1>5 DEF Apart

LEMMA ApartHost ==
  ASSUME TypeInv, Apart, HostStep, Late = {}, "read" \notin Ops
  PROVE  Apart'
<1>1. /\ toHost \in Seq(Byte) /\ Len(toHost) \in Nat /\ (toHost = <<>> <=> Len(toHost) = 0)
      /\ toDev \in Seq(Packet) /\ Len(toDev) \in Nat /\ (toDev = <<>> <=> Len(toDev) = 0)
  BY EmptySeq, LenProperties DEF TypeInv, TypeOK
<1>2. pc # "idle" /\ op \in {"command", "write"} /\ id \in Calls
  BY OpsAssumption DEF TypeInv, CallOK, HostStep, Flush, SendFrame, WaitAck, PutData,
     WaitDataAck, WaitComplete, GetByte, CheckSum
<1>3. UNCHANGED <<dev, log, op, id>>
  BY DEF HostStep, Flush, SendFrame, WaitAck, PutData, WaitDataAck, WaitComplete,
     GetByte, CheckSum, devVars
<1>4. \A k : CarriedOut(k)' <=> CarriedOut(k)
  BY <1>3 DEF CarriedOut
<1>5. Len(<<>>) = 0
  BY EmptySeq
<1>6. COMPLETE # ACK /\ COMPLETE # NAK /\ COMPLETE # FUJICOM_TIMEOUT /\ COMPLETE \notin Codes
      /\ ACK # FUJICOM_TIMEOUT
  BY DEF COMPLETE, ACK, NAK, ERROR, FUJICOM_TIMEOUT, Codes
<1>7. ASSUME UNCHANGED last PROVE CompleteMeansDone' /\ AckStaysInside'
  BY <1>3, <1>7 DEF Apart, CompleteMeansDone, AckStaysInside
<1>8. ASSUME NEW b, last'.id = id, last'.reply = b, b # ACK, b = COMPLETE => CarriedOut(id)
      PROVE  CompleteMeansDone' /\ AckStaysInside'
  BY <1>3, <1>8 DEF CompleteMeansDone, AckStaysInside, CarriedOut
<1>9. CASE Flush
  <2>1. PICK n \in 0..Len(toHost) : toHost' = SubSeq(toHost, n + 1, Len(toHost))
    BY <1>9 DEF Flush, port_wait_for_rx_empty
  <2>2. UNCHANGED <<toDev, last>> /\ pc = "flush" /\ pc' = "send"
    BY <1>9 DEF Flush
  <2>3. toHost = <<>>
    BY <2>2 DEF Apart, ApartBytes
  <2>4. toHost' = <<>>
    <3>1. n = 0 /\ Len(toHost) = 0
      BY <1>1, <2>1, <2>3
    <3> QED BY <2>1, <2>3, <3>1
  <2>5. ApartLine'
    BY <1>3, <2>2, <2>3, <2>4 DEF Apart, ApartLine
  <2>6. ApartDevice' /\ ApartBytes'
    BY <1>3, <1>5, <2>2, <2>4 DEF Apart, ApartDevice, ApartBytes
  <2> QED BY <1>7, <2>2, <2>5, <2>6 DEF Apart
<1>10. CASE SendFrame
  <2> DEFINE p == [t |-> "frame", op |-> op, id |-> id, ok |-> TRUE]
  <2>1. p \in Packet /\ p.t = "frame" /\ p.id = id /\ p.op = op
    BY <1>10 DEF SendFrame, TypeInv, CallOK, Packet
  <2>2. toDev' = Append(toDev, p) /\ UNCHANGED <<toHost, last>> /\ pc = "send" /\ pc' = "ack"
    BY <1>10 DEF SendFrame
  <2> HIDE DEF p
  <2>3. toHost = <<>> /\ dev.st # "exec"
    BY <2>2 DEF Apart, ApartDevice, ApartBytes
  <2>4. dev.st # "dead" => Len(toDev') = 1 /\ toDev'[1] = p
    <3>1. dev.st # "dead" => Len(toDev) = 0
      BY <1>1, <2>2 DEF Apart, ApartLine
    <3> QED BY <1>1, <2>1, <2>2, <3>1, AppendType
  <2>5. ApartLine'
    BY <1>3, <2>1, <2>2, <2>3, <2>4 DEF ApartLine
  <2>6. ApartDevice' /\ ApartBytes'
    BY <1>3, <1>5, <2>2, <2>3 DEF Apart, ApartDevice, ApartBytes
  <2> QED BY <1>7, <2>2, <2>5, <2>6 DEF Apart
<1>11. CASE PutData
  <2> DEFINE p == [t |-> "data", op |-> op, id |-> id, ok |-> TRUE]
  <2>1. p \in Packet /\ p.t = "data" /\ p.id = id /\ p.op = op
    BY <1>11 DEF PutData, TypeInv, CallOK, Packet
  <2>2. /\ toDev' = Append(toDev, p) /\ UNCHANGED <<toHost, last>>
        /\ pc = "putdata" /\ pc' = "dataack"
    BY <1>11 DEF PutData
  <2> HIDE DEF p
  <2>3. toHost = <<>> /\ dev.st # "exec" /\ op = "write"
    BY <2>2 DEF Apart, ApartDevice, ApartBytes
  <2>4. dev.st # "dead" => Len(toDev') = 1 /\ toDev'[1] = p
    <3>1. dev.st # "dead" => Len(toDev) = 0
      BY <1>1, <2>2 DEF Apart, ApartLine
    <3> QED BY <1>1, <2>1, <2>2, <3>1, AppendType
  <2>5. ApartLine'
    BY <1>3, <2>1, <2>2, <2>3, <2>4 DEF ApartLine
  <2>6. ApartDevice' /\ ApartBytes'
    BY <1>3, <1>5, <2>2, <2>3 DEF Apart, ApartDevice, ApartBytes
  <2> QED BY <1>7, <2>2, <2>5, <2>6 DEF Apart
\* What a getc finds: the device is not busy unless an 'A' came, a 'C' tells of this
\* call, and what stays behind is an outcome.
<1>12. ASSUME NEW timeout, NEW b \in port_getc_nobuf(timeout), toHost' = Taken(b),
              pc \in {"ack", "dataack", "complete"}, UNCHANGED toDev
       PROVE  /\ dev.st = "exec" => b = ACK /\ pc # "complete" /\ toHost' = <<>>
              /\ dev.st # "dead" => Len(toDev) = 0
              /\ b = COMPLETE => CarriedOut(id)
              /\ ~CarriedOut(id) => \A i \in 1..Len(toHost') : toHost'[i] \in Codes
              /\ b # ACK \/ Len(toHost) <= 1 => toHost' = <<>>
              /\ Len(toHost') <= 1 /\ \A i \in 1..Len(toHost') : toHost'[i] # ACK
              /\ b # FUJICOM_TIMEOUT => toHost # <<>> /\ b = toHost[1]
              /\ pc = "complete" => b # ACK
  <2>1. CASE toHost # <<>>
    <3>1. /\ b = toHost[1] /\ b \in Byte /\ Len(toHost) \in Nat \ {0}
          /\ Len(toHost') = Len(toHost) - 1 /\ toHost' \in Seq(Byte)
          /\ \A i \in 1..Len(toHost') : toHost'[i] = toHost[i + 1]
      BY <1>1, <1>12, <2>1, GetcCases, HeadTailProperties
    <3>2. dev.st # "dead" => Len(toDev) = 0
      BY <1>1, <2>1 DEF Apart, ApartLine
    <3>3. toHost' = <<>> <=> Len(toHost') = 0
      BY <3>1, EmptySeq
    <3>4. 1 \in 1..Len(toHost)
      BY <3>1
    <3>5. b = COMPLETE => CarriedOut(id)
      BY <1>6, <3>1, <3>4 DEF Apart, ApartBytes
    <3>6. ~CarriedOut(id) => \A i \in 1..Len(toHost') : toHost'[i] \in Codes
      BY <3>1 DEF Apart, ApartBytes
    <3>7. b # ACK \/ Len(toHost) <= 1 => toHost' = <<>>
      BY <3>1, <3>3 DEF Apart, ApartBytes
    <3>8. dev.st = "exec" => b = ACK /\ pc # "complete" /\ toHost' = <<>>
      BY <2>1, <3>1, <3>4, <3>7 DEF Apart, ApartDevice
    <3>9. Len(toHost') <= 1 /\ \A i \in 1..Len(toHost') : toHost'[i] # ACK
      <4>1. Len(toHost) <= 2 /\ (Len(toHost) = 2 => toHost[2] # ACK)
        BY DEF Apart, ApartBytes
      <4> QED BY <3>1, <4>1
    <3>10. pc = "complete" => b # ACK
      BY <3>1, <3>4 DEF Apart, ApartBytes
    <3> QED BY <2>1, <3>1, <3>2, <3>5, <3>6, <3>7, <3>8, <3>9, <3>10
  <2>2. CASE toHost = <<>>
    <3>1. b = FUJICOM_TIMEOUT /\ toHost' = <<>> /\ Quiet
      BY <1>12, <2>2, GetcCases
    <3>2. (dev.st # "dead" => toDev = <<>>) /\ dev.st # "exec"
      BY <3>1 DEF Quiet
    <3> QED BY <1>1, <1>5, <1>6, <3>1, <3>2
  <2> QED BY <2>1, <2>2
<1>13. CASE WaitAck
  <2>1. PICK b \in port_getc_nobuf("TIMEOUT") : toHost' = Taken(b) /\ AckNext(b)
    BY <1>13 DEF WaitAck
  <2>2. pc = "ack" /\ UNCHANGED toDev
    BY <1>13 DEF WaitAck
  <2>3. /\ dev.st = "exec" => b = ACK /\ toHost' = <<>>
        /\ dev.st # "dead" => Len(toDev) = 0
        /\ b = COMPLETE => CarriedOut(id)
        /\ ~CarriedOut(id) => \A i \in 1..Len(toHost') : toHost'[i] \in Codes
        /\ b # ACK \/ Len(toHost) <= 1 => toHost' = <<>>
        /\ Len(toHost') <= 1 /\ \A i \in 1..Len(toHost') : toHost'[i] # ACK
        /\ b # FUJICOM_TIMEOUT => toHost # <<>> /\ b = toHost[1]
    BY <1>12, <2>1, <2>2
  <2>4. ApartLine'
    BY <1>3, <2>2, <2>3 DEF ApartLine
  <2>5. CASE op = "command"
    <3>1. pc' = "complete" /\ UNCHANGED last
      BY <2>1, <2>5 DEF AckNext
    <3>2. ApartDevice' /\ ApartBytes'
      BY <1>3, <1>4, <1>5, <2>2, <2>3, <2>5, <3>1 DEF Apart, ApartDevice, ApartBytes
    <3> QED BY <1>7, <2>4, <3>1, <3>2 DEF Apart
  <2>6. CASE op = "write"
    <3>1. toHost' = <<>> /\ dev.st # "exec"
      BY <2>2, <2>3, <2>6 DEF Apart, ApartDevice, ApartBytes
    <3>2. CASE b \in {ACK, NAK}
      <4>1. pc' = "putdata" /\ UNCHANGED last
        BY <2>1, <2>6, <3>2 DEF AckNext
      <4>2. toHost # <<>>
        BY <2>3, <3>2 DEF ACK, NAK, FUJICOM_TIMEOUT
      <4>3. ApartDevice' /\ ApartBytes'
        BY <1>3, <1>5, <2>2, <2>6, <3>1, <4>1, <4>2 DEF Apart, ApartDevice, ApartBytes
      <4> QED BY <1>7, <2>4, <4>1, <4>3 DEF Apart
    <3>3. CASE b \notin {ACK, NAK}
      <4>1. pc' \in {"idle", "flush"}
        BY <2>1, <2>6, <3>3 DEF AckNext, Return
      <4>2. UNCHANGED last \/ (last'.id = id /\ last'.reply = b)
        BY <2>1, <2>6, <3>3 DEF AckNext, Return
      <4>3. ApartDevice' /\ ApartBytes'
        BY <1>3, <1>5, <3>1, <4>1 DEF Apart, ApartDevice, ApartBytes
      <4>4. CompleteMeansDone' /\ AckStaysInside'
        BY <1>7, <1>8, <2>3, <3>3, <4>2
      <4> QED BY <2>4, <4>3, <4>4 DEF Apart
    <3> QED BY <3>2, <3>3
  <2> QED BY <1>2, <2>5, <2>6
<1>14. CASE WaitDataAck
  <2>1. PICK b \in port_getc_nobuf("TIMEOUT_SLOW") :
          /\ toHost' = Taken(b) /\ buf' = buf
          /\ IF b = ACK THEN pc' = "complete" /\ UNCHANGED last ELSE Return(b)
    BY <1>14 DEF WaitDataAck
  <2>2. pc = "dataack" /\ UNCHANGED toDev
    BY <1>14 DEF WaitDataAck
  <2>3. /\ dev.st = "exec" => b = ACK /\ toHost' = <<>>
        /\ dev.st # "dead" => Len(toDev) = 0
        /\ b = COMPLETE => CarriedOut(id)
        /\ ~CarriedOut(id) => \A i \in 1..Len(toHost') : toHost'[i] \in Codes
        /\ b # ACK => toHost' = <<>>
        /\ Len(toHost') <= 1 /\ \A i \in 1..Len(toHost') : toHost'[i] # ACK
    BY <1>12, <2>1, <2>2
  <2>4. ApartLine'
    BY <1>3, <2>2, <2>3 DEF ApartLine
  <2>5. CASE b = ACK
    <3>1. pc' = "complete" /\ UNCHANGED last
      BY <2>1, <2>5
    <3>2. ApartDevice' /\ ApartBytes'
      BY <1>3, <1>4, <1>5, <2>2, <2>3, <3>1 DEF Apart, ApartDevice, ApartBytes
    <3> QED BY <1>7, <2>4, <3>1, <3>2 DEF Apart
  <2>6. CASE b # ACK
    <3>1. pc' = "idle" /\ dev.st # "exec" /\ last'.id = id /\ last'.reply = b /\ toHost' = <<>>
      BY <2>1, <2>3, <2>6 DEF Return
    <3>2. ApartDevice' /\ ApartBytes'
      BY <1>3, <1>5, <3>1 DEF Apart, ApartDevice, ApartBytes
    <3> QED BY <1>8, <2>3, <2>4, <2>6, <3>1, <3>2 DEF Apart
  <2> QED BY <2>5, <2>6
<1>15. CASE WaitComplete
  <2>1. PICK b \in port_getc_nobuf(IF op = "command" THEN "TIMEOUT" ELSE "TIMEOUT_SLOW") :
          toHost' = Taken(b) /\ Return(b)
    BY <1>2, <1>15 DEF WaitComplete
  <2>2. pc = "complete" /\ UNCHANGED toDev
    BY <1>15 DEF WaitComplete
  <2>3. /\ dev.st # "exec"
        /\ dev.st # "dead" => Len(toDev) = 0
        /\ b = COMPLETE => CarriedOut(id)
        /\ b # ACK /\ toHost' = <<>>
    BY <1>12, <2>1, <2>2
  <2>4. ApartLine'
    BY <1>3, <2>2, <2>3 DEF ApartLine
  <2>5. pc' = "idle" /\ last'.id = id /\ last'.reply = b
    BY <2>1 DEF Return
  <2>6. ApartDevice' /\ ApartBytes'
    BY <1>3, <1>5, <2>3, <2>5 DEF Apart, ApartDevice, ApartBytes
  <2> QED BY <1>8, <2>3, <2>4, <2>5, <2>6 DEF Apart
<1>16. CASE GetByte \/ CheckSum
  BY <1>16 DEF GetByte, CheckSum, Apart, ApartBytes
<1> QED BY <1>9, <1>10, <1>11, <1>13, <1>14, <1>15, <1>16 DEF HostStep

LEMMA ApartDeviceStep ==
  ASSUME TypeInv, TypeInv', Apart, DeviceStep, "read" \notin Ops
  PROVE  Apart'
<1>1. /\ toHost \in Seq(Byte) /\ Len(toHost) \in Nat /\ (toHost = <<>> <=> Len(toHost) = 0)
      /\ toDev \in Seq(Packet) /\ Len(toDev) \in Nat /\ (toDev = <<>> <=> Len(toDev) = 0)
  BY EmptySeq, LenProperties DEF TypeInv, TypeOK
<1>2. Len(<<>>) = 0
  BY EmptySeq
<1>3. UNCHANGED <<pc, op, id, last>>
  BY DEF DeviceStep, DevFrame, DevData, DevDone, DevFail, hostVars
<1>4. dev \in [st : {"idle", "want", "exec", "dead"}, op : Ops \cup {"none"},
              id : 0..MaxCalls, data : 0..MaxCalls]
  BY DEF TypeInv, TypeOK
\* What a packet finds, and what becomes of the line when it is taken.
<1>5. ASSUME DevReady, toDev' = Tail(toDev)
      PROVE  /\ toDev[1] = Head(toDev) /\ toDev[1] \in Packet
             /\ toDev[1].id = id /\ toDev[1].op = op
             /\ pc = (IF toDev[1].t = "frame" THEN "ack" ELSE "dataack")
             /\ toHost = <<>> /\ dev.st # "exec"
             /\ Len(toDev') = 0
  <2>1. toDev # <<>> /\ Len(toDev) = 1 /\ 1 \in 1..Len(toDev) /\ dev.st # "dead"
    <3>1. toDev # <<>> /\ dev.st # "dead"
      BY <1>5 DEF DevReady
    <3>2. Len(toDev) <= 1
      BY <3>1 DEF Apart, ApartLine
    <3>3. Len(toDev) \in Nat /\ Len(toDev) # 0
      BY <1>1, <3>1
    <3>4. \A n \in Nat : n <= 1 /\ n # 0 => n = 1
      OBVIOUS
    <3>5. Len(toDev) = 1
      BY <3>2, <3>3, <3>4
    <3> QED BY <3>1, <3>5
  <2>2. toDev[1] = Head(toDev)
    BY <1>1, <2>1
  <2>3. Len(toDev') = 0 /\ toDev[1] \in Packet
    BY <1>1, <1>5, <2>1, HeadTailProperties, ElementOfSeq
  <2> QED BY <2>1, <2>2, <2>3 DEF Apart, ApartLine
<1>6. ASSUME NEW c \in {ACK, NAK, ERROR, COMPLETE}, toHost' = Append(toHost, c)
      PROVE  /\ Len(toHost') = Len(toHost) + 1 /\ toHost'[Len(toHost) + 1] = c
             /\ \A i \in 1..Len(toHost) : toHost'[i] = toHost[i]
             /\ toHost' # <<>>
  <2>1. c \in Byte
    BY DEF ACK, NAK, ERROR, COMPLETE, Byte
  <2>2. /\ Len(toHost') = Len(toHost) + 1 /\ toHost'[Len(toHost) + 1] = c
        /\ \A i \in 1..Len(toHost) : toHost'[i] = toHost[i]
    BY <1>1, <1>6, <2>1, AppendType
  <2> QED BY <1>1, <1>2, <2>2
<1>7. ACK \in Codes /\ NAK \in Codes /\ ERROR \in Codes /\ ACK # ERROR /\ ACK # COMPLETE
  BY DEF Codes, ACK, NAK, ERROR, COMPLETE
<1>8. ASSUME UNCHANGED log
      PROVE  /\ CompleteMeansDone' /\ AckStaysInside'
             /\ \A k : CarriedOut(k)' <=> CarriedOut(k)
  BY <1>3, <1>8 DEF Apart, CompleteMeansDone, AckStaysInside, CarriedOut
<1>9. CASE DevFrame
  <2>1. /\ DevReady /\ toDev' = Tail(toDev) /\ UNCHANGED log /\ Head(toDev).t = "frame"
    BY <1>9 DEF DevFrame
  <2>2. /\ toDev[1] = Head(toDev) /\ toDev[1].id = id /\ toDev[1].op = op
        /\ pc = "ack" /\ toHost = <<>> /\ dev.st # "exec" /\ Len(toDev') = 0
        /\ Len(toHost) = 0
    BY <1>2, <1>5, <2>1
  <2>3. ApartLine'
    BY <2>2 DEF ApartLine
  <2>4. /\ CompleteMeansDone' /\ AckStaysInside'
        /\ \A k : CarriedOut(k)' <=> CarriedOut(k)
    BY <1>8, <2>1
  <2>5. CASE UNCHANGED <<toHost, dev>>
    BY <1>2, <1>3, <2>2, <2>3, <2>4, <2>5 DEF Apart, ApartDevice, ApartBytes
  <2>6. CASE toHost' = Append(toHost, NAK) /\ dev' = Idle
    <3>1. Len(toHost') = 1 /\ toHost'[1] = NAK
      BY <1>6, <2>2, <2>6
    <3>2. ApartDevice'
      BY <2>6 DEF ApartDevice, Idle
    <3>3. ApartBytes'
      BY <1>3, <1>7, <2>2, <3>1 DEF ApartBytes
    <3> QED BY <2>3, <2>4, <3>2, <3>3 DEF Apart
  <2>7. CASE /\ toHost' = Append(toHost, ACK)
             /\ dev' = [st |-> IF toDev[1].op = "write" THEN "want" ELSE "exec",
                        op |-> toDev[1].op, id |-> toDev[1].id, data |-> toDev[1].id]
    <3>1. Len(toHost') = 1 /\ toHost'[1] = ACK
      BY <1>6, <2>2, <2>7
    <3>2. ApartDevice'
      BY <1>3, <2>2, <2>7, <3>1 DEF ApartDevice
    <3>3. ApartBytes'
      BY <1>3, <1>7, <2>2, <3>1 DEF ApartBytes
    <3> QED BY <2>3, <2>4, <3>2, <3>3 DEF Apart
  <2> QED BY <1>9, <2>2, <2>5, <2>6, <2>7 DEF DevFrame, Refuse
<1>10. CASE DevData
  <2>1. /\ DevReady /\ toDev' = Tail(toDev) /\ UNCHANGED log /\ Head(toDev).t = "data"
    BY <1>10 DEF DevData
  <2>2. /\ toDev[1] = Head(toDev) /\ toDev[1].id = id /\ toDev[1].op = op
        /\ pc = "dataack" /\ toHost = <<>> /\ dev.st # "exec" /\ Len(toDev') = 0
        /\ Len(toHost) = 0 /\ op = "write"
    BY <1>2, <1>5, <2>1 DEF Packet, Apart, ApartBytes
  <2>3. ApartLine'
    BY <2>2 DEF ApartLine
  <2>4. /\ CompleteMeansDone' /\ AckStaysInside'
        /\ \A k : CarriedOut(k)' <=> CarriedOut(k)
    BY <1>8, <2>1
  <2>5. CASE UNCHANGED <<toHost, dev>>
    BY <1>2, <1>3, <2>2, <2>3, <2>4, <2>5 DEF Apart, ApartDevice, ApartBytes
  <2>6. CASE toHost' = Append(toHost, NAK) /\ dev' = Idle
    <3>1. Len(toHost') = 1 /\ toHost'[1] = NAK
      BY <1>6, <2>2, <2>6
    <3>2. ApartDevice'
      BY <2>6 DEF ApartDevice, Idle
    <3>3. ApartBytes'
      BY <1>3, <1>7, <2>2, <3>1 DEF ApartBytes
    <3> QED BY <2>3, <2>4, <3>2, <3>3 DEF Apart
  <2>7. CASE /\ toHost' = Append(toHost, ACK) /\ dev.st = "want"
             /\ dev' = [dev EXCEPT !.st = "exec", !.data = Head(toDev).id]
    <3>1. Len(toHost') = 1 /\ toHost'[1] = ACK
      BY <1>6, <2>2, <2>7
    <3>2. dev'.st = "exec" /\ dev'.id = dev.id
      BY <1>4, <2>7
    <3>3. ApartDevice'
      BY <1>3, <2>2, <2>7, <3>1, <3>2 DEF Apart, ApartDevice
    <3>4. ApartBytes'
      BY <1>3, <1>7, <2>2, <3>1 DEF ApartBytes
    <3> QED BY <2>3, <2>4, <3>3, <3>4 DEF Apart
  <2> QED BY <1>10, <2>5, <2>6, <2>7 DEF DevData, Refuse
\* An outcome goes behind the 'A', if that is still there.
<1>11. ASSUME dev.st = "exec", dev' = Idle, UNCHANGED toDev,
              NEW c \in {ERROR, COMPLETE}, toHost' = Append(toHost, c),
              CarriedOut(id) \/ c = ERROR => CarriedOut(id)' \/ c = ERROR,
              CarriedOut(id) => CarriedOut(id)', c = COMPLETE => CarriedOut(id)'
       PROVE  dev.id = id /\ ApartLine' /\ ApartDevice' /\ ApartBytes'
  <2>1. /\ dev.id = id /\ pc \in {"ack", "dataack", "complete"}
        /\ Len(toHost) <= 1 /\ (\A i \in 1..Len(toHost) : toHost[i] = ACK)
        /\ (pc = "ack" => op # "write") /\ (pc = "complete" => toHost = <<>>)
    BY <1>11 DEF Apart, ApartDevice
  <2>2. Len(toDev) = 0
    BY <1>1, <1>11 DEF Apart, ApartLine
  <2>3. ApartLine'
    BY <1>11, <2>2 DEF ApartLine
  <2>4. ApartDevice'
    BY <1>11 DEF ApartDevice, Idle
  <2>5. /\ Len(toHost') = Len(toHost) + 1 /\ toHost'[Len(toHost) + 1] = c
        /\ \A i \in 1..Len(toHost) : toHost'[i] = toHost[i]
    BY <1>6, <1>11
  <2>6. Len(toHost) = 0 \/ Len(toHost) = 1
    <3>1. \A n \in Nat : n <= 1 => n = 0 \/ n = 1
      OBVIOUS
    <3> QED BY <1>1, <2>1, <3>1
  <2>7. c # ACK
    BY <1>7
  <2>8. Len(toHost') <= 2 /\ (Len(toHost') = 2 => toHost'[1] = ACK /\ toHost'[2] # ACK)
    BY <2>1, <2>5, <2>6, <2>7
  <2>9. pc = "complete" => Len(toHost') <= 1 /\ \A i \in 1..Len(toHost') : toHost'[i] # ACK
    BY <1>2, <2>1, <2>5, <2>7
  <2>10. ~CarriedOut(id)' => \A i \in 1..Len(toHost') : toHost'[i] \in Codes
    BY <1>7, <1>11, <2>1, <2>5, <2>6
  <2> QED BY <1>3, <2>1, <2>3, <2>4, <2>8, <2>9, <2>10 DEF Apart, ApartBytes
<1>12. CASE DevDone
  <2> DEFINE e == [op |-> dev.op, id |-> dev.id, data |-> dev.data]
  <2>1. /\ dev.st = "exec" /\ dev' = Idle /\ UNCHANGED toDev /\ log' = Append(log, e)
        /\ toHost' = toHost \o Answer
    BY <1>12 DEF DevDone
  <2>2. e \in [op : Ops, id : Calls, data : Calls] /\ e.id = dev.id /\ dev.op # "read"
    BY <2>1 DEF TypeInv, BusyOK
  <2> HIDE DEF e
  <2>3. log \in Seq([op : Ops, id : Calls, data : Calls])
        /\ log' \in Seq([op : Ops, id : Calls, data : Calls])
    BY DEF TypeInv, TypeOK
  <2>4. /\ Len(log') = Len(log) + 1 /\ log'[Len(log) + 1] = e /\ Len(log) \in Nat
        /\ \A i \in 1..Len(log) : log'[i] = log[i]
        /\ DOMAIN log' = 1..Len(log') /\ DOMAIN log = 1..Len(log)
    BY <2>1, <2>2, <2>3, AppendType, LenProperties
  <2>5. toHost' = Append(toHost, COMPLETE)
    <3>1. Answer = <<COMPLETE>> /\ COMPLETE \in Byte
      BY <2>2 DEF Answer, COMPLETE, Byte
    <3>2. toHost \o <<COMPLETE>> = Append(toHost, COMPLETE)
      BY <1>1, <3>1, AppendIsConcat
    <3> QED BY <2>1, <3>1, <3>2
  <2>6. dev.id = id
    BY <2>1 DEF Apart, ApartDevice
  <2>7. CarriedOut(id)'
    <3>1. Len(log) + 1 \in DOMAIN log' /\ log'[Len(log) + 1].id = id
      BY <2>2, <2>4, <2>6
    <3> QED BY <1>3, <3>1 DEF CarriedOut
  <2>8. \A i \in DOMAIN log : i \in DOMAIN log' /\ log'[i] = log[i]
    BY <2>4
  <2>9. CompleteMeansDone' /\ AckStaysInside'
    BY <1>3, <2>8 DEF Apart, CompleteMeansDone, AckStaysInside
  <2> QED BY <1>11, <2>1, <2>5, <2>7, <2>9 DEF Apart
<1>13. CASE DevFail
  <2>1. /\ dev.st = "exec" /\ dev' = Idle /\ UNCHANGED <<toDev, log>>
        /\ toHost' = Append(toHost, ERROR)
    BY <1>13 DEF DevFail
  <2>2. ERROR # COMPLETE
    BY DEF ERROR, COMPLETE
  <2>3. /\ CompleteMeansDone' /\ AckStaysInside'
        /\ CarriedOut(id)' <=> CarriedOut(id)
    BY <1>3, <1>8, <2>1 DEF CarriedOut
  <2> QED BY <1>11, <2>1, <2>2, <2>3 DEF Apart
<1> QED BY <1>9, <1>10, <1>12, <1>13 DEF DeviceStep

LEMMA ApartFault ==
  ASSUME TypeInv, TypeInv', Apart, FaultStep, "read" \notin Ops,
         Faults \subseteq {"lose_frame", "damage_frame", "lose_byte", "die"}
  PROVE  Apart'
<1>1. /\ toHost \in Seq(Byte) /\ Len(toHost) \in Nat /\ (toHost = <<>> <=> Len(toHost) = 0)
      /\ toDev \in Seq(Packet) /\ Len(toDev) \in Nat /\ (toDev = <<>> <=> Len(toDev) = 0)
      /\ DOMAIN toHost = 1..Len(toHost) /\ DOMAIN toDev = 1..Len(toDev)
  BY EmptySeq, LenProperties DEF TypeInv, TypeOK
<1>2. UNCHANGED <<pc, op, id, last, log>>
  BY DEF FaultStep, LoseToDev, DamageToDev, LoseToHost, DamageToHost, DevDies,
     hostVars, devVars, Fault
<1>3. /\ CompleteMeansDone' /\ AckStaysInside'
      /\ \A k : CarriedOut(k)' <=> CarriedOut(k)
  BY <1>2 DEF Apart, CompleteMeansDone, AckStaysInside, CarriedOut
<1>4. CASE LoseToDev
  <2>1. PICK k \in 1..Len(toDev) : toDev' = RemoveAt(toDev, k)
    BY <1>1, <1>4 DEF LoseToDev
  <2>2. Len(toDev') = Len(toDev) - 1
    BY <1>1, <2>1, RemoveAtType
  <2>3. UNCHANGED <<toHost, dev>>
    BY <1>4 DEF LoseToDev, devVars
  <2>4. ApartLine'
    BY <1>1, <2>2, <2>3 DEF Apart, ApartLine
  <2> QED BY <1>2, <1>3, <2>3, <2>4 DEF Apart, ApartDevice, ApartBytes
<1>5. CASE DamageToDev
  <2>1. PICK k \in 1..Len(toDev) : toDev' = [toDev EXCEPT ![k].ok = FALSE]
    BY <1>1, <1>5 DEF DamageToDev
  <2>2. \A i \in 1..Len(toDev) : toDev[i] \in Packet
    BY <1>1, ElementOfSeq
  <2>3. Len(toDev') = Len(toDev) /\ \A i \in 1..Len(toDev') :
          /\ toDev'[i].t = toDev[i].t /\ toDev'[i].id = toDev[i].id
          /\ toDev'[i].op = toDev[i].op
    BY <1>1, <2>1, <2>2 DEF Packet
  <2>4. UNCHANGED <<toHost, dev>>
    BY <1>5 DEF DamageToDev, devVars
  <2>5. ApartLine'
    BY <1>2, <2>3, <2>4 DEF Apart, ApartLine
  <2> QED BY <1>2, <1>3, <2>4, <2>5 DEF Apart, ApartDevice, ApartBytes
<1>6. CASE LoseToHost
  <2>1. PICK k \in 1..Len(toHost) : toHost' = RemoveAt(toHost, k)
    BY <1>1, <1>6 DEF LoseToHost
  <2>2. /\ Len(toHost') = Len(toHost) - 1 /\ toHost' \in Seq(Byte)
        /\ \A i \in 1..Len(toHost') : toHost'[i] = toHost[IF i < k THEN i ELSE i + 1]
    BY <1>1, <2>1, RemoveAtType
  <2>3. UNCHANGED <<toDev, dev>> /\ toHost # <<>>
    BY <1>1, <1>6 DEF LoseToHost, devVars
  <2>4. \A i \in 1..Len(toHost') : \E j \in 1..Len(toHost) : toHost'[i] = toHost[j]
    <3>1. \A i \in 1..Len(toHost') : (IF i < k THEN i ELSE i + 1) \in 1..Len(toHost)
      BY <1>1, <2>2
    <3> QED BY <2>2, <3>1
  <2>5. toHost' = <<>> <=> Len(toHost') = 0
    BY <2>2, EmptySeq
  <2>6. ApartLine'
    BY <1>2, <2>3 DEF Apart, ApartLine
  <2>7. ApartDevice'
    BY <1>1, <1>2, <2>2, <2>3, <2>4, <2>5 DEF Apart, ApartDevice
  <2>8. Len(toHost') <= 1
    BY <1>1, <2>2 DEF Apart, ApartBytes
  <2>9. ApartBytes'
    BY <1>1, <1>2, <1>3, <2>2, <2>3, <2>4, <2>8 DEF Apart, ApartBytes
  <2> QED BY <1>3, <2>6, <2>7, <2>9 DEF Apart
<1>7. CASE DevDies
  <2>1. PICK n \in 0..Len(Answer) - 1 : toHost' = toHost \o SubSeq(Answer, 1, n)
    BY <1>7 DEF DevDies
  <2>2. dev.st = "exec" /\ dev' = [Idle EXCEPT !.st = "dead"] /\ UNCHANGED toDev
    BY <1>7 DEF DevDies
  <2>3. UNCHANGED toHost
    <3>1. dev.op # "read"
      BY <2>2 DEF TypeInv, BusyOK
    <3>2. Answer = <<COMPLETE>>
      BY <3>1 DEF Answer
    <3>3. n = 0 /\ SubSeq(Answer, 1, 0) = <<>>
      BY <2>1, <3>2
    <3> QED BY <1>1, <2>1, <3>3, NothingMore
  <2>4. dev'.st = "dead"
    BY <2>2 DEF Idle
  <2>5. ApartLine' /\ ApartDevice'
    BY <2>4 DEF ApartLine, ApartDevice
  <2>6. ApartBytes'
    BY <1>2, <1>3, <2>3 DEF Apart, ApartBytes
  <2> QED BY <1>3, <2>5, <2>6 DEF Apart
<1> QED BY <1>4, <1>5, <1>6, <1>7 DEF FaultStep, DamageToHost, Fault

LEMMA ApartStep ==
  ASSUME TypeInv, Apart, [Next]_vars, Late = {}, "read" \notin Ops,
         Faults \subseteq {"lose_frame", "damage_frame", "lose_byte", "die"}
  PROVE  Apart'
<1>1. TypeInv'
  BY TypeStep
<1>2. ASSUME NEW o \in Ops, Call(o) PROVE Apart'
  <2>1. /\ pc = "idle" /\ pc' \in {"flush", "send"}
        /\ UNCHANGED <<toDev, toHost, dev, log, last>>
    BY <1>2 DEF Call, devVars
  <2>2. toHost = <<>> /\ Len(toHost) = 0
    BY <2>1, EmptySeq DEF Apart, ApartBytes
  <2>3. dev.st # "dead" => Len(toDev) = 0
    <3>1. Len(toDev) \in Nat
      BY LenProperties DEF TypeInv, TypeOK
    <3> QED BY <2>1, <3>1 DEF Apart, ApartLine
  <2>4. ApartLine'
    BY <2>1, <2>3 DEF ApartLine
  <2>5. ApartDevice' /\ ApartBytes'
    BY <2>1, <2>2 DEF Apart, ApartDevice, ApartBytes
  <2>6. CompleteMeansDone' /\ AckStaysInside'
    BY <2>1 DEF Apart, CompleteMeansDone, AckStaysInside
  <2> QED BY <2>4, <2>5, <2>6 DEF Apart
<1>3. CASE Finished \/ UNCHANGED vars
  BY <1>3 DEF Finished, vars, Apart, ApartLine, ApartDevice, ApartBytes, CompleteMeansDone,
     AckStaysInside, CarriedOut
<1> QED BY <1>1, <1>2, <1>3, ApartHost, ApartDeviceStep, ApartFault DEF Next

-----------------------------------------------------------------------------
(* The conversation on a line that loses and damages frames only.          *)

Ready == dev.st \in {"idle", "want"}

\* The device is carrying out the running call, or wants its payload.
Working == dev = [st |-> "exec", op |-> op, id |-> id, data |-> id]
Wanting == dev.st = "want" /\ dev.op = "write" /\ dev.id = id

\* The line holds at most one packet, of kind t and of the running call.
Line(t) ==
  /\ Len(toDev) <= 1
  /\ \A i \in 1..Len(toDev) : toDev[i].t = t /\ toDev[i].op = op /\ toDev[i].id = id

\* The whole answer to the running call follows the first n bytes of the line.
Whole(n) ==
  /\ toHost[n + 1] = COMPLETE
  /\ op # "read" => Len(toHost) = n + 1
  /\ op = "read" => /\ Len(toHost) = n + LEN + 2
                    /\ \A i \in 1..LEN : toHost[n + 1 + i] = Payload[id][i]
                    /\ toHost[n + LEN + 2] = Check[id]

\* What follows the first n bytes once a command was acknowledged: nothing so
\* far, an error, or the answer.
Rest(n) ==
  \/ ~CarriedOut(id) /\ Len(toHost) = n /\ (Ready \/ Working)
  \/ ~CarriedOut(id) /\ Len(toHost) = n + 1 /\ toHost[n + 1] = ERROR /\ Ready
  \/ CarriedOut(id) /\ Whole(n) /\ Ready

Refused == ~CarriedOut(id) /\ Len(toHost) = 1 /\ toHost[1] = NAK /\ dev.st = "idle"
Acked == Len(toHost) >= 1 /\ toHost[1] = ACK /\ Rest(1)

Between ==
  pc \in {"idle", "flush", "send"} =>
    /\ Len(toDev) = 0 /\ Len(toHost) = 0 /\ Ready
    /\ pc # "idle" => ~CarriedOut(id)

Asking ==
  pc = "ack" =>
    \/ ~CarriedOut(id) /\ Len(toHost) = 0 /\ Ready /\ Line("frame")
    \/ Len(toDev) = 0 /\ Refused
    \/ /\ Len(toDev) = 0 /\ op = "write" /\ ~CarriedOut(id)
       /\ Len(toHost) = 1 /\ toHost[1] = ACK /\ Wanting
    \/ Len(toDev) = 0 /\ op # "write" /\ Acked

Handing ==
  /\ pc = "putdata" =>
       /\ op = "write" /\ ~CarriedOut(id) /\ Len(toDev) = 0 /\ Len(toHost) = 0
       /\ dev.st = "idle" \/ Wanting
  /\ pc = "dataack" =>
       /\ op = "write"
       /\ \/ /\ ~CarriedOut(id) /\ Len(toHost) = 0 /\ Line("data")
             /\ dev.st = "idle" \/ Wanting
          \/ Len(toDev) = 0 /\ Refused
          \/ Len(toDev) = 0 /\ Acked

Answering == pc = "complete" => Len(toDev) = 0 /\ Rest(0)

\* The buffer holds the beginning of the payload, and the line the rest.
Reading ==
  pc \in {"payload", "cksum"} =>
    /\ op = "read" /\ CarriedOut(id) /\ Ready /\ Len(toDev) = 0
    /\ IF pc = "payload" THEN Len(buf) < LEN ELSE Len(buf) = LEN
    /\ Len(toHost) = LEN - Len(buf) + 1
    /\ \A i \in 1..Len(buf) : buf[i] = Payload[id][i]
    /\ \A i \in 1..LEN - Len(buf) : toHost[i] = Payload[id][Len(buf) + i]
    /\ toHost[LEN - Len(buf) + 1] = Check[id]

\* The buffer is empty until the payload comes, and no call is carried out
\* before it is made.
Bookkeeping ==
  /\ pc \notin {"idle", "payload", "cksum"} => buf = <<>>
  /\ \A i \in DOMAIN log : log[i].id <= id

LastOK == ReadIsOwn /\ CompleteMeansDone /\ AckStaysInside

\* NothingLeftOver and ReadIsOwn are not inductive: that nothing is left over
\* depends on what may be on the line at every point of a call before it returns.
Conversation ==
  Between /\ Asking /\ Handing /\ Answering /\ Reading /\ Bookkeeping /\ LastOK

\* The running call returns, and its reply tells whether it was carried out.
Finishes ==
  /\ pc' = "idle" /\ UNCHANGED <<op, id, log>>
  /\ last'.op = op /\ last'.id = id
  /\ last'.reply = COMPLETE <=> CarriedOut(id)
  /\ last'.reply # ACK
  /\ op = "read" /\ CarriedOut(id) => last'.buf = Payload[id]

LEMMA ConversationInit == Init => Conversation
<1> SUFFICES ASSUME Init PROVE Conversation
  OBVIOUS
<1>1. Len(toDev) = 0 /\ Len(toHost) = 0 /\ DOMAIN log = {}
  BY EmptySeq DEF Init
<1>2. pc = "idle" /\ dev.st = "idle"
  BY DEF Init, Idle
<1>3. Between
  BY <1>1, <1>2 DEF Between, Ready
<1>4. Asking /\ Handing /\ Answering /\ Reading /\ Bookkeeping
  BY <1>1, <1>2 DEF Asking, Handing, Answering, Reading, Bookkeeping
<1>5. LastOK
  BY DEF Init, LastOK, ReadIsOwn, CompleteMeansDone, AckStaysInside, COMPLETE, ACK
<1> QED BY <1>3, <1>4, <1>5 DEF Conversation

\* What is known of the call that returned last stays true, and becomes true of
\* the running call when it finishes.
LEMMA LastStays ==
  ASSUME LastOK, UNCHANGED last \/ Finishes,
         \A i \in DOMAIN log : i \in DOMAIN log' /\ log'[i] = log[i]
  PROVE  LastOK'
<1>1. CASE UNCHANGED last
  BY <1>1 DEF LastOK, ReadIsOwn, CompleteMeansDone, AckStaysInside
<1>2. CASE Finishes
  BY <1>2 DEF Finishes, LastOK, ReadIsOwn, CompleteMeansDone, AckStaysInside, CarriedOut
<1> QED BY <1>1, <1>2

\* Taking the first byte off what Acked describes leaves what Rest describes.
LEMMA RestShifts ==
  ASSUME TypeInv, Acked, UNCHANGED <<op, id, log, dev>>,
         Len(toHost') = Len(toHost) - 1,
         \A i \in 1..Len(toHost') : toHost'[i] = toHost[i + 1]
  PROVE  Rest(0)'
<1>1. Len(toHost) \in Nat /\ LEN \in Nat
  BY LenProperties, LenAssumption DEF TypeInv, TypeOK
<1>2. CarriedOut(id)' <=> CarriedOut(id)
  BY DEF CarriedOut
<1>3. (Ready' <=> Ready) /\ (Working' <=> Working)
  BY DEF Ready, Working
<1>4. CASE ~CarriedOut(id) /\ Len(toHost) = 1 /\ (Ready \/ Working)
  BY <1>2, <1>3, <1>4 DEF Rest
<1>5. CASE ~CarriedOut(id) /\ Len(toHost) = 2 /\ toHost[2] = ERROR /\ Ready
  <2>1. Len(toHost') = 1 /\ toHost'[1] = ERROR
    BY <1>5
  <2> QED BY <1>2, <1>3, <1>5, <2>1 DEF Rest
<1>6. CASE CarriedOut(id) /\ Whole(1) /\ Ready
  <2>1. CASE op # "read"
    <3>1. Len(toHost) = 2 /\ toHost[2] = COMPLETE
      <4>1. Len(toHost) = 1 + 1 /\ toHost[1 + 1] = COMPLETE
        BY <1>6, <2>1 DEF Whole
      <4>2. 1 + 1 = 2
        OBVIOUS
      <4> QED BY <4>1, <4>2
    <3>2. Len(toHost') = 1 /\ toHost'[1] = COMPLETE
      BY <3>1
    <3>3. Whole(0)'
      <4>1. 0 + 1 = 1
        OBVIOUS
      <4> QED BY <2>1, <3>2, <4>1 DEF Whole
    <3> QED BY <1>2, <1>3, <1>6, <3>3 DEF Rest
  <2>2. CASE op = "read"
    <3>1. Len(toHost) = LEN + 3 /\ Len(toHost') = LEN + 2
      BY <1>1, <1>6, <2>2 DEF Whole
    <3>2. toHost'[1] = COMPLETE /\ toHost'[LEN + 2] = Check[id]
      BY <1>1, <1>6, <2>2, <3>1 DEF Whole
    <3>3. ASSUME NEW i \in 1..LEN PROVE toHost'[1 + i] = Payload[id][i]
      <4>1. 1 + i \in 1..Len(toHost') /\ (1 + i) + 1 = 1 + 1 + i
        BY <1>1, <3>1
      <4> QED BY <1>6, <2>2, <4>1 DEF Whole
    <3>4. Whole(0)'
      BY <1>1, <2>2, <3>1, <3>2, <3>3 DEF Whole
    <3> QED BY <1>2, <1>3, <1>6, <3>4 DEF Rest
  <2> QED BY <2>1, <2>2
<1> QED BY <1>1, <1>4, <1>5, <1>6 DEF Acked, Rest

LEMMA ConversationHost ==
  ASSUME TypeInv, Conversation, HostStep, Late = {}
  PROVE  /\ Conversation'
         /\ Finishes \/ (UNCHANGED <<op, id, log, last>> /\ pc' # "idle")
<1>1. /\ toHost \in Seq(Byte) /\ Len(toHost) \in Nat /\ (toHost = <<>> <=> Len(toHost) = 0)
      /\ toDev \in Seq(Packet) /\ Len(toDev) \in Nat /\ (toDev = <<>> <=> Len(toDev) = 0)
      /\ buf \in Seq(Byte) /\ Len(buf) \in Nat
      /\ LEN \in Nat \ {0}
  BY EmptySeq, LenProperties, LenAssumption DEF TypeInv, TypeOK
<1>2. pc # "idle" /\ id \in Calls
  BY DEF TypeInv, CallOK, HostStep, Flush, SendFrame, WaitAck, PutData, WaitDataAck,
     WaitComplete, GetByte, CheckSum
<1>3. UNCHANGED <<dev, log, op, id>>
  BY DEF HostStep, Flush, SendFrame, WaitAck, PutData, WaitDataAck, WaitComplete,
     GetByte, CheckSum, devVars
<1>4. CarriedOut(id)' <=> CarriedOut(id)
  BY <1>3 DEF CarriedOut
<1>5. (Ready' <=> Ready) /\ (Wanting' <=> Wanting) /\ (Working' <=> Working)
  BY <1>3 DEF Ready, Wanting, Working
<1>6. \A i \in DOMAIN log : log[i].id <= id
  BY DEF Conversation, Bookkeeping
<1>7. ASSUME UNCHANGED last \/ Finishes PROVE LastOK'
  BY <1>3, <1>7, LastStays DEF Conversation
<1>8. Len(<<>>) = 0
  BY EmptySeq
<1>9. ACK # NAK /\ ACK # ERROR /\ ACK # COMPLETE /\ NAK # ERROR /\ NAK # COMPLETE
      /\ ERROR # COMPLETE /\ FUJICOM_TIMEOUT \notin {ACK, NAK, ERROR, COMPLETE}
  BY DEF ACK, NAK, ERROR, COMPLETE, FUJICOM_TIMEOUT
<1>10. CASE Flush
  <2>1. PICK n \in 0..Len(toHost) : toHost' = SubSeq(toHost, n + 1, Len(toHost))
    BY <1>10 DEF Flush, port_wait_for_rx_empty
  <2>2. toHost' = <<>>
    <3>1. Len(toHost) = 0 /\ n = 0 /\ toHost = <<>>
      BY <1>1, <1>10, <2>1 DEF Flush, Conversation, Between
    <3> QED BY <2>1, <3>1
  <2>3. UNCHANGED <<toDev, last, buf>> /\ pc = "flush" /\ pc' = "send"
    BY <1>10 DEF Flush
  <2>4. Between' /\ Asking' /\ Handing' /\ Answering' /\ Reading'
    BY <1>4, <1>5, <1>8, <2>2, <2>3
    DEF Conversation, Between, Asking, Handing, Answering, Reading
  <2>5. Bookkeeping'
    BY <1>3, <1>6, <2>3 DEF Conversation, Bookkeeping
  <2> QED BY <1>3, <1>7, <2>3, <2>4, <2>5 DEF Conversation
<1>11. CASE SendFrame
  <2> DEFINE p == [t |-> "frame", op |-> op, id |-> id, ok |-> TRUE]
  <2>1. p \in Packet /\ p.t = "frame" /\ p.id = id /\ p.op = op
    BY <1>11 DEF SendFrame, TypeInv, CallOK, Packet
  <2>2. /\ toDev' = Append(toDev, p) /\ UNCHANGED <<toHost, last, buf>>
        /\ pc = "send" /\ pc' = "ack"
    BY <1>11 DEF SendFrame
  <2> HIDE DEF p
  <2>3. Len(toDev) = 0 /\ Len(toHost) = 0 /\ Ready /\ ~CarriedOut(id)
    BY <2>2 DEF Conversation, Between
  <2>4. Len(toDev') = 1 /\ toDev'[1] = p
    BY <1>1, <2>1, <2>2, <2>3, AppendType
  <2>5. Line("frame")'
    BY <1>3, <2>1, <2>4 DEF Line
  <2>6. Between' /\ Asking' /\ Handing' /\ Answering' /\ Reading'
    BY <1>4, <1>5, <2>2, <2>3, <2>5 DEF Between, Asking, Handing, Answering, Reading
  <2>7. Bookkeeping'
    BY <1>3, <1>6, <2>2 DEF Conversation, Bookkeeping
  <2> QED BY <1>3, <1>7, <2>2, <2>6, <2>7 DEF Conversation
<1>12. CASE PutData
  <2> DEFINE p == [t |-> "data", op |-> op, id |-> id, ok |-> TRUE]
  <2>1. p \in Packet /\ p.t = "data" /\ p.id = id /\ p.op = op
    BY <1>12 DEF PutData, TypeInv, CallOK, Packet
  <2>2. /\ toDev' = Append(toDev, p) /\ UNCHANGED <<toHost, last, buf>>
        /\ pc = "putdata" /\ pc' = "dataack"
    BY <1>12 DEF PutData
  <2> HIDE DEF p
  <2>3. /\ Len(toDev) = 0 /\ Len(toHost) = 0 /\ ~CarriedOut(id) /\ op = "write"
        /\ dev.st = "idle" \/ Wanting
    BY <2>2 DEF Conversation, Handing
  <2>4. Len(toDev') = 1 /\ toDev'[1] = p
    BY <1>1, <2>1, <2>2, <2>3, AppendType
  <2>5. Line("data")'
    BY <1>3, <2>1, <2>4 DEF Line
  <2>6. Between' /\ Asking' /\ Handing' /\ Answering' /\ Reading'
    BY <1>3, <1>4, <1>5, <2>2, <2>3, <2>5 DEF Between, Asking, Handing, Answering, Reading
  <2>7. Bookkeeping'
    BY <1>3, <1>6, <2>2 DEF Conversation, Bookkeeping
  <2> QED BY <1>3, <1>7, <2>2, <2>6, <2>7 DEF Conversation
\* What a getc gives, and what it leaves.
<1>13. ASSUME NEW timeout, NEW b \in port_getc_nobuf(timeout), toHost' = Taken(b)
       PROVE  \/ /\ Len(toHost) >= 1 /\ b = toHost[1]
                 /\ Len(toHost') = Len(toHost) - 1
                 /\ \A i \in 1..Len(toHost') : toHost'[i] = toHost[i + 1]
              \/ /\ Len(toHost) = 0 /\ b = FUJICOM_TIMEOUT /\ Len(toHost') = 0
                 /\ dev.st = "dead" \/ (Len(toDev) = 0 /\ dev.st # "exec")
  <2>1. CASE toHost # <<>>
    BY <1>13, <2>1, GetcCases
  <2>2. CASE toHost = <<>>
    BY <1>1, <1>8, <1>13, <2>2, GetcCases DEF Quiet
  <2> QED BY <2>1, <2>2
<1>14. CASE WaitAck
  <2>1. PICK b \in port_getc_nobuf("TIMEOUT") : toHost' = Taken(b) /\ AckNext(b)
    BY <1>14 DEF WaitAck
  <2>2. pc = "ack" /\ UNCHANGED <<toDev, buf>> /\ buf = <<>>
    BY <1>14 DEF WaitAck, Conversation, Bookkeeping
  <2>3. \/ /\ Len(toHost) >= 1 /\ b = toHost[1]
           /\ Len(toHost') = Len(toHost) - 1
           /\ \A i \in 1..Len(toHost') : toHost'[i] = toHost[i + 1]
        \/ /\ Len(toHost) = 0 /\ b = FUJICOM_TIMEOUT /\ Len(toHost') = 0
           /\ dev.st = "dead" \/ (Len(toDev) = 0 /\ dev.st # "exec")
    BY <1>13, <2>1
  <2>4. Bookkeeping'
    BY <1>3, <1>6, <2>2 DEF Bookkeeping
  <2>5. CASE Len(toHost) = 0
    <3>1. /\ b = FUJICOM_TIMEOUT /\ Len(toHost') = 0 /\ ~CarriedOut(id) /\ Ready
          /\ Len(toDev) = 0
      BY <2>2, <2>3, <2>5 DEF Conversation, Asking, Refused, Acked, Ready
    <3>2. CASE op = "command"
      <4>1. pc' = "complete" /\ UNCHANGED last
        BY <1>9, <2>1, <3>1, <3>2 DEF AckNext
      <4>2. Rest(0)'
        BY <1>4, <1>5, <3>1 DEF Rest
      <4>3. Between' /\ Asking' /\ Handing' /\ Answering' /\ Reading'
        BY <2>2, <3>1, <4>1, <4>2 DEF Between, Asking, Handing, Answering, Reading
      <4> QED BY <1>3, <1>7, <2>4, <4>1, <4>3 DEF Conversation
    <3>3. CASE op # "command"
      <4>1. \/ pc' = "flush" /\ UNCHANGED last
            \/ pc' = "idle" /\ last' = [op |-> op, id |-> id, reply |-> b, buf |-> buf']
        BY <1>9, <2>1, <3>1, <3>3 DEF AckNext, Return
      <4>2. Between' /\ Asking' /\ Handing' /\ Answering' /\ Reading'
        BY <1>4, <1>5, <2>2, <3>1, <4>1 DEF Between, Asking, Handing, Answering, Reading
      <4>3. pc' = "idle" => Finishes
        BY <1>3, <1>9, <3>1, <4>1 DEF Finishes
      <4> QED BY <1>3, <1>7, <2>4, <4>1, <4>2, <4>3 DEF Conversation
    <3> QED BY <3>2, <3>3
  <2>6. CASE Len(toHost) # 0
    <3>1. /\ b = toHost[1] /\ Len(toHost') = Len(toHost) - 1 /\ Len(toDev) = 0
          /\ \A i \in 1..Len(toHost') : toHost'[i] = toHost[i + 1]
          /\ b \in {ACK, NAK}
      BY <1>1, <2>2, <2>3, <2>6 DEF Conversation, Asking, Refused, Acked
    <3>2. UNCHANGED last
          /\ pc' = (IF op \in {"read", "command"} THEN "complete" ELSE "putdata")
      BY <2>1, <3>1 DEF AckNext
    <3>3. CASE op = "write"
      <4>1. ~CarriedOut(id) /\ Len(toHost) = 1 /\ (dev.st = "idle" \/ Wanting)
        BY <2>2, <2>6, <3>3 DEF Conversation, Asking, Refused
      <4>2. Len(toHost') = 0 /\ pc' = "putdata"
        BY <3>1, <3>2, <3>3, <4>1
      <4>3. Between' /\ Asking' /\ Handing' /\ Answering' /\ Reading'
        BY <1>3, <1>4, <1>5, <2>2, <3>1, <3>3, <4>1, <4>2
        DEF Between, Asking, Handing, Answering, Reading
      <4> QED BY <1>3, <1>7, <2>4, <3>2, <4>2, <4>3 DEF Conversation
    <3>4. CASE op # "write"
      <4>1. Rest(0)'
        <5>1. CASE Acked
          BY <1>3, <3>1, <5>1, RestShifts
        <5>2. CASE Refused
          BY <1>4, <1>5, <3>1, <5>2 DEF Refused, Rest, Ready
        <5> QED BY <2>2, <2>6, <3>4, <5>1, <5>2 DEF Conversation, Asking
      <4>2. pc' = "complete"
        <5>1. op \in {"command", "read", "write"}
          BY <1>2, OpsAssumption DEF TypeInv, CallOK
        <5> QED BY <3>2, <3>4, <5>1
      <4>3. Between' /\ Asking' /\ Handing' /\ Answering' /\ Reading'
        BY <2>2, <3>1, <4>1, <4>2 DEF Between, Asking, Handing, Answering, Reading
      <4> QED BY <1>3, <1>7, <2>4, <3>2, <4>2, <4>3 DEF Conversation
    <3> QED BY <3>3, <3>4
  <2> QED BY <2>5, <2>6
<1>15. CASE WaitDataAck
  <2>1. PICK b \in port_getc_nobuf("TIMEOUT_SLOW") :
          /\ toHost' = Taken(b) /\ buf' = buf
          /\ IF b = ACK THEN pc' = "complete" /\ UNCHANGED last ELSE Return(b)
    BY <1>15 DEF WaitDataAck
  <2>2. pc = "dataack" /\ UNCHANGED toDev /\ buf = <<>> /\ op = "write"
    BY <1>15 DEF WaitDataAck, Conversation, Bookkeeping, Handing
  <2>3. \/ /\ Len(toHost) >= 1 /\ b = toHost[1]
           /\ Len(toHost') = Len(toHost) - 1
           /\ \A i \in 1..Len(toHost') : toHost'[i] = toHost[i + 1]
        \/ /\ Len(toHost) = 0 /\ b = FUJICOM_TIMEOUT /\ Len(toHost') = 0
           /\ dev.st = "dead" \/ (Len(toDev) = 0 /\ dev.st # "exec")
    BY <1>13, <2>1
  <2>4. Bookkeeping'
    BY <1>3, <1>6, <2>1, <2>2 DEF Bookkeeping
  <2>5. CASE Acked
    <3>1. /\ b = ACK /\ Len(toHost') = Len(toHost) - 1
          /\ \A i \in 1..Len(toHost') : toHost'[i] = toHost[i + 1]
      BY <1>1, <2>3, <2>5 DEF Acked
    <3>2. Len(toDev) = 0
      BY <1>1, <1>9, <2>2, <2>5 DEF Conversation, Handing, Acked, Refused
    <3>3. Rest(0)'
      BY <1>3, <2>5, <3>1, RestShifts
    <3>4. pc' = "complete" /\ UNCHANGED last
      BY <2>1, <3>1
    <3>5. Between' /\ Asking' /\ Handing' /\ Answering' /\ Reading'
      BY <2>2, <3>2, <3>3, <3>4 DEF Between, Asking, Handing, Answering, Reading
    <3> QED BY <1>3, <1>7, <2>4, <3>4, <3>5 DEF Conversation
  <2>6. CASE ~Acked
    <3>1. /\ b \in {NAK, FUJICOM_TIMEOUT} /\ ~CarriedOut(id) /\ Ready
          /\ Len(toDev) = 0 /\ Len(toHost') = 0
      BY <1>1, <2>2, <2>3, <2>6 DEF Conversation, Handing, Refused, Ready, Wanting
    <3>2. pc' = "idle" /\ last' = [op |-> op, id |-> id, reply |-> b, buf |-> buf']
      BY <1>9, <2>1, <3>1 DEF Return
    <3>3. Between' /\ Asking' /\ Handing' /\ Answering' /\ Reading'
      BY <1>5, <2>2, <3>1, <3>2 DEF Between, Asking, Handing, Answering, Reading
    <3>4. Finishes
      BY <1>3, <1>9, <3>1, <3>2 DEF Finishes
    <3> QED BY <1>7, <2>4, <3>3, <3>4 DEF Conversation
  <2> QED BY <2>5, <2>6
<1>16. CASE WaitComplete
  <2>1. PICK b \in port_getc_nobuf(IF op = "command" THEN "TIMEOUT" ELSE "TIMEOUT_SLOW") :
          /\ toHost' = Taken(b) /\ buf' = buf
          /\ IF op = "read" /\ b = COMPLETE
             THEN pc' = "payload" /\ UNCHANGED last ELSE Return(b)
    BY <1>16 DEF WaitComplete
  <2>2. pc = "complete" /\ UNCHANGED toDev /\ buf = <<>> /\ Len(toDev) = 0 /\ Rest(0)
    BY <1>16 DEF WaitComplete, Conversation, Bookkeeping, Answering
  <2>3. \/ /\ Len(toHost) >= 1 /\ b = toHost[1]
           /\ Len(toHost') = Len(toHost) - 1
           /\ \A i \in 1..Len(toHost') : toHost'[i] = toHost[i + 1]
        \/ /\ Len(toHost) = 0 /\ b = FUJICOM_TIMEOUT /\ Len(toHost') = 0
           /\ dev.st = "dead" \/ (Len(toDev) = 0 /\ dev.st # "exec")
    BY <1>13, <2>1
  <2>4. \A i \in DOMAIN log' : log'[i].id <= id'
    BY <1>3, <1>6
  <2>5. CASE CarriedOut(id) /\ Whole(0) /\ Ready
    <3>1. Len(toHost) >= 1 /\ toHost[1] = COMPLETE
      BY <1>1, <2>5 DEF Whole
    <3>2. /\ b = COMPLETE /\ Len(toHost') = Len(toHost) - 1
          /\ \A i \in 1..Len(toHost') : toHost'[i] = toHost[i + 1]
      BY <1>1, <2>3, <3>1
    <3>3. CASE op = "read"
      <4>1. pc' = "payload" /\ UNCHANGED last
        BY <2>1, <3>2, <3>3
      <4>2. Len(toHost) = LEN + 2 /\ Len(toHost') = LEN + 1
        BY <1>1, <2>5, <3>2, <3>3 DEF Whole
      <4>3. toHost'[LEN + 1] = Check[id]
        BY <1>1, <2>5, <3>2, <3>3, <4>2 DEF Whole
      <4>4. ASSUME NEW i \in 1..LEN PROVE toHost'[i] = Payload[id][i]
        <5>1. i \in 1..Len(toHost') /\ 0 + 1 + i = i + 1
          BY <1>1, <4>2
        <5> QED BY <2>5, <3>2, <3>3, <5>1 DEF Whole
      <4>5. Len(buf') = 0
        BY <1>8, <2>1, <2>2
      <4>6. Reading'
        BY <1>1, <1>3, <1>4, <1>5, <2>2, <2>5, <3>3, <4>1, <4>2, <4>3, <4>4, <4>5
        DEF Reading
      <4>7. Between' /\ Asking' /\ Handing' /\ Answering' /\ Bookkeeping'
        BY <2>4, <4>1 DEF Between, Asking, Handing, Answering, Bookkeeping
      <4> QED BY <1>3, <1>7, <4>1, <4>6, <4>7 DEF Conversation
    <3>4. CASE op # "read"
      <4>1. pc' = "idle" /\ last' = [op |-> op, id |-> id, reply |-> b, buf |-> buf']
        BY <2>1, <3>4 DEF Return
      <4>2. Len(toHost') = 0
        BY <2>5, <3>2, <3>4 DEF Whole
      <4>3. Finishes
        BY <1>3, <1>9, <2>5, <3>2, <3>4, <4>1 DEF Finishes
      <4>4. Between' /\ Asking' /\ Handing' /\ Answering' /\ Reading' /\ Bookkeeping'
        BY <1>5, <2>2, <2>4, <2>5, <4>1, <4>2
        DEF Between, Asking, Handing, Answering, Reading, Bookkeeping
      <4> QED BY <1>7, <4>3, <4>4 DEF Conversation
    <3> QED BY <3>3, <3>4
  <2>6. CASE ~(CarriedOut(id) /\ Whole(0) /\ Ready)
    <3>1. /\ b \in {ERROR, FUJICOM_TIMEOUT} /\ ~CarriedOut(id) /\ Ready
          /\ Len(toHost') = 0
      BY <1>1, <2>2, <2>3, <2>6 DEF Rest, Working, Ready
    <3>2. pc' = "idle" /\ last' = [op |-> op, id |-> id, reply |-> b, buf |-> buf']
      BY <1>9, <2>1, <3>1 DEF Return
    <3>3. Finishes
      BY <1>3, <1>9, <3>1, <3>2 DEF Finishes
    <3>4. Between' /\ Asking' /\ Handing' /\ Answering' /\ Reading' /\ Bookkeeping'
      BY <1>5, <2>2, <2>4, <3>1, <3>2
      DEF Between, Asking, Handing, Answering, Reading, Bookkeeping
    <3> QED BY <1>7, <3>3, <3>4 DEF Conversation
  <2> QED BY <2>5, <2>6
<1>17. CASE GetByte
  <2>1. /\ pc = "payload" /\ buf' = Append(buf, Head(toHost)) /\ toHost' = Tail(toHost)
        /\ pc' = (IF Len(buf') = LEN THEN "cksum" ELSE "payload")
        /\ UNCHANGED <<toDev, last>> /\ toHost # <<>>
    BY <1>17 DEF GetByte
  <2> DEFINE m == Len(buf)
             n == LEN - m
  <2>2. /\ m \in Nat /\ m < LEN /\ Len(toHost) = n + 1
        /\ op = "read" /\ CarriedOut(id) /\ Ready /\ Len(toDev) = 0
        /\ \A i \in 1..m : buf[i] = Payload[id][i]
        /\ \A i \in 1..n : toHost[i] = Payload[id][m + i]
        /\ toHost[n + 1] = Check[id]
    BY <1>1, <2>1 DEF Conversation, Reading
  <2>3. /\ Head(toHost) = toHost[1] /\ Head(toHost) \in Byte
        /\ Len(toHost') = Len(toHost) - 1
        /\ \A i \in 1..Len(toHost') : toHost'[i] = toHost[i + 1]
    <3>1. Head(toHost) = toHost[1]
      BY <1>1, <2>1
    <3> QED BY <1>1, <2>1, <3>1, HeadTailProperties
  <2>4. /\ Len(buf') = m + 1 /\ buf'[m + 1] = toHost[1]
        /\ \A i \in 1..m : buf'[i] = buf[i]
    BY <1>1, <2>1, <2>3, AppendType
  <2> HIDE DEF m
  <2>5. n \in Nat /\ n >= 1 /\ LEN - (m + 1) = n - 1 /\ Len(toHost') = n
    BY <1>1, <2>2, <2>3
  <2>6. \A i \in 1..m + 1 : buf'[i] = Payload[id][i]
    <3>1. toHost[1] = Payload[id][m + 1]
      BY <2>2, <2>5
    <3>2. \A i \in 1..m + 1 : i \in 1..m \/ i = m + 1
      BY <2>2
    <3> QED BY <2>2, <2>4, <3>1, <3>2
  <2>7. ASSUME NEW i \in 1..n - 1 PROVE toHost'[i] = Payload[id][m + 1 + i]
    <3>1. i \in 1..Len(toHost') /\ i + 1 \in 1..n /\ m + 1 + i = m + (i + 1)
      BY <2>2, <2>5
    <3> QED BY <2>2, <2>3, <3>1
  <2>8. toHost'[n] = Check[id]
    <3>1. n \in 1..Len(toHost')
      BY <2>5
    <3> QED BY <2>2, <2>3, <3>1
  <2>9. pc' \in {"payload", "cksum"} /\ (pc' = "payload" => m + 1 < LEN)
        /\ (pc' # "payload" => m + 1 = LEN)
    BY <1>1, <2>1, <2>2, <2>4
  <2>10. Reading'
    <3>1. /\ LEN - Len(buf') = n - 1 /\ Len(toHost') = LEN - Len(buf') + 1
          /\ LEN - Len(buf') + 1 = n
      BY <2>4, <2>5
    <3>2. IF pc' = "payload" THEN Len(buf') < LEN ELSE Len(buf') = LEN
      BY <2>4, <2>9
    <3>3. /\ op' = "read" /\ CarriedOut(id)' /\ Ready' /\ Len(toDev') = 0 /\ id' = id
      BY <1>3, <1>4, <1>5, <2>1, <2>2
    <3>4. /\ \A i \in 1..Len(buf') : buf'[i] = Payload[id'][i]
          /\ \A i \in 1..LEN - Len(buf') : toHost'[i] = Payload[id'][Len(buf') + i]
          /\ toHost'[LEN - Len(buf') + 1] = Check[id']
      BY <2>4, <2>6, <2>7, <2>8, <3>1, <3>3
    <3> HIDE DEF n
    <3> QED BY <3>1, <3>2, <3>3, <3>4 DEF Reading
  <2>11. Between' /\ Asking' /\ Handing' /\ Answering'
    BY <2>9 DEF Between, Asking, Handing, Answering
  <2>12. Bookkeeping'
    BY <1>3, <1>6, <2>9 DEF Bookkeeping
  <2> QED BY <1>3, <1>7, <2>1, <2>9, <2>10, <2>11, <2>12 DEF Conversation
<1>18. CASE CheckSum
  <2>1. PICK b \in port_getc_nobuf("TIMEOUT_SLOW") :
          /\ toHost' = Taken(b) /\ buf' = buf
          /\ Return(IF b % 256 = fujicom_cksum(buf) THEN COMPLETE ELSE ERROR)
    BY <1>18 DEF CheckSum
  <2>2. pc = "cksum" /\ UNCHANGED toDev
    BY <1>18 DEF CheckSum
  <2>3. /\ op = "read" /\ CarriedOut(id) /\ Ready /\ Len(toDev) = 0
        /\ Len(buf) = LEN /\ Len(toHost) = LEN - Len(buf) + 1
        /\ \A i \in 1..Len(buf) : buf[i] = Payload[id][i]
        /\ toHost[LEN - Len(buf) + 1] = Check[id]
    BY <2>2 DEF Conversation, Reading
  <2>4. Len(toHost) = 1 /\ toHost[1] = Check[id]
    <3>1. LEN - LEN + 1 = 1
      BY <1>1
    <3> QED BY <2>3, <3>1
  <2>5. /\ Payload[id] \in Seq(Byte) /\ Len(Payload[id]) = LEN
        /\ Check[id] \in Byte /\ Check[id] = fujicom_cksum(Payload[id])
    BY <1>2, PayloadAssumption, PayloadLenAssumption, CheckAssumption
  <2>6. buf = Payload[id]
    BY <1>1, <2>3, <2>5, SeqEqual
  <2>7. b = Check[id] /\ Len(toHost') = 0
    BY <1>13, <2>1, <2>4
  <2>8. b % 256 = b
    <3>1. b \in 0..255
      BY <2>5, <2>7 DEF Byte
    <3> QED BY <3>1
  <2>9. pc' = "idle" /\ last' = [op |-> op, id |-> id, reply |-> COMPLETE, buf |-> buf']
    BY <2>1, <2>5, <2>6, <2>7, <2>8 DEF Return
  <2>10. Finishes
    BY <1>3, <1>9, <2>1, <2>3, <2>6, <2>9 DEF Finishes
  <2>11. Between' /\ Asking' /\ Handing' /\ Answering' /\ Reading' /\ Bookkeeping'
    BY <1>3, <1>5, <1>6, <2>2, <2>3, <2>7, <2>9
    DEF Between, Asking, Handing, Answering, Reading, Bookkeeping
  <2> QED BY <1>7, <2>10, <2>11 DEF Conversation
<1> QED BY <1>10, <1>11, <1>12, <1>14, <1>15, <1>16, <1>17, <1>18 DEF HostStep

\* The answer to the running call, appended to a line of n bytes.
LEMMA AnswerWhole ==
  ASSUME TypeInv, NEW n \in Nat, Len(toHost) = n, dev.st = "exec", dev.op = op,
         dev.id = id, UNCHANGED <<op, id>>, toHost' = toHost \o Answer
  PROVE  Whole(n)' /\ (n = 1 => Len(toHost') >= 1 /\ toHost'[1] = toHost[1])
<1>1. toHost \in Seq(Byte) /\ LEN \in Nat /\ id \in Calls
  BY LenAssumption DEF TypeInv, TypeOK, BusyOK
<1>2. Answer \in Seq(Byte) /\ Len(Answer) \in Nat
  BY <1>1, AnswerType, LenProperties DEF TypeInv
<1>3. /\ Len(toHost') = n + Len(Answer)
      /\ \A i \in 1..n + Len(Answer) :
           toHost'[i] = IF i <= n THEN toHost[i] ELSE Answer[i - n]
  BY <1>1, <1>2, ConcatProperties
<1>4. ASSUME NEW i \in 1..Len(Answer) PROVE toHost'[n + i] = Answer[i]
  <2>1. n + i \in 1..n + Len(Answer) /\ ~(n + i <= n) /\ (n + i) - n = i
    BY <1>2
  <2> QED BY <1>3, <2>1
<1>5. CASE op # "read"
  <2>1. Answer = <<COMPLETE>>
    BY <1>5 DEF Answer
  <2>2. Len(Answer) = 1 /\ Answer[1] = COMPLETE
    BY <2>1
  <2>3. Whole(n)'
    BY <1>3, <1>4, <1>5, <2>2 DEF Whole
  <2> QED BY <1>3, <2>2, <2>3
<1>6. CASE op = "read"
  <2> DEFINE a == Append(Payload[id], Check[id])
  <2>1. /\ Payload[id] \in Seq(Byte) /\ Len(Payload[id]) = LEN /\ Check[id] \in Byte
    BY <1>1, PayloadAssumption, PayloadLenAssumption, CheckAssumption
  <2>2. /\ a \in Seq(Byte) /\ Len(a) = LEN + 1 /\ a[LEN + 1] = Check[id]
        /\ \A i \in 1..LEN : a[i] = Payload[id][i]
    BY <2>1, AppendType
  <2>3. Answer = <<COMPLETE>> \o a
    BY <1>6 DEF Answer
  <2> HIDE DEF a
  <2>4. <<COMPLETE>> \in Seq(Byte) /\ Len(<<COMPLETE>>) = 1 /\ <<COMPLETE>>[1] = COMPLETE
    BY DEF COMPLETE, Byte
  <2>5. /\ Len(Answer) = 1 + (LEN + 1)
        /\ \A i \in 1..1 + (LEN + 1) : Answer[i] = IF i <= 1 THEN <<COMPLETE>>[i] ELSE a[i - 1]
    BY <2>2, <2>3, <2>4, ConcatProperties
  <2>6. Answer[1] = COMPLETE
    BY <1>1, <2>4, <2>5
  <2>7. ASSUME NEW i \in 1..LEN + 1 PROVE Answer[1 + i] = a[i]
    <3>1. 1 + i \in 1..1 + (LEN + 1) /\ ~(1 + i <= 1) /\ (1 + i) - 1 = i
      BY <1>1
    <3> QED BY <2>5, <3>1
  <2>8. toHost'[n + 1] = COMPLETE
    BY <1>1, <1>4, <2>5, <2>6
  <2>9. ASSUME NEW i \in 1..LEN PROVE toHost'[n + 1 + i] = Payload[id][i]
    <3>1. /\ 1 + i \in 1..Len(Answer) /\ i \in 1..LEN + 1 /\ n + 1 + i = n + (1 + i)
      BY <1>1, <2>5
    <3> QED BY <1>4, <2>2, <2>7, <3>1
  <2>10. toHost'[n + LEN + 2] = Check[id]
    <3>1. /\ 1 + (LEN + 1) \in 1..Len(Answer) /\ LEN + 1 \in 1..LEN + 1
          /\ n + LEN + 2 = n + (1 + (LEN + 1))
      BY <1>1, <2>5
    <3> QED BY <1>4, <2>2, <2>7, <3>1
  <2>11. Len(toHost') = n + LEN + 2
    BY <1>1, <1>3, <2>5
  <2>12. Whole(n)'
    BY <1>6, <2>8, <2>9, <2>10, <2>11 DEF Whole
  <2> QED BY <1>1, <1>3, <2>5, <2>12
<1> QED BY <1>5, <1>6

\* The device carries out the running call, which it has not carried out yet.
Carries ==
  /\ pc # "idle" /\ ~CarriedOut(id)
  /\ log' = Append(log, [op |-> op, id |-> id, data |-> id])

LEMMA ConversationDevice ==
  ASSUME TypeInv, TypeInv', Conversation, DeviceStep
  PROVE  Conversation' /\ (UNCHANGED log \/ Carries)
<1>1. /\ toHost \in Seq(Byte) /\ Len(toHost) \in Nat
      /\ toDev \in Seq(Packet) /\ Len(toDev) \in Nat /\ (toDev = <<>> <=> Len(toDev) = 0)
      /\ log \in Seq([op : Ops, id : Calls, data : Calls]) /\ DOMAIN log = 1..Len(log)
      /\ Len(log) \in Nat
  BY EmptySeq, LenProperties DEF TypeInv, TypeOK
<1>2. dev \in [st : {"idle", "want", "exec", "dead"}, op : Ops \cup {"none"},
              id : 0..MaxCalls, data : 0..MaxCalls]
  BY DEF TypeInv, TypeOK
<1>3. UNCHANGED <<pc, op, id, last, buf>>
  BY DEF DeviceStep, DevFrame, DevData, DevDone, DevFail, hostVars
<1>4. \A i \in DOMAIN log : log[i].id <= id
  BY DEF Conversation, Bookkeeping
<1>5. ASSUME UNCHANGED log PROVE Bookkeeping' /\ LastOK' /\ (CarriedOut(id)' <=> CarriedOut(id))
  <2>1. Bookkeeping' /\ (CarriedOut(id)' <=> CarriedOut(id))
    BY <1>3, <1>5 DEF Conversation, Bookkeeping, CarriedOut
  <2>2. LastOK'
    BY <1>3, <1>5, LastStays DEF Conversation
  <2> QED BY <2>1, <2>2
\* What a packet finds, and what becomes of the line when it is taken.
<1>6. ASSUME DevReady, toDev' = Tail(toDev)
      PROVE  /\ Head(toDev).op = op /\ Head(toDev).id = id
             /\ Head(toDev).t = "frame" => pc = "ack"
             /\ Head(toDev).t = "data" =>
                  pc = "dataack" /\ op = "write" /\ (dev.st = "idle" \/ Wanting)
             /\ ~CarriedOut(id) /\ Len(toHost) = 0 /\ Len(toDev') = 0
  <2>1. toDev # <<>> /\ Len(toDev) # 0
    BY <1>1, <1>6 DEF DevReady
  <2>2. \/ pc = "ack" /\ ~CarriedOut(id) /\ Len(toHost) = 0 /\ Line("frame")
        \/ /\ pc = "dataack" /\ ~CarriedOut(id) /\ Len(toHost) = 0 /\ Line("data")
           /\ op = "write" /\ (dev.st = "idle" \/ Wanting)
    <3>1. pc \in HostPC
      BY DEF TypeInv, TypeOK
    <3> QED BY <2>1, <3>1
        DEF HostPC, Conversation, Between, Asking, Handing, Answering, Reading
  <2>3. PICK t \in {"frame", "data"} :
          Line(t) /\ pc = (IF t = "frame" THEN "ack" ELSE "dataack")
    BY <2>2
  <2>4. Len(toDev) = 1
    <3>1. Len(toDev) <= 1
      BY <2>3 DEF Line
    <3>2. Len(toDev) # 0
      BY <2>1
    <3>3. PICK n \in Nat : n = Len(toDev)
      BY <1>1
    <3>4. n <= 1 /\ n # 0
      BY <3>1, <3>2, <3>3
    <3>5. n = 1
      BY <3>4
    <3> QED BY <3>3, <3>5
  <2>5. Head(toDev) = toDev[1] /\ Len(toDev') = 0
    <3>1. Head(toDev) = toDev[1]
      BY <1>1, <2>1
    <3> QED BY <1>1, <1>6, <2>1, <2>4, <3>1, HeadTailProperties
  <2>6. 1 \in 1..Len(toDev)
    BY <2>4
  <2>7. Head(toDev).op = op /\ Head(toDev).id = id /\ Head(toDev).t = t
    BY <2>3, <2>5, <2>6 DEF Line
  <2> QED BY <2>2, <2>3, <2>5, <2>7
<1>7. ASSUME NEW c \in {ACK, NAK, ERROR}, toHost' = Append(toHost, c)
      PROVE  /\ Len(toHost') = Len(toHost) + 1 /\ toHost'[Len(toHost) + 1] = c
             /\ \A i \in 1..Len(toHost) : toHost'[i] = toHost[i]
  <2>1. c \in Byte
    BY DEF ACK, NAK, ERROR, Byte
  <2> QED BY <1>1, <1>7, <2>1, AppendType
<1>8. CASE DevFrame
  <2>1. /\ DevReady /\ toDev' = Tail(toDev) /\ UNCHANGED log /\ Head(toDev).t = "frame"
    BY <1>8 DEF DevFrame
  <2>2. /\ Head(toDev).op = op /\ Head(toDev).id = id /\ pc = "ack"
        /\ ~CarriedOut(id) /\ Len(toHost) = 0 /\ Len(toDev') = 0 /\ Ready
    BY <1>6, <2>1 DEF DevReady, Ready
  <2>3. ~CarriedOut(id)' /\ Bookkeeping' /\ LastOK'
    BY <1>5, <2>1, <2>2
  <2>4. Asking'
    <3>1. CASE toHost' = Append(toHost, NAK) /\ dev' = Idle
      <4>1. Len(toHost') = 1 /\ toHost'[1] = NAK
        BY <1>7, <2>2, <3>1
      <4> QED BY <2>2, <2>3, <3>1, <4>1 DEF Asking, Refused, Idle
    <3>2. CASE UNCHANGED <<toHost, dev>>
      <4>1. Line("frame")'
        BY <2>2 DEF Line
      <4> QED BY <2>2, <2>3, <3>2, <4>1 DEF Asking, Ready
    <3>3. CASE /\ toHost' = Append(toHost, ACK)
               /\ dev' = [st |-> IF op = "write" THEN "want" ELSE "exec",
                          op |-> op, id |-> id, data |-> id]
      <4>1. Len(toHost') = 1 /\ toHost'[1] = ACK
        BY <1>7, <2>2, <3>3
      <4>2. CASE op = "write"
        BY <1>3, <2>2, <2>3, <3>3, <4>1, <4>2 DEF Asking, Wanting
      <4>3. CASE op # "write"
        <5>1. Working'
          BY <1>3, <3>3, <4>3 DEF Working
        <5>2. Acked'
          BY <2>3, <4>1, <5>1 DEF Acked, Rest
        <5> QED BY <1>3, <2>2, <4>3, <5>2 DEF Asking
      <4> QED BY <4>2, <4>3
    <3> QED BY <1>8, <2>2, <3>1, <3>2, <3>3 DEF DevFrame, Refuse
  <2>5. Between' /\ Handing' /\ Answering' /\ Reading'
    BY <1>3, <2>2 DEF Between, Handing, Answering, Reading
  <2> QED BY <2>1, <2>3, <2>4, <2>5 DEF Conversation
<1>9. CASE DevData
  <2>1. /\ DevReady /\ toDev' = Tail(toDev) /\ UNCHANGED log /\ Head(toDev).t = "data"
    BY <1>9 DEF DevData
  <2>2. /\ Head(toDev).op = op /\ Head(toDev).id = id /\ pc = "dataack" /\ op = "write"
        /\ dev.st = "idle" \/ Wanting
        /\ ~CarriedOut(id) /\ Len(toHost) = 0 /\ Len(toDev') = 0
    BY <1>6, <2>1
  <2>3. ~CarriedOut(id)' /\ Bookkeeping' /\ LastOK'
    BY <1>5, <2>1, <2>2
  <2>4. Handing'
    <3>1. CASE toHost' = Append(toHost, NAK) /\ dev' = Idle
      <4>1. Len(toHost') = 1 /\ toHost'[1] = NAK
        BY <1>7, <2>2, <3>1
      <4> QED BY <1>3, <2>2, <2>3, <3>1, <4>1 DEF Handing, Refused, Idle
    <3>2. CASE UNCHANGED <<toHost, dev>>
      <4>1. Line("data")'
        BY <2>2 DEF Line
      <4> QED BY <1>3, <2>2, <2>3, <3>2, <4>1 DEF Handing, Wanting
    <3>3. CASE /\ toHost' = Append(toHost, ACK) /\ dev.st = "want"
               /\ dev' = [dev EXCEPT !.st = "exec", !.data = id]
      <4>1. Len(toHost') = 1 /\ toHost'[1] = ACK
        BY <1>7, <2>2, <3>3
      <4>2. dev.op = op /\ dev.id = id
        BY <2>2, <3>3 DEF Wanting
      <4>3. Working'
        BY <1>2, <1>3, <3>3, <4>2 DEF Working
      <4>4. Acked'
        BY <2>3, <4>1, <4>3 DEF Acked, Rest
      <4> QED BY <1>3, <2>2, <4>4 DEF Handing
    <3> QED BY <1>9, <2>2, <3>1, <3>2, <3>3 DEF DevData, Refuse
  <2>5. Between' /\ Asking' /\ Answering' /\ Reading'
    BY <1>3, <2>2 DEF Between, Asking, Answering, Reading
  <2> QED BY <2>1, <2>3, <2>4, <2>5 DEF Conversation
\* A busy device finds the running call waiting, n bytes behind.
<1>10. ASSUME dev.st = "exec"
       PROVE  \E n \in {0, 1} :
                /\ Working /\ ~CarriedOut(id) /\ Len(toDev) = 0 /\ Len(toHost) = n
                /\ n = 0 => pc = "complete"
                /\ n = 1 => \/ pc = "ack" /\ op # "write" /\ toHost[1] = ACK
                            \/ pc = "dataack" /\ op = "write" /\ toHost[1] = ACK
  <2>1. ~Ready /\ ~Wanting /\ dev.st # "idle"
    BY <1>10 DEF Ready, Wanting
  <2>2. pc \in HostPC
    BY DEF TypeInv, TypeOK
  <2>3. pc \in {"ack", "dataack", "complete"}
    BY <2>1, <2>2 DEF HostPC, Conversation, Between, Handing, Reading
  <2>4. CASE pc = "complete"
    BY <2>1, <2>4 DEF Conversation, Answering, Rest
  <2>5. CASE pc = "ack"
    BY <2>1, <2>5 DEF Conversation, Asking, Refused, Acked, Rest
  <2>6. CASE pc = "dataack"
    BY <2>1, <2>6 DEF Conversation, Handing, Refused, Acked, Rest
  <2> QED BY <2>3, <2>4, <2>5, <2>6
<1>11. CASE DevDone
  <2>1. /\ dev.st = "exec" /\ dev' = Idle /\ UNCHANGED toDev /\ toHost' = toHost \o Answer
        /\ log' = Append(log, [op |-> dev.op, id |-> dev.id, data |-> dev.data])
    BY <1>11 DEF DevDone
  <2>2. PICK n \in {0, 1} :
          /\ Working /\ ~CarriedOut(id) /\ Len(toDev) = 0 /\ Len(toHost) = n
          /\ n = 0 => pc = "complete"
          /\ n = 1 => \/ pc = "ack" /\ op # "write" /\ toHost[1] = ACK
                      \/ pc = "dataack" /\ op = "write" /\ toHost[1] = ACK
    BY <1>10, <2>1
  <2>3. dev.op = op /\ dev.id = id /\ dev.data = id /\ pc # "idle"
    BY <2>2 DEF Working
  <2> DEFINE e == [op |-> op, id |-> id, data |-> id]
  <2>4. log' = Append(log, e) /\ e.id = id
    BY <2>1, <2>3
  <2>5. e \in [op : Ops, id : Calls, data : Calls]
    BY <2>1, <2>3 DEF TypeInv, BusyOK
  <2>6. Carries
    BY <2>2, <2>3, <2>4 DEF Carries
  <2> HIDE DEF e
  <2>7. log' \in Seq([op : Ops, id : Calls, data : Calls])
    BY DEF TypeInv, TypeOK
  <2>8. /\ Len(log') = Len(log) + 1 /\ log'[Len(log) + 1] = e
        /\ \A i \in 1..Len(log) : log'[i] = log[i]
        /\ DOMAIN log' = 1..Len(log')
    BY <1>1, <2>4, <2>5, <2>7, AppendType, LenProperties
  <2>9. Len(log) + 1 \in DOMAIN log'
        /\ \A i \in DOMAIN log' : i \in DOMAIN log \/ i = Len(log) + 1
    BY <1>1, <2>8
  <2>10. CarriedOut(id)'
    BY <1>3, <2>4, <2>8, <2>9 DEF CarriedOut
  <2>11. Bookkeeping'
    <3>1. id <= id
      BY BoundsAssumption DEF TypeInv, TypeOK
    <3>2. \A i \in DOMAIN log' : log'[i].id <= id
      BY <1>1, <1>4, <2>4, <2>8, <2>9, <3>1
    <3> QED BY <1>3, <3>2 DEF Conversation, Bookkeeping
  <2>12. LastOK'
    <3>1. \A i \in DOMAIN log : i \in DOMAIN log' /\ log'[i] = log[i]
      BY <1>1, <2>8
    <3> QED BY <1>3, <3>1, LastStays DEF Conversation
  <2>13. Whole(n)' /\ (n = 1 => Len(toHost') >= 1 /\ toHost'[1] = toHost[1])
    BY <1>3, <2>1, <2>2, <2>3, AnswerWhole
  <2>14. Rest(n)'
    BY <2>1, <2>10, <2>13 DEF Rest, Ready, Idle
  <2>15. n = 1 => Acked'
    BY <2>2, <2>13, <2>14 DEF Acked
  <2>16. Between' /\ Asking' /\ Handing' /\ Answering' /\ Reading'
    BY <1>3, <2>1, <2>2, <2>14, <2>15 DEF Between, Asking, Handing, Answering, Reading
  <2> QED BY <2>6, <2>11, <2>12, <2>16 DEF Conversation
<1>12. CASE DevFail
  <2>1. /\ dev.st = "exec" /\ dev' = Idle /\ UNCHANGED <<toDev, log>>
        /\ toHost' = Append(toHost, ERROR)
    BY <1>12 DEF DevFail
  <2>2. PICK n \in {0, 1} :
          /\ Working /\ ~CarriedOut(id) /\ Len(toDev) = 0 /\ Len(toHost) = n
          /\ n = 0 => pc = "complete"
          /\ n = 1 => \/ pc = "ack" /\ op # "write" /\ toHost[1] = ACK
                      \/ pc = "dataack" /\ op = "write" /\ toHost[1] = ACK
    BY <1>10, <2>1
  <2>3. Len(toHost') = n + 1 /\ toHost'[n + 1] = ERROR
        /\ \A i \in 1..n : toHost'[i] = toHost[i]
    BY <1>7, <2>1, <2>2
  <2>4. ~CarriedOut(id)' /\ Bookkeeping' /\ LastOK'
    BY <1>5, <2>1, <2>2
  <2>5. Rest(n)'
    BY <2>1, <2>3, <2>4 DEF Rest, Ready, Idle
  <2>6. n = 1 => Acked'
    <3>1. n = 1 => Len(toHost') >= 1 /\ toHost'[1] = ACK
      BY <2>2, <2>3
    <3> QED BY <2>5, <3>1 DEF Acked
  <2>7. Between' /\ Asking' /\ Handing' /\ Answering' /\ Reading'
    BY <1>3, <2>1, <2>2, <2>5, <2>6 DEF Between, Asking, Handing, Answering, Reading
  <2> QED BY <2>1, <2>4, <2>7 DEF Conversation
<1> QED BY <1>8, <1>9, <1>11, <1>12 DEF DeviceStep

LEMMA ConversationFault ==
  ASSUME TypeInv, Conversation, FaultStep, Faults \subseteq {"lose_frame", "damage_frame"}
  PROVE  Conversation' /\ UNCHANGED <<pc, op, id, last, log>>
<1>1. /\ toDev \in Seq(Packet) /\ Len(toDev) \in Nat /\ DOMAIN toDev = 1..Len(toDev)
  BY LenProperties DEF TypeInv, TypeOK
<1>2. LoseToDev \/ DamageToDev
  BY DEF FaultStep, LoseToHost, DamageToHost, DevDies, Fault
<1>3. UNCHANGED <<pc, op, id, last, buf, toHost, log, dev>>
  BY <1>2 DEF LoseToDev, DamageToDev, hostVars, devVars
<1>4. \E k \in 1..Len(toDev) : k = k
  BY <1>1, <1>2 DEF LoseToDev, DamageToDev
<1>5. Len(toDev) # 0
  BY <1>1, <1>4
<1>6. CarriedOut(id)' <=> CarriedOut(id)
  BY <1>3 DEF CarriedOut
<1>7. Bookkeeping' /\ LastOK'
  BY <1>3, LastStays DEF Conversation, Bookkeeping
\* A packet on the line is waiting for the device, and may vanish or be damaged.
<1>8. Len(toDev') <= Len(toDev)
      /\ \A i \in 1..Len(toDev') : \E j \in 1..Len(toDev) :
           toDev'[i].t = toDev[j].t /\ toDev'[i].op = toDev[j].op /\ toDev'[i].id = toDev[j].id
  <2>1. CASE LoseToDev
    <3>1. PICK k \in 1..Len(toDev) : toDev' = RemoveAt(toDev, k)
      BY <1>1, <2>1 DEF LoseToDev
    <3>2. /\ Len(toDev') = Len(toDev) - 1
          /\ \A i \in 1..Len(toDev') : toDev'[i] = toDev[IF i < k THEN i ELSE i + 1]
      BY <1>1, <3>1, RemoveAtType
    <3>3. \A i \in 1..Len(toDev') : (IF i < k THEN i ELSE i + 1) \in 1..Len(toDev)
      BY <1>1, <3>2
    <3>4. Len(toDev') <= Len(toDev)
      BY <1>1, <3>2
    <3>5. ASSUME NEW i \in 1..Len(toDev')
          PROVE  \E j \in 1..Len(toDev) :
                   toDev'[i].t = toDev[j].t /\ toDev'[i].op = toDev[j].op
                   /\ toDev'[i].id = toDev[j].id
      <4> DEFINE j == IF i < k THEN i ELSE i + 1
      <4>1. j \in 1..Len(toDev) /\ toDev'[i] = toDev[j]
        BY <3>2, <3>3
      <4> HIDE DEF j
      <4> QED BY <4>1
    <3> QED BY <3>4, <3>5
  <2>2. CASE DamageToDev
    <3>1. PICK k \in 1..Len(toDev) : toDev' = [toDev EXCEPT ![k].ok = FALSE]
      BY <1>1, <2>2 DEF DamageToDev
    <3>2. \A i \in 1..Len(toDev) : toDev[i] \in Packet
      BY <1>1, ElementOfSeq
    <3>3. Len(toDev') = Len(toDev) /\ \A i \in 1..Len(toDev') :
            toDev'[i].t = toDev[i].t /\ toDev'[i].op = toDev[i].op /\ toDev'[i].id = toDev[i].id
      BY <1>1, <3>1, <3>2 DEF Packet
    <3> QED BY <1>1, <3>3
  <2> QED BY <1>2, <2>1, <2>2
<1>9. ASSUME NEW t, Line(t) PROVE Line(t)'
  <2>1. Len(toDev) <= 1
    BY <1>9 DEF Line
  <2>2. Len(toDev') <= 1
    <3>1. Len(toDev') \in Nat
      <4>1. CASE LoseToDev
        <5>1. PICK k \in 1..Len(toDev) : toDev' = RemoveAt(toDev, k)
          BY <1>1, <4>1 DEF LoseToDev
        <5>2. toDev' \in Seq(Packet)
          BY <1>1, <5>1, RemoveAtType
        <5> QED BY <5>2, LenProperties
      <4>2. CASE DamageToDev
        <5>1. PICK k \in 1..Len(toDev) : toDev' = [toDev EXCEPT ![k].ok = FALSE]
          BY <1>1, <4>2 DEF DamageToDev
        <5>2. Len(toDev') = Len(toDev)
          BY <1>1, <5>1
        <5> QED BY <1>1, <5>2
      <4> QED BY <1>2, <4>1, <4>2
    <3> QED BY <1>1, <1>8, <2>1, <3>1
  <2> QED BY <1>3, <1>8, <1>9, <2>2 DEF Line
<1>10. \/ pc = "ack" /\ ~CarriedOut(id) /\ Len(toHost) = 0 /\ Ready /\ Line("frame")
       \/ /\ pc = "dataack" /\ op = "write" /\ ~CarriedOut(id) /\ Len(toHost) = 0
          /\ Line("data")
          /\ dev.st = "idle" \/ Wanting
  <2>1. pc \in HostPC
    BY DEF TypeInv, TypeOK
  <2> QED BY <1>5, <2>1
      DEF HostPC, Conversation, Between, Asking, Handing, Answering, Reading
<1>11. (Ready' <=> Ready) /\ (Wanting' <=> Wanting)
  BY <1>3 DEF Ready, Wanting
<1>12. Between' /\ Asking' /\ Handing' /\ Answering' /\ Reading'
  BY <1>3, <1>6, <1>9, <1>10, <1>11 DEF Between, Asking, Handing, Answering, Reading
<1> QED BY <1>3, <1>7, <1>12 DEF Conversation

\* A step of the protocol keeps the conversation in order, and is one of the
\* beginning of a call, its execution and its end, or none of these.
LEMMA ConversationStep ==
  ASSUME TypeInv, Conversation, [Next]_vars, Late = {},
         Faults \subseteq {"lose_frame", "damage_frame"}
  PROVE  /\ Conversation'
         /\ \/ \E o \in Ops : Call(o)
            \/ pc # "idle" /\ Finishes
            \/ pc # "idle" /\ Carries /\ UNCHANGED <<pc, op, id, last>>
            \/ UNCHANGED <<op, id, log, last>> /\ (pc' = "idle" <=> pc = "idle")
<1>1. TypeInv'
  BY TypeStep
<1>2. ASSUME NEW o \in Ops, Call(o) PROVE Conversation'
  <2>1. /\ pc = "idle" /\ pc' \in {"flush", "send"} /\ id' = id + 1 /\ buf' = <<>>
        /\ UNCHANGED <<toDev, toHost, dev, log, last>>
    BY <1>2 DEF Call, devVars
  <2>2. id \in Nat
    BY BoundsAssumption DEF TypeInv, TypeOK
  <2>3. DOMAIN log = 1..Len(log) /\ \A i \in 1..Len(log) : log[i].id \in Nat
    <3>1. log \in Seq([op : Ops, id : Calls, data : Calls])
      BY DEF TypeInv, TypeOK
    <3>2. \A i \in 1..Len(log) : log[i] \in [op : Ops, id : Calls, data : Calls]
      BY <3>1, ElementOfSeq
    <3>3. DOMAIN log = 1..Len(log)
      BY <3>1, LenProperties
    <3> QED BY <3>2, <3>3, BoundsAssumption DEF Calls
  <2>4. \A i \in DOMAIN log : log[i].id <= id
    BY DEF Conversation, Bookkeeping
  <2>5. ~CarriedOut(id)'
    BY <2>1, <2>2, <2>3, <2>4 DEF CarriedOut
  <2>6. \A i \in DOMAIN log' : log'[i].id <= id'
    BY <2>1, <2>2, <2>3, <2>4
  <2>7. Bookkeeping'
    BY <2>1, <2>6 DEF Bookkeeping
  <2>8. LastOK'
    BY <2>1, LastStays DEF Conversation
  <2>9. Between'
    BY <2>1, <2>5 DEF Conversation, Between, Ready
  <2>10. Asking' /\ Handing' /\ Answering' /\ Reading'
    BY <2>1 DEF Asking, Handing, Answering, Reading
  <2> QED BY <2>7, <2>8, <2>9, <2>10 DEF Conversation
<1>3. CASE HostStep
  <2>1. pc # "idle"
    BY <1>3 DEF HostStep, Flush, SendFrame, WaitAck, PutData, WaitDataAck, WaitComplete,
       GetByte, CheckSum
  <2> QED BY <1>3, <2>1, ConversationHost
<1>4. CASE DeviceStep
  <2>1. UNCHANGED <<pc, op, id, last>>
    BY <1>4 DEF DeviceStep, DevFrame, DevData, DevDone, DevFail, hostVars
  <2>2. Conversation' /\ (UNCHANGED log \/ Carries)
    BY <1>1, <1>4, ConversationDevice
  <2> QED BY <2>1, <2>2 DEF Carries
<1>5. CASE FaultStep
  BY <1>5, ConversationFault
<1>6. CASE Finished \/ UNCHANGED vars
  <2>1. UNCHANGED vars
    BY <1>6 DEF Finished
  <2>2. Between' /\ Asking' /\ Handing' /\ Answering'
    BY <2>1 DEF vars, Conversation, Between, Asking, Handing, Answering, Ready, Line,
       Refused, Acked, Rest, Whole, Working, Wanting, CarriedOut
  <2>3. Reading' /\ Bookkeeping'
    BY <2>1 DEF vars, Conversation, Reading, Bookkeeping, Ready, CarriedOut
  <2>4. LastOK'
    BY <2>1, LastStays DEF vars, Conversation
  <2> QED BY <2>1, <2>2, <2>3, <2>4 DEF vars, Conversation
<1> QED BY <1>2, <1>3, <1>4, <1>5, <1>6 DEF Next

\* As long as no answer is late and the line at worst loses or damages whole
\* frames and payloads, a call that has returned leaves nothing on the line and
\* no work in the device, whatever it refused, failed or did not get.
THEOREM NothingLeftOverHolds ==
  ASSUME Late = {}, Faults \subseteq {"lose_frame", "damage_frame"}
  PROVE  Spec => []NothingLeftOver
<1>1. TypeInv /\ Conversation => NothingLeftOver
  <2> SUFFICES ASSUME TypeInv, Conversation, pc = "idle"
               PROVE  toHost = <<>> /\ toDev = <<>> /\ dev.st # "exec"
    BY DEF NothingLeftOver
  <2>1. (toHost = <<>> <=> Len(toHost) = 0) /\ (toDev = <<>> <=> Len(toDev) = 0)
    BY EmptySeq DEF TypeInv, TypeOK
  <2> QED BY <2>1 DEF Conversation, Between, Ready
<1>2. TypeInv /\ Conversation /\ [Next]_vars => Conversation'
  BY ConversationStep
<1> QED BY <1>1, <1>2, TypeInit, TypeStep, ConversationInit, PTL DEF Spec

\* Under the same condition a fujicom_command_read that returns 'C' filled the
\* caller's buffer with the device's answer to this very call.
THEOREM ReadIsOwnHolds ==
  ASSUME Late = {}, Faults \subseteq {"lose_frame", "damage_frame"}
  PROVE  Spec => []ReadIsOwn
<1>1. Conversation => ReadIsOwn
  BY DEF Conversation, LastOK
<1>2. TypeInv /\ Conversation /\ [Next]_vars => Conversation'
  BY ConversationStep
<1> QED BY <1>1, <1>2, TypeInit, TypeStep, ConversationInit, PTL DEF Spec

\* When no answer is late, no call hands the protocol's 'A' to the program, neither on
\* a line that loses and damages frames, nor, if the programs do not read, on one that
\* loses bytes to a device that may die: a late 'A' and a stale answer are its ways out.
THEOREM AckStaysInsideHolds ==
  ASSUME Late = {},
         \/ Faults \subseteq {"lose_frame", "damage_frame"}
         \/ /\ "read" \notin Ops
            /\ Faults \subseteq {"lose_frame", "damage_frame", "lose_byte", "die"}
  PROVE  Spec => []AckStaysInside
<1>1. CASE Faults \subseteq {"lose_frame", "damage_frame"}
  <2>1. Conversation => AckStaysInside
    BY DEF Conversation, LastOK
  <2>2. TypeInv /\ Conversation /\ [Next]_vars => Conversation'
    BY <1>1, ConversationStep
  <2> QED BY <2>1, <2>2, TypeInit, TypeStep, ConversationInit, PTL DEF Spec
<1>2. CASE /\ "read" \notin Ops
           /\ Faults \subseteq {"lose_frame", "damage_frame", "lose_byte", "die"}
  <2>1. Apart => AckStaysInside
    BY DEF Apart
  <2>2. TypeInv /\ Apart /\ [Next]_vars => Apart'
    BY <1>2, ApartStep
  <2> QED BY <2>1, <2>2, TypeInit, TypeStep, ApartInit, PTL DEF Spec
<1> QED BY <1>1, <1>2

\* Under the same condition a call that returns 'C' was carried out by the device.
\* A read is left out of the second case because it goes round again after it took a
\* 'C' for the 'A', and the flush may leave the rest of the answer to the next call.
THEOREM CompleteMeansDoneHolds ==
  ASSUME Late = {},
         \/ Faults \subseteq {"lose_frame", "damage_frame"}
         \/ /\ "read" \notin Ops
            /\ Faults \subseteq {"lose_frame", "damage_frame", "lose_byte", "die"}
  PROVE  Spec => []CompleteMeansDone
<1>1. CASE Faults \subseteq {"lose_frame", "damage_frame"}
  <2>1. Conversation => CompleteMeansDone
    BY DEF Conversation, LastOK
  <2>2. TypeInv /\ Conversation /\ [Next]_vars => Conversation'
    BY <1>1, ConversationStep
  <2> QED BY <2>1, <2>2, TypeInit, TypeStep, ConversationInit, PTL DEF Spec
<1>2. CASE /\ "read" \notin Ops
           /\ Faults \subseteq {"lose_frame", "damage_frame", "lose_byte", "die"}
  <2>1. Apart => CompleteMeansDone
    BY DEF Apart
  <2>2. TypeInv /\ Apart /\ [Next]_vars => Apart'
    BY <1>2, ApartStep
  <2> QED BY <2>1, <2>2, TypeInit, TypeStep, ApartInit, PTL DEF Spec
<1> QED BY <1>1, <1>2

-----------------------------------------------------------------------------
(* fujicom.c implements FujiRpc. *)

LEMMA RpcInit == Init => Rpc!Init
  BY DEF Init, Rpc!Init

LEMMA RpcStep ==
  ASSUME TypeInv, Conversation, [Next]_vars, Late = {},
         Faults \subseteq {"lose_frame", "damage_frame"}
  PROVE  [Rpc!Next]_(Rpc!vars)
<1>1. /\ pc # "idle" => id # 0
      /\ id \in Nat
  BY BoundsAssumption DEF TypeInv, TypeOK, CallOK, Calls
<1>2. CASE \E o \in Ops : Call(o)
  <2>1. Rpc!Begin
    BY <1>2 DEF Call, Rpc!Begin, devVars
  <2> QED BY <2>1 DEF Rpc!Next
<1>3. CASE pc # "idle" /\ Finishes
  <2>1. Rpc!Finish
    BY <1>1, <1>3 DEF Finishes, Rpc!Finish, Rpc!Done, CarriedOut
  <2> QED BY <2>1 DEF Rpc!Next
<1>4. CASE pc # "idle" /\ Carries /\ UNCHANGED <<pc, op, id, last>>
  <2>1. Rpc!CarryOut
    BY <1>1, <1>4 DEF Carries, Rpc!CarryOut, Rpc!Done, CarriedOut
  <2> QED BY <2>1 DEF Rpc!Next
<1>5. CASE UNCHANGED <<op, id, log, last>> /\ (pc' = "idle" <=> pc = "idle")
  BY <1>5 DEF Rpc!vars
<1> QED BY <1>2, <1>3, <1>4, <1>5, ConversationStep

\* Under the same condition the three entry points of fujicom.c give the programs
\* what FujiRpc promises: a call runs alone, the device carries it out at most
\* once, and the reply is 'C' exactly when it did.
THEOREM Implements ==
  ASSUME Late = {}, Faults \subseteq {"lose_frame", "damage_frame"}
  PROVE  Spec => ImplementsRpc
<1>1. TypeInv /\ Conversation /\ [Next]_vars => Conversation'
  BY ConversationStep
<1>2. TypeInv /\ Conversation /\ [Next]_vars => [Rpc!Next]_(Rpc!vars)
  BY RpcStep
<1> QED BY <1>1, <1>2, TypeInit, TypeStep, ConversationInit, RpcInit, PTL
    DEF Spec, ImplementsRpc, Rpc!Spec
=============================================================================
