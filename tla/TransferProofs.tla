--------------------------- MODULE TransferProofs ---------------------------
(***************************************************************************)
(* Proofs about Transfer, for any number of network devices, any files and *)
(* buffers and any number of faults.                                       *)
(***************************************************************************)
EXTENDS Transfer, SeqLemmas


----------------------------------------------------------------------------
(* The calls of INT F5.  The programs only ever use the first device.      *)

LEMMA FirstDevice == 1 \in Devices /\ N1 = 1
  BY DevicesAssumption DEF Devices, N1

\* What a device has open is there, and the device knows how long it is.
DeviceInv ==
  /\ \A n \in Devices : n # 1 => dev[n].conn = "none"
  /\ \A n \in Devices : dev[n].conn \in {"read", "write"} =>
       dev[n].dir \in Dirs /\ remote[dev[n].dir] \in Seq(Cells)
  /\ \A n \in Devices : dev[n].conn = "read" => dev[n].total = Len(remote[dev[n].dir])
  /\ \A n \in Devices : dev[n].conn \notin {"read", "dir"} => dev[n].ready = 0

\* A call leaves the other devices alone.
LEMMA OtherDevices ==
  ASSUME CallTypeOK, DeviceInv,
         NEW c \in Device, dev' = [dev EXCEPT ![1] = c], c.at + c.ready <= c.total,
         c.conn \in {"read", "write"} => c.dir \in Dirs /\ remote'[c.dir] \in Seq(Cells),
         c.conn = "read" => c.total = Len(remote'[c.dir]),
         c.conn \notin {"read", "dir"} => c.ready = 0
  PROVE  /\ DeviceInv' /\ dev' \in [Devices -> Device]
         /\ \A n \in Devices : dev'[n].at + dev'[n].ready <= dev'[n].total
<1>1. \A n \in Devices : dev'[n] = IF n = 1 THEN c ELSE dev[n]
  BY FirstDevice DEF CallTypeOK
<1>2. dev' \in [Devices -> Device]
  BY <1>1 DEF CallTypeOK
<1>3. \A n \in Devices : dev'[n].at + dev'[n].ready <= dev'[n].total
  BY <1>1 DEF CallTypeOK
<1>4. DeviceInv'
  BY <1>1 DEF DeviceInv
<1>5. QED
  BY <1>2, <1>3, <1>4

\* How a call ends is counted.
LEMMA OutcomeTyped ==
  ASSUME CallTypeOK, NEW o, NEW kinds, Outcome(o, kinds)
  PROVE  faults' \in 0..MaxFaults /\ o \in {"done"} \cup kinds /\ o \in {"done"} \cup Faults
<1>1. faults \in 0..MaxFaults
  BY DEF CallTypeOK
<1>2. QED
  BY <1>1, FaultsAssumption DEF Outcome

LEMMA NotedTyped ==
  ASSUME CallTypeOK, NEW o, Noted(o), o \in {"done"} \cup Faults
  PROVE  /\ missed' \subseteq {"lost", "unheard", "twice", "idle"}
         /\ missed' = {} => missed = {} /\ o = "done"
         /\ missed \subseteq missed'
  BY FaultsAssumption DEF Noted, CallTypeOK

LEMMA AnswerTyped ==
  ASSUME NEW c \in Device
  PROVE  Answer(c) \in [length : Nat, errcode : Errcodes]
  BY DEF Answer, Device, Left, Errcodes

\* CMD_STATUS: what has arrived since, and the answer, a stale one or a damaged one.
LEMMA StatusEffect ==
  ASSUME CallTypeOK, DeviceInv, NEW o, StatusCall(1, o), UNCHANGED remote
  PROVE  /\ CallTypeOK' /\ DeviceInv'
         /\ dev'[1] = [dev[1] EXCEPT !.ready = dev'[1].ready]
         /\ o # "unheard" => status' \in {status, Answer(dev'[1])}
         /\ o = "unheard" => "unheard" \in missed'
         /\ o = "done" => status' = Answer(dev'[1])
         /\ missed' = {} => missed = {} /\ o = "done"
         /\ missed \subseteq missed'
<1>1. PICK ready \in Arrived(dev[1]) :
        /\ Outcome(o, Unlucky) /\ Noted(o)
        /\ dev' = [dev EXCEPT ![1] = [dev[1] EXCEPT !.ready = ready]]
        /\ status' \in CASE o = "done"    -> {Answer([dev[1] EXCEPT !.ready = ready])}
                         [] o = "unheard" ->
                              {Answer([dev[1] EXCEPT !.ready = ready]), status} \cup Damaged
                         [] o = "lost"    -> {status}
  BY DEF StatusCall
<1> DEFINE c == [dev[1] EXCEPT !.ready = ready]
<1>2. dev[1] \in Device /\ dev[1].at + dev[1].ready <= dev[1].total
  BY FirstDevice DEF CallTypeOK
<1>3. dev[1].at \in Nat /\ dev[1].total \in Nat /\ dev[1].ready \in Nat
  BY <1>2 DEF Device
<1>4. /\ ready \in Nat /\ dev[1].at + ready <= dev[1].total
      /\ dev[1].conn \notin {"read", "dir"} => ready = 0
  <2>1. CASE dev[1].conn \notin {"read", "dir"}
    BY <1>1, <1>2, <1>3, <2>1, FirstDevice DEF Arrived, DeviceInv
  <2>2. CASE dev[1].conn \in {"read", "dir"}
    <3>1. ready \in dev[1].ready..Left(dev[1]) \cup {Left(dev[1])}
      BY <1>1, <2>2 DEF Arrived
    <3>2. Left(dev[1]) = dev[1].total - dev[1].at
      BY DEF Left
    <3>3. QED
      BY <1>2, <1>3, <2>2, <3>1, <3>2
  <2>3. QED
    BY <2>1, <2>2
<1>5. c \in Device
  BY <1>2, <1>4 DEF Device
<1>6. /\ DeviceInv' /\ dev' \in [Devices -> Device]
      /\ \A n \in Devices : dev'[n].at + dev'[n].ready <= dev'[n].total
  <2>1. c.conn = dev[1].conn /\ c.dir = dev[1].dir /\ c.at = dev[1].at
          /\ c.total = dev[1].total /\ c.ready = ready
    BY <1>2 DEF Device
  <2> HIDE DEF c
  <2>2. QED
    BY <1>1, <1>4, <1>5, <2>1, OtherDevices, FirstDevice DEF DeviceInv, c
<1>7. dev'[1] = c
  BY <1>1, FirstDevice DEF CallTypeOK
<1>8. o \in {"done", "lost", "unheard"} /\ o \in {"done"} \cup Faults /\ faults' \in 0..MaxFaults
  BY <1>1, OutcomeTyped DEF Unlucky
<1>9. /\ missed' \subseteq {"lost", "unheard", "twice", "idle"}
      /\ missed' = {} => missed = {} /\ o = "done"
      /\ missed \subseteq missed'
      /\ o = "unheard" => "unheard" \in missed'
  BY <1>1, <1>8, NotedTyped DEF Noted
<1>10. /\ o # "unheard" => status' \in {status, Answer(c)}
       /\ o = "done" => status' = Answer(c)
       /\ status' \in {status, Answer(c)} \cup Damaged
  BY <1>1, <1>8
<1>11. status' \in [length : Nat, errcode : Errcodes]
  <2>1. Damaged \subseteq [length : Nat, errcode : Errcodes]
    BY DamageAssumption DEF Damaged
  <2>2. QED
    BY <1>5, <1>10, <2>1, AnswerTyped DEF CallTypeOK
<1>12. CallTypeOK'
  BY <1>6, <1>8, <1>9, <1>11 DEF CallTypeOK
<1>13. c = [dev[1] EXCEPT !.ready = c.ready]
  BY <1>2 DEF Device
<1>14. QED
  BY <1>6, <1>7, <1>9, <1>10, <1>12, <1>13

\* CMD_USERNAME and CMD_PASSWORD.
LEMMA LoginEffect ==
  ASSUME CallTypeOK, DeviceInv, NEW user \in BOOLEAN, NEW o, LoginCall(1, user, o),
         UNCHANGED <<remote, status, missed>>
  PROVE  /\ CallTypeOK' /\ DeviceInv'
         /\ dev'[1] = [dev[1] EXCEPT !.login = dev'[1].login]
<1>1. dev[1] \in Device /\ dev[1].at + dev[1].ready <= dev[1].total
  BY FirstDevice DEF CallTypeOK
<1>2. faults' \in 0..MaxFaults
  BY OutcomeTyped DEF LoginCall
<1>3. CASE dev' = dev
  BY <1>1, <1>2, <1>3 DEF CallTypeOK, DeviceInv, Device
<1>4. CASE dev' = [dev EXCEPT ![1] = [dev[1] EXCEPT !.login = user]]
  <2> DEFINE c == [dev[1] EXCEPT !.login = user]
  <2>1. /\ c \in Device /\ c.at + c.ready <= c.total /\ c.conn = dev[1].conn
        /\ c.dir = dev[1].dir /\ c.total = dev[1].total /\ c.ready = dev[1].ready
        /\ c = [dev[1] EXCEPT !.login = c.login]
    BY <1>1 DEF Device
  <2>2. dev' = [dev EXCEPT ![1] = c]
    BY <1>4
  <2> HIDE DEF c
  <2>3. /\ DeviceInv' /\ dev' \in [Devices -> Device]
        /\ \A n \in Devices : dev'[n].at + dev'[n].ready <= dev'[n].total
    BY <2>1, <2>2, OtherDevices, FirstDevice DEF DeviceInv
  <2>4. dev'[1] = c
    BY <2>2, FirstDevice DEF CallTypeOK
  <2>5. QED
    BY <1>2, <2>1, <2>3, <2>4 DEF CallTypeOK
<1>5. QED
  BY <1>3, <1>4 DEF LoginCall

\* Opening or closing leaves the directory and the login alone.
LEMMA FreshEffect ==
  ASSUME NEW c \in Device, NEW conn \in {"none", "read", "write", "dir"},
         NEW d \in Dirs \cup {NoDir}, NEW total \in Nat, NEW e \in {"ok", "fail"}
  PROVE  LET f == Fresh(c, conn, d, total, e)
         IN  /\ f \in Device /\ f.at + f.ready <= f.total /\ f.cwd = c.cwd
             /\ f.conn = conn /\ f.dir = d /\ f.total = total /\ f.err = e
             /\ f.at = 0 /\ f.ready = 0
<1>1. c.cwd \in Dirs /\ c.login \in BOOLEAN
  BY DEF Device
<1>2. Fresh(c, conn, d, total, e) \in Device
  BY <1>1 DEF Device, Fresh
<1>3. QED
  BY <1>2 DEF Fresh

LEMMA ClosedEffect ==
  ASSUME NEW c \in Device, NEW e \in {"ok", "fail"}
  PROVE  LET f == Closed(c, e)
         IN  /\ f \in Device /\ f.at + f.ready <= f.total /\ f.cwd = c.cwd
             /\ f.conn = "none" /\ f.dir = NoDir /\ f.err = e
             /\ f.at = 0 /\ f.ready = 0
<1>1. "none" \in {"none", "read", "write", "dir"} /\ NoDir \in Dirs \cup {NoDir} /\ 0 \in Nat
  OBVIOUS
<1> DEFINE f == Fresh(c, "none", NoDir, 0, e)
<1>2. /\ f \in Device /\ f.at + f.ready <= f.total /\ f.cwd = c.cwd
      /\ f.conn = "none" /\ f.dir = NoDir /\ f.total = 0 /\ f.err = e
      /\ f.at = 0 /\ f.ready = 0
  BY <1>1, FreshEffect
<1> HIDE DEF f
<1>3. Closed(c, e) = f
  BY DEF Closed, f
<1>4. QED
  BY <1>2, <1>3

\* CMD_CLOSE.
LEMMA CloseEffect ==
  ASSUME CallTypeOK, DeviceInv, NEW o, CloseCall(1, o), UNCHANGED <<remote, status>>
  PROVE  /\ CallTypeOK' /\ DeviceInv'
         /\ dev'[1].cwd = dev[1].cwd
         /\ missed' = {} => missed = {} /\ o = "done"
         /\ missed \subseteq missed'
<1>1. dev[1] \in Device /\ dev[1].at + dev[1].ready <= dev[1].total
  BY FirstDevice DEF CallTypeOK
<1>2. o \in {"done"} \cup Faults /\ faults' \in 0..MaxFaults
  BY OutcomeTyped DEF CloseCall
<1>3. /\ missed' \subseteq {"lost", "unheard", "twice", "idle"}
      /\ missed' = {} => missed = {} /\ o = "done"
      /\ missed \subseteq missed'
  BY <1>2, NotedTyped DEF CloseCall
<1>4. CASE dev' = dev
  BY <1>2, <1>3, <1>4 DEF CallTypeOK, DeviceInv
<1>5. CASE dev' = [dev EXCEPT ![1] = Closed(dev[1], "ok")]
  <2> DEFINE c == Closed(dev[1], "ok")
  <2>1. /\ c \in Device /\ c.at + c.ready <= c.total /\ c.conn = "none"
        /\ c.ready = 0 /\ c.cwd = dev[1].cwd
    BY <1>1, ClosedEffect
  <2>2. dev' = [dev EXCEPT ![1] = c]
    BY <1>5
  <2> HIDE DEF c
  <2>3. /\ DeviceInv' /\ dev' \in [Devices -> Device]
        /\ \A n \in Devices : dev'[n].at + dev'[n].ready <= dev'[n].total
    BY <2>1, <2>2, OtherDevices
  <2>4. dev'[1] = c
    BY <2>2, FirstDevice DEF CallTypeOK
  <2>5. QED
    BY <1>2, <1>3, <2>1, <2>3, <2>4 DEF CallTypeOK
<1>6. QED
  BY <1>4, <1>5 DEF CloseCall

\* CMD_CHDIR.
LEMMA ChdirEffect ==
  ASSUME CallTypeOK, DeviceInv, NEW d \in Dirs, NEW there \in BOOLEAN, NEW o,
         ChdirCall(1, d, there, o), UNCHANGED <<remote, status>>
  PROVE  /\ CallTypeOK' /\ DeviceInv'
         /\ o = "done" /\ there => dev'[1].cwd = d /\ dev'[1].err = "ok"
         /\ o = "done" /\ ~there => dev'[1].cwd = dev[1].cwd /\ dev'[1].err = "fail"
<1>1. dev[1] \in Device /\ dev[1].at + dev[1].ready <= dev[1].total
  BY FirstDevice DEF CallTypeOK
<1>2. o \in {"done"} \cup Faults /\ faults' \in 0..MaxFaults
  BY OutcomeTyped DEF ChdirCall
<1>3. missed' \subseteq {"lost", "unheard", "twice", "idle"}
  BY <1>2, NotedTyped DEF ChdirCall
<1>4. CASE dev' = dev /\ ~Executed(o)
  BY <1>2, <1>3, <1>4 DEF CallTypeOK, DeviceInv, Executed
<1>5. ASSUME NEW c \in {[dev[1] EXCEPT !.cwd = d, !.err = "ok"], [dev[1] EXCEPT !.err = "fail"]},
             dev' = [dev EXCEPT ![1] = c]
      PROVE  CallTypeOK' /\ DeviceInv' /\ dev'[1] = c
  <2>1. /\ c \in Device /\ c.at + c.ready <= c.total /\ c.conn = dev[1].conn
        /\ c.dir = dev[1].dir /\ c.total = dev[1].total /\ c.ready = dev[1].ready
    BY <1>1, <1>5 DEF Device
  <2>2. /\ DeviceInv' /\ dev' \in [Devices -> Device]
        /\ \A n \in Devices : dev'[n].at + dev'[n].ready <= dev'[n].total
    BY <1>5, <2>1, OtherDevices, FirstDevice DEF DeviceInv
  <2>3. dev'[1] = c
    BY <1>5, FirstDevice DEF CallTypeOK
  <2>4. QED
    BY <1>2, <1>3, <2>2, <2>3 DEF CallTypeOK
<1>6. CASE Executed(o) /\ there
  <2>1. dev' = [dev EXCEPT ![1] = [dev[1] EXCEPT !.cwd = d, !.err = "ok"]]
    BY <1>6 DEF ChdirCall
  <2>2. /\ CallTypeOK' /\ DeviceInv'
        /\ dev'[1] = [dev[1] EXCEPT !.cwd = d, !.err = "ok"]
    BY <1>5, <2>1
  <2>3. QED
    BY <1>1, <1>6, <2>2 DEF Device
<1>7. CASE Executed(o) /\ ~there
  <2>1. dev' = [dev EXCEPT ![1] = [dev[1] EXCEPT !.err = "fail"]]
    BY <1>7 DEF ChdirCall
  <2>2. CallTypeOK' /\ DeviceInv' /\ dev'[1] = [dev[1] EXCEPT !.err = "fail"]
    BY <1>5, <2>1
  <2>3. QED
    BY <1>1, <1>7, <2>2 DEF Device
<1>8. QED
  BY <1>4, <1>6, <1>7 DEF ChdirCall

\* CMD_OPEN: in the mode that was asked for, or not at all.
LEMMA ConnectEffect ==
  ASSUME CallTypeOK, NEW mode \in {"read", "write", "dir"}, NEW d \in Dirs,
         NEW c \in Device
  PROVE  LET f == Connect(c, mode, d)
         IN  /\ f \in Device /\ f.at + f.ready <= f.total /\ f.cwd = c.cwd
             /\ f.at = 0 /\ f.ready = 0
             /\ \/ f.conn = "none" /\ f.err = "fail" /\ f.dir = NoDir
                \/ f.conn = mode /\ f.err = "ok" /\ f.dir = d
             /\ f.conn = "read" => remote[d] \in Seq(Cells) /\ f.total = Len(remote[d])
<1>1. ListLen \in Nat
  BY LengthsAssumption
<1>2. remote[d] # Absent => remote[d] \in Seq(Cells) /\ Len(remote[d]) \in Nat
  BY LenProperties DEF CallTypeOK
<1> DEFINE closed == Closed(c, "fail")
           listing == Fresh(c, "dir", d, ListLen, "ok")
           writing == Fresh(c, "write", d, 0, "ok")
           reading == Fresh(c, "read", d, Len(remote[d]), "ok")
<1>3. /\ closed \in Device /\ closed.at + closed.ready <= closed.total
      /\ closed.cwd = c.cwd /\ closed.at = 0 /\ closed.ready = 0
      /\ closed.conn = "none" /\ closed.err = "fail" /\ closed.dir = NoDir
  BY ClosedEffect
<1>4. /\ listing \in Device /\ listing.at + listing.ready <= listing.total
      /\ listing.cwd = c.cwd /\ listing.at = 0 /\ listing.ready = 0
      /\ listing.conn = "dir" /\ listing.err = "ok" /\ listing.dir = d
  BY <1>1, FreshEffect
<1>5. /\ writing \in Device /\ writing.at + writing.ready <= writing.total
      /\ writing.cwd = c.cwd /\ writing.at = 0 /\ writing.ready = 0
      /\ writing.conn = "write" /\ writing.err = "ok" /\ writing.dir = d
  BY FreshEffect
<1>6. ASSUME remote[d] # Absent
      PROVE  /\ reading \in Device /\ reading.at + reading.ready <= reading.total
             /\ reading.cwd = c.cwd /\ reading.at = 0 /\ reading.ready = 0
             /\ reading.conn = "read" /\ reading.err = "ok" /\ reading.dir = d
             /\ reading.total = Len(remote[d])
  <2>1. PICK n \in Nat : n = Len(remote[d])
    BY <1>2, <1>6
  <2> DEFINE f == Fresh(c, "read", d, n, "ok")
  <2>2. /\ f \in Device /\ f.at + f.ready <= f.total /\ f.cwd = c.cwd
        /\ f.conn = "read" /\ f.dir = d /\ f.total = n /\ f.err = "ok"
        /\ f.at = 0 /\ f.ready = 0
    BY FreshEffect
  <2>3. reading = f
    BY <2>1
  <2> HIDE DEF f, reading
  <2>4. QED
    BY <2>1, <2>2, <2>3
<1>7. Connect(c, mode, d) =
        CASE (c.login \/ ~NeedsLogin) /\ mode = "dir"   -> listing
          [] (c.login \/ ~NeedsLogin) /\ mode = "write" -> writing
          [] (c.login \/ ~NeedsLogin) /\ mode = "read" /\ remote[d] # Absent -> reading
          [] OTHER -> closed
  BY DEF Connect
<1> HIDE DEF closed, listing, writing, reading
<1>8. \/ Connect(c, mode, d) = closed
      \/ mode = "dir" /\ Connect(c, mode, d) = listing
      \/ mode = "write" /\ Connect(c, mode, d) = writing
      \/ mode = "read" /\ remote[d] # Absent /\ Connect(c, mode, d) = reading
  BY <1>7
<1>9. QED
  BY <1>2, <1>3, <1>4, <1>5, <1>6, <1>8

LEMMA OpenEffect ==
  ASSUME CallTypeOK, DeviceInv, NEW mode \in {"read", "write", "dir"}, NEW d \in Dirs,
         NEW o, OpenCall(1, mode, d, o), UNCHANGED status
  PROVE  /\ CallTypeOK' /\ DeviceInv' /\ opened' \in BOOLEAN
         /\ dev'[1].cwd = dev[1].cwd
         /\ opened' =>
              /\ dev'[1].at = 0
              /\ \/ dev'[1].conn = "none" /\ dev'[1].err = "fail" /\ dev'[1].dir = NoDir
                 \/ dev'[1].conn = mode /\ dev'[1].err = "ok" /\ dev'[1].dir = d
              /\ dev'[1].conn = "write" => remote'[d] = <<>>
         /\ missed' = {} => missed = {} /\ o = "done" /\ opened'
<1> DEFINE c == Connect(dev[1], mode, d)
<1>1. dev[1] \in Device /\ dev[1].at + dev[1].ready <= dev[1].total
  BY FirstDevice DEF CallTypeOK
<1>2. o \in {"done"} \cup Faults /\ faults' \in 0..MaxFaults
  BY OutcomeTyped DEF OpenCall
<1>3. /\ missed' \subseteq {"lost", "unheard", "twice", "idle"}
      /\ missed' = {} => missed = {} /\ o = "done"
  BY <1>2, NotedTyped DEF OpenCall
<1>4. opened' = (o # "lost")
  BY DEF OpenCall, Executed
<1>5. CASE o = "lost"
  <2>1. UNCHANGED <<dev, remote>>
    BY <1>5 DEF OpenCall, Executed
  <2>2. QED
    BY <1>2, <1>3, <1>4, <1>5, <2>1 DEF CallTypeOK, DeviceInv
<1>6. CASE o # "lost"
  <2>1. /\ c \in Device /\ c.at + c.ready <= c.total /\ c.cwd = dev[1].cwd
        /\ c.at = 0 /\ c.ready = 0
        /\ \/ c.conn = "none" /\ c.err = "fail" /\ c.dir = NoDir
           \/ c.conn = mode /\ c.err = "ok" /\ c.dir = d
        /\ c.conn = "read" => remote[d] \in Seq(Cells) /\ c.total = Len(remote[d])
    BY <1>1, ConnectEffect
  <2>2. /\ dev' = [dev EXCEPT ![1] = c]
        /\ remote' = IF c.conn = "write" THEN [remote EXCEPT ![d] = <<>>] ELSE remote
    BY <1>6 DEF OpenCall, Executed
  <2> HIDE DEF c
  <2>3. <<>> \in Seq(Cells)
    OBVIOUS
  <2>4. remote' \in [Dirs -> Seq(Cells) \cup {Absent}]
    BY <2>2, <2>3 DEF CallTypeOK
  <2>5. c.conn = "write" => remote'[d] = <<>>
    BY <2>2 DEF CallTypeOK
  <2>6. c.conn = "read" => remote'[d] = remote[d]
    BY <2>2
  <2>7. /\ DeviceInv' /\ dev' \in [Devices -> Device]
        /\ \A n \in Devices : dev'[n].at + dev'[n].ready <= dev'[n].total
    BY <2>1, <2>2, <2>3, <2>5, <2>6, OtherDevices
  <2>8. dev'[1] = c
    BY <2>2, FirstDevice DEF CallTypeOK
  <2>9. CallTypeOK'
    BY <1>2, <1>3, <2>4, <2>7 DEF CallTypeOK
  <2>10. QED
    BY <1>3, <1>4, <1>6, <2>1, <2>5, <2>7, <2>8, <2>9
<1>7. QED
  BY <1>5, <1>6

\* CMD_WRITE.
LEMMA WriteEffect ==
  ASSUME CallTypeOK, DeviceInv, NEW data \in Seq(Cells), NEW o, WriteCall(1, data, o),
         UNCHANGED <<dev, status>>
  PROVE  /\ CallTypeOK' /\ DeviceInv'
         /\ Written(1, o) => /\ dev[1].conn = "write" /\ dev[1].dir \in Dirs
                             /\ remote[dev[1].dir] \in Seq(Cells)
                             /\ remote'[dev[1].dir] = remote[dev[1].dir] \o data
         /\ missed' = {} => missed = {} /\ o = "done"
<1>1. o \in {"done", "lost", "unheard"} /\ o \in {"done"} \cup Faults /\ faults' \in 0..MaxFaults
  BY OutcomeTyped DEF WriteCall, Unlucky
<1>2. /\ missed' \subseteq {"lost", "unheard", "twice", "idle"}
      /\ missed' = {} => missed = {} /\ o = "done"
  BY <1>1, NotedTyped DEF WriteCall
<1>3. CASE ~(dev[1].conn = "write" /\ Executed(o))
  <2>1. UNCHANGED remote /\ ~Written(1, o)
    BY <1>1, <1>3 DEF WriteCall, Written, Executed, Complete
  <2>2. QED
    BY <1>1, <1>2, <2>1 DEF CallTypeOK, DeviceInv
<1>4. CASE dev[1].conn = "write" /\ Executed(o)
  <2>1. dev[1].dir \in Dirs /\ remote[dev[1].dir] \in Seq(Cells)
    BY <1>4, FirstDevice DEF DeviceInv
  <2>2. PICK d \in Dirs : d = dev[1].dir
    BY <2>1
  <2>3. remote' = [remote EXCEPT ![d] = remote[d] \o data]
    BY <1>4, <2>2 DEF WriteCall
  <2>4. remote[d] \o data \in Seq(Cells)
    BY <2>1, <2>2, ConcatProperties
  <2>5. remote' \in [Dirs -> Seq(Cells) \cup {Absent}] /\ remote'[d] = remote[d] \o data
    BY <2>3, <2>4 DEF CallTypeOK
  <2>6. DeviceInv'
    BY <1>4, <2>2, <2>4, <2>5 DEF DeviceInv
  <2>7. CallTypeOK'
    BY <1>1, <1>2, <2>5 DEF CallTypeOK
  <2>8. QED
    BY <1>2, <1>4, <2>1, <2>2, <2>5, <2>6, <2>7
<1>5. QED
  BY <1>3, <1>4

\* CMD_READ of k cells.
LEMMA ListTyped ==
  ASSUME NEW k \in Nat
  PROVE  Contents("list", k) \in Seq(Cells) /\ Len(Contents("list", k)) = k
  BY DEF Contents, Cell, Cells

\* What a read delivers: the next k cells of what the device has open, or the k after
\* them when it was carried out twice, or nothing.
LEMMA DeliveredTyped ==
  ASSUME CallTypeOK, DeviceInv, NEW k \in Nat, NEW o, ReadCall(1, k, o)
  PROVE  LET data == Delivered(1, k, o)
             c == dev[1]
         IN  /\ data \in Seq(Cells)
             /\ CanRead(1, k) /\ Complete(o) <=> data # <<>>
             /\ data # <<>> => c.conn \in {"read", "dir"} /\ Len(data) = k /\ k \in 1..c.ready
             /\ data # <<>> /\ c.conn = "read" /\ o = "done" =>
                  /\ c.at + k \in c.at..Len(remote[c.dir])
                  /\ data = SubSeq(remote[c.dir], c.at + 1, c.at + k)
<1> DEFINE data == Delivered(1, k, o)
           c == dev[1]
           from == c.at + (IF o = "twice" THEN k ELSE 0)
<1>1. c \in Device /\ c.at + c.ready <= c.total
  BY FirstDevice DEF CallTypeOK
<1>2. c.at \in Nat /\ c.ready \in Nat /\ c.total \in Nat
  BY <1>1 DEF Device
<1>3. CASE ~(CanRead(1, k) /\ Complete(o))
  BY <1>3 DEF Delivered
<1>4. CASE CanRead(1, k) /\ Complete(o)
  <2>1. k \in 1..c.ready
    BY <1>4 DEF CanRead
  <2>2. c.conn \in {"read", "dir"}
    BY <1>2, <2>1, FirstDevice DEF DeviceInv
  <2>3. o = "twice" => 2 * k <= c.ready
    <3>1. SUFFICES ASSUME o = "twice" PROVE CanRead(1, 2 * k)
      BY <1>2 DEF CanRead
    <3>2. o \in {"done"} \cup ((IF CanRead(1, 2 * k) THEN Unlucky \cup {"twice"} ELSE Unlucky)
                                \cap Faults)
      BY DEF ReadCall, Outcome
    <3>3. QED
      BY <3>1, <3>2 DEF Unlucky
  <2>4. from \in 0..c.total /\ from + k \in from..c.total /\ (o = "done" => from = c.at)
    <3>1. CASE o = "twice"
      BY <1>1, <1>2, <2>1, <2>3, <3>1
    <3>2. CASE o # "twice"
      BY <1>1, <1>2, <2>1, <3>2
    <3>3. QED
      BY <3>1, <3>2
  <2>5. CASE c.conn = "read"
    <3> HIDE DEF from
    <3>1. remote[c.dir] \in Seq(Cells) /\ Len(remote[c.dir]) = c.total
      BY <2>5, FirstDevice DEF DeviceInv
    <3>2. PICK s \in Seq(Cells) : s = remote[c.dir]
      BY <3>1
    <3>3. SubSeq(s, from + 1, from + k) \in Seq(Cells)
            /\ Len(SubSeq(s, from + 1, from + k)) = from + k - from
      BY <2>4, <3>1, <3>2, SliceType
    <3>4. data = SubSeq(s, from + 1, from + k)
      BY <1>4, <2>5, <3>2 DEF Delivered, from
    <3> HIDE DEF data
    <3>5. Len(data) = k /\ data \in Seq(Cells)
      BY <1>2, <2>4, <3>3, <3>4
    <3>6. data # <<>>
      BY <1>2, <2>1, <3>5
    <3>7. QED
      BY <1>4, <2>1, <2>2, <2>4, <3>1, <3>2, <3>4, <3>5, <3>6 DEF data
  <2>6. CASE c.conn = "dir"
    <3>1. data = Contents("list", k)
      BY <1>4, <2>6 DEF Delivered
    <3>2. data \in Seq(Cells) /\ Len(data) = k
      BY <3>1, ListTyped
    <3>3. data # <<>>
      BY <1>2, <2>1, <3>2
    <3>4. QED
      BY <1>4, <2>1, <2>6, <3>2, <3>3
  <2>7. QED
    BY <2>2, <2>5, <2>6
<1>5. QED
  BY <1>3, <1>4

LEMMA ReadEffect ==
  ASSUME CallTypeOK, DeviceInv, NEW k \in Nat, NEW o, ReadCall(1, k, o),
         UNCHANGED <<remote, status>>
  PROVE  /\ CallTypeOK' /\ DeviceInv'
         /\ dev'[1].conn = dev[1].conn /\ dev'[1].dir = dev[1].dir
         /\ dev'[1].cwd = dev[1].cwd /\ dev'[1].err = dev[1].err
         /\ o \in {"done", "lost", "unheard", "twice"}
         /\ o = "twice" => "twice" \in missed'
         /\ o = "done" /\ CanRead(1, k) => dev'[1].at = dev[1].at + k
         /\ ~CanRead(1, k) => UNCHANGED dev
         /\ missed \subseteq missed'
         /\ missed' = {} => missed = {} /\ o = "done" /\ CanRead(1, k)
<1> DEFINE times == IF o = "twice" THEN 2 ELSE 1
<1>1. dev[1] \in Device /\ dev[1].at + dev[1].ready <= dev[1].total
  BY FirstDevice DEF CallTypeOK
<1>2. dev[1].at \in Nat /\ dev[1].ready \in Nat /\ dev[1].total \in Nat
  BY <1>1 DEF Device
<1>3. /\ o \in {"done", "lost", "unheard"} \/ (o = "twice" /\ CanRead(1, 2 * k))
      /\ o \in {"done"} \cup Faults /\ faults' \in 0..MaxFaults
  BY OutcomeTyped DEF ReadCall, Unlucky
<1>4. /\ missed' \subseteq {"lost", "unheard", "twice", "idle"}
      /\ missed' = {} => missed = {} /\ o = "done" /\ CanRead(1, k)
      /\ missed \subseteq missed' /\ (o = "twice" => "twice" \in missed')
  BY <1>3 DEF ReadCall, CallTypeOK
<1>5. CASE ~(CanRead(1, k) /\ Executed(o))
  <2>1. UNCHANGED dev /\ o # "twice"
    BY <1>2, <1>3, <1>5 DEF ReadCall, CanRead, Executed
  <2>2. QED
    BY <1>3, <1>4, <1>5, <2>1 DEF CallTypeOK, DeviceInv, Executed
<1>6. CASE CanRead(1, k) /\ Executed(o)
  <2>1. times * k \in 0..dev[1].ready /\ (o = "done" => times * k = k)
    BY <1>2, <1>3, <1>6 DEF CanRead
  <2>2. PICK m \in 0..dev[1].ready : m = times * k
    BY <2>1
  <2> DEFINE c == [dev[1] EXCEPT !.at = dev[1].at + m, !.ready = dev[1].ready - m]
  <2>3. dev' = [dev EXCEPT ![1] = c]
    BY <1>6, <2>2 DEF ReadCall
  <2>4. dev[1].at + m \in Nat /\ dev[1].ready - m \in Nat
          /\ (dev[1].at + m) + (dev[1].ready - m) <= dev[1].total
          /\ (dev[1].ready = 0 => dev[1].ready - m = 0)
    BY <1>1, <1>2
  <2>5. /\ c \in Device /\ c.at + c.ready <= c.total /\ c.conn = dev[1].conn
        /\ c.dir = dev[1].dir /\ c.total = dev[1].total /\ c.cwd = dev[1].cwd
        /\ c.err = dev[1].err /\ c.at = dev[1].at + m
        /\ dev[1].ready = 0 => c.ready = 0
    BY <1>1, <2>4 DEF Device
  <2> HIDE DEF c
  <2>6. /\ DeviceInv' /\ dev' \in [Devices -> Device]
        /\ \A n \in Devices : dev'[n].at + dev'[n].ready <= dev'[n].total
    BY <2>3, <2>5, OtherDevices, FirstDevice DEF DeviceInv
  <2>7. dev'[1] = c
    BY <2>3, FirstDevice DEF CallTypeOK
  <2>8. CallTypeOK'
    BY <1>3, <1>4, <2>6 DEF CallTypeOK
  <2>9. /\ dev'[1].conn = dev[1].conn /\ dev'[1].dir = dev[1].dir
        /\ dev'[1].cwd = dev[1].cwd /\ dev'[1].err = dev[1].err
        /\ o = "done" => dev'[1].at = dev[1].at + k
    BY <2>1, <2>2, <2>5, <2>7
  <2>10. QED
    BY <1>3, <1>4, <1>6, <2>6, <2>8, <2>9
<1>7. QED
  BY <1>5, <1>6

\* What fwrite stores is the beginning of what it is given, and fits.
LEMMA StoredTyped ==
  ASSUME NetTypeOK, NEW data \in Seq(Cells)
  PROVE  /\ Stored(data) \in Seq(Cells)
         /\ local \o Stored(data) \in Seq(Cells) /\ Len(local \o Stored(data)) <= room
         /\ \E j \in 0..Len(data) : Stored(data) = SubSeq(data, 1, j)
<1> DEFINE j == IF Len(data) < room - Len(local) THEN Len(data) ELSE room - Len(local)
<1>1. /\ Len(data) \in Nat /\ Len(local) \in Nat /\ room \in Nat /\ Len(local) <= room
      /\ local \in Seq(Cells)
  BY LengthsAssumption, LenProperties DEF NetTypeOK
<1>2. j \in 0..Len(data) /\ Len(local) + j <= room
  BY <1>1
<1> HIDE DEF j
<1>3. SubSeq(data, 1, j) \in Seq(Cells) /\ Len(SubSeq(data, 1, j)) = j
  BY <1>2, TakeType
<1>4. Stored(data) = SubSeq(data, 1, j)
  BY DEF Stored, j
<1>5. local \o Stored(data) \in Seq(Cells)
        /\ Len(local \o Stored(data)) = Len(local) + Len(Stored(data))
  BY <1>1, <1>3, <1>4, ConcatProperties
<1>6. QED
  BY <1>1, <1>2, <1>3, <1>4, <1>5

----------------------------------------------------------------------------
(* The handles of ncopy.                                                   *)

\* Which command can have come where, and what it has in its buffer.
JobInv ==
  /\ pc \in {"off", "start", "password", "give_up"} => job = "url"
  /\ pc = "find" => job \in {"dir", "get", "put"}
  /\ pc \in {"open", "opened"} => job # "cd"
  /\ pc \in {"ask", "fetch"} => job \in {"dir", "get"}
  /\ pc = "send" => job = "put"
  /\ pc \in {"chdir", "changed"} => job \in {"cd", "url"}
  /\ pc = "close" => job # "cd"
  /\ job = "cd" => Len(buf) = 1 /\ buf[1] \in Dirs
  /\ job = "put" => buf \in Seq(Cells)
  /\ job # "cd" /\ job # "put" => buf = <<>>

\* ncopy has a file or a directory open.
Busy ==
  \/ pc \in {"open", "opened", "ask", "fetch", "send", "close"}
  \/ pc \in {"chdir", "changed"} /\ job = "url"

\* The first handle is the only one that is ever taken: it is the host's, and that of
\* every file.
HandleInv ==
  /\ \A h \in Devices : hnd[h].is_open <=> (h = 1 /\ Busy)
  /\ Busy => handle = 1
  /\ host = IF \/ pc \in {"off", "start", "password", "give_up"}
               \/ pc \in {"open", "opened"} /\ job = "url"
            THEN NoHandle ELSE 1

\* fujifs_find_handle finds the first handle when none is taken.
LEMMA FindsFirst ==
  ASSUME \A h \in Devices : ~hnd[h].is_open
  PROVE  fujifs_find_handle = 1
<1> DEFINE P(h) == h \in Devices /\ ~hnd[h].is_open /\ \A g \in Devices : g < h => hnd[g].is_open
<1>1. P(1)
  BY FirstDevice DEF Devices
<1>2. fujifs_find_handle = CHOOSE h : P(h)
  BY DEF fujifs_find_handle
<1>3. P(CHOOSE h : P(h))
  BY <1>1
<1>4. P(fujifs_find_handle)
  BY <1>2, <1>3
<1>5. QED
  BY <1>4, FirstDevice DEF Devices

LEMMA ReleasedTyped ==
  ASSUME NEW h \in Devices, hnd \in [Devices -> Handle]
  PROVE  /\ Released(h) \in [Devices -> Handle]
         /\ \A g \in Devices : Released(h)[g].is_open <=> (g # h /\ hnd[g].is_open)
  BY DEF Released, Handle

LEMMA OrphanedTyped ==
  ASSUME NEW h \in Devices, hnd \in [Devices -> Handle]
  PROVE  /\ Orphaned(h) \in [Devices -> Handle]
         /\ \A g \in Devices : Orphaned(h)[g].is_open = hnd[g].is_open
<1>1. ASSUME NEW g \in Devices
      PROVE  Orphaned(h)[g] \in Handle /\ Orphaned(h)[g].is_open = hnd[g].is_open
  <2>1. hnd[g] \in Handle
    OBVIOUS
  <2>2. Orphaned(h)[g] \in {[hnd[g] EXCEPT !.parent = h], [hnd[g] EXCEPT !.parent = NoHandle],
                           hnd[g]}
    BY DEF Orphaned
  <2>3. QED
    BY <2>1, <2>2 DEF Handle
<1>2. Orphaned(h) = [g \in Devices |-> Orphaned(h)[g]]
  BY DEF Orphaned
<1>3. QED
  BY <1>1, <1>2

\* The table of a program that starts or has gone.
LEMMA NoneOpen ==
  /\ [h \in Devices |-> FreeHandle] \in [Devices -> Handle]
  /\ \A h \in Devices : ~[g \in Devices |-> FreeHandle][h].is_open
  BY DEF FreeHandle, Handle

\* What the parts of ncopy that know nothing of the line keep.
Control == NcopyTypeOK /\ JobInv /\ HandleInv

LEMMA ControlFrame ==
  ASSUME Control, UNCHANGED ncopyVars
  PROVE  Control'
  BY DEF Control, NcopyTypeOK, JobInv, HandleInv, Busy, ncopyVars

LEMMA ControlLeave == ASSUME Control, Leave PROVE Control'
<1>1. hnd' \in [Devices -> Handle] /\ \A h \in Devices : ~hnd'[h].is_open
  BY NoneOpen DEF Leave
<1>2. Url \in Dirs /\ <<>> \in Seq(Cells)
  BY BufAssumption
<1>3. QED
  BY <1>1, <1>2 DEF Leave, Control, NcopyTypeOK, JobInv, HandleInv, Busy

LEMMA ControlOpenUrl ==
  ASSUME Control, pc \in {"start", "password"}, message' \in BOOLEAN, NEW user \in BOOLEAN,
         hnd' = [hnd EXCEPT ![fujifs_find_handle].user = user,
                            ![fujifs_find_handle].is_open = TRUE],
         handle' = fujifs_find_handle, pc' = "open",
         UNCHANGED <<job, buf, host, typed, where>>
  PROVE  Control'
<1>1. fujifs_find_handle = 1
  BY FindsFirst DEF Control, HandleInv, Busy
<1>2. hnd[1] \in Handle /\ hnd \in [Devices -> Handle]
  BY FirstDevice DEF Control, NcopyTypeOK
<1>3. hnd' = [hnd EXCEPT ![1].user = user, ![1].is_open = TRUE]
  BY <1>1
<1>4. /\ DOMAIN hnd' = Devices /\ hnd' = [h \in Devices |-> hnd'[h]]
      /\ \A h \in Devices : h # 1 => hnd'[h] = hnd[h]
  BY <1>2, <1>3
<1> DEFINE r == [hnd[1] EXCEPT !.user = user]
<1>5. hnd'[1] = [r EXCEPT !.is_open = TRUE]
  BY <1>2, <1>3, FirstDevice
<1>6. r \in Handle
  BY <1>2 DEF Handle
<1> HIDE DEF r
<1>7. hnd'[1] \in Handle /\ hnd'[1].is_open = TRUE
  BY <1>5, <1>6 DEF Handle
<1>8. /\ hnd' \in [Devices -> Handle]
      /\ \A h \in Devices : hnd'[h].is_open <=> (h = 1 \/ hnd[h].is_open)
  BY <1>2, <1>4, <1>7
<1>9. QED
  BY <1>1, <1>8, FirstDevice DEF Control, NcopyTypeOK, JobInv, HandleInv, Busy

LEMMA ControlBegin ==
  ASSUME Control, NetTypeOK, Dir \/ Get \/ PutFile \/ \E d \in Dirs : Cd(d)
  PROVE  Control'
<1>1. typed' \in 0..MaxCommands
  BY BufAssumption DEF Control, NcopyTypeOK, Dir, Get, PutFile, Cd, Begin
<1>2. /\ buf' \in Seq(Cells) \cup {<<d>> : d \in Dirs}
      /\ job' = "cd" => Len(buf') = 1 /\ buf'[1] \in Dirs
      /\ job' = "put" => buf' \in Seq(Cells)
      /\ job' # "cd" /\ job' # "put" => buf' = <<>>
  <2>1. CASE Dir \/ Get
    <3>1. buf' = <<>> /\ job' \in {"dir", "get"}
      BY <2>1 DEF Dir, Get, Begin
    <3>2. <<>> \in Seq(Cells)
      OBVIOUS
    <3>3. QED
      BY <3>1, <3>2
  <2>2. CASE PutFile
    BY <2>2 DEF NetTypeOK, PutFile, Begin
  <2>3. ASSUME NEW d \in Dirs, Cd(d)
        PROVE  buf' = <<d>> /\ job' = "cd"
    BY <2>3 DEF Cd, Begin
  <2>4. QED
    BY <2>1, <2>2, <2>3
<1>3. QED
  BY <1>1, <1>2 DEF Dir, Get, PutFile, Cd, Begin, Control, NcopyTypeOK, JobInv, HandleInv, Busy

LEMMA ControlFindHandle ==
  ASSUME Control, NEW o, FindHandle(o)
  PROVE  Control'
<1>1. fujifs_find_handle = 1 /\ host = 1 /\ pc = "find"
  BY FindsFirst DEF Control, HandleInv, Busy, FindHandle
<1> DEFINE ask == hnd[host].user /\ (~hnd[1].did_auth \/ host # hnd[1].parent)
<1>2. hnd' = [hnd EXCEPT ![1].is_open = TRUE, ![1].parent = host, ![1].did_auth = @ \/ ask]
  BY <1>1 DEF FindHandle
<1>3. ask \in BOOLEAN
  BY <1>1, FirstDevice DEF Control, NcopyTypeOK, Handle
<1> HIDE DEF ask
<1>4. hnd[1] \in Handle /\ (hnd[1].did_auth \/ ask) \in BOOLEAN
  BY <1>3, FirstDevice DEF Control, NcopyTypeOK, Handle
<1>5. /\ hnd' \in [Devices -> Handle]
      /\ \A h \in Devices : hnd'[h].is_open <=> (h = 1 \/ hnd[h].is_open)
  BY <1>1, <1>2, <1>4, FirstDevice DEF Control, NcopyTypeOK, Handle
<1>6. handle' = 1
  BY <1>1 DEF FindHandle
<1>7. QED
  BY <1>1, <1>5, <1>6, FirstDevice DEF FindHandle, Control, NcopyTypeOK, JobInv, HandleInv, Busy

LEMMA ControlOpen == ASSUME Control, NEW o, Open(o) PROVE Control'
  BY DEF Open, Control, NcopyTypeOK, JobInv, HandleInv, Busy

LEMMA ControlOpened ==
  ASSUME Control, NEW o, Opened(o)
  PROVE  Control'
<1>1. handle = 1 /\ hnd \in [Devices -> Handle] /\ pc = "opened"
  BY DEF Opened, Control, NcopyTypeOK, HandleInv, Busy
<1>2. /\ Released(1) \in [Devices -> Handle]
      /\ \A g \in Devices : Released(1)[g].is_open <=> (g # 1 /\ hnd[g].is_open)
  BY <1>1, ReleasedTyped, FirstDevice
<1>3. UNCHANGED <<job, buf, handle, typed, where>>
  BY DEF Opened
<1>4. CASE Refused(status')
  <2>1. /\ hnd' = Released(1) /\ UNCHANGED host
        /\ pc' = CASE job # "url"             -> "prompt"
                   [] job = "url" /\ message  -> "give_up"
                   [] job = "url" /\ ~message -> "password"
        /\ message' = (job # "url" \/ message)
    BY <1>1, <1>4 DEF Opened, Forgotten
  <2>2. message \in BOOLEAN
    BY DEF Control, NcopyTypeOK
  <2>3. pc' \in {"prompt", "give_up", "password"} /\ (pc' = "prompt" <=> job # "url")
          /\ message' \in BOOLEAN
    BY <2>1, <2>2
  <2>4. QED
    BY <1>1, <1>2, <1>3, <2>1, <2>3, FirstDevice DEF Control, NcopyTypeOK, JobInv, HandleInv, Busy
<1>5. CASE ~Refused(status')
  <2>1. /\ pc' = CASE job = "url" -> "chdir" [] job = "put" -> "send" [] OTHER -> "ask"
        /\ host' = IF job = "url" THEN handle ELSE host
        /\ UNCHANGED <<hnd, message>>
    BY <1>5 DEF Opened
  <2>2. \/ job = "url" /\ pc' = "chdir"
        \/ job = "put" /\ pc' = "send"
        \/ job \notin {"url", "put"} /\ pc' = "ask"
    BY <2>1
  <2>3. QED
    BY <1>1, <1>3, <2>1, <2>2, FirstDevice DEF Control, NcopyTypeOK, JobInv, HandleInv, Busy
<1>6. QED
  BY <1>4, <1>5

LEMMA ControlClose == ASSUME Control, NEW o, Close(o) PROVE Control'
<1>1. handle = 1 /\ hnd \in [Devices -> Handle] /\ hnd' = Released(1)
  BY DEF Close, Control, NcopyTypeOK, HandleInv, Busy
<1>2. /\ hnd' \in [Devices -> Handle]
      /\ \A g \in Devices : hnd'[g].is_open <=> (g # 1 /\ hnd[g].is_open)
  BY <1>1, ReleasedTyped, FirstDevice
<1>3. QED
  BY <1>1, <1>2 DEF Close, Control, NcopyTypeOK, JobInv, HandleInv, Busy

LEMMA TargetTyped == ASSUME Control, pc \in {"chdir", "changed"} PROVE Target \in Dirs
  BY BufAssumption DEF Control, JobInv, Target

LEMMA ControlChdir ==
  ASSUME Control, NEW o, NEW there \in BOOLEAN, Chdir(o, there)
  PROVE  Control'
  BY DEF Chdir, Control, NcopyTypeOK, JobInv, HandleInv, Busy

LEMMA ControlChanged ==
  ASSUME Control, CallTypeOK, NEW o, Changed(o)
  PROVE  Control'
<1>1. pc = "changed" /\ host = 1 /\ Target \in Dirs
  BY TargetTyped DEF Changed, Control, HandleInv
<1>2. job \in {"cd", "url"} /\ where \in Dirs /\ message \in BOOLEAN
  BY <1>1 DEF Control, JobInv, NcopyTypeOK
<1>3. where' \in Dirs
  <2>1. where' \in {Target, where}
    BY DEF Changed
  <2>2. QED
    BY <1>1, <1>2, <2>1
<1>4. message' \in BOOLEAN
  BY <1>2 DEF Changed, PathDone
<1>5. /\ hnd' \in [Devices -> Handle]
      /\ \A g \in Devices : hnd'[g].is_open = hnd[g].is_open
  BY <1>1, OrphanedTyped, FirstDevice DEF Changed, Control, NcopyTypeOK
<1>6. UNCHANGED <<job, buf, host, handle, typed>> /\ pc' = IF job = "url" THEN "close" ELSE "prompt"
  BY DEF Changed
<1>7. QED
  BY <1>1, <1>2, <1>3, <1>4, <1>5, <1>6 DEF Control, NcopyTypeOK, JobInv, HandleInv, Busy

LEMMA ControlAsk == ASSUME Control, NEW o, Ask(o) PROVE Control'
<1>1. pc' \in {"close", "fetch"} /\ pc = "ask"
  BY DEF Ask
<1>2. UNCHANGED <<job, buf, hnd, host, handle, message, typed, where>>
  BY DEF Ask
<1>3. QED
  BY <1>1, <1>2 DEF Control, NcopyTypeOK, JobInv, HandleInv, Busy

LEMMA ControlFetch == ASSUME Control, NEW o, Fetch(o) PROVE Control'
<1>1. pc' \in {"close", "ask"} /\ pc = "fetch" /\ message' \in BOOLEAN
  BY DEF Fetch, Full
<1>2. UNCHANGED <<job, buf, hnd, host, handle, typed, where>>
  BY DEF Fetch
<1>3. QED
  BY <1>1, <1>2 DEF Control, NcopyTypeOK, JobInv, HandleInv, Busy

LEMMA ControlSend == ASSUME Control, NEW o, Send(o) \/ Sent PROVE Control'
<1>1. CASE Sent
  BY <1>1 DEF Sent, Control, NcopyTypeOK, JobInv, HandleInv, Busy
<1>2. CASE Send(o)
  <2> DEFINE n == IF Len(buf) < BUF THEN Len(buf) ELSE BUF
  <2>1. pc = "send" /\ job = "put" /\ buf \in Seq(Cells) /\ Len(buf) \in Nat
    BY <1>2, LenProperties DEF Send, Control, JobInv
  <2>2. n \in 0..Len(buf)
    BY <2>1, BufAssumption
  <2>3. buf' = SubSeq(buf, n + 1, Len(buf)) /\ pc' \in {"close", "send"} /\ message' \in BOOLEAN
          /\ UNCHANGED <<job, hnd, host, handle, typed, where>>
    BY <1>2 DEF Send, Short, Written
  <2> HIDE DEF n
  <2>4. buf' \in Seq(Cells)
    BY <2>1, <2>2, <2>3, DropType
  <2>5. QED
    BY <2>1, <2>3, <2>4 DEF Control, NcopyTypeOK, JobInv, HandleInv, Busy
<1>3. QED
  BY <1>1, <1>2

\* Every step of a program keeps the handles in order.
LEMMA ControlStep ==
  ASSUME Control, NetTypeOK, [Next]_vars
  PROVE  Control'
<1>1. CASE UNCHANGED ncopyVars
  BY <1>1, ControlFrame
<1>2. CASE LaunchNcopy
  BY <1>2 DEF LaunchNcopy, Launch, NoProgram, Control, NcopyTypeOK, JobInv, HandleInv, Busy
<1>3. CASE Command
  BY <1>3, ControlBegin, ControlLeave DEF Command, Exit
<1>4. CASE NcopyStep
  <2>1. CASE GiveUp
    BY <2>1, ControlLeave DEF GiveUp
  <2>2. CASE Sent
    BY <2>2, ControlSend
  <2>3. ASSUME NEW o \in {"done"} \cup Faults, Start(o) \/ AskPassword(o)
        PROVE  Control'
    <3>1. CASE Start(o)
      <4>1. message' \in BOOLEAN
        BY <3>1 DEF Start, Control, NcopyTypeOK
      <4>2. /\ pc \in {"start", "password"}
            /\ hnd' = [hnd EXCEPT ![fujifs_find_handle].user = FALSE,
                                  ![fujifs_find_handle].is_open = TRUE]
            /\ handle' = fujifs_find_handle /\ pc' = "open"
            /\ UNCHANGED <<job, buf, host, typed, where>>
        BY <3>1, Zenon DEF Start, OpenUrl
      <4>3. QED
        BY <4>1, <4>2, ControlOpenUrl
    <3>2. CASE AskPassword(o)
      <4>1. message' \in BOOLEAN
        BY <3>2 DEF AskPassword
      <4>2. /\ pc \in {"start", "password"}
            /\ hnd' = [hnd EXCEPT ![fujifs_find_handle].user = TRUE,
                                  ![fujifs_find_handle].is_open = TRUE]
            /\ handle' = fujifs_find_handle /\ pc' = "open"
            /\ UNCHANGED <<job, buf, host, typed, where>>
        BY <3>2, Zenon DEF AskPassword, OpenUrl
      <4>3. QED
        BY <4>1, <4>2, ControlOpenUrl
    <3>3. QED
      BY <2>3, <3>1, <3>2
  <2>4. ASSUME NEW o \in {"done"} \cup Faults,
               FindHandle(o) \/ Open(o) \/ Opened(o) \/ Close(o) \/ Changed(o) \/ Ask(o)
                 \/ Fetch(o) \/ Send(o)
        PROVE  Control'
    BY <2>4, ControlFindHandle, ControlOpen, ControlOpened, ControlClose, ControlChanged,
       ControlAsk, ControlFetch, ControlSend DEF NetTypeOK
  <2>5. ASSUME NEW o \in {"done"} \cup Faults, NEW there \in BOOLEAN, Chdir(o, there)
        PROVE  Control'
    BY <2>5, ControlChdir
  <2>6. QED
    BY <1>4, <2>1, <2>2, <2>3, <2>4, <2>5 DEF NcopyStep
<1>5. QED
  BY <1>1, <1>2, <1>3, <1>4
  DEF Next, Programs, Reset, Finished, LaunchNput, LaunchNget, vars, ncopyVars

----------------------------------------------------------------------------
(* Types, and what the devices have open.                                  *)

NetOK == NetTypeOK /\ DeviceInv

LEMMA NetFrame ==
  ASSUME NetOK, UNCHANGED <<remote, room, dev, faults>>,
         opened' \in BOOLEAN, missed' = missed \/ missed' = {},
         status' = status \/ status' = NoStatus,
         local' = local \/ local' = <<>>
  PROVE  NetOK'
<1>1. local' \in Seq(Cells) /\ Len(local') <= room
  <2>1. CASE local' = local
    BY <2>1 DEF NetOK, NetTypeOK
  <2>2. CASE local' = <<>>
    <3>1. <<>> \in Seq(Cells) /\ Len(<<>>) = 0 /\ room \in Nat
      BY LengthsAssumption, EmptySeq DEF NetOK, NetTypeOK
    <3>2. QED
      BY <2>2, <3>1
  <2>3. QED
    BY <2>1, <2>2
<1>2. status' \in [length : Nat, errcode : Errcodes]
  BY DEF NetOK, NetTypeOK, CallTypeOK, NoStatus, Errcodes
<1>3. missed' \subseteq {"lost", "unheard", "twice", "idle"}
  BY DEF NetOK, NetTypeOK, CallTypeOK
<1>4. QED
  BY <1>1, <1>2, <1>3 DEF NetOK, NetTypeOK, CallTypeOK, DeviceInv

\* A call by itself, with the local disk left alone.
LEMMA NetCall ==
  ASSUME NetOK, CallTypeOK', DeviceInv', opened' \in BOOLEAN, UNCHANGED <<local, room>>
  PROVE  NetOK'
  BY DEF NetOK, NetTypeOK

LEMMA NetNcopy ==
  ASSUME NetOK, Control, NEW o \in {"done"} \cup Faults, NEW there \in BOOLEAN,
         \/ Start(o) \/ AskPassword(o) \/ FindHandle(o) \/ Open(o) \/ Opened(o) \/ Close(o)
         \/ Changed(o) \/ Ask(o) \/ Fetch(o) \/ Send(o) \/ Chdir(o, there)
  PROVE  NetOK'
<1>1. CallTypeOK /\ DeviceInv /\ opened \in BOOLEAN /\ local \in Seq(Cells)
  BY DEF NetOK, NetTypeOK
<1>2. ASSUME Start(o) \/ AskPassword(o) PROVE NetOK'
  <2>1. fujifs_find_handle = 1
    BY <1>2, FindsFirst DEF Control, HandleInv, Busy, Start, AskPassword
  <2>2. (LoginCall(1, FALSE, o) \/ LoginCall(1, TRUE, o))
          /\ UNCHANGED <<remote, local, room, status, missed, opened>>
    BY <1>2, <2>1 DEF Start, AskPassword, OpenUrl
  <2>3. CallTypeOK' /\ DeviceInv'
    BY <1>1, <2>2, LoginEffect
  <2>4. QED
    BY <1>1, <2>2, <2>3, NetCall
<1>3. CASE FindHandle(o)
  <2>1. fujifs_find_handle = 1
    BY <1>3, FindsFirst DEF Control, HandleInv, Busy, FindHandle
  <2>2. (LoginCall(1, TRUE, o) \/ UNCHANGED <<dev, faults>>)
          /\ UNCHANGED <<remote, local, room, status, missed, opened>>
    BY <1>3, <2>1 DEF FindHandle
  <2>3. CASE UNCHANGED <<dev, faults>>
    BY <1>1, <2>2, <2>3, NetFrame
  <2>4. CASE LoginCall(1, TRUE, o)
    <3>1. CallTypeOK' /\ DeviceInv'
      BY <1>1, <2>2, <2>4, LoginEffect
    <3>2. QED
      BY <1>1, <2>2, <3>1, NetCall
  <2>5. QED
    BY <2>2, <2>3, <2>4
<1>4. CASE Open(o)
  <2>1. handle = 1 /\ job # "cd" /\ job \in {"url", "dir", "get", "put", "cd"}
    BY <1>4 DEF Control, HandleInv, Busy, JobInv, NcopyTypeOK, Open
  <2>2. Mode \in {"read", "write", "dir"}
    BY <2>1 DEF Mode
  <2>3. (IF job = "url" THEN Url ELSE dev[handle].cwd) \in Dirs
    BY <1>1, <2>1, BufAssumption, FirstDevice DEF CallTypeOK, Device
  <2>4. OpenCall(1, Mode, IF job = "url" THEN Url ELSE dev[handle].cwd, o)
          /\ UNCHANGED <<local, room, status>>
    BY <1>4, <2>1 DEF Open
  <2>5. CallTypeOK' /\ DeviceInv' /\ opened' \in BOOLEAN
    BY <1>1, <2>2, <2>3, <2>4, OpenEffect
  <2>6. QED
    BY <2>4, <2>5, NetCall
<1>5. CASE Opened(o) \/ Ask(o) \/ Changed(o)
  <2>1. handle = 1 \/ Changed(o)
    BY <1>5 DEF Control, HandleInv, Busy, Opened, Ask
  <2>2. host = 1 \/ Opened(o) \/ Ask(o)
    BY <1>5 DEF Control, HandleInv, Changed
  <2>3. StatusCall(1, o) /\ UNCHANGED <<remote, local, room, opened>>
    BY <1>5, <2>1, <2>2 DEF Opened, Ask, Changed
  <2>4. CallTypeOK' /\ DeviceInv'
    BY <1>1, <2>3, StatusEffect
  <2>5. QED
    BY <1>1, <2>3, <2>4, NetCall
<1>6. CASE Close(o)
  <2>1. CloseCall(1, o) /\ UNCHANGED <<remote, local, room, status, opened>>
    BY <1>6 DEF Control, HandleInv, Busy, Close
  <2>2. CallTypeOK' /\ DeviceInv'
    BY <1>1, <2>1, CloseEffect
  <2>3. QED
    BY <1>1, <2>1, <2>2, NetCall
<1>7. CASE Chdir(o, there)
  <2>1. host = 1 /\ Target \in Dirs
    BY <1>7, TargetTyped DEF Control, HandleInv, Chdir
  <2>2. ChdirCall(1, Target, there, o) /\ UNCHANGED <<remote, local, room, status, opened>>
    BY <1>7, <2>1 DEF Chdir
  <2>3. CallTypeOK' /\ DeviceInv'
    BY <1>1, <2>1, <2>2, ChdirEffect
  <2>4. QED
    BY <1>1, <2>2, <2>3, NetCall
<1>8. CASE Fetch(o)
  <2>1. ReadLength \in Nat
    BY <1>1, BufAssumption DEF ReadLength, CallTypeOK
  <2>2. handle = 1
    BY <1>8 DEF Control, HandleInv, Busy, Fetch
  <2>3. ReadCall(1, ReadLength, o) /\ UNCHANGED <<remote, room, status, opened>>
          /\ local' \in {local, local \o Stored(Delivered(1, ReadLength, o))}
    BY <1>8, <2>2 DEF Fetch
  <2>4. CallTypeOK' /\ DeviceInv'
    BY <1>1, <2>1, <2>3, ReadEffect
  <2>5. Delivered(1, ReadLength, o) \in Seq(Cells)
    BY <1>1, <2>1, <2>3, DeliveredTyped
  <2>6. local' \in Seq(Cells) /\ Len(local') <= room
    BY <2>3, <2>5, StoredTyped DEF NetOK, NetTypeOK
  <2>7. QED
    BY <1>1, <2>3, <2>4, <2>6 DEF NetOK, NetTypeOK
<1>9. CASE Send(o)
  <2> DEFINE n == IF Len(buf) < BUF THEN Len(buf) ELSE BUF
  <2>1. handle = 1 /\ buf \in Seq(Cells) /\ Len(buf) \in Nat
    BY <1>9, LenProperties DEF Send, Control, JobInv, HandleInv, Busy
  <2>2. n \in 0..Len(buf)
    BY <2>1, BufAssumption
  <2>3. WriteCall(1, SubSeq(buf, 1, n), o) /\ UNCHANGED <<local, room, dev, status, opened>>
    BY <1>9, <2>1 DEF Send
  <2> HIDE DEF n
  <2>4. SubSeq(buf, 1, n) \in Seq(Cells)
    BY <2>1, <2>2, TakeType
  <2>5. CallTypeOK' /\ DeviceInv'
    BY <1>1, <2>3, <2>4, WriteEffect
  <2>6. QED
    BY <1>1, <2>3, <2>5, NetCall
<1>10. QED
  BY <1>2, <1>3, <1>4, <1>5, <1>6, <1>7, <1>8, <1>9

LEMMA NetNget ==
  ASSUME NetOK, NgetTypeOK, NEW o \in {"done"} \cup Faults,
         \/ NgetOpen(o) /\ src \in Dirs
         \/ NgetOpened(o) \/ NgetRead(o) \/ NgetStatus(o) \/ NgetClose(o)
         \/ NgetLogin(TRUE, o) \/ NgetLogin(FALSE, o)
  PROVE  NetOK'
<1>1. CallTypeOK /\ DeviceInv /\ opened \in BOOLEAN /\ local \in Seq(Cells) /\ N1 = 1
  BY FirstDevice DEF NetOK, NetTypeOK
<1>2. CASE NgetLogin(TRUE, o) \/ NgetLogin(FALSE, o)
  <2>1. (LoginCall(1, TRUE, o) \/ UNCHANGED <<dev, faults>>)
          /\ UNCHANGED <<remote, local, room, status, missed, opened>>
    BY <1>1, <1>2 DEF NgetLogin
  <2>2. CASE UNCHANGED <<dev, faults>>
    BY <1>1, <2>1, <2>2, NetFrame
  <2>3. CASE LoginCall(1, TRUE, o)
    <3>1. CallTypeOK' /\ DeviceInv'
      BY <1>1, <2>1, <2>3, LoginEffect
    <3>2. QED
      BY <1>1, <2>1, <3>1, NetCall
  <2>4. QED
    BY <2>1, <2>2, <2>3
<1>3. CASE NgetOpen(o) /\ src \in Dirs
  <2>1. OpenCall(1, "read", src, o) /\ UNCHANGED <<local, room, status>>
    BY <1>1, <1>3 DEF NgetOpen
  <2>2. CallTypeOK' /\ DeviceInv' /\ opened' \in BOOLEAN
    BY <1>1, <1>3, <2>1, OpenEffect
  <2>3. QED
    BY <2>1, <2>2, NetCall
<1>4. CASE NgetOpened(o) \/ NgetStatus(o)
  <2>1. StatusCall(1, o) /\ UNCHANGED <<remote, local, room, opened>>
    BY <1>1, <1>4 DEF NgetOpened, NgetStatus
  <2>2. CallTypeOK' /\ DeviceInv'
    BY <1>1, <2>1, StatusEffect
  <2>3. QED
    BY <1>1, <2>1, <2>2, NetCall
<1>5. CASE NgetClose(o)
  <2>1. CloseCall(1, o) /\ UNCHANGED <<remote, local, room, status, opened>>
    BY <1>1, <1>5 DEF NgetClose
  <2>2. CallTypeOK' /\ DeviceInv'
    BY <1>1, <2>1, CloseEffect
  <2>3. QED
    BY <1>1, <2>1, <2>2, NetCall
<1>6. CASE NgetRead(o)
  <2>1. BytesWaiting \in Nat
    <3>1. NBUF \in Nat
      BY NgetAssumption
    <3>2. status.length \in Nat
      BY <1>1 DEF CallTypeOK
    <3>3. QED
      BY <3>1, <3>2 DEF BytesWaiting
  <2>2. ReadCall(1, BytesWaiting, o) /\ UNCHANGED <<remote, room, status, opened>>
          /\ local' = local \o Stored(Delivered(1, BytesWaiting, o))
    BY <1>1, <1>6 DEF NgetRead, Chunk
  <2>3. CallTypeOK' /\ DeviceInv'
    BY <1>1, <2>1, <2>2, ReadEffect
  <2>4. Delivered(1, BytesWaiting, o) \in Seq(Cells)
    BY <1>1, <2>1, <2>2, DeliveredTyped
  <2>5. local' \in Seq(Cells) /\ Len(local') <= room
    BY <2>2, <2>4, StoredTyped DEF NetOK, NetTypeOK
  <2>6. QED
    BY <1>1, <2>2, <2>3, <2>5 DEF NetOK, NetTypeOK
<1>7. QED
  BY <1>2, <1>3, <1>4, <1>5, <1>6

\* Where nget and nput are, and which of them.
ProgInv ==
  /\ npc \in {"login", "open", "opened", "loop", "next", "spin"} =>
       src \in Dirs /\ prog = "nget" /\ code = "zero"
  /\ npc \in {"nput_open", "nput_loop"} => prog = "nput"
  /\ npc = "off" => code = "zero" /\ ~full

\* The types of everything, and one program at a time.
Typed ==
  /\ NetOK /\ Control /\ NgetTypeOK /\ ProgInv /\ runs \in 0..MaxRuns
  /\ pc # "off" => npc = "off"

LEMMA NgetTyped ==
  ASSUME NetOK, NgetTypeOK, ProgInv,
         \/ NgetStep \/ Reset \/ LaunchNput \/ \E d \in Dirs : LaunchNget(d)
         \/ UNCHANGED ngetVars
  PROVE  NgetTypeOK' /\ ProgInv'
<1>1. CASE UNCHANGED ngetVars
  BY <1>1 DEF ngetVars, NgetTypeOK, ProgInv
<1>2. CASE Reset \/ NgetExit
  <2>1. <<>> \in Seq(Cells)
    OBVIOUS
  <2>2. npc' = "off" /\ src' = NoDir /\ rest' = <<>> /\ code' = "zero" /\ full' = FALSE
          /\ prog' = "none"
    BY <1>2 DEF Reset, NgetExit, NgetGone
  <2>3. QED
    BY <2>1, <2>2 DEF NgetTypeOK, ProgInv
<1>3. CASE LaunchNput
  <2>1. npc' = "nput_open" /\ rest' = local /\ prog' = "nput" /\ UNCHANGED <<src, code, full>>
    BY <1>3 DEF LaunchNput, StartNput
  <2>2. local \in Seq(Cells)
    BY DEF NetOK, NetTypeOK
  <2>3. src' \in Dirs \cup {NoDir} /\ full' \in BOOLEAN
          /\ code' \in {"zero", "status", "read", "open", "write"}
    BY <2>1 DEF NgetTypeOK
  <2>4. rest' \in Seq(Cells)
    BY <2>1, <2>2
  <2>5. QED
    BY <2>1, <2>3, <2>4 DEF NgetTypeOK, ProgInv
<1>4. ASSUME NEW d \in Dirs, LaunchNget(d) PROVE NgetTypeOK' /\ ProgInv'
  <2>1. npc = "off"
    BY <1>4 DEF LaunchNget, Launch, NoProgram
  <2>2. QED
    BY <1>4, <2>1 DEF LaunchNget, StartNget, NgetTypeOK, ProgInv
<1>5. CASE NgetSpin \/ NputOpen \/ NputEnd
  BY <1>5 DEF NgetSpin, NputOpen, NputEnd, ExitWith, NgetTypeOK, ProgInv
<1>6. CASE NputWrite
  <2> DEFINE n == IF Len(rest) < NBUF THEN Len(rest) ELSE NBUF
  <2>1. rest \in Seq(Cells) /\ Len(rest) \in Nat
    BY LenProperties DEF NgetTypeOK
  <2>2. n \in 0..Len(rest)
    BY <2>1, NgetAssumption
  <2>3. rest' = SubSeq(rest, n + 1, Len(rest))
    BY <1>6 DEF NputWrite
  <2>4. /\ npc = "nput_loop" /\ UNCHANGED <<src, full, prog>>
        /\ \/ UNCHANGED <<npc, code>>
           \/ npc' = "exit" /\ code' = "write"
    BY <1>6 DEF NputWrite, ExitWith
  <2> HIDE DEF n
  <2>5. rest' \in Seq(Cells)
    BY <2>1, <2>2, <2>3, DropType
  <2>6. QED
    BY <2>4, <2>5 DEF NgetTypeOK, ProgInv
<1>7. ASSUME NEW o \in {"done"} \cup Faults,
             NgetOpen(o) \/ NgetOpened(o) \/ NgetRead(o) \/ NgetStatus(o) \/ NgetClose(o)
               \/ \E set \in BOOLEAN : NgetLogin(set, o)
      PROVE  NgetTypeOK' /\ ProgInv'
  <2>1. UNCHANGED <<src, rest, prog>> /\ full' \in BOOLEAN
    BY <1>7 DEF NgetOpen, NgetOpened, NgetRead, NgetStatus, NgetClose, NgetLogin, NgetTypeOK
  <2>2. \/ npc \in {"login", "open", "opened", "loop", "next"}
             /\ npc' \in {"open", "opened", "loop", "next"} /\ UNCHANGED code
        \/ npc' = "exit" /\ code' \in {"zero", "status", "read"}
    BY <1>7
    DEF NgetOpen, NgetOpened, NgetRead, NgetStatus, NgetClose, NgetLogin, ExitWith
  <2>3. QED
    BY <2>1, <2>2 DEF NgetTypeOK, ProgInv
<1>8. QED
  BY <1>1, <1>2, <1>3, <1>4, <1>5, <1>6, <1>7 DEF NgetStep

LEMMA NetStep ==
  ASSUME Typed, [Next]_vars
  PROVE  NetOK'
<1>1. NetOK /\ Control /\ NgetTypeOK /\ ProgInv /\ opened \in BOOLEAN
  BY DEF Typed, NetOK, NetTypeOK
<1>2. CASE NcopyStep
  <2>1. CASE GiveUp \/ Sent
    BY <1>1, <2>1, NetFrame DEF GiveUp, Sent, Leave, ProcessGone, netVars
  <2>2. ASSUME NEW o \in {"done"} \cup Faults, NEW there \in BOOLEAN,
               \/ Start(o) \/ AskPassword(o) \/ FindHandle(o) \/ Open(o) \/ Opened(o) \/ Close(o)
               \/ Changed(o) \/ Ask(o) \/ Fetch(o) \/ Send(o) \/ Chdir(o, there)
        PROVE  NetOK'
    BY <1>1, <2>2, NetNcopy
  <2>3. QED
    BY <1>2, <2>1, <2>2 DEF NcopyStep
<1>3. CASE NgetStep
  <2>1. CASE NgetExit
    BY <1>1, <2>1, NetFrame DEF NgetExit, NgetGone, ProcessGone
  <2>2. CASE NgetSpin \/ NputOpen \/ NputWrite \/ NputEnd
    BY <1>1, <2>2, NetFrame DEF NgetSpin, NputOpen, NputWrite, NputEnd, netVars
  <2>3. ASSUME NEW o \in {"done"} \cup Faults,
               NgetOpen(o) \/ NgetOpened(o) \/ NgetRead(o) \/ NgetStatus(o) \/ NgetClose(o)
                 \/ \E set \in BOOLEAN : NgetLogin(set, o)
        PROVE  NetOK'
    <3>1. NgetOpen(o) => src \in Dirs
      BY <1>1 DEF NgetOpen, ProgInv
    <3>2. QED
      BY <1>1, <2>3, <3>1, NetNget
  <2>4. QED
    BY <1>3, <2>1, <2>2, <2>3 DEF NgetStep
<1>4. CASE Command
  <2>1. CASE Exit
    BY <1>1, <2>1, NetFrame DEF Exit, Leave, ProcessGone
  <2>2. CASE Dir \/ Get \/ PutFile \/ \E d \in Dirs : Cd(d)
    <3>1. UNCHANGED <<remote, room, dev, status, faults>> /\ missed' = {} /\ opened' = FALSE
            /\ (local' = local \/ local' = <<>>)
      BY <2>2 DEF Dir, Get, PutFile, Cd, Begin
    <3>2. QED
      BY <1>1, <3>1, NetFrame
  <2>3. QED
    BY <1>4, <2>1, <2>2 DEF Command
<1>5. CASE Reset
  BY <1>1, <1>5, NetFrame DEF Reset, NgetGone, ProcessGone
<1>6. CASE LaunchNcopy \/ LaunchNput
  BY <1>1, <1>6, NetFrame DEF LaunchNcopy, LaunchNput, StartNput, netVars
<1>7. ASSUME NEW d \in Dirs, LaunchNget(d) PROVE NetOK'
  BY <1>1, <1>7, NetFrame DEF LaunchNget, StartNget
<1>8. CASE UNCHANGED vars
  BY <1>1, <1>8, NetFrame DEF vars, netVars
<1>9. QED
  BY <1>2, <1>3, <1>4, <1>5, <1>6, <1>7, <1>8 DEF Next, Programs, Finished

LEMMA TypedStep ==
  ASSUME Typed, [Next]_vars
  PROVE  Typed'
<1>1. NetOK' /\ Control'
  BY NetStep, ControlStep DEF Typed, NetOK
<1>2. NgetTypeOK' /\ ProgInv'
  <2>1. NetOK /\ NgetTypeOK /\ ProgInv
    BY DEF Typed
  <2>2. \/ NgetStep \/ Reset \/ LaunchNput \/ \E d \in Dirs : LaunchNget(d)
        \/ UNCHANGED ngetVars
    BY DEF Next, Programs, Finished, LaunchNcopy, vars
  <2>3. QED
    BY <2>1, <2>2, NgetTyped
<1>3. runs' \in 0..MaxRuns
  <2>1. runs \in 0..MaxRuns
    BY DEF Typed
  <2>2. runs' = runs \/ (runs < MaxRuns /\ runs' = runs + 1)
    BY DEF Next, Programs, Reset, Finished, LaunchNcopy, LaunchNput, LaunchNget, Launch, vars
  <2>3. QED
    BY <2>1, <2>2, RunsAssumption
<1>4. pc' # "off" => npc' = "off"
  <2>1. pc # "off" => npc = "off"
    BY DEF Typed
  <2>2. CASE (NcopyStep \/ Command) /\ UNCHANGED ngetVars
    <3>1. pc # "off"
      BY <2>2
      DEF NcopyStep, GiveUp, Sent, Start, AskPassword, FindHandle, Open, Opened, Close, Changed,
          Ask, Fetch, Send, Chdir, Command, Dir, Get, PutFile, Cd, Begin, Exit
    <3>2. QED
      BY <2>1, <2>2, <3>1 DEF ngetVars
  <2>3. CASE (NgetStep \/ Reset) /\ UNCHANGED ncopyVars
    <3>1. npc # "off"
      BY <2>3
      DEF NgetStep, NgetExit, NgetSpin, NputOpen, NputWrite, NputEnd, NgetOpen, NgetOpened,
          NgetRead, NgetStatus, NgetClose, NgetLogin, Reset
    <3>2. QED
      BY <2>1, <2>3, <3>1 DEF ncopyVars
  <2>4. CASE LaunchNcopy \/ LaunchNput \/ \E d \in Dirs : LaunchNget(d)
    BY <2>4
    DEF LaunchNcopy, LaunchNput, LaunchNget, Launch, NoProgram, ncopyVars, ngetVars
  <2>5. CASE UNCHANGED vars
    BY <2>1, <2>5 DEF vars, ncopyVars, ngetVars
  <2>6. QED
    BY <2>2, <2>3, <2>4, <2>5 DEF Next, Programs, Finished, Reset
<1>5. QED
  BY <1>1, <1>2, <1>3, <1>4 DEF Typed

LEMMA TypedInit == Init => Typed
<1> SUFFICES ASSUME Init PROVE Typed
  OBVIOUS
<1>1. PICK d \in Dirs :
        dev = [n \in Devices |-> [conn |-> "none", dir |-> NoDir, at |-> 0, total |-> 0,
                                  ready |-> 0, err |-> "ok", cwd |-> d, login |-> FALSE]]
  BY DEF Init, NetInit
<1>2. dev \in [Devices -> Device] /\ (\A n \in Devices : dev[n].at + dev[n].ready <= dev[n].total)
        /\ DeviceInv
  BY <1>1 DEF Device, DeviceInv
<1>3. remote \in [Dirs -> Seq(Cells) \cup {Absent}]
  <2>1. ASSUME NEW e \in Dirs PROVE remote[e] \in Seq(Cells) \cup {Absent}
    <3>1. CASE RemoteLen[e] = Nothing
      BY <3>1 DEF Init, NetInit
    <3>2. CASE RemoteLen[e] # Nothing
      <4>1. RemoteLen[e] \in Nat
        BY <3>2, LengthsAssumption
      <4>2. PICK n \in Nat : n = RemoteLen[e]
        BY <4>1
      <4>3. remote[e] = Contents(e, n)
        BY <3>2, <4>2 DEF Init, NetInit
      <4>4. Contents(e, n) \in Seq(Cells)
        BY DEF Contents, Cell, Cells
      <4>5. QED
        BY <4>3, <4>4
    <3>3. QED
      BY <3>1, <3>2
  <2>2. remote = [e \in Dirs |-> remote[e]]
    BY DEF Init, NetInit
  <2>3. QED
    BY <2>1, <2>2
<1>4. local \in Seq(Cells) /\ room \in Rooms /\ Len(local) <= room
  <2>1. PICK n \in LocalLens : local = Contents("here", n)
    BY DEF Init, NetInit
  <2>2. room \in Rooms /\ room \in Nat /\ n <= room
    BY LengthsAssumption DEF Init, NetInit
  <2>3. n \in Nat
    BY LengthsAssumption
  <2>4. Contents("here", n) \in Seq(Cells) /\ Len(Contents("here", n)) = n
    BY <2>3 DEF Contents, Cell, Cells
  <2>5. QED
    BY <2>1, <2>2, <2>4
<1>5. NetOK
  <2>1. faults \in 0..MaxFaults /\ missed = {} /\ opened = FALSE
    <3>1. faults = 0 /\ missed = {} /\ opened = FALSE
      BY DEF Init, NetInit
    <3>2. QED
      BY <3>1, FaultsAssumption
  <2>2. status \in [length : Nat, errcode : Errcodes]
    BY DEF Init, NetInit, NoStatus, Errcodes
  <2>3. QED
    BY <1>2, <1>3, <1>4, <2>1, <2>2 DEF NetOK, NetTypeOK, CallTypeOK
<1>6. Control
  <2>1. hnd \in [Devices -> Handle] /\ \A h \in Devices : ~hnd[h].is_open
    BY NoneOpen DEF Init, NcopyInit
  <2>2. <<>> \in Seq(Cells) /\ Url \in Dirs /\ 0 \in 0..MaxCommands
    BY BufAssumption
  <2>3. QED
    BY <2>1, <2>2 DEF Init, NcopyInit, Control, NcopyTypeOK, JobInv, HandleInv, Busy
<1>7. NgetTypeOK /\ ProgInv
  <2>1. <<>> \in Seq(Cells)
    OBVIOUS
  <2>2. QED
    BY <2>1 DEF Init, NgetInit, NgetTypeOK, ProgInv
<1>8. runs \in 0..MaxRuns /\ pc = "off"
  BY RunsAssumption DEF Init, NcopyInit
<1>9. QED
  BY <1>5, <1>6, <1>7, <1>8 DEF Typed

\* The types hold, and with them what Typed adds.
LEMMA TypedHolds == Spec => []Typed
<1>1. Typed /\ [Next]_vars => Typed'
  BY TypedStep
<1>2. QED
  BY <1>1, TypedInit, PTL DEF Spec

\* Type correctness: every call of ncopy.c, fujifs.c, nget.c and nput.c keeps the
\* devices, the handle table and the buffers in their types, and the local disk is never
\* filled beyond its room.
THEOREM TypeCorrect == Spec => []TypeOK
<1>1. Typed => TypeOK
  BY DEF Typed, NetOK, Control, TypeOK
<1>2. QED
  BY <1>1, TypedHolds, PTL

\* Every way through a command gives back the handle that fujifs_find_handle has given it
\* (fujifs.c:94-97, fujifs_close), however many devices there are and whatever calls fail.
THEOREM HandlesBackHolds == Spec => []HandlesBack
<1>1. Typed => HandlesBack
  BY DEF Typed, Control, HandleInv, Busy, HandlesBack
<1>2. QED
  BY <1>1, TypedHolds, PTL

----------------------------------------------------------------------------
(* What the files and the working directory are.                           *)

\* What has been written and what is still to be sent are the local file, behind what the
\* device's file held already if it was not opened anew.
PutInv ==
  job = "put" =>
    /\ pc \in {"find", "open"} => buf = local
    /\ pc \in {"opened", "send"} =>
         \/ buf = local
         \/ /\ dev[1].conn = "write"
            /\ \E s \in Seq(Cells) : s \o local = remote[dev[1].dir] \o buf
    /\ pc = "close" /\ ~message /\ local # <<>> =>
         \E d \in Dirs, s \in Seq(Cells) : remote[d] = s \o local
    /\ pc \in {"opened", "send"} /\ opened =>
         \/ /\ dev[1].conn = "write" /\ dev[1].dir = dev[1].cwd
            /\ remote[dev[1].cwd] \o buf = local
         \/ dev[1].conn = "none" /\ buf = local
    /\ pc = "close" /\ opened /\ ~message /\ local # <<>> => local = remote[dev[1].cwd]

\* What is stored is what the device has given of the file in d.
Synced(d) == dev[1].dir = d /\ local = SubSeq(remote[d], 1, dev[1].at)

IsPart == \E d \in Dirs : remote[d] \in Seq(Cells) /\ IsPrefix(local, remote[d])

GetInv ==
  job = "get" =>
    /\ pc \in {"find", "open", "opened"} => local = <<>> /\ ~message
    /\ pc \in {"opened", "ask", "fetch"} /\ opened =>
         \/ dev[1].conn = "none" /\ dev[1].err = "fail" /\ local = <<>>
         \/ /\ dev[1].conn = "read" /\ dev[1].err = "ok"
            /\ "twice" \notin missed => Synced(dev[1].cwd)
    /\ pc = "opened" /\ missed = {} => opened
    /\ pc \in {"ask", "fetch"} => ~message
    /\ pc \in {"ask", "fetch"} /\ missed = {} => opened /\ dev[1].conn = "read"
    /\ pc = "close" /\ opened /\ "twice" \notin missed /\ local # <<>> => IsPart
    /\ pc = "close" /\ ~message /\ missed = {} => local = remote[dev[1].cwd]

\* The same for nget, whose status, unless it came damaged, tells the end only at the end.
NgetInv ==
  /\ npc \in {"off", "login", "open", "opened"} /\ pc = "off" => status = NoStatus
  /\ npc \in {"login", "open", "opened"} => local = <<>> /\ ~full
  /\ npc \in {"opened", "loop", "next", "spin"} /\ opened =>
       \/ /\ dev[1].conn = "none" /\ local = <<>>
          /\ "unheard" \notin missed => status.errcode # "eof"
       \/ /\ dev[1].conn = "read" /\ dev[1].dir = src
          /\ "twice" \notin missed /\ ~full => Synced(src)
          /\ "unheard" \notin missed /\ status.errcode = "eof" => Left(dev[1]) = 0

LEMMA AbsentIsNone == Absent \notin Seq(Cells)
<1>1. Len(Absent) = 1 /\ Absent[1] = <<"absent", 0>>
  BY DEF Absent, Cell
<1>2. <<"absent", 0>> \notin Cells
  BY DEF Cells
<1>3. QED
  BY <1>1, <1>2, ElementOfSeq

\* No command but cd changes the working directory of a device.
LEMMA CwdStays ==
  ASSUME NetOK, Control, NEW o,
         \/ Start(o) \/ AskPassword(o) \/ FindHandle(o) \/ Open(o) \/ Opened(o) \/ Close(o)
         \/ Changed(o) \/ Ask(o) \/ Fetch(o) \/ Send(o)
  PROVE  dev'[1].cwd = dev[1].cwd
<1>1. CallTypeOK /\ DeviceInv /\ dev[1] \in Device /\ dev \in [Devices -> Device]
  BY FirstDevice DEF NetOK, NetTypeOK, CallTypeOK
<1>2. ASSUME NEW user, LoginCall(1, user, o) PROVE dev'[1].cwd = dev[1].cwd
  <2>1. CASE dev' = dev
    BY <2>1
  <2>2. CASE dev' = [dev EXCEPT ![1].login = user]
    BY <1>1, <2>2, FirstDevice DEF Device
  <2>3. QED
    BY <1>2, <2>1, <2>2 DEF LoginCall
<1>3. CASE Start(o) \/ AskPassword(o)
  <2>1. fujifs_find_handle = 1
    BY <1>3, FindsFirst DEF Control, HandleInv, Busy, Start, AskPassword
  <2>2. \E user : LoginCall(1, user, o)
    BY <1>3, <2>1, Zenon DEF Start, AskPassword, OpenUrl
  <2>3. QED
    BY <1>2, <2>2
<1>4. CASE FindHandle(o)
  <2>1. fujifs_find_handle = 1
    BY <1>4, FindsFirst DEF Control, HandleInv, Busy, FindHandle
  <2>2. LoginCall(1, TRUE, o) \/ UNCHANGED dev
    BY <1>4, <2>1 DEF FindHandle
  <2>3. QED
    BY <1>2, <2>2
<1>5. CASE Open(o)
  <2>1. handle = 1 /\ job # "cd" /\ job \in {"url", "dir", "get", "put", "cd"}
    BY <1>5 DEF Control, HandleInv, Busy, JobInv, NcopyTypeOK, Open
  <2>2. Mode \in {"read", "write", "dir"}
    BY <2>1 DEF Mode
  <2>3. (IF job = "url" THEN Url ELSE dev[handle].cwd) \in Dirs
    BY <1>1, <2>1, BufAssumption DEF Device
  <2>4. OpenCall(1, Mode, IF job = "url" THEN Url ELSE dev[handle].cwd, o) /\ UNCHANGED status
    BY <1>5, <2>1 DEF Open
  <2>5. QED
    BY <1>1, <2>2, <2>3, <2>4, OpenEffect
<1>6. CASE Opened(o) \/ Ask(o) \/ Changed(o)
  <2>1. handle = 1 \/ Changed(o)
    BY <1>6 DEF Control, HandleInv, Busy, Opened, Ask
  <2>2. host = 1 \/ Opened(o) \/ Ask(o)
    BY <1>6 DEF Control, HandleInv, Changed
  <2>3. StatusCall(1, o) /\ UNCHANGED remote
    BY <1>6, <2>1, <2>2 DEF Opened, Ask, Changed
  <2>4. dev'[1] = [dev[1] EXCEPT !.ready = dev'[1].ready]
    BY <1>1, <2>3, StatusEffect
  <2>5. QED
    BY <1>1, <2>4 DEF Device
<1>7. CASE Close(o)
  <2>1. CloseCall(1, o) /\ UNCHANGED <<remote, status>>
    BY <1>7 DEF Control, HandleInv, Busy, Close
  <2>2. QED
    BY <1>1, <2>1, CloseEffect
<1>8. CASE Fetch(o)
  <2>1. ReadLength \in Nat
    BY <1>1, BufAssumption DEF ReadLength, CallTypeOK
  <2>2. handle = 1
    BY <1>8 DEF Control, HandleInv, Busy, Fetch
  <2>3. ReadCall(1, ReadLength, o) /\ UNCHANGED <<remote, status>>
    BY <1>8, <2>2 DEF Fetch
  <2>4. QED
    BY <1>1, <2>1, <2>3, ReadEffect
<1>9. CASE Send(o)
  BY <1>9 DEF Send
<1>10. QED
  BY <1>3, <1>4, <1>5, <1>6, <1>7, <1>8, <1>9

\* The answer of CMD_STATUS does not depend on what has arrived since, but for its length.
LEMMA SameErrcode ==
  ASSUME CallTypeOK, dev'[1] = [dev[1] EXCEPT !.ready = dev'[1].ready]
  PROVE  /\ Answer(dev'[1]).errcode = Answer(dev[1]).errcode
         /\ dev'[1].conn = dev[1].conn /\ dev'[1].dir = dev[1].dir /\ dev'[1].at = dev[1].at
         /\ dev'[1].err = dev[1].err /\ dev'[1].cwd = dev[1].cwd
         /\ dev'[1].total = dev[1].total /\ Left(dev'[1]) = Left(dev[1])
<1>1. dev[1] \in Device
  BY FirstDevice DEF CallTypeOK
<1>2. QED
  BY <1>1 DEF Device, Answer, Left

\* put.
LEMMA PutStep ==
  ASSUME Typed, PutInv, [Next]_vars
  PROVE  PutInv'
<1>1. NetOK /\ Control /\ CallTypeOK /\ DeviceInv /\ dev[1] \in Device /\ local \in Seq(Cells)
  BY FirstDevice DEF Typed, NetOK, NetTypeOK, CallTypeOK
<1>2. job \in {"url", "dir", "get", "put", "cd"}
  BY <1>1 DEF Control, NcopyTypeOK
<1>3. ASSUME job' # "put" \/ pc' \notin {"find", "open", "opened", "send", "close"}
      PROVE  PutInv'
  BY <1>3 DEF PutInv
<1>4. CASE pc = "off"
  <2>1. pc' \notin {"find", "open", "opened", "send", "close"} \/ job' = "url"
    BY <1>1, <1>4
    DEF Next, Programs, Reset, Finished, LaunchNcopy, LaunchNput, LaunchNget, Launch, vars,
        ncopyVars, NcopyStep, GiveUp, Sent, Start, AskPassword, FindHandle, Open, Opened, Close,
        Changed, Ask, Fetch, Send, Chdir, Command, Dir, Get, PutFile, Cd, Begin, Exit,
        Control, JobInv
  <2>2. QED
    BY <1>3, <2>1
<1>5. CASE Exit \/ GiveUp \/ Dir \/ Get \/ \E d \in Dirs : Cd(d)
  BY <1>3, <1>5 DEF Exit, GiveUp, Leave, Dir, Get, Cd, Begin
<1>6. CASE PutFile
  BY <1>6 DEF PutFile, Begin, PutInv
<1>7. CASE Sent
  <2>1. pc = "send" /\ buf = <<>> /\ pc' = "close" /\ job = "put" /\ handle = 1
          /\ UNCHANGED <<remote, local, dev, opened, job, message>>
    BY <1>1, <1>7 DEF Sent, netVars, Control, JobInv, HandleInv, Busy
  <2>2. SUFFICES ASSUME local # <<>>
                 PROVE  /\ \E d \in Dirs, s \in Seq(Cells) : remote[d] = s \o local
                        /\ opened => local = remote[dev[1].cwd]
    BY <2>1 DEF PutInv
  <2>3. PICK s \in Seq(Cells) : dev[1].conn = "write" /\ s \o local = remote[dev[1].dir] \o buf
    BY <2>1, <2>2 DEF PutInv
  <2>4. PICK d \in Dirs : d = dev[1].dir /\ remote[d] \in Seq(Cells)
    BY <2>3, FirstDevice, <1>1 DEF DeviceInv
  <2>5. remote[d] \o <<>> = remote[d]
    BY <2>4, ConcatEmptySeq
  <2>6. remote[d] = s \o local
    BY <2>1, <2>3, <2>4, <2>5
  <2>7. ASSUME opened PROVE dev[1].dir = dev[1].cwd /\ remote[dev[1].cwd] \o buf = local
    BY <2>1, <2>2, <2>3, <2>7 DEF PutInv
  <2>8. QED
    BY <2>1, <2>4, <2>5, <2>6, <2>7
<1>8. ASSUME NEW o, Start(o) \/ AskPassword(o) \/ Changed(o) \/ Ask(o) \/ Fetch(o) PROVE PutInv'
  <2>1. job' = job /\ job # "put"
    BY <1>1, <1>8, Zenon DEF Start, AskPassword, OpenUrl, Changed, Ask, Fetch, Control, JobInv
  <2>2. QED
    BY <1>3, <2>1
<1>9. ASSUME NEW o, NEW there \in BOOLEAN, Chdir(o, there) PROVE PutInv'
  BY <1>3, <1>9 DEF Chdir
<1>10. ASSUME NEW o, FindHandle(o) PROVE PutInv'
  BY <1>10 DEF FindHandle, PutInv
<1>11. ASSUME NEW o, Close(o) PROVE PutInv'
  BY <1>3, <1>11 DEF Close
<1>12. ASSUME NEW o, Open(o), job = "put" PROVE PutInv'
  <2>1. pc = "open" /\ pc' = "opened" /\ handle = 1 /\ Mode = "write" /\ buf = local
    BY <1>1, <1>12 DEF Open, Control, HandleInv, Busy, Mode, PutInv
  <2>2. dev[1].cwd \in Dirs
    BY <1>1 DEF Device
  <2>3. OpenCall(1, "write", dev[1].cwd, o) /\ UNCHANGED <<local, status, job, buf, message>>
    BY <1>12, <2>1 DEF Open
  <2>4. /\ dev'[1].cwd = dev[1].cwd
        /\ opened' => /\ \/ dev'[1].conn = "none"
                         \/ dev'[1].conn = "write" /\ dev'[1].dir = dev[1].cwd
                      /\ dev'[1].conn = "write" => remote'[dev[1].cwd] = <<>>
    BY <1>1, <2>2, <2>3, OpenEffect
  <2>5. <<>> \o local = local
    BY <1>1, ConcatEmptySeq
  <2>6. QED
    BY <1>12, <2>1, <2>3, <2>4, <2>5 DEF PutInv
<1>13. ASSUME NEW o, Opened(o), job = "put" PROVE PutInv'
  <2>1. pc = "opened" /\ handle = 1 /\ ~Refused(status') /\ pc' = "send"
    BY <1>1, <1>13 DEF Opened, Control, HandleInv, Busy, Refused, Mode
  <2>2. StatusCall(1, o) /\ UNCHANGED <<remote, local, opened, job, buf>>
    BY <1>13, <2>1 DEF Opened
  <2>3. dev'[1] = [dev[1] EXCEPT !.ready = dev'[1].ready]
    BY <1>1, <2>2, StatusEffect
  <2>4. dev'[1].conn = dev[1].conn /\ dev'[1].dir = dev[1].dir /\ dev'[1].cwd = dev[1].cwd
    BY <1>1, <2>3, SameErrcode
  <2>5. QED
    BY <2>1, <2>2, <2>4 DEF PutInv
<1>14. ASSUME NEW o, Send(o) PROVE PutInv'
  <2> DEFINE n == IF Len(buf) < BUF THEN Len(buf) ELSE BUF
             now == SubSeq(buf, 1, n)
             later == SubSeq(buf, n + 1, Len(buf))
  <2>1. handle = 1 /\ pc = "send" /\ job = "put" /\ buf \in Seq(Cells) /\ Len(buf) \in Nat
    BY <1>1, <1>14, LenProperties DEF Send, Control, JobInv, HandleInv, Busy
  <2>2. n \in 0..Len(buf) /\ Len(buf) \in n..Len(buf)
    BY <2>1, BufAssumption
  <2>3. /\ WriteCall(1, now, o) /\ UNCHANGED <<local, dev, status, opened, job>>
        /\ buf' = later /\ message' = ~Written(1, o)
        /\ pc' = IF message' THEN "close" ELSE "send"
    BY <1>14, <2>1 DEF Send, Short
  <2>4. /\ now \in Seq(Cells) /\ later \in Seq(Cells) /\ now \o later = buf
    <3> HIDE DEF n
    <3>1. SubSeq(buf, 1, Len(buf)) = buf
      BY <2>1, SubSeqFull
    <3>2. QED
      BY <2>1, <2>2, <3>1, TakeType, DropType, TakeMore
  <2> HIDE DEF n, now, later
  <2>5. CASE ~Written(1, o)
    BY <2>3, <2>5 DEF PutInv
  <2>6. CASE Written(1, o)
    <3>1. /\ dev[1].conn = "write" /\ remote[dev[1].dir] \in Seq(Cells)
          /\ remote'[dev[1].dir] = remote[dev[1].dir] \o now
      BY <1>1, <2>3, <2>4, <2>6, WriteEffect
    <3>2. (remote[dev[1].dir] \o now) \o later = remote[dev[1].dir] \o buf
      <4>1. PICK r \in Seq(Cells) : r = remote[dev[1].dir]
        BY <3>1
      <4>2. (r \o now) \o later = r \o (now \o later)
        <5>1. \A s, t, u \in Seq(Cells) : (s \o t) \o u = s \o (t \o u)
          BY ConcatAssociative
        <5>2. QED
          BY <2>4, <4>1, <5>1
      <4>3. QED
        BY <2>4, <4>1, <4>2
    <3>3. pc' = "send" /\ job' = "put"
      BY <2>1, <2>3, <2>6
    <3>4. \E s \in Seq(Cells) : s \o local = remote[dev[1].dir] \o buf
      BY <2>1, <3>1 DEF PutInv
    <3>5. \E s \in Seq(Cells) : s \o local = remote'[dev[1].dir] \o buf'
      BY <2>3, <3>1, <3>2, <3>4
    <3>6. ASSUME opened
          PROVE  dev[1].dir = dev[1].cwd /\ remote'[dev[1].cwd] \o buf' = local
      <4>1. dev[1].dir = dev[1].cwd /\ remote[dev[1].cwd] \o buf = local
        BY <2>1, <3>1, <3>6 DEF PutInv
      <4>2. QED
        BY <2>3, <3>1, <3>2, <4>1
    <3>7. QED
      BY <2>3, <3>1, <3>3, <3>5, <3>6 DEF PutInv
  <2>7. QED
    BY <2>5, <2>6
<1>15. ASSUME NEW o, Open(o) \/ Opened(o) PROVE PutInv'
  <2>1. job' = job
    BY <1>15 DEF Open, Opened
  <2>2. QED
    BY <1>3, <1>12, <1>13, <1>15, <2>1
<1>16. CASE UNCHANGED vars
  BY <1>16 DEF vars, netVars, ncopyVars, PutInv
<1>17. pc # "off" => ~NgetStep /\ ~Reset /\ ~NoProgram
  BY DEF Typed, NgetStep, NgetExit, NgetSpin, NputOpen, NputWrite, NputEnd, NgetOpen,
     NgetOpened, NgetRead, NgetStatus, NgetClose, NgetLogin, Reset, NoProgram
<1>18. QED
  BY <1>4, <1>5, <1>6, <1>7, <1>8, <1>9, <1>10, <1>11, <1>14, <1>15, <1>16, <1>17
  DEF Next, Programs, Finished, LaunchNcopy, LaunchNput, LaunchNget, Launch, NcopyStep, Command

LEMMA PutInit == Init => PutInv
  BY DEF Init, NcopyInit, PutInv

\* What ends a put without a message: the close after the last write.
LEMMA PutEnds ==
  ASSUME Typed, Next, pc # "prompt", pc' = "prompt", job = "put"
  PROVE  \E o : Close(o)
<1>1. pc # "off"
  BY DEF Typed, Control, JobInv
<1>2. ASSUME NEW o, Opened(o) PROVE FALSE
  <2>1. ~Refused(status')
    BY DEF Refused, Mode
  <2>2. QED
    BY <1>2, <2>1 DEF Opened
<1>3. pc \notin {"chdir", "changed"}
  BY DEF Typed, Control, JobInv
<1>4. QED
  BY <1>1, <1>2, <1>3, Zenon
  DEF Next, Programs, Reset, Finished, LaunchNcopy, LaunchNput, LaunchNget, Launch, NoProgram, vars,
      ncopyVars, NcopyStep, GiveUp, Sent, Leave, Start, AskPassword, OpenUrl, FindHandle, Open,
      Changed, Ask, Fetch, Send, Chdir, Command, Dir, Get, PutFile, Cd, Begin, Exit

\* What is put behind something else is at its end.
LEMMA TailOfConcat ==
  ASSUME NEW S, NEW s \in Seq(S), NEW t \in Seq(S)
  PROVE  EndsWith(s \o t, t)
<1> DEFINE u == s \o t
<1>1. /\ u \in Seq(S) /\ Len(u) = Len(s) + Len(t) /\ Len(s) \in Nat /\ Len(t) \in Nat
      /\ \A i \in 1..Len(u) : u[i] = IF i <= Len(s) THEN s[i] ELSE t[i - Len(s)]
  BY ConcatProperties, LenProperties
<1> HIDE DEF u
<1> DEFINE v == SubSeq(u, Len(s) + 1, Len(s) + Len(t))
<1>2. /\ v \in Seq(S) /\ Len(v) = Len(t)
      /\ \A i \in 1..Len(t) : v[i] = u[Len(s) + i]
  BY <1>1, SliceType
<1>3. \A i \in 1..Len(t) : v[i] = t[i]
  BY <1>1, <1>2
<1> HIDE DEF v
<1>4. v = t
  BY <1>2, <1>3, SeqEqual
<1>5. Len(u) - Len(t) + 1 = Len(s) + 1 /\ Len(t) <= Len(u)
  BY <1>1
<1>6. EndsWith(u, t)
  BY <1>1, <1>4, <1>5 DEF EndsWith, v
<1>7. QED
  BY <1>6 DEF u

\* A put of a file that is not empty and ends without an error message has sent all of it
\* (put_file, ncopy.c:202-210): some file of the server ends with it, and when the open was
\* carried out, whatever the answer to it, it is all of the file in the working directory.
\* Without that open it may be another file, and something else before it (SilentPutIsStored).
THEOREM SilentPutIsWholeHolds == Spec => SilentPutIsWhole
<1>1. Typed /\ PutInv /\ [Next]_vars
        => [SilentPut =>
              /\ \E d \in Dirs : remote'[d] # Absent /\ EndsWith(remote'[d], local)
              /\ opened => local' = remote'[dev'[host].cwd]]_vars
  <2>1. SUFFICES ASSUME Typed, PutInv, Next, SilentPut
                 PROVE  /\ \E d \in Dirs : remote'[d] # Absent /\ EndsWith(remote'[d], local)
                        /\ opened => local' = remote'[dev'[host].cwd]
    OBVIOUS
  <2>2. pc # "prompt" /\ pc' = "prompt" /\ job = "put" /\ ~message' /\ local # <<>>
    BY <2>1 DEF SilentPut
  <2>3. PICK o : Close(o)
    BY <2>1, <2>2, PutEnds
  <2>4. NetOK /\ Control /\ dev'[1].cwd = dev[1].cwd /\ local \in Seq(Cells)
    BY <2>1, <2>3, CwdStays DEF Typed, NetOK, NetTypeOK
  <2>5. pc = "close" /\ host = 1 /\ UNCHANGED <<remote, local, message>>
    BY <2>2, <2>3, <2>4 DEF Close, Control, HandleInv
  <2>6. PICK d \in Dirs, s \in Seq(Cells) : remote[d] = s \o local
    BY <2>1, <2>2, <2>5 DEF PutInv
  <2>7. EndsWith(remote[d], local)
    BY <2>4, <2>6, TailOfConcat
  <2>8. remote[d] \in Seq(Cells)
    BY <2>4, <2>6, ConcatProperties
  <2>9. remote[d] # Absent
    BY <2>8, AbsentIsNone
  <2>10. opened => local = remote[dev[1].cwd]
    BY <2>1, <2>2, <2>5 DEF PutInv
  <2>11. QED
    BY <2>4, <2>5, <2>7, <2>9, <2>10
<1>2. Typed /\ PutInv /\ [Next]_vars => PutInv'
  BY PutStep
<1>3. QED
  BY <1>1, <1>2, PutInit, TypedHolds, PTL DEF Spec, SilentPutIsWhole

----------------------------------------------------------------------------
(* Fetching.                                                               *)

\* fwrite of nothing stores nothing.
LEMMA NothingStored == ASSUME NetTypeOK PROVE local \o Stored(<<>>) = local
<1>1. <<>> \in Seq(Cells) /\ Len(<<>>) = 0
  BY EmptySeq
<1>2. PICK j \in 0..0 : Stored(<<>>) = SubSeq(<<>>, 1, j)
  BY <1>1, StoredTyped
<1>3. SubSeq(<<>>, 1, j) \in Seq(Cells) /\ Len(SubSeq(<<>>, 1, j)) = j
  BY <1>1, TakeType
<1>4. Stored(<<>>) = <<>>
  BY <1>2, <1>3, EmptySeq
<1>5. QED
  BY <1>4, ConcatEmptySeq DEF NetTypeOK

\* Where the device is in the file, and what that makes of the local file.
LEMMA SyncedPart ==
  ASSUME CallTypeOK, DeviceInv, NEW d \in Dirs, dev[1].conn = "read", Synced(d)
  PROVE  /\ remote[d] \in Seq(Cells) /\ IsPrefix(local, remote[d])
         /\ Left(dev[1]) = 0 => local = remote[d]
<1>1. dev[1] \in Device /\ dev[1].at + dev[1].ready <= dev[1].total
  BY FirstDevice DEF CallTypeOK
<1>2. dev[1].at \in Nat /\ dev[1].ready \in Nat /\ dev[1].total \in Nat
  BY <1>1 DEF Device
<1>3. PICK s \in Seq(Cells) : s = remote[d] /\ Len(s) = dev[1].total
  BY FirstDevice DEF DeviceInv, Synced
<1>4. PICK at \in 0..Len(s) : at = dev[1].at
  BY <1>1, <1>2, <1>3
<1>5. local = SubSeq(s, 1, at) /\ IsPrefix(SubSeq(s, 1, at), s)
  BY <1>3, <1>4, TakeIsPrefix DEF Synced
<1>6. Left(dev[1]) = 0 => at = Len(s)
  BY <1>2, <1>3, <1>4 DEF Left
<1>7. SubSeq(s, 1, Len(s)) = s
  BY <1>3, SubSeqFull
<1>8. QED
  BY <1>3, <1>5, <1>6, <1>7

\* Storing what a read has delivered keeps the local file the beginning of the remote one.
LEMMA ReadStores ==
  ASSUME NetOK, NEW k \in Nat, NEW o, ReadCall(1, k, o), UNCHANGED <<remote, status>>,
         NEW d \in Dirs, dev[1].conn = "read", Synced(d), o # "twice",
         local' = local \o Stored(Delivered(1, k, o))
  PROVE  LET data == Delivered(1, k, o)
         IN  /\ remote'[d] \in Seq(Cells) /\ IsPrefix(local', remote'[d])
             /\ data # <<>> /\ Stored(data) = data => Synced(d)'
<1> DEFINE data == Delivered(1, k, o)
           at == dev[1].at
<1>1. CallTypeOK /\ DeviceInv /\ NetTypeOK /\ dev[1] \in Device
  BY FirstDevice DEF NetOK, NetTypeOK, CallTypeOK
<1>2. at \in Nat /\ dev[1].dir = d /\ local = SubSeq(remote[d], 1, at)
  BY <1>1 DEF Device, Synced
<1>3. PICK s \in Seq(Cells) : s = remote[d] /\ Len(s) = dev[1].total
  BY <1>1, <1>2, FirstDevice DEF DeviceInv
<1>4. Len(s) \in Nat /\ at \in 0..Len(s)
  <2>1. at + dev[1].ready <= dev[1].total /\ dev[1].ready \in Nat /\ dev[1].total \in Nat
    BY <1>1, FirstDevice DEF CallTypeOK, Device
  <2>2. QED
    BY <1>2, <1>3, <2>1
<1>5. /\ data \in Seq(Cells)
      /\ data # <<>> => /\ CanRead(1, k) /\ Complete(o)
                        /\ k \in Nat /\ Len(data) = k
      /\ data # <<>> /\ o = "done" => /\ at + k \in at..Len(s)
                                      /\ data = SubSeq(s, at + 1, at + k)
  BY <1>1, <1>2, <1>3, DeliveredTyped
<1>6. PICK j \in 0..Len(data) : Stored(data) = SubSeq(data, 1, j)
  BY <1>1, <1>5, StoredTyped
<1> HIDE DEF data, at
<1>7. CASE data = <<>>
  <2>1. local' = local
    BY <1>1, <1>7, NothingStored DEF data
  <2>2. IsPrefix(SubSeq(s, 1, at), s)
    BY <1>4, TakeIsPrefix
  <2>3. QED
    BY <1>2, <1>3, <1>7, <2>1, <2>2 DEF data
<1>8. CASE data # <<>>
  <2>1. o = "done" /\ CanRead(1, k) /\ Len(data) = k
    BY <1>5, <1>8 DEF Complete
  <2>2. at + k \in at..Len(s) /\ data = SubSeq(s, at + 1, at + k)
    BY <1>5, <1>8, <2>1
  <2>3. j \in 0..(at + k) - at /\ at \in Nat /\ k \in Nat
    BY <1>2, <1>4, <1>6, <2>1 DEF at
  <2>4. Stored(data) = SubSeq(s, at + 1, at + j)
    BY <1>4, <1>6, <2>2, <2>3, TakeOfSlice
  <2>5. at + j \in at..Len(s) /\ at + j \in 0..Len(s)
    <3>1. j \in Nat /\ j <= k /\ at + k <= Len(s) /\ at \in Nat /\ Len(s) \in Nat /\ k \in Nat
      BY <1>4, <2>2, <2>3
    <3>2. QED
      BY <3>1
  <2>6. local' = SubSeq(s, 1, at + j)
    <3>1. SubSeq(s, 1, at) \o SubSeq(s, at + 1, at + j) = SubSeq(s, 1, at + j)
      BY <1>4, <2>5, TakeMore
    <3>2. QED
      BY <1>2, <1>3, <2>4, <3>1 DEF data
  <2>7. IsPrefix(local', s)
    BY <2>5, <2>6, TakeIsPrefix
  <2>8. ASSUME Stored(data) = data PROVE Synced(d)'
    <3>1. /\ dev'[1].dir = d /\ dev'[1].at = at + k
      BY <1>1, <1>2, <2>1, ReadEffect DEF at
    <3>2. Len(Stored(data)) = j
      BY <1>5, <1>6, TakeType
    <3>3. j = k
      BY <2>1, <2>8, <3>2
    <3>4. QED
      BY <1>3, <2>6, <3>1, <3>3 DEF Synced
  <2>9. QED
    BY <1>3, <2>7, <2>8 DEF data
<1>9. QED
  BY <1>7, <1>8

LEMMA GetStep ==
  ASSUME Typed, GetInv, [Next]_vars
  PROVE  GetInv'
<1>1. NetOK /\ Control /\ CallTypeOK /\ DeviceInv /\ dev[1] \in Device /\ local \in Seq(Cells)
  BY FirstDevice DEF Typed, NetOK, NetTypeOK, CallTypeOK
<1>2. job \in {"url", "dir", "get", "put", "cd"}
  BY <1>1 DEF Control, NcopyTypeOK
<1>3. ASSUME job' # "get" \/ pc' \notin {"find", "open", "opened", "ask", "fetch", "close"}
      PROVE  GetInv'
  BY <1>3 DEF GetInv
<1>4. CASE pc = "off"
  <2>1. pc' \notin {"find", "open", "opened", "ask", "fetch", "close"} \/ job' = "url"
    BY <1>1, <1>4
    DEF Next, Programs, Reset, Finished, LaunchNcopy, LaunchNput, LaunchNget, Launch, vars,
        ncopyVars, NcopyStep, GiveUp, Sent, Start, AskPassword, FindHandle, Open, Opened, Close,
        Changed, Ask, Fetch, Send, Chdir, Command, Dir, Get, PutFile, Cd, Begin, Exit,
        Control, JobInv
  <2>2. QED
    BY <1>3, <2>1
<1>5. CASE Exit \/ GiveUp \/ Dir \/ PutFile \/ \E d \in Dirs : Cd(d)
  BY <1>3, <1>5 DEF Exit, GiveUp, Leave, Dir, PutFile, Cd, Begin
<1>6. CASE Get
  BY <1>6 DEF Get, Begin, GetInv
<1>7. ASSUME NEW o, Start(o) \/ AskPassword(o) \/ Changed(o) \/ Send(o) \/ Sent PROVE GetInv'
  <2>1. job' = job /\ job # "get"
    BY <1>1, <1>7, Zenon DEF Start, AskPassword, OpenUrl, Changed, Send, Sent, Control, JobInv
  <2>2. QED
    BY <1>3, <2>1
<1>8. ASSUME NEW o, NEW there \in BOOLEAN, Chdir(o, there) PROVE GetInv'
  BY <1>3, <1>8 DEF Chdir
<1>9. ASSUME NEW o, FindHandle(o) PROVE GetInv'
  BY <1>9 DEF FindHandle, GetInv
<1>10. ASSUME NEW o, Close(o) PROVE GetInv'
  BY <1>3, <1>10 DEF Close
<1>11. ASSUME NEW o, Open(o), job = "get" PROVE GetInv'
  <2>1. pc = "open" /\ pc' = "opened" /\ handle = 1 /\ Mode = "read" /\ local = <<>>
    BY <1>1, <1>11 DEF Open, Control, HandleInv, Busy, Mode, GetInv
  <2>2. PICK d \in Dirs : d = dev[1].cwd
    BY <1>1 DEF Device
  <2>3. OpenCall(1, "read", d, o) /\ UNCHANGED <<local, status, job, message>> /\ ~message
    BY <1>11, <2>1, <2>2 DEF Open, GetInv
  <2>4. /\ dev'[1].cwd = d
        /\ opened' => /\ dev'[1].at = 0
                      /\ \/ dev'[1].conn = "none" /\ dev'[1].err = "fail"
                         \/ dev'[1].conn = "read" /\ dev'[1].err = "ok" /\ dev'[1].dir = d
        /\ missed' = {} => opened'
    BY <1>1, <2>2, <2>3, OpenEffect
  <2>5. ASSUME dev'[1].conn = "read", dev'[1].dir = d, dev'[1].at = 0 PROVE Synced(d)'
    <3>1. remote'[d] \in Seq(Cells)
      BY <1>1, <2>2, <2>3, <2>5, OpenEffect, FirstDevice DEF DeviceInv
    <3>2. PICK s \in Seq(Cells) : s = remote'[d]
      BY <3>1
    <3>3. 0 \in 0..Len(s)
      BY <3>2, LenProperties
    <3>4. Len(SubSeq(s, 1, 0)) = 0 /\ SubSeq(s, 1, 0) \in Seq(Cells)
      BY <3>3, TakeType
    <3>5. SubSeq(s, 1, 0) = <<>>
      BY <3>4, EmptySeq
    <3>6. QED
      BY <2>1, <2>3, <2>5, <3>2, <3>5 DEF Synced
  <2>6. QED
    BY <1>11, <2>1, <2>3, <2>4, <2>5 DEF GetInv, Synced
<1>12. ASSUME NEW o, Opened(o), job = "get" PROVE GetInv'
  <2>1. pc = "opened" /\ handle = 1 /\ local = <<>> /\ ~message /\ job' = "get"
    BY <1>1, <1>12 DEF Opened, Control, HandleInv, Busy, GetInv
  <2>2. StatusCall(1, o) /\ UNCHANGED <<remote, local, opened>>
    BY <1>12, <2>1 DEF Opened
  <2>3. /\ dev'[1] = [dev[1] EXCEPT !.ready = dev'[1].ready] /\ DeviceInv'
        /\ o = "done" => status' = Answer(dev'[1])
        /\ missed' = {} => missed = {} /\ o = "done"
        /\ missed \subseteq missed'
    BY <1>1, <2>2, StatusEffect
  <2>4. /\ Answer(dev'[1]).errcode = Answer(dev[1]).errcode
        /\ dev'[1].conn = dev[1].conn /\ dev'[1].dir = dev[1].dir /\ dev'[1].at = dev[1].at
        /\ dev'[1].err = dev[1].err /\ dev'[1].cwd = dev[1].cwd
    BY <1>1, <2>3, SameErrcode
  <2>5. CASE Refused(status')
    <3>1. pc' = "prompt"
      BY <1>12, <2>5 DEF Opened
    <3>2. QED
      BY <1>3, <3>1
  <2>6. CASE ~Refused(status')
    <3>1. pc' = "ask" /\ ~message'
      BY <1>12, <2>1, <2>6 DEF Opened
    <3>2. ASSUME missed' = {} PROVE opened /\ dev[1].conn = "read"
      <4>1. opened /\ status' = Answer(dev'[1])
        BY <2>1, <2>3, <3>2, <1>12 DEF GetInv
      <4>2. ASSUME dev[1].conn = "none", dev[1].err = "fail" PROVE FALSE
        <5>1. dev'[1].ready = 0
          BY <2>3, <2>4, <4>2, FirstDevice DEF DeviceInv
        <5>2. status'.errcode = "fail" /\ status'.length = 0
          BY <2>4, <4>1, <4>2, <5>1 DEF Answer
        <5>3. QED
          BY <1>12, <2>6, <5>2 DEF Refused, Mode
      <4>3. QED
        BY <1>12, <2>1, <4>1, <4>2 DEF GetInv
    <3>3. "twice" \notin missed' => "twice" \notin missed
      BY <2>3
    <3>4. QED
      BY <1>12, <2>1, <2>2, <2>4, <3>1, <3>2, <3>3 DEF GetInv, Synced
  <2>7. QED
    BY <2>5, <2>6
<1>13. ASSUME NEW o, Ask(o), job = "get" PROVE GetInv'
  <2>1. pc = "ask" /\ handle = 1 /\ job' = "get" /\ ~message
    BY <1>1, <1>13 DEF Ask, Control, HandleInv, Busy, GetInv
  <2>2. StatusCall(1, o) /\ UNCHANGED <<remote, local, opened, message>>
    BY <1>13, <2>1 DEF Ask
  <2>3. /\ dev'[1] = [dev[1] EXCEPT !.ready = dev'[1].ready]
        /\ o = "done" => status' = Answer(dev'[1])
        /\ missed' = {} => missed = {} /\ o = "done"
        /\ missed \subseteq missed'
    BY <1>1, <2>2, StatusEffect
  <2>4. /\ Answer(dev'[1]).errcode = Answer(dev[1]).errcode
        /\ dev'[1].conn = dev[1].conn /\ dev'[1].dir = dev[1].dir /\ dev'[1].at = dev[1].at
        /\ dev'[1].err = dev[1].err /\ dev'[1].cwd = dev[1].cwd
    BY <1>1, <2>3, SameErrcode
  <2>5. "twice" \notin missed' => "twice" \notin missed
    BY <2>3
  <2>6. PICK d \in Dirs : d = dev[1].cwd
    BY <1>1 DEF Device
  <2>7. CASE pc' = "fetch"
    BY <1>13, <2>1, <2>2, <2>3, <2>4, <2>5, <2>7 DEF GetInv, Synced
  <2>8. CASE pc' = "close"
    <3>1. status'.errcode \in {"eof", "fail"}
      BY <1>13, <2>8 DEF Ask
    <3>2. ASSUME opened, "twice" \notin missed', local # <<>> PROVE IsPart'
      <4>1. dev[1].conn = "read" /\ Synced(d)
        BY <1>13, <2>1, <2>5, <2>6, <3>2 DEF GetInv
      <4>2. remote[d] \in Seq(Cells) /\ IsPrefix(local, remote[d])
        BY <1>1, <4>1, SyncedPart
      <4>3. QED
        BY <2>2, <4>2 DEF IsPart
    <3>3. ASSUME missed' = {} PROVE local = remote[d]
      <4>1. opened /\ dev[1].conn = "read" /\ o = "done" /\ "twice" \notin missed
        BY <1>13, <2>1, <2>3, <3>3 DEF GetInv
      <4>2. dev[1].err = "ok" /\ Synced(d)
        BY <1>13, <2>1, <2>6, <4>1 DEF GetInv
      <4>3. status'.errcode = Answer(dev[1]).errcode
        BY <2>3, <2>4, <4>1
      <4>4. Left(dev[1]) = 0
        BY <3>1, <4>2, <4>3 DEF Answer
      <4>5. QED
        BY <1>1, <4>1, <4>2, <4>4, SyncedPart
    <3>4. QED
      BY <2>1, <2>2, <2>4, <2>6, <2>8, <3>2, <3>3 DEF GetInv
  <2>9. QED
    BY <1>13, <2>7, <2>8 DEF Ask
<1>14. ASSUME NEW o, Fetch(o), job = "get" PROVE GetInv'
  <2> DEFINE k == ReadLength
             data == Delivered(1, k, o)
  <2>1. pc = "fetch" /\ handle = 1 /\ job' = "get" /\ pc' \in {"close", "ask"}
    BY <1>1, <1>14 DEF Fetch, Control, HandleInv, Busy
  <2>2. k \in Nat
    <3>1. status.length \in Nat /\ BUF \in Nat
      BY <1>1, BufAssumption DEF CallTypeOK
    <3>2. QED
      BY <3>1 DEF ReadLength
  <2>3. /\ ReadCall(1, k, o) /\ UNCHANGED <<remote, status, opened>>
        /\ local' = local \o Stored(data)
        /\ message' = (Stored(data) # data)
        /\ pc' = IF data = <<>> \/ Stored(data) # data THEN "close" ELSE "ask"
    BY <1>14, <2>1 DEF Fetch, Ended, Full
  <2>4. data # <<>> <=> CanRead(1, k) /\ Complete(o)
    BY <1>1, <2>2, <2>3, DeliveredTyped
  <2>5. data # <<>> => dev[1].conn \in {"read", "dir"}
    BY <1>1, <2>2, <2>3, DeliveredTyped
  <2>6. /\ dev'[1].conn = dev[1].conn /\ dev'[1].cwd = dev[1].cwd /\ dev'[1].err = dev[1].err
        /\ o = "twice" => "twice" \in missed'
        /\ missed \subseteq missed'
        /\ missed' = {} => missed = {} /\ o = "done" /\ CanRead(1, k)
    BY <1>1, <2>2, <2>3, ReadEffect
  <2> HIDE DEF k, data
  <2>7. PICK d \in Dirs : d = dev[1].cwd
    BY <1>1 DEF Device
  <2>8. missed' = {} => data # <<>> /\ opened /\ dev[1].conn = "read"
    BY <1>14, <2>1, <2>4, <2>6 DEF GetInv, Complete
  <2>9. pc' = "ask" => data # <<>> /\ Stored(data) = data /\ ~message'
    BY <2>3
  <2>10. pc' = "close" /\ ~message' => missed' # {}
    BY <2>3, <2>8
  <2>11. ASSUME opened, "twice" \notin missed', dev[1].conn = "read"
         PROVE  /\ IsPart'
                /\ pc' = "ask" => Synced(d)'
    <3>1. Synced(d) /\ o # "twice"
      BY <1>14, <2>1, <2>6, <2>7, <2>11 DEF GetInv
    <3>2. /\ remote'[d] \in Seq(Cells) /\ IsPrefix(local', remote'[d])
          /\ data # <<>> /\ Stored(data) = data => Synced(d)'
      BY <1>1, <2>2, <2>3, <2>11, <3>1, ReadStores DEF data
    <3>3. QED
      BY <2>9, <3>2 DEF IsPart
  <2>12. ASSUME opened, dev[1].conn = "none" PROVE local' = <<>> /\ pc' = "close"
    <3>1. data = <<>> /\ local = <<>>
      BY <1>14, <2>1, <2>5, <2>12 DEF GetInv
    <3>2. local \o Stored(<<>>) = local
      BY <1>1, NothingStored DEF NetOK
    <3>3. QED
      BY <2>3, <3>1, <3>2
  <2>13. opened => dev[1].conn \in {"none", "read"} /\ (dev[1].conn = "read" => dev[1].err = "ok")
    BY <1>14, <2>1 DEF GetInv
  <2>14. QED
    BY <2>1, <2>3, <2>6, <2>7, <2>8, <2>9, <2>10, <2>11, <2>12, <2>13 DEF GetInv
<1>15. ASSUME NEW o, Open(o) \/ Opened(o) \/ Ask(o) \/ Fetch(o) PROVE GetInv'
  <2>1. job' = job
    BY <1>15 DEF Open, Opened, Ask, Fetch
  <2>2. QED
    BY <1>3, <1>11, <1>12, <1>13, <1>14, <1>15, <2>1
<1>16. CASE UNCHANGED vars
  BY <1>16 DEF vars, netVars, ncopyVars, GetInv, IsPart, Synced
<1>17. pc # "off" => ~NgetStep /\ ~Reset /\ ~NoProgram
  BY DEF Typed, NgetStep, NgetExit, NgetSpin, NputOpen, NputWrite, NputEnd, NgetOpen,
     NgetOpened, NgetRead, NgetStatus, NgetClose, NgetLogin, Reset, NoProgram
<1>18. QED
  BY <1>4, <1>5, <1>6, <1>7, <1>8, <1>9, <1>10, <1>15, <1>16, <1>17
  DEF Next, Programs, Finished, LaunchNcopy, LaunchNput, LaunchNget, Launch, NcopyStep, Command

\* A status call of nget.
LEMMA NgetStatusEffect ==
  ASSUME Typed, NgetInv, NEW o, NgetOpened(o) \/ NgetStatus(o), npc' # "exit"
  PROVE  NgetInv'
<1>1. NetOK /\ CallTypeOK /\ DeviceInv /\ dev[1] \in Device
  BY FirstDevice DEF Typed, NetOK, NetTypeOK, CallTypeOK
<1>2. /\ StatusCall(1, o) /\ UNCHANGED <<remote, local, opened, src, full>>
      /\ npc \in {"opened", "next"} /\ npc' = "loop"
  BY FirstDevice DEF NgetOpened, NgetStatus, ExitWith
<1>3. /\ dev'[1] = [dev[1] EXCEPT !.ready = dev'[1].ready]
      /\ "unheard" \notin missed' => status' \in {status, Answer(dev'[1])}
      /\ missed \subseteq missed'
  BY <1>1, <1>2, StatusEffect
<1>4. /\ Answer(dev'[1]).errcode = Answer(dev[1]).errcode
      /\ dev'[1].conn = dev[1].conn /\ dev'[1].dir = dev[1].dir /\ dev'[1].at = dev[1].at
      /\ Left(dev'[1]) = Left(dev[1])
  BY <1>1, <1>3, SameErrcode
<1>5. "unheard" \notin missed' => /\ "unheard" \notin missed
                                  /\ status'.errcode \in {status.errcode, Answer(dev[1]).errcode}
  BY <1>3, <1>4
<1>6. dev[1].conn = "none" => Answer(dev[1]).errcode # "eof"
  BY <1>1 DEF Answer, Device
<1>7. Answer(dev[1]).errcode = "eof" => Left(dev[1]) = 0
  BY <1>1 DEF Answer, Device
<1>8. QED
  BY <1>2, <1>3, <1>4, <1>5, <1>6, <1>7 DEF NgetInv, Synced

LEMMA NgetInvStep ==
  ASSUME Typed, NgetInv, [Next]_vars
  PROVE  NgetInv'
<1>1. /\ NetOK /\ CallTypeOK /\ DeviceInv /\ dev[1] \in Device /\ local \in Seq(Cells) /\ ProgInv
      /\ pc # "off" => npc = "off"
  BY FirstDevice DEF Typed, NetOK, NetTypeOK, CallTypeOK
<1>2. CASE (NcopyStep \/ Command) /\ UNCHANGED ngetVars
  <2>1. pc # "off"
    BY <1>2
    DEF NcopyStep, GiveUp, Sent, Start, AskPassword, FindHandle, Open, Opened, Close, Changed,
        Ask, Fetch, Send, Chdir, Command, Dir, Get, PutFile, Cd, Begin, Exit
  <2>2. npc' = "off"
    BY <1>1, <1>2, <2>1 DEF ngetVars
  <2>3. pc' = "off" => Leave
    BY <1>2, <2>1, Zenon
    DEF NcopyStep, GiveUp, Sent, Start, AskPassword, OpenUrl, FindHandle, Open, Opened, Close,
        Changed, Ask, Fetch, Send, Chdir, Command, Dir, Get, PutFile, Cd, Begin, Exit
  <2>4. QED
    BY <2>2, <2>3 DEF NgetInv, Leave, ProcessGone
<1>3. CASE NgetExit \/ Reset
  BY <1>3 DEF NgetExit, Reset, NgetGone, ProcessGone, NgetInv
<1>4. CASE LaunchNcopy \/ LaunchNput
  BY <1>4 DEF LaunchNcopy, LaunchNput, StartNput, Launch, NoProgram, ngetVars, NgetInv, netVars
<1>5. ASSUME NEW d \in Dirs, LaunchNget(d) PROVE NgetInv'
  <2>1. npc = "off" /\ pc = "off" /\ npc' = "login" /\ local' = <<>> /\ UNCHANGED <<status, full>>
          /\ ~full
    BY <1>1, <1>5 DEF LaunchNget, Launch, NoProgram, StartNget, ProgInv
  <2>2. QED
    BY <2>1 DEF NgetInv
<1>6. CASE NgetSpin \/ NputOpen \/ NputWrite \/ NputEnd
  <2>1. CASE NgetSpin
    BY <2>1 DEF NgetSpin, netVars, NgetInv, Synced
  <2>2. CASE NputOpen \/ NputWrite \/ NputEnd
    <3>1. npc' \in {"nput_open", "nput_loop", "exit"}
      BY <2>2 DEF NputOpen, NputWrite, NputEnd, ExitWith
    <3>2. QED
      BY <3>1 DEF NgetInv
  <2>3. QED
    BY <1>6, <2>1, <2>2
<1>7. ASSUME NEW o, NEW set \in BOOLEAN, NgetLogin(set, o), UNCHANGED pc PROVE NgetInv'
  BY <1>7 DEF NgetLogin, NgetInv
<1>8. ASSUME NEW o, NgetOpen(o), UNCHANGED pc PROVE NgetInv'
  <2>1. /\ npc = "open" /\ npc' = "opened" /\ src \in Dirs /\ local = <<>> /\ ~full
        /\ OpenCall(1, "read", src, o) /\ UNCHANGED <<local, status, src, full>>
    BY <1>1, <1>8, FirstDevice DEF NgetOpen, ProgInv, NgetInv
  <2>2. PICK d \in Dirs : d = src
    BY <2>1
  <2>3. /\ opened' => /\ dev'[1].at = 0
                      /\ \/ dev'[1].conn = "none"
                         \/ dev'[1].conn = "read" /\ dev'[1].dir = d
        /\ DeviceInv'
    BY <1>1, <2>1, <2>2, OpenEffect
  <2>4. ASSUME dev'[1].conn = "read", dev'[1].dir = d, dev'[1].at = 0 PROVE Synced(d)'
    <3>1. remote'[d] \in Seq(Cells)
      BY <2>3, <2>4, FirstDevice DEF DeviceInv
    <3>2. PICK s \in Seq(Cells) : s = remote'[d]
      BY <3>1
    <3>3. 0 \in 0..Len(s)
      BY <3>2, LenProperties
    <3>4. Len(SubSeq(s, 1, 0)) = 0 /\ SubSeq(s, 1, 0) \in Seq(Cells)
      BY <3>3, TakeType
    <3>5. SubSeq(s, 1, 0) = <<>>
      BY <3>4, EmptySeq
    <3>6. QED
      BY <2>1, <2>4, <3>2, <3>5 DEF Synced
  <2>5. pc = "off" /\ status = NoStatus /\ status.errcode = "zero"
    BY <1>1, <2>1 DEF NgetInv, NoStatus
  <2>6. QED
    BY <1>8, <2>1, <2>2, <2>3, <2>4, <2>5 DEF NgetInv, Synced
<1>9. ASSUME NEW o, NgetOpened(o) \/ NgetStatus(o) PROVE NgetInv'
  <2>1. CASE npc' = "exit"
    BY <2>1 DEF NgetInv
  <2>2. CASE npc' # "exit"
    BY <1>9, <2>2, NgetStatusEffect
  <2>3. QED
    BY <2>1, <2>2
<1>10. ASSUME NEW o, NgetClose(o) PROVE NgetInv'
  BY <1>10 DEF NgetClose, ExitWith, NgetInv
<1>11. ASSUME NEW o, NgetRead(o) PROVE NgetInv'
  <2> DEFINE k == BytesWaiting
             data == Delivered(1, k, o)
  <2>1. k \in Nat
    <3>1. status.length \in Nat
      BY <1>1 DEF CallTypeOK
    <3>2. NBUF \in Nat
      BY NgetAssumption
    <3>3. QED
      BY <3>1, <3>2 DEF BytesWaiting
  <2>2. /\ npc = "loop" /\ ReadCall(1, k, o) /\ UNCHANGED <<remote, status, opened, src>>
        /\ local' = local \o Stored(data)
        /\ full' = (full \/ Stored(data) # data)
        /\ IF data = <<>> THEN npc' = "exit" ELSE npc' = "next"
    BY <1>11, FirstDevice DEF NgetRead, Chunk, ExitWith
  <2>3. src \in Dirs
    BY <1>1, <2>2 DEF ProgInv
  <2>4. data # <<>> => CanRead(1, k) /\ dev[1].conn \in {"read", "dir"}
    BY <1>1, <2>1, <2>2, DeliveredTyped
  <2>5. /\ dev'[1].conn = dev[1].conn /\ dev'[1].dir = dev[1].dir
        /\ o = "twice" => "twice" \in missed'
        /\ missed \subseteq missed' /\ (~CanRead(1, k) => UNCHANGED dev)
    BY <1>1, <2>1, <2>2, ReadEffect
  <2> HIDE DEF k, data
  <2>6. CASE data = <<>>
    BY <2>2, <2>6 DEF NgetInv
  <2>7. CASE data # <<>>
    <3>1. npc' = "next"
      BY <2>2, <2>7
    <3>2. SUFFICES ASSUME opened
                   PROVE  /\ dev[1].conn = "read" /\ dev[1].dir = src
                          /\ "twice" \notin missed' /\ ~full' => Synced(src)'
                          /\ "unheard" \notin missed' => status.errcode # "eof"
      BY <2>2, <2>5, <3>1 DEF NgetInv
    <3>3. dev[1].conn = "read" /\ dev[1].dir = src
            /\ ("twice" \notin missed /\ ~full => Synced(src))
            /\ ("unheard" \notin missed /\ status.errcode = "eof" => Left(dev[1]) = 0)
      BY <2>2, <2>4, <2>7, <3>2 DEF NgetInv
    <3>4. ASSUME "twice" \notin missed', ~full' PROVE Synced(src)'
      <4>1. Synced(src) /\ o # "twice" /\ Stored(data) = data
        BY <2>2, <2>5, <3>3, <3>4
      <4>2. PICK d \in Dirs : d = src /\ d = src'
        BY <2>2, <2>3
      <4>3. Synced(d)
        BY <4>1, <4>2 DEF Synced
      <4>4. Synced(d)'
        BY <1>1, <2>1, <2>2, <2>7, <3>3, <4>1, <4>3, ReadStores DEF data
      <4>5. QED
        BY <4>2, <4>4 DEF Synced
    <3>5. "unheard" \notin missed' => status.errcode # "eof"
      <4>1. SUFFICES ASSUME Left(dev[1]) = 0 PROVE FALSE
        BY <2>5, <3>3
      <4>2. dev[1].at + dev[1].ready <= dev[1].total /\ dev[1].at \in Nat /\ dev[1].ready \in Nat
              /\ dev[1].total \in Nat
        BY <1>1, FirstDevice DEF CallTypeOK, Device
      <4>3. dev[1].ready = 0
        BY <4>1, <4>2 DEF Left
      <4>4. QED
        BY <2>4, <2>7, <4>3 DEF CanRead
    <3>6. QED
      BY <3>3, <3>4, <3>5
  <2>8. QED
    BY <2>6, <2>7
<1>12. CASE UNCHANGED vars
  BY <1>12 DEF vars, netVars, ncopyVars, ngetVars, NgetInv, Synced
<1>13. CASE NgetStep /\ UNCHANGED ncopyVars
  BY <1>3, <1>6, <1>7, <1>8, <1>9, <1>10, <1>11, <1>13 DEF NgetStep, ncopyVars
<1>14. QED
  BY <1>2, <1>3, <1>4, <1>5, <1>12, <1>13 DEF Next, Programs, Finished

LEMMA FetchInit == Init => GetInv /\ NgetInv
  BY DEF Init, NetInit, NcopyInit, NgetInit, GetInv, NgetInv

LEMMA FetchInvHolds == Spec => [](Typed /\ GetInv /\ NgetInv)
<1>1. Typed /\ GetInv /\ NgetInv /\ [Next]_vars => GetInv' /\ NgetInv'
  BY GetStep, NgetInvStep
<1>2. QED
  BY <1>1, FetchInit, TypedHolds, PTL DEF Spec

\* What get_file of ncopy, or nget, has stored so far is the beginning of a remote file,
\* whatever calls failed and however stale or damaged the status was that it went by
\* (fujifs.c:279-292, nget.c:97-132), for files and buffers of every length, unless the open
\* was lost, a read was carried out twice or the local disk was full.
THEOREM FetchedIsPrefixHolds == Spec => []FetchedIsPrefix
<1>1. Typed /\ GetInv /\ NgetInv => FetchedIsPrefix
  <2>1. SUFFICES ASSUME Typed, GetInv, NgetInv, Fetching, opened, "twice" \notin missed, ~full,
                        local # <<>>
                 PROVE  IsPart
    BY AbsentIsNone DEF FetchedIsPrefix, IsPart
  <2>2. CallTypeOK /\ DeviceInv /\ dev[1] \in Device /\ ProgInv
    BY <2>1, FirstDevice DEF Typed, NetOK, NetTypeOK, CallTypeOK
  <2>3. CASE pc = "close" /\ job = "get"
    BY <2>1, <2>3 DEF GetInv
  <2>4. CASE pc \in {"ask", "fetch"} /\ job = "get"
    <3>1. PICK d \in Dirs : d = dev[1].cwd
      BY <2>2 DEF Device
    <3>2. dev[1].conn = "read" /\ Synced(d)
      BY <2>1, <2>4, <3>1 DEF GetInv
    <3>3. QED
      BY <2>2, <3>2, SyncedPart DEF IsPart
  <2>5. CASE npc \in {"loop", "next", "spin"}
    <3>1. src \in Dirs
      BY <2>2, <2>5 DEF ProgInv
    <3>2. PICK d \in Dirs : d = src
      BY <3>1
    <3>3. dev[1].conn = "read" /\ Synced(d)
      BY <2>1, <2>5, <3>2 DEF NgetInv, Synced
    <3>4. QED
      BY <2>2, <3>3, SyncedPart DEF IsPart
  <2>6. QED
    BY <2>1, <2>3, <2>4, <2>5 DEF Fetching
<1>2. QED
  BY <1>1, FetchInvHolds, PTL

\* What ends a get without a message.
LEMMA GetEnds ==
  ASSUME Typed, Next, pc # "prompt", pc' = "prompt", job = "get", ~message'
  PROVE  \E o : Close(o)
<1>1. pc # "off"
  BY DEF Typed, Control, JobInv
<1>2. ASSUME NEW o, Opened(o) PROVE FALSE
  BY <1>2 DEF Opened
<1>3. pc \notin {"chdir", "changed"}
  BY DEF Typed, Control, JobInv
<1>4. QED
  BY <1>1, <1>2, <1>3, Zenon
  DEF Next, Programs, Reset, Finished, LaunchNcopy, LaunchNput, LaunchNget, Launch, NoProgram, vars,
      ncopyVars, NcopyStep, GiveUp, Sent, Leave, Start, AskPassword, OpenUrl, FindHandle, Open,
      Changed, Ask, Fetch, Send, Chdir, Command, Dir, Get, PutFile, Cd, Begin, Exit

\* What ends nget with exit code 0.
LEMMA NgetEnds ==
  ASSUME Typed, Next, npc # "exit", npc' = "exit", prog = "nget", code' = "zero"
  PROVE  \E o : NgetClose(o)
<1>1. npc \notin {"nput_open", "nput_loop"}
  BY DEF Typed, ProgInv
<1>2. QED
  BY <1>1
  DEF Next, Programs, Reset, Finished, LaunchNcopy, LaunchNput, LaunchNget, Launch, StartNget,
      StartNput, vars, ngetVars, NgetStep, NgetGone, NgetExit, NgetSpin, NputOpen, NputWrite,
      NputEnd, NgetLogin, NgetOpen, NgetOpened, NgetRead, NgetStatus, ExitWith

\* A fetch that ends without an error message has stored the whole file: get_file when no
\* call went wrong and none found nothing to read, and nget (nget.c:104-141) although calls
\* were lost, as long as the open was carried out, no answer went missing or came damaged, no
\* read was carried out twice and the local disk had room.
THEOREM SilentFetchIsWholeHolds == Spec => SilentFetchIsWhole
<1>1. Typed /\ GetInv /\ NgetInv /\ [Next]_vars
        => [/\ pc # "prompt" /\ pc' = "prompt" /\ job = "get" /\ ~message' /\ missed' = {} =>
                 local' = remote'[dev'[host].cwd]
            /\ npc # "exit" /\ npc' = "exit" /\ prog = "nget" /\ code' = "zero" /\ ~full
                 /\ opened /\ missed \subseteq {"lost", "idle"} => local' = remote'[src]]_vars
  <2>1. ASSUME Typed, GetInv, Next, pc # "prompt", pc' = "prompt", job = "get", ~message',
               missed' = {}
        PROVE  local' = remote'[dev'[host].cwd]
    <3>1. PICK o : Close(o)
      BY <2>1, GetEnds
    <3>2. NetOK /\ Control /\ CallTypeOK /\ DeviceInv
      BY <2>1 DEF Typed, NetOK, NetTypeOK
    <3>3. pc = "close" /\ host = 1 /\ handle = 1 /\ UNCHANGED <<remote, local, message, status>>
      BY <3>1, <3>2 DEF Close, Control, HandleInv, Busy
    <3>4. dev'[1].cwd = dev[1].cwd /\ missed = {}
      BY <2>1, <3>1, <3>2, <3>3, CloseEffect DEF Close
    <3>5. QED
      BY <2>1, <3>3, <3>4 DEF GetInv
  <2>2. ASSUME Typed, NgetInv, Next, npc # "exit", npc' = "exit", prog = "nget", code' = "zero",
               ~full, opened, missed \subseteq {"lost", "idle"}
        PROVE  local' = remote'[src]
    <3>1. PICK o : NgetClose(o)
      BY <2>2, NgetEnds
    <3>2. npc = "loop" /\ status.errcode = "eof" /\ UNCHANGED <<remote, local>>
      BY <3>1 DEF NgetClose, EndOfFile
    <3>3. CallTypeOK /\ DeviceInv /\ src \in Dirs
      BY <2>2, <3>2 DEF Typed, NetOK, NetTypeOK, ProgInv
    <3>4. PICK d \in Dirs : d = src
      BY <3>3
    <3>5. dev[1].conn = "read" /\ Synced(d) /\ Left(dev[1]) = 0
      <4>1. "unheard" \notin missed /\ "twice" \notin missed
        BY <2>2
      <4>2. QED
        BY <2>2, <3>2, <3>4, <4>1 DEF NgetInv, Synced
    <3>6. local = remote[d]
      BY <3>3, <3>5, SyncedPart
    <3>7. QED
      BY <3>2, <3>4, <3>6
  <2>3. QED
    BY <2>1, <2>2
<1>2. QED
  BY <1>1, FetchInvHolds, PTL DEF Spec, SilentFetchIsWhole
=============================================================================
