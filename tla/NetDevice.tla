----------------------------- MODULE NetDevice -----------------------------
(***************************************************************************)
(* The FujiNet's network devices as a DOS program sees them through INT F5 *)
(* (sys/intf5.c).  A call is one step here; Fujicom says what happens on   *)
(* the line meanwhile, and its properties say how a call can end: carried  *)
(* out once and answered, not carried out, carried out without the caller  *)
(* hearing of it or, when it reads, carried out twice.  Left out are the   *)
(* answers that Fujicom takes for another call's (MCFujicom_stale.cfg and  *)
(* MCFujicom_short.cfg).                                                   *)
(*                                                                         *)
(* There is one file of interest, and each directory of the server may     *)
(* hold one of that name.  A file is a sequence of cells.                  *)
(***************************************************************************)
EXTENDS Integers, Sequences, FiniteSets, SequencesExt, TLC

CONSTANTS
  NETDEV_TOTAL,  \* network devices, 8 in the code
  Dirs,          \* directories of the server
  RemoteLen,     \* RemoteLen[d]: length of the file in d at first, or Nothing
  LocalLens,     \* how long the file on the local disk may be at first
  ListLen,       \* how much a directory listing is
  Rooms,         \* how many cells the local disk may have room for
  Slow,          \* TRUE: the server's answer may still be on its way
  NeedsLogin,    \* TRUE: the server wants to know who asks
  Faults,        \* how calls may go wrong: "lost", "unheard", "twice"
  MaxFaults,     \* bound: how many do
  Lengths        \* what the length in a status may read when it came damaged

Nothing == -1
Devices == 1..NETDEV_TOTAL
Cell(x, i) == <<x, i>>
Contents(x, n) == [i \in 1..n |-> Cell(x, i)]
Absent == <<Cell("absent", 0)>>
NoDir == "none"

ASSUME DevicesAssumption == NETDEV_TOTAL \in Nat \ {0}
ASSUME LengthsAssumption ==
  /\ RemoteLen \in [Dirs -> Nat \cup {Nothing}] /\ (\A n \in LocalLens, r \in Rooms : n <= r)
  /\ ListLen \in Nat /\ Rooms \subseteq Nat /\ LocalLens \subseteq Nat
ASSUME FaultsAssumption == Faults \subseteq {"lost", "unheard", "twice"} /\ MaxFaults \in Nat
ASSUME DamageAssumption == Lengths \subseteq Nat
ASSUME FlagsAssumption == Slow \in BOOLEAN /\ NeedsLogin \in BOOLEAN

VARIABLES
  remote,  \* remote[d]: the file in d, or Absent
  local,   \* the file on the local disk
  room,    \* cells that disk has room for, never changes
  dev,     \* dev[n]: network device n
  status,  \* the program's static status
  faults,  \* not in the code: calls that went wrong, of all programs
  missed,  \* not in the code: what has happened to the calls of this command
  opened   \* not in the code: CMD_OPEN of this command was carried out

netVars == <<remote, local, room, dev, status, faults, missed, opened>>

Errcodes == {"zero", "ok", "eof", "fail"}
NoStatus == [length |-> 0, errcode |-> "zero"]

\* DOS has ended the program; the devices and the disk stay as they are.
ProcessGone ==
  /\ status' = NoStatus /\ missed' = {} /\ opened' = FALSE
  /\ UNCHANGED <<remote, local, room, dev, faults>>

----------------------------------------------------------------------------
(* How a call ends.                                                        *)

FUJIINT == [NONE |-> 0, READ |-> 64, WRITE |-> 128]

\* The direction of a call is the low byte of dx; with any other value intf5 calls
\* nothing and returns whatever reply happens to be.
intf5(dx, reply) ==
  IF \E k \in DOMAIN FUJIINT : FUJIINT[k] = dx % 256 THEN {reply} ELSE {"C", "other"}

Executed(o) == o # "lost"
Complete(o) == o \in {"done", "twice"}
Unlucky == {"done", "lost", "unheard"}

Outcome(o, kinds) ==
  /\ o \in {"done"} \cup (kinds \cap Faults)
  /\ o # "done" => faults < MaxFaults
  /\ faults' = IF o = "done" THEN faults ELSE faults + 1

Noted(o) == missed' = missed \cup ({o} \ {"done"})

----------------------------------------------------------------------------
(* What the devices do.  cwd and login outlive CMD_CLOSE.                  *)

\* What opening or closing makes of device c.
Fresh(c, conn, dir, total, err) ==
  [conn |-> conn, dir |-> dir, at |-> 0, total |-> total, ready |-> 0, err |-> err,
   cwd |-> c.cwd, login |-> c.login]

Closed(c, err) == Fresh(c, "none", NoDir, 0, err)

Left(c) == c.total - c.at

\* What CMD_OPEN of the file in directory d, or of d, makes of a device.
Connect(c, mode, d) ==
  LET may == c.login \/ ~NeedsLogin
  IN  CASE may /\ mode = "dir"   -> Fresh(c, mode, d, ListLen, "ok")
        [] may /\ mode = "write" -> Fresh(c, mode, d, 0, "ok")
        [] may /\ mode = "read" /\ remote[d] # Absent
                                -> Fresh(c, mode, d, Len(remote[d]), "ok")
        [] OTHER                -> Closed(c, "fail")

\* CMD_OPEN on device n.  A file that is opened for writing is there, and empty.
OpenCall(n, mode, d, o) ==
  LET c == Connect(dev[n], mode, d)
  IN  /\ Outcome(o, Unlucky) /\ Noted(o)
      /\ dev' = IF Executed(o) THEN [dev EXCEPT ![n] = c] ELSE dev
      /\ remote' = IF Executed(o) /\ c.conn = "write" THEN [remote EXCEPT ![d] = <<>>]
                   ELSE remote
      /\ opened' = Executed(o)

\* CMD_USERNAME and CMD_PASSWORD; user is FALSE when they are empty.
LoginCall(n, user, o) ==
  /\ Outcome(o, Unlucky)
  /\ dev' = IF Executed(o) THEN [dev EXCEPT ![n].login = user] ELSE dev

CloseCall(n, o) ==
  /\ Outcome(o, Unlucky) /\ Noted(o)
  /\ dev' = IF Executed(o) THEN [dev EXCEPT ![n] = Closed(@, "ok")] ELSE dev

\* CMD_CHDIR; the server may not have the directory.
ChdirCall(n, d, there, o) ==
  /\ Outcome(o, Unlucky) /\ Noted(o)
  /\ dev' = IF ~Executed(o) THEN dev
            ELSE IF there THEN [dev EXCEPT ![n].cwd = d, ![n].err = "ok"]
            ELSE [dev EXCEPT ![n].err = "fail"]

\* What may have arrived from the server by the time CMD_STATUS asks.
Arrived(c) ==
  IF c.conn \notin {"read", "dir"} THEN {0}
  ELSE IF Slow THEN c.ready..Left(c) ELSE {Left(c)}

\* The answer: what has arrived, and whether that was all.
Answer(c) ==
  [length |-> c.ready,
   errcode |-> IF c.conn \in {"read", "dir"} /\ Left(c) = 0 THEN "eof" ELSE c.err]

\* What status may hold after a damaged answer, whose bytes were stored all the same.
Damaged == [length : Lengths, errcode : Errcodes]

\* CMD_STATUS.  Nobody looks at the reply (fujifs.c:217, 272, nget.c:132).
StatusCall(n, o) ==
  \E ready \in Arrived(dev[n]) :
    LET c == [dev[n] EXCEPT !.ready = ready]
    IN  /\ Outcome(o, Unlucky) /\ Noted(o)
        /\ dev' = [dev EXCEPT ![n] = c]
        /\ status' \in CASE o = "done"    -> {Answer(c)}
                         [] o = "unheard" -> {Answer(c), status} \cup Damaged
                         [] o = "lost"    -> {status}

\* CMD_READ of k cells, more than have arrived are refused.  One that is carried out
\* twice gives the second k.
CanRead(n, k) == k \in 1..dev[n].ready

Delivered(n, k, o) ==
  LET c == dev[n]
      from == c.at + (IF o = "twice" THEN k ELSE 0)
  IN  IF ~(CanRead(n, k) /\ Complete(o)) THEN <<>>
      ELSE IF c.conn = "read" THEN SubSeq(remote[c.dir], from + 1, from + k)
      ELSE Contents("list", k)

ReadCall(n, k, o) ==
  LET times == IF o = "twice" THEN 2 ELSE 1
  IN  /\ Outcome(o, IF CanRead(n, 2 * k) THEN Unlucky \cup {"twice"} ELSE Unlucky)
      /\ missed' = missed \cup ({o} \ {"done"}) \cup (IF CanRead(n, k) THEN {} ELSE {"idle"})
      /\ dev' = IF CanRead(n, k) /\ Executed(o)
                THEN [dev EXCEPT ![n].at = @ + times * k, ![n].ready = @ - times * k]
                ELSE dev

\* CMD_WRITE; it is answered with C if the file is open and nothing goes wrong.
Written(n, o) == dev[n].conn = "write" /\ Complete(o)

WriteCall(n, data, o) ==
  /\ Outcome(o, Unlucky) /\ Noted(o)
  /\ remote' = IF dev[n].conn = "write" /\ Executed(o)
               THEN [remote EXCEPT ![dev[n].dir] = @ \o data] ELSE remote

\* What fwrite stores of data on the local disk.
Stored(data) ==
  SubSeq(data, 1, IF Len(data) < room - Len(local) THEN Len(data) ELSE room - Len(local))

----------------------------------------------------------------------------
Cells == (Dirs \cup {"here", "list"}) \X (Nat \ {0})

Device == [conn : {"none", "read", "write", "dir"}, dir : Dirs \cup {NoDir}, at : Nat,
           total : Nat, ready : Nat, err : {"ok", "fail"}, cwd : Dirs, login : BOOLEAN]

\* What the calls of INT F5 change.
CallTypeOK ==
  /\ remote \in [Dirs -> Seq(Cells) \cup {Absent}]
  /\ dev \in [Devices -> Device]
  /\ \A n \in Devices : dev[n].at + dev[n].ready <= dev[n].total
  /\ status \in [length : Nat, errcode : Errcodes]
  /\ faults \in 0..MaxFaults /\ missed \subseteq {"lost", "unheard", "twice", "idle"}

NetTypeOK ==
  /\ CallTypeOK /\ opened \in BOOLEAN
  /\ local \in Seq(Cells) /\ room \in Rooms /\ Len(local) <= room

\* The FujiNet has just been switched on.
NetInit ==
  /\ remote = [d \in Dirs |-> IF RemoteLen[d] = Nothing THEN Absent
                              ELSE Contents(d, RemoteLen[d])]
  /\ room \in Rooms /\ \E n \in LocalLens : local = Contents("here", n)
  /\ \E d \in Dirs :
       dev = [n \in Devices |-> [conn |-> "none", dir |-> NoDir, at |-> 0, total |-> 0,
                                 ready |-> 0, err |-> "ok", cwd |-> d, login |-> FALSE]]
  /\ status = NoStatus /\ faults = 0 /\ missed = {} /\ opened = FALSE
=============================================================================
