-------------------------------- MODULE Nget --------------------------------
(***************************************************************************)
(* NGET and NPUT, nget/nget.c and nput/nput.c: one file and one run each,  *)
(* always on the first network device.  NPUT still fills the registers the *)
(* way an earlier INT F5 wanted them.                                      *)
(***************************************************************************)
EXTENDS NetDevice

CONSTANTS
  NBUF,      \* cells of buf
  CellSize,  \* bytes in a cell, the last of a file may have fewer
  TailSize   \* bytes in that one

ASSUME NgetAssumption ==
  /\ NBUF \in Nat \ {0}
  /\ CellSize \in 0..65535 /\ TailSize \in 1..CellSize

VARIABLES
  npc,    \* what nget or nput does next; "off" when neither runs
  src,    \* the directory in the URL
  rest,   \* what nput has still to read of the local file
  code,   \* the exit code: "zero", "status", "read", "open" or "write"
  full,   \* not in the code: the local disk had no room for something
  prog    \* not in the code: which of the two ran last

ngetVars == <<npc, src, rest, code, full, prog>>

N1 == 1

NgetInit ==
  /\ npc = "off" /\ src = NoDir /\ rest = <<>> /\ code = "zero" /\ full = FALSE
  /\ prog = "none"

ExitWith(c) == npc' = "exit" /\ code' = c

\* Where both begin and end.
NgetGone ==
  /\ npc' = "off" /\ src' = NoDir /\ rest' = <<>> /\ code' = "zero" /\ full' = FALSE
  /\ prog' = "none" /\ ProcessGone

NgetExit == npc = "exit" /\ NgetGone

----------------------------------------------------------------------------
(* nget.                                                                   *)

\* The local file is created, or emptied, before anything else.
StartNget(d) ==
  /\ npc' = "login" /\ src' = d /\ local' = <<>> /\ prog' = "nget"
  /\ UNCHANGED <<remote, room, dev, status, faults, missed, opened, rest, code, full>>

\* FUJI_USER and FUJI_PASS may be set; the device keeps what it had if not.
NgetLogin(set, o) ==
  /\ npc = "login" /\ npc' = "open"
  /\ IF set THEN LoginCall(N1, TRUE, o) ELSE o = "done" /\ UNCHANGED <<dev, faults>>
  /\ UNCHANGED <<remote, local, room, status, missed, opened, src, rest, code, full, prog>>

NgetOpen(o) ==
  /\ npc = "open" /\ npc' = "opened"
  /\ OpenCall(N1, "read", src, o)
  /\ UNCHANGED <<local, room, status, src, rest, code, full, prog>>

\* The end of the file before the first byte is an error here.
NgetOpened(o) ==
  /\ npc = "opened" /\ StatusCall(N1, o)
  /\ IF status'.errcode \in {"fail", "eof"} /\ status'.length = 0 THEN ExitWith("status")
     ELSE npc' = "loop" /\ UNCHANGED code
  /\ UNCHANGED <<remote, local, room, opened, src, rest, full, prog>>

BytesWaiting == IF status.length < NBUF THEN status.length ELSE NBUF

\* continue: nothing is read and the status is not asked for again.
NgetSpin ==
  /\ npc = "loop" /\ BytesWaiting = 0 /\ status.errcode # "eof"
  /\ npc' = "spin"
  /\ UNCHANGED <<netVars, src, rest, code, full, prog>>

\* A variant: the cells are written although they could not be read.
WhateverCame(o) == IF Delivered(N1, BytesWaiting, o) = <<>> THEN Contents("list", BytesWaiting)
                   ELSE Delivered(N1, BytesWaiting, o)

Chunk(o) == Delivered(N1, BytesWaiting, o)

\* A read that fails ends the program at once; a short fwrite goes unnoticed.
NgetRead(o) ==
  /\ npc = "loop" /\ BytesWaiting > 0
  /\ ReadCall(N1, BytesWaiting, o)
  /\ local' = local \o Stored(Chunk(o))
  /\ full' = (full \/ Stored(Chunk(o)) # Chunk(o))
  /\ IF Chunk(o) = <<>> THEN ExitWith("read") ELSE npc' = "next" /\ UNCHANGED code
  /\ UNCHANGED <<remote, room, status, opened, src, rest, prog>>

NgetStatus(o) ==
  /\ npc = "next" /\ npc' = "loop" /\ StatusCall(N1, o)
  /\ UNCHANGED <<remote, local, room, opened, src, rest, code, full, prog>>

EndOfFile == BytesWaiting = 0 /\ status.errcode = "eof"

NgetClose(o) ==
  /\ npc = "loop" /\ EndOfFile
  /\ CloseCall(N1, o)
  /\ ExitWith("zero")
  /\ UNCHANGED <<remote, local, room, status, opened, src, rest, full, prog>>

----------------------------------------------------------------------------
(* nput.  dl, the direction for INT F5, holds the mode of the open, or the *)
(* low byte of the length of a write.  When it happens to be a direction,  *)
(* ah = 80H is the command, which no network device has.                   *)

Write == 8

\* The reply to a command the device does not know, through fujicom_command.
NotKnown == "other"

StartNput ==
  /\ npc' = "nput_open" /\ rest' = local /\ prog' = "nput"
  /\ UNCHANGED <<netVars, src, code, full>>

NputOpen ==
  /\ npc = "nput_open"
  /\ \E al \in intf5(Write, NotKnown) :
       IF al = "C" THEN npc' = "nput_loop" /\ UNCHANGED code ELSE ExitWith("open")
  /\ UNCHANGED <<netVars, src, rest, full, prog>>

Length(n) == IF n = Len(rest) THEN (n - 1) * CellSize + TailSize ELSE n * CellSize

NputWrite ==
  LET n == IF Len(rest) < NBUF THEN Len(rest) ELSE NBUF
  IN  /\ npc = "nput_loop" /\ n > 0
      /\ \E al \in intf5(Length(n), NotKnown) :
           IF al = "C" THEN UNCHANGED <<npc, code>> ELSE ExitWith("write")
      /\ rest' = SubSeq(rest, n + 1, Len(rest))
      /\ UNCHANGED <<netVars, src, full, prog>>

\* The device is not closed.
NputEnd ==
  /\ npc = "nput_loop" /\ rest = <<>> /\ npc' = "exit"
  /\ UNCHANGED <<netVars, src, rest, code, full, prog>>

----------------------------------------------------------------------------
NgetStep ==
  \/ NgetExit \/ NgetSpin \/ NputOpen \/ NputWrite \/ NputEnd
  \/ \E o \in {"done"} \cup Faults :
       \/ NgetOpen(o) \/ NgetOpened(o) \/ NgetRead(o) \/ NgetStatus(o) \/ NgetClose(o)
       \/ \E set \in BOOLEAN : NgetLogin(set, o)

NgetTypeOK ==
  /\ npc \in {"off", "login", "open", "opened", "loop", "next", "spin", "nput_open",
              "nput_loop", "exit"}
  /\ src \in Dirs \cup {NoDir} /\ rest \in Seq(Cells) /\ full \in BOOLEAN
  /\ code \in {"zero", "status", "read", "open", "write"}
  /\ prog \in {"none", "nget", "nput"}
=============================================================================
