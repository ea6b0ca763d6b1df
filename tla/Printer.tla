------------------------------ MODULE Printer -------------------------------
(***************************************************************************)
(* Printing through the printer driver: DOS hands it the text of a program *)
(* request by request (printer/commands.c), or a program calls the BIOS's  *)
(* printer interrupt itself (printer/int17.c).  Every byte is one FUJICOM  *)
(* write, which is carried out once or not at all (WriteAtMostOnce of      *)
(* Fujicom), but the answer may get lost.                                  *)
(***************************************************************************)
EXTENDS Boot

CONSTANTS
  Text,       \* what is printed
  Ways,       \* how: "cooked", "raw", "verify" or "bios"
  MaxMishaps  \* bound: writes whose frame or answer is lost

Characters == {Text[i] : i \in DOMAIN Text}

ASSUME PrinterAssumption ==
  /\ Text \in Seq(Characters)
  /\ Ways \subseteq {"cooked", "raw", "verify", "bios"} /\ MaxMishaps \in Nat

VARIABLES
  job,     \* the way the text is printed, or "none", and how much of it has been dealt with
  paper,   \* not in the code: what the FujiNet's printer has of it
  mishaps, \* not in the code: writes that went wrong
  skipped  \* not in the code: the user has told DOS to go on after an error

printerVars == <<job, paper, mishaps, skipped>>

NoJob == [way |-> "none", at |-> 0]
Left == SubSeq(Text, job.at + 1, Len(Text))
Printing(ways) == step = "dos" /\ job.way \in ways /\ Left # <<>>

\* DOS finds the driver under its name LPT1, a program that calls interrupt 17 by the vector.
Start(way) ==
  /\ step = "dos" /\ job = NoJob
  /\ IF way = "bios" THEN vector["17"] = "prn" ELSE ended.prn = "OP_COMPLETE"
  /\ job' = [way |-> way, at |-> 0]
  /\ UNCHANGED <<paper, mishaps, skipped>>

\* A write of one byte to the printer, device 0x40.
PrnPort == ComOf(env.prn.environ)
PrnReaches == Reaches(PrnPort, uart[PrnPort].div)

fujicom_command_write(byte, o) ==
  /\ o = "done" => PrnReaches
  /\ o = "unheard" => PrnReaches
  /\ mishaps' = IF o = "done" \/ ~PrnReaches THEN mishaps ELSE mishaps + 1
  /\ mishaps' <= MaxMishaps
  /\ paper' = IF o = "lost" THEN paper ELSE Append(paper, byte)

Outcomes == {"done", "lost", "unheard"}

\* DOS sends one byte with each request, or in raw mode all of them; only the first is sent
\* on.  DOS takes what it asked for as written when the status has no ERROR_BIT.
\* A variant: how the write ended is not looked at.
StatusIgnored(o) == "OP_COMPLETE"

Status(o) == IF o = "done" THEN "OP_COMPLETE" ELSE "ERROR_BIT"
Asked == IF job.way = "cooked" THEN 1 ELSE Len(Left)

Output_cmd(o) ==
  /\ Printing({"cooked", "raw"})
  /\ fujicom_command_write(Head(Left), o)
  /\ \/ /\ Status(o) = "OP_COMPLETE"
        /\ job' = [job EXCEPT !.at = @ + Asked] /\ UNCHANGED skipped
     \/ /\ Status(o) = "ERROR_BIT"  \* Retry
        /\ UNCHANGED <<job, skipped>>
     \/ /\ Status(o) = "ERROR_BIT"  \* Ignore
        /\ job' = [job EXCEPT !.at = @ + Asked] /\ skipped' = TRUE

\* UNKNOWN_CMD without ERROR_BIT: DOS takes all of it as written.
Output_verify_cmd ==
  /\ Printing({"verify"})
  /\ job' = [job EXCEPT !.at = Len(Text)]
  /\ UNCHANGED <<paper, mishaps, skipped>>

\* Function 0 prints al.  1 and 2, which initialise the printer and ask for its status, do
\* nothing, and 0 is returned whatever happens.
int17(ah, o) ==
  /\ Printing({"bios"})
  /\ IF ah = 0
     THEN fujicom_command_write(Head(Left), o) /\ job' = [job EXCEPT !.at = @ + 1]
     ELSE o = "done" /\ UNCHANGED <<job, paper, mishaps>>
  /\ UNCHANGED skipped

\* The text has been dealt with, or the user makes DOS abort the program.
End ==
  /\ job # NoJob /\ (Left = <<>> \/ skipped)
  /\ job' = NoJob /\ paper' = <<>> /\ skipped' = FALSE
  /\ UNCHANGED mishaps

PrinterInit == job = NoJob /\ paper = <<>> /\ mishaps = 0 /\ skipped = FALSE

PrinterStep ==
  \/ \E way \in Ways : Start(way)
  \/ \E o \in Outcomes : Output_cmd(o) \/ \E ah \in 0..2 : int17(ah, o)
  \/ Output_verify_cmd \/ End

PrinterTypeOK ==
  /\ job.way \in Ways \cup {"none"} /\ job.at \in 0..Len(Text)
  /\ mishaps \in 0..MaxMishaps /\ skipped \in BOOLEAN
=============================================================================
