----------------------------- MODULE MCRoutines -----------------------------
(***************************************************************************)
(* TLC instance of CksumLoop and ComTimeout: in each behaviour one of the  *)
(* two routines that FUJICOM rests on runs, and the other one stands still. *)
(***************************************************************************)
EXTENDS CksumLoop, ComTimeout

VARIABLE turn  \* which of the two it is

\* TIMEOUT and TIMEOUT_SLOW of fujicom.c, and a getbuf of two bytes.
MCWaits == {<<"port_getc_nobuf", 100, 1>>, <<"port_getc_nobuf", 15000, 1>>,
            <<"port_getbuf", 15000, 2>>}

\* Where the counter's low word wraps (65536), where the 16-bit milliseconds do
\* (every 1191.56 ticks), and an afternoon.
MCStarts == {0, 1100, 1191, 65300, 65530, 65535, 65536 + 1000, 917504, 1500000}

\* The routine that stands still is in one of its initial states.
NoWait == tick = 0 /\ wait = <<"port_getc_nobuf", 100, 1>>
NoSum == sent = [k \in 1..N |-> 0] /\ hit = 1 /\ got[1] = 1

RoutinesInit ==
  /\ Init /\ WaitInit
  /\ \/ turn = "sum" /\ NoWait
     \/ turn = "wait" /\ NoSum

RoutinesNext ==
  \/ turn = "sum" /\ Next /\ UNCHANGED <<waitVars, turn>>
  \/ turn = "wait" /\ WaitNext /\ UNCHANGED <<vars, turn>>

\* The fairness of ComTimeout; the loop of the checksum needs none.
RoutinesSpec ==
  /\ RoutinesInit /\ [][RoutinesNext]_<<vars, waitVars, turn>>
  /\ WF_waitVars(turn = "wait" /\ HostStep /\ UNCHANGED <<vars, turn>>)
  /\ WF_waitVars(turn = "wait" /\ TimerTick /\ UNCHANGED <<vars, turn>>)
=============================================================================
