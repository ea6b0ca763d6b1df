------------------------------ MODULE Startup -------------------------------
(***************************************************************************)
(* The PC from CONFIG.SYS to the printer: Boot, then Printer.              *)
(***************************************************************************)
EXTENDS Printer, FiniteSets

vars == <<bootVars, printerVars>>

Init == BootInit /\ PrinterInit

\* DOS waits for the user, or the machine is dead.
Idle == step \in {"dos", "crashed"} /\ UNCHANGED vars

Next ==
  \/ BootStep /\ UNCHANGED printerVars
  \/ PrinterStep /\ UNCHANGED bootVars
  \/ Idle

Spec == Init /\ [][Next]_vars

----------------------------------------------------------------------------
TypeOK == BootTypeOK /\ PrinterTypeOK

\* The environment has the options of the line in their order, each with an "=", then one with
\* nothing in it if blanks end the line; it stops short of an option only when that one has
\* no room in config_env (init.c:282-313).
IsArgument(l, i) == l[i] \notin Eol \cup {Blank} /\ \E j \in 1..i : l[j] = Blank
Starts(l) == {i \in 2..Len(l) : IsArgument(l, i) /\ l[i - 1] = Blank}
Rank(l, i) == Cardinality({j \in Starts(l) : j <= i})
WordAt(l, i) == SubSeq(l, i, (CHOOSE j \in i..Len(l) :
                                ~IsArgument(l, j + 1) /\ \A k \in i..j : IsArgument(l, k)))
TextOf(w) == IF \E i \in DOMAIN w : w[i] = "=" THEN w ELSE w \o <<"=">>

Counted(l) == Rank(l, Len(l)) + (IF l[Len(l) - 1] = Blank THEN 1 ELSE 0)
Taken(e, from) ==
  LET at[n \in 0..Len(e)] == IF n = 0 THEN from ELSE at[n - 1] + Len(e[n]) + 1 IN at[Len(e)]

IsEnvOf(e, l) ==
  /\ \A i \in Starts(l) :
       /\ Rank(l, i) <= Len(e) => e[Rank(l, i)] = TextOf(WordAt(l, i))
       /\ Rank(l, i) = Len(e) + 1 =>
            Taken(e, Pointer * (Counted(l) + 1)) + Len(TextOf(WordAt(l, i))) >= ENV_SIZE
  /\ Len(e) <= Counted(l)
  /\ Len(e) > Rank(l, Len(l)) => e[Len(e)] = <<"=">>

EnvIsOptions == \A d \in Drivers : env[d] # NoEnv => IsEnvOf(env[d].environ, line[d])

\* Once DOS runs, no UART can interrupt, for nobody serves it (com.c:180), and a driver that
\* is in place has its port at the rate of its line, open and with a FIFO that works (a
\* 16550's does not), unless a driver that came later was told another rate for that port or
\* failed and closed it.
Settings(d) == [com |-> ComOf(env[d].environ), bps |-> BpsOf(env[d].environ)]
Disturbed(d) == \E e \in Drivers :
  /\ <<d, e>> = order /\ Settings(e).com = Settings(d).com
  /\ Settings(e).bps # Settings(d).bps \/ ended[e] = "ERROR_BIT"

PortsAsAsked ==
  step = "dos" =>
    /\ \A c \in Coms : ~(uart[c].ier /\ uart[c].mcr /\ c \in unmasked)
    /\ \A d \in Drivers : ended[d] = "OP_COMPLETE" /\ ~Disturbed(d) =>
         LET u == uart[Settings(d).com]
         IN /\ u.div = Divisor(Settings(d).bps) /\ u.mcr
            /\ u.fifo <=> uartKind = "16550A"

\* The disk driver, and INT F5 with it, is in place only when the FujiNet is there, on that
\* port and at that rate: it has answered twice (init.c:82-90).
InPlaceMeansReached ==
  vector.F5 = "sys" => Reaches(Settings("sys").com, Divisor(Settings("sys").bps))

\* A text that DOS prints with one byte for each request is on the paper as far as DOS has
\* got, and one byte further at most; a byte is there more than once only when the answer to
\* it was lost and the user told DOS to try again (commands.c:48-58 of the printer), so that
\* without mishaps the paper has what DOS has got to and nothing else.
Echoes(s, m) ==
  \E f \in [1..Len(s) -> 1..m] :
    /\ \A k \in 1..Len(s) : s[k] = Text[f[k]]
    /\ \A k \in 1..Len(s), l \in 1..Len(s) : k <= l => f[k] <= f[l]
    /\ \A j \in 1..m : \E k \in 1..Len(s) : f[k] = j

PaperIsText ==
  job.way = "cooked" /\ ~skipped =>
    /\ \E m \in {job.at, job.at + 1} \cap (0..Len(Text)) : Echoes(paper, m)
    /\ Len(paper) <= job.at + mishaps
=============================================================================
