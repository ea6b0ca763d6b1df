----------------------------- MODULE ComTimeout -----------------------------
(***************************************************************************)
(* How port_getc_nobuf and port_getbuf of fujicom/com.c wait for a byte:   *)
(* they poll the line status register and read the BIOS tick counter, which *)
(* the timer interrupt advances beside them and sets back at midnight.     *)
(* Milliseconds are 16-bit: the low word of the counter times 55.          *)
(***************************************************************************)
EXTENDS Integers

CONSTANTS
  Waits,     \* the waits the callers ask for, as <<routine, timeout, len>>
  Starts,    \* the values the tick counter may have when the machine is watched
  MaxTicks,  \* bound: timer ticks during one wait
  MaxWaits   \* bound: waits

MsPerTick == 55
Word == 65536            \* uint16_t
Midnight == 1573040      \* 0x1800B0 ticks in a day (external: the BIOS)

Wait == {"port_getc_nobuf", "port_getbuf"} \X (1..Word - 1) \X (Nat \ {0})

ASSUME WaitsAssumption == Waits \subseteq Wait
ASSUME StartsAssumption == Starts \subseteq 0..Midnight - 1
\* Within these many ticks the 16-bit milliseconds do not come round.
ASSUME TicksAssumption == MaxTicks \in 1..Word \div MsPerTick
ASSUME MaxWaitsAssumption == MaxWaits \in Nat

VARIABLES
  tick,             \* the BIOS tick counter
  enabled,          \* the processor's interrupt flag
  pending,          \* a timer interrupt is held back by it
  rx,               \* bytes in the receiver
  pc,               \* "idle", "poll" or "clock"
  wait,             \* the running wait
  rlen,             \* bytes it has taken
  to_start,         \* com.c's static of that name
  waited,           \* timer ticks since to_start was set, counted or not
  n, result         \* waits so far, and how the last one ended

waitVars == <<tick, enabled, pending, rx, pc, wait, rlen, to_start, waited, n, result>>

WaitInit ==
  /\ tick \in Starts /\ enabled = TRUE /\ pending = FALSE /\ rx = 0
  /\ pc = "idle" /\ wait \in Waits /\ rlen = 0 /\ to_start = 0 /\ waited = 0
  /\ n = 0 /\ result = "none"

routine == wait[1]
timeout == wait[2]
len == wait[3]

-----------------------------------------------------------------------------
(* The machine. *)

NextTick(t) == IF t = Midnight - 1 THEN 0 ELSE t + 1

\* A tick that comes while another one is held back is lost.
TimerTick ==
  /\ pc # "idle" /\ waited < MaxTicks
  /\ waited' = waited + 1
  /\ IF enabled
     THEN tick' = NextTick(tick) /\ UNCHANGED pending
     ELSE pending' = TRUE /\ UNCHANGED tick
  /\ UNCHANGED <<enabled, rx, pc, wait, rlen, to_start, n, result>>

Arrive ==
  /\ pc # "idle" /\ rx = 0
  /\ rx' = 1
  /\ UNCHANGED <<tick, enabled, pending, pc, wait, rlen, to_start, waited, n, result>>

\* _enable() lets a held back timer interrupt in.
Enable ==
  /\ enabled' = TRUE /\ pending' = FALSE
  /\ tick' = IF pending THEN NextTick(tick) ELSE tick

-----------------------------------------------------------------------------
(* The routines. *)

\* The low word of the counter, times 55, in 16 bits.
get_time_ms(t) == ((t % Word) * MsPerTick) % Word

\* timeout_delta(), computed in 16 bits; a variant that keeps the sign instead.
timeout_delta_signed(from, now) == now - from

timeout_delta(from, now) == (now - from) % Word

timeout_start == to_start' = get_time_ms(tick) /\ waited' = 0

Begin(w) ==
  /\ pc = "idle" /\ n < MaxWaits
  /\ n' = n + 1
  /\ wait' = w /\ rlen' = 0
  /\ enabled' = (w[1] = "port_getc_nobuf")
  /\ timeout_start
  /\ pc' = "poll"
  /\ UNCHANGED <<tick, pending, rx, result>>

Return(r) ==
  /\ pc' = "idle" /\ result' = r
  /\ Enable

\* The line status register shows a byte: it is taken, and port_getbuf starts
\* the clock again for the next one.
PollFull ==
  /\ pc = "poll" /\ rx > 0
  /\ rx' = 0 /\ rlen' = rlen + 1
  /\ IF rlen' = len
     THEN Return("bytes") /\ UNCHANGED <<to_start, waited>>
     ELSE timeout_start /\ UNCHANGED <<pc, result, enabled, pending, tick>>
  /\ UNCHANGED <<wait, n>>

\* A variant that polls on without looking at the clock.
PollEmptySpins ==
  /\ pc = "poll" /\ rx = 0
  /\ UNCHANGED waitVars

PollEmpty ==
  /\ pc = "poll" /\ rx = 0
  /\ pc' = "clock"
  /\ UNCHANGED <<tick, enabled, pending, rx, wait, rlen, to_start, waited, n, result>>

\* timeout_now and the comparison.
Clock ==
  /\ pc = "clock"
  /\ IF timeout_delta(to_start, get_time_ms(tick)) > timeout
     THEN Return("timeout")
     ELSE pc' = "poll" /\ UNCHANGED <<result, enabled, pending, tick>>
  /\ UNCHANGED <<rx, wait, rlen, to_start, waited, n>>

HostStep == PollFull \/ PollEmpty \/ Clock

WaitOver == pc = "idle" /\ n = MaxWaits /\ UNCHANGED waitVars

WaitNext == TimerTick \/ Arrive \/ HostStep \/ (\E w \in Waits : Begin(w)) \/ WaitOver

WaitSpec == WaitInit /\ [][WaitNext]_waitVars

\* The timer goes on ticking and the loop goes on polling; no byte has to come.
FairSpec == WaitSpec /\ WF_waitVars(HostStep) /\ WF_waitVars(TimerTick)

-----------------------------------------------------------------------------
WaitTypeOK ==
  /\ tick \in 0..Midnight - 1 /\ enabled \in BOOLEAN /\ pending \in BOOLEAN
  /\ rx \in 0..1 /\ pc \in {"idle", "poll", "clock"}
  /\ wait \in Wait /\ rlen \in Nat
  /\ to_start \in 0..Word - 1 /\ waited \in 0..MaxTicks
  /\ n \in Nat /\ result \in {"none", "bytes", "timeout"}

\* port_getc_nobuf gives up at its first look at the clock after its timeout,
\* counted in ticks of 55 ms, has passed, and never before - also where the low
\* word of the counter or the 16-bit milliseconds wrap.
GivesUpOnTime ==
  [][pc = "clock" /\ pc' # "clock" /\ routine = "port_getc_nobuf" =>
       (pc' = "idle" <=> waited * MsPerTick > timeout)]_waitVars

\* A port_getc_nobuf on a silent line comes to an end.
GetcReturns == (pc # "idle" /\ routine = "port_getc_nobuf") ~> (pc = "idle")
=============================================================================
