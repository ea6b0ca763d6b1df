-------------------------------- MODULE Boot --------------------------------
(***************************************************************************)
(* DOS starts the drivers named in CONFIG.SYS one after the other: the     *)
(* disk driver (sys/init.c) and the printer driver (printer/init.c).  Each *)
(* reads its options, opens the serial port that they name, finds out what *)
(* UART is there and, if all is well, puts its interrupt vector in place.  *)
(* Each has a copy of fujicom; the ports are the same.                     *)
(***************************************************************************)
EXTENDS Config

CONSTANTS
  Coms,    \* serial ports of the PC, within 1..4
  Orders,  \* in which order CONFIG.SYS may name the drivers
  Lines,   \* Lines[d]: the lines it may have for driver d
  Number,  \* Number[t]: what atoi makes of token t
  Kinds,   \* UARTs that may be there
  Rates    \* bits per second that the FujiNet may be set to

Drivers == {"sys", "prn"}

ASSUME ComsAssumption == 1 \in Coms /\ Coms \subseteq 1..4
ASSUME OrdersAssumption ==
  Orders \subseteq {<<"sys">>, <<"prn">>, <<"sys", "prn">>, <<"prn", "sys">>}
ASSUME NumberAssumption == \A t \in DOMAIN Number : Number[t] \in Nat
ASSUME KindsAssumption == Kinds \subseteq {"8250", "16450", "16550", "16550A"}

VARIABLES
  order,     \* the drivers as CONFIG.SYS names them
  turn,      \* whose turn it is
  line,      \* line[d]: what CONFIG.SYS says of driver d
  step,      \* how far Init_cmd of the present driver is, or "dos"
  env,       \* env[d]: what parse_config returns for d
  uart,      \* uart[c]: the registers of port c
  unmasked,  \* ports whose interrupt line the 8259 lets through
  vector,    \* vector[v]: who serves interrupt v
  uartKind,  \* what the UARTs are
  bus,       \* what reading a register that is not there gives
  fujinet,   \* where the FujiNet is attached, and its rate
  clock,     \* who has set DOS's date and time
  ended      \* ended[d]: what Init_cmd of driver d returned to DOS

bootVars == <<order, turn, line, step, env, uart, unmasked, vector, uartKind, bus, fujinet,
              clock, ended>>
machine == <<order, line, uartKind, bus, fujinet>>

Me == order[turn]
NoEnv == [at |-> 0, environ |-> <<>>]

----------------------------------------------------------------------------
(* The settings of fujicom_init.                                           *)

AtoI(t) == IF t \in DOMAIN Number THEN Number[t] ELSE 0
SERIAL_BPS == 115200

\* A port that is none of the four is COM1.
ComOf(e) ==
  LET comp == IF getenv(e, "FUJI_PORT") = NotSet THEN 1 ELSE AtoI(getenv(e, "FUJI_PORT"))
  IN IF comp \in 1..4 THEN comp ELSE 1
BpsOf(e) == IF getenv(e, "FUJI_BPS") = NotSet THEN SERIAL_BPS ELSE AtoI(getenv(e, "FUJI_BPS"))

\* A line has the driver's file name and one end of line, and names a port that is there.
IsLine(l) ==
  /\ l \in Seq(STRING) /\ Len(l) >= 2 /\ l[1] # Blank
  /\ \A i \in 1..Len(l) : l[i] \in Eol <=> i = Len(l)

ASSUME LinesAssumption ==
  \A d \in Drivers : \A l \in Lines[d] : IsLine(l) /\ ComOf(parse_config(l).environ) \in Coms

\* Two registers of eight bits.  The UART takes 0 for 65536.
Latch == 0..65535
Divisor(bps) == (115200 \div bps) % 65536

Port == ComOf(env[Me].environ)
Bps == BpsOf(env[Me].environ)

Goto(s) == step' = s

----------------------------------------------------------------------------
(* Init_cmd, from the options to the vector.                               *)

Parse ==
  /\ step = "parse" /\ Goto("open")
  /\ env' = [env EXCEPT ![Me] = parse_config(line[Me])]
  /\ UNCHANGED <<turn, uart, unmasked, vector, machine, clock, ended>>

\* No handler of its own comes with the line: port_open has the setvect commented out.
port_open ==
  /\ step = "open" /\ Goto("set")
  /\ unmasked' = unmasked \cup {Port}
  /\ UNCHANGED <<turn, env, uart, vector, machine, clock, ended>>

\* A rate of 0 divides by zero, which stops the machine.
port_set ==
  /\ step = "set" /\ Bps # 0 /\ Goto("disable")
  /\ uart' = [uart EXCEPT ![Port].div = Divisor(Bps), ![Port].lcr = <<8, "N", 1>>,
                          ![Port].mcr = TRUE, ![Port].ier = TRUE]
  /\ UNCHANGED <<turn, env, unmasked, vector, machine, clock, ended>>

DivideError ==
  /\ step = "set" /\ Bps = 0 /\ Goto("crashed")
  /\ UNCHANGED <<turn, env, uart, unmasked, vector, machine, clock, ended>>

\* A variant: interrupts stay on.
port_keep_interrupts ==
  /\ step = "disable" /\ Goto("identify")
  /\ UNCHANGED <<turn, env, uart, unmasked, vector, machine, clock, ended>>

port_disable_interrupts ==
  /\ step = "disable" /\ Goto("identify")
  /\ uart' = [uart EXCEPT ![Port].ier = FALSE]
  /\ UNCHANGED <<turn, env, unmasked, vector, machine, clock, ended>>

\* The scratch register is written and read twice; the top bits of IIR tell whether the
\* FIFO, switched on, works.
Scratch(written) == IF uartKind = "8250" THEN bus ELSE written
FifoStatus == IF uartKind = "16550A" THEN 3 ELSE IF uartKind = "16550" THEN 2 ELSE 0
Identified ==
  IF Scratch(85) # 85 \/ Scratch(170) # 170 THEN "8250"
  ELSE IF FifoStatus = 0 THEN "16450"
  ELSE IF FifoStatus # 3 THEN "16550"
  ELSE "16550A"
FifoLeft ==
  CASE Identified = "16550A" -> TRUE
    [] Identified = "16550" -> FALSE
    [] OTHER -> uart[Port].fifo

check_uart ==
  /\ step = "identify" /\ Goto(IF Me = "sys" THEN "version" ELSE "vector")
  /\ uart' = [uart EXCEPT ![Port].fifo = FifoLeft, ![Port].found = Identified]
  /\ UNCHANGED <<turn, env, unmasked, vector, machine, clock, ended>>

\* A command is answered when the FujiNet is at that port and set to its rate.
Reaches(c, divisor) == fujinet.com = c /\ Divisor(fujinet.bps) = divisor
\* A variant: anything that comes is an answer.
AnswersAtAnyRate == fujinet.com = Port

Answers == Reaches(Port, uart[Port].div)

NextDriver(result) ==
  /\ ended' = [ended EXCEPT ![Me] = result]
  /\ turn' = turn + 1 /\ Goto(IF turn = Len(order) THEN "dos" ELSE "parse")

get_fujinet_version ==
  /\ step = "version" /\ Answers /\ Goto("time")
  /\ UNCHANGED <<turn, env, uart, unmasked, vector, machine, clock, ended>>

get_set_time ==
  /\ step = "time" /\ Answers /\ Goto("vector")
  /\ clock' = IF getenv(env[Me].environ, "NOTIME") = NotSet THEN "fujinet" ELSE clock
  /\ UNCHANGED <<turn, env, uart, unmasked, vector, machine, ended>>

\* No answer, or one that got lost: the port is closed and DOS told that the driver failed.
fujicom_done ==
  /\ step \in {"version", "time"} /\ NextDriver("ERROR_BIT")
  /\ uart' = [uart EXCEPT ![Port].ier = FALSE, ![Port].mcr = FALSE]
  /\ unmasked' = unmasked \ {Port}
  /\ UNCHANGED <<env, vector, machine, clock>>

VectorOf == [sys |-> "F5", prn |-> "17"]
SetVector ==
  /\ step = "vector" /\ NextDriver("OP_COMPLETE")
  /\ vector' = [vector EXCEPT ![VectorOf[Me]] = Me]
  /\ UNCHANGED <<env, uart, unmasked, machine, clock>>

----------------------------------------------------------------------------
\* What the BIOS leaves behind: 9600 bps, and a FIFO that is off or on.
BootInit ==
  /\ order \in Orders /\ turn = 1 /\ step = "parse"
  /\ line \in [Drivers -> UNION {Lines[d] : d \in Drivers}] /\ \A d \in Drivers : line[d] \in Lines[d]
  /\ env = [d \in Drivers |-> NoEnv]
  /\ uartKind \in Kinds /\ bus \in IF uartKind = "8250" THEN {85, 170, 255} ELSE {255}
  /\ \E on \in IF uartKind \in {"16550", "16550A"} THEN BOOLEAN ELSE {FALSE} :
       uart = [c \in Coms |-> [div |-> 12, lcr |-> <<8, "N", 1>>, mcr |-> FALSE, ier |-> FALSE,
                              fifo |-> on, found |-> "none"]]
  /\ unmasked = {}
  /\ vector = [v \in {"F5", "17"} |-> "bios"]
  /\ fujinet \in [com : Coms, bps : Rates]
  /\ clock = "bios" /\ ended = [d \in Drivers |-> "none"]

BootStep ==
  \/ Parse \/ port_open \/ port_set \/ DivideError \/ port_disable_interrupts \/ check_uart
  \/ get_fujinet_version \/ get_set_time \/ fujicom_done \/ SetVector

BootTypeOK ==
  /\ order \in Orders /\ turn \in 1..(Len(order) + 1)
  /\ step \in {"parse", "open", "set", "disable", "identify", "version", "time", "vector", "dos",
               "crashed"}
  /\ \A d \in Drivers : env[d].at \in Nat
  /\ \A c \in Coms :
       /\ uart[c].div \in Latch /\ uart[c].lcr = <<8, "N", 1>> /\ uart[c].mcr \in BOOLEAN
       /\ uart[c].ier \in BOOLEAN /\ uart[c].fifo \in BOOLEAN /\ uart[c].found \in Kinds \cup {"none"}
  /\ unmasked \subseteq Coms
  /\ vector.F5 \in {"bios", "sys"} /\ vector["17"] \in {"bios", "prn"}
  /\ clock \in {"bios", "fujinet"}
  /\ ended \in [Drivers -> {"none", "ERROR_BIT", "OP_COMPLETE"}]
=============================================================================
