--------------------------- MODULE StartupProofs ----------------------------
(***************************************************************************)
(* What holds of the drivers at boot for all lines of CONFIG.SYS, serial   *)
(* ports, UARTs and rates of the FujiNet, and of the paper for all texts.  *)
(***************************************************************************)
EXTENDS Startup, SeqLemmas, FiniteSetTheorems

AfterSet == {"disable", "identify", "version", "time", "vector"}
AfterIdentify == {"version", "time", "vector"}
Places == {"parse", "open", "set", "dos", "crashed"} \cup AfterSet
Registers ==
  [div : {12} \cup {Divisor(b) : b \in Nat \ {0}}, lcr : {<<8, "N", 1>>},
   mcr : BOOLEAN, ier : BOOLEAN, fifo : BOOLEAN, found : {"none", "8250", "16450", "16550", "16550A"}]

Types ==
  /\ order \in Orders /\ turn \in 1..(Len(order) + 1)
  /\ step \in Places /\ (step = "dos" <=> turn = Len(order) + 1)
  /\ \A d \in Drivers : line[d] \in Lines[d]
  /\ DOMAIN env = Drivers
  /\ uart \in [Coms -> Registers]
  /\ uartKind \in {"8250", "16450", "16550", "16550A"}
  /\ uartKind = "8250" => bus \in {85, 170, 255}
  /\ vector \in [{"F5", "17"} -> {"bios", "sys", "prn"}]
  /\ ended \in [Drivers -> {"none", "ERROR_BIT", "OP_COMPLETE"}]

\* The drivers whose Init_cmd has returned, and those that have read their options.
Over == {order[i] : i \in 1..(turn - 1)}
Parsed(d) == d \in Over \/ (step # "dos" /\ d = Me /\ step # "parse")

\* The port of each driver that has read its options is one that is there.
PortsThere == \A d \in Drivers : Parsed(d) => Settings(d).com \in Coms

\* Only between port_set and port_disable_interrupts may a UART interrupt.
IrqsOff == \A c \in Coms : uart[c].ier => step = "disable" /\ c = Port

FifoWorks(u) == u.fifo <=> uartKind = "16550A"
NoFifo == uartKind \in {"8250", "16450"} => \A c \in Coms : ~uart[c].fifo

\* The driver whose turn it is has its port as it asked from port_set on.
MinePrepared ==
  /\ step \in AfterSet => uart[Port].div = Divisor(Bps) /\ uart[Port].mcr
  /\ step \in AfterIdentify => FifoWorks(uart[Port])

AsAsked(d) ==
  /\ uart[Settings(d).com].div = Divisor(Settings(d).bps) /\ uart[Settings(d).com].mcr
  /\ FifoWorks(uart[Settings(d).com])

\* A driver that came later was told another rate for the same port, or failed.
Spoilt(d) ==
  \E e \in Drivers :
    /\ order = <<d, e>> /\ Parsed(e) /\ Settings(e).com = Settings(d).com
    /\ Settings(e).bps # Settings(d).bps \/ ended[e] = "ERROR_BIT"

NotEarly == \A d \in Drivers : ended[d] # "none" => d \in Over

DonePrepared ==
  \A d \in Drivers : ended[d] = "OP_COMPLETE" => d \in Over /\ (AsAsked(d) \/ Spoilt(d))

SysReaches == Reaches(Settings("sys").com, Divisor(Settings("sys").bps))
SysAnswered ==
  /\ step = "vector" /\ Me = "sys" => SysReaches
  /\ vector["F5"] = "sys" => "sys" \in Over /\ SysReaches

Inv ==
  /\ Types /\ PortsThere /\ IrqsOff /\ NoFifo
  /\ MinePrepared /\ NotEarly /\ DonePrepared /\ SysAnswered

----------------------------------------------------------------------------
LEMMA OrderFacts ==
  ASSUME order \in Orders
  PROVE  /\ Len(order) \in {1, 2} /\ order[1] \in Drivers
         /\ Len(order) = 2 => /\ order[2] \in Drivers /\ order[1] # order[2]
                              /\ order = <<order[1], order[2]>>
         /\ \A d, e : order = <<d, e>> => Len(order) = 2 /\ order[1] = d /\ order[2] = e
  BY OrdersAssumption, SMT DEF Drivers

LEMMA MeFacts ==
  ASSUME Types, step # "dos"
  PROVE  /\ turn \in 1..Len(order) /\ turn \in {1, 2} /\ Me \in Drivers /\ Me \notin Over
         /\ turn = 1 => Over = {}
         /\ turn = 2 => Over = {order[1]} /\ order = <<order[1], Me>>
<1>1. order \in Orders /\ turn \in 1..(Len(order) + 1) /\ turn # Len(order) + 1
  BY DEF Types
<1>2. Len(order) \in {1, 2}
  BY <1>1, OrderFacts
<1>3. turn \in 1..Len(order) /\ turn \in {1, 2}
  <2>1. CASE Len(order) = 1
    BY <1>1, <2>1, SMT
  <2>2. CASE Len(order) = 2
    BY <1>1, <2>2, SMT
  <2> QED
    BY <1>2, <2>1, <2>2
<1>4. turn = 1 => Over = {}
  BY SMT DEF Over
<1>5. turn = 2 => Over = {order[1]} /\ Len(order) = 2
  <2> SUFFICES ASSUME turn = 2 PROVE Over = {order[1]} /\ Len(order) = 2
    OBVIOUS
  <2>1. 1..(turn - 1) = {1}
    BY SMT
  <2>2. Len(order) = 2
    BY <1>2, <1>3, SMT
  <2> QED
    BY <2>1, <2>2 DEF Over
<1> QED
  BY <1>1, <1>2, <1>3, <1>4, <1>5, OrderFacts DEF Me

LEMMA SettingsOfMe == Settings(Me) = [com |-> Port, bps |-> Bps]
  BY DEF Settings, Port, Bps

LEMMA BpsIsNat == Bps \in Nat
  BY NumberAssumption DEF Bps, BpsOf, AtoI, SERIAL_BPS

\* Identification finds out what is there, and leaves the FIFO as it should be.
LEMMA Identification ==
  ASSUME Types, NoFifo, Port \in Coms
  PROVE  FifoLeft \in BOOLEAN /\ (FifoLeft <=> uartKind = "16550A")
         /\ Identified \in {"8250", "16450", "16550", "16550A"}
<1>1. Identified = uartKind
  BY DEF Types, Identified, Scratch, FifoStatus
<1>2. uart[Port].fifo \in BOOLEAN
  BY DEF Types, Registers
<1> QED
  BY <1>1, <1>2 DEF Types, NoFifo, FifoLeft

LEMMA InitInv == Init => Inv
<1> SUFFICES ASSUME Init PROVE Inv
  OBVIOUS
<1>1. order \in Orders /\ turn = 1 /\ step = "parse"
  BY DEF Init, BootInit
<1>2. Over = {} /\ turn # Len(order) + 1 /\ turn \in 1..(Len(order) + 1)
  <2>1. Len(order) \in {1, 2}
    BY <1>1, OrderFacts
  <2>2. 1..(turn - 1) = {}
    BY <1>1, SMT
  <2> QED
    BY <1>1, <2>1, <2>2, SMT DEF Over
<1>3. uartKind \in {"8250", "16450", "16550", "16550A"}
  BY KindsAssumption DEF Init, BootInit
<1>4. PICK on \in IF uartKind \in {"16550", "16550A"} THEN BOOLEAN ELSE {FALSE} :
        uart = [c \in Coms |-> [div |-> 12, lcr |-> <<8, "N", 1>>, mcr |-> FALSE, ier |-> FALSE,
                                fifo |-> on, found |-> "none"]]
  BY DEF Init, BootInit
<1>5. on \in BOOLEAN /\ (uartKind \in {"8250", "16450"} => on = FALSE)
  BY <1>3, <1>4
<1>6. uart \in [Coms -> Registers]
  BY <1>4, <1>5 DEF Registers
<1>7. Types
  <2>1. vector \in [{"F5", "17"} -> {"bios", "sys", "prn"}]
    BY DEF Init, BootInit
  <2>2. ended \in [Drivers -> {"none", "ERROR_BIT", "OP_COMPLETE"}]
    BY DEF Init, BootInit
  <2>3. DOMAIN env = Drivers /\ \A d \in Drivers : line[d] \in Lines[d]
    BY DEF Init, BootInit
  <2>4. uartKind = "8250" => bus \in {85, 170, 255}
    BY DEF Init, BootInit
  <2> QED
    BY <1>1, <1>2, <1>3, <1>6, <2>1, <2>2, <2>3, <2>4 DEF Types, Places
<1>8. PortsThere /\ MinePrepared
  BY <1>1, <1>2 DEF PortsThere, Parsed, MinePrepared, AfterSet, AfterIdentify
<1>9. IrqsOff /\ NoFifo
  BY <1>4, <1>5 DEF IrqsOff, NoFifo
<1>10. NotEarly /\ DonePrepared /\ SysAnswered
  BY <1>1 DEF NotEarly, DonePrepared, SysAnswered, Init, BootInit
<1> QED
  BY <1>7, <1>8, <1>9, <1>10 DEF Inv

----------------------------------------------------------------------------
\* A step within Init_cmd that reads no options changes nobody's settings.
LEMMA SameSettings ==
  ASSUME order' = order, turn' = turn, env' = env
  PROVE  /\ Me' = Me /\ Over' = Over /\ Port' = Port /\ Bps' = Bps
         /\ \A d : Settings(d)' = Settings(d)
         /\ step \notin {"parse", "dos"} /\ step' \notin {"parse", "dos"} =>
              \A d : Parsed(d)' <=> Parsed(d)
  BY DEF Me, Over, Port, Bps, Settings, Parsed

AsMine(u) == u.div = Divisor(Bps) /\ u.mcr /\ FifoWorks(u)

\* The driver that is in place keeps its port, unless the present one takes it for another rate.
LEMMA DoneKept ==
  ASSUME Inv, step \notin {"parse", "dos"}, step' \notin {"parse", "dos"},
         order' = order, turn' = turn, env' = env, ended' = ended, uartKind' = uartKind,
         \A c \in Coms \ {Port} : uart'[c] = uart[c],
         AsMine(uart[Port]) => AsMine(uart'[Port])
  PROVE  DonePrepared'
<1> SUFFICES ASSUME NEW d \in Drivers, ended[d] = "OP_COMPLETE"
             PROVE  d \in Over /\ (AsAsked(d)' \/ Spoilt(d)')
  BY SameSettings DEF DonePrepared
<1>1. d \in Over /\ (AsAsked(d) \/ Spoilt(d))
  BY DEF Inv, DonePrepared
<1>2. turn = 2 /\ d = order[1] /\ order = <<d, Me>> /\ Me \in Drivers
  BY <1>1, MeFacts DEF Inv
<1>3. Settings(d).com \in Coms /\ Parsed(Me)
  BY <1>1, <1>2 DEF Inv, PortsThere, Parsed
<1>4. CASE Spoilt(d)
  BY <1>1, <1>4, SameSettings DEF Spoilt, Settings
<1>5. CASE AsAsked(d) /\ Settings(d).com # Port
  <2>1. uart'[Settings(d).com] = uart[Settings(d).com]
    BY <1>3, <1>5
  <2> QED
    BY <1>1, <1>5, <2>1 DEF AsAsked, FifoWorks, Settings
<1>6. CASE AsAsked(d) /\ Settings(d).com = Port /\ Settings(d).bps = Bps
  <2>1. AsMine(uart[Port])
    BY <1>6 DEF AsAsked, AsMine
  <2> QED
    BY <1>1, <1>6, <2>1, SameSettings DEF AsAsked, AsMine, FifoWorks, Settings
<1>7. CASE Settings(d).com = Port /\ Settings(d).bps # Bps
  <2>1. PICK e \in Drivers : e = Me
    BY <1>2
  <2>2. order' = <<d, e>> /\ Parsed(e)' /\ Settings(e) = [com |-> Port, bps |-> Bps]
    BY <1>2, <1>3, <2>1, SameSettings, SettingsOfMe
  <2> QED
    BY <1>1, <1>2, <1>7, <2>2 DEF Spoilt, Settings
<1> QED
  BY <1>1, <1>4, <1>5, <1>6, <1>7

\* What the disk driver found out stays true.
LEMMA SysKept ==
  ASSUME Inv, step \notin {"parse", "dos"}, step' \notin {"parse", "dos"},
         order' = order, turn' = turn, env' = env, vector' = vector, fujinet' = fujinet,
         step' = "vector" /\ Me = "sys" => SysReaches
  PROVE  SysAnswered'
  BY SameSettings DEF Inv, SysAnswered, SysReaches, Reaches

LEMMA PortIsThere ==
  ASSUME Inv, step \notin {"parse", "dos"}
  PROVE  Port \in Coms /\ Me \in Drivers /\ uart[Port] \in Registers /\ uart \in [Coms -> Registers]
<1>1. Me \in Drivers /\ Parsed(Me)
  BY MeFacts DEF Inv, Parsed
<1>2. Port \in Coms
  BY <1>1, SettingsOfMe DEF Inv, PortsThere
<1> QED
  BY <1>1, <1>2 DEF Inv, Types

----------------------------------------------------------------------------
LEMMA ParseInv == Inv /\ Parse => Inv'
<1> SUFFICES ASSUME Inv, Parse PROVE Inv'
  OBVIOUS
<1>1. /\ step = "parse" /\ step' = "open" /\ order' = order /\ turn' = turn /\ uart' = uart
      /\ uartKind' = uartKind /\ ended' = ended /\ vector' = vector /\ fujinet' = fujinet
      /\ line' = line /\ bus' = bus /\ env' = [env EXCEPT ![Me] = parse_config(line[Me])]
  BY DEF Parse, Goto, machine
<1>2. Me \in Drivers /\ Me \notin Over /\ Me' = Me /\ Over' = Over
  BY <1>1, MeFacts DEF Inv, Me, Over
<1>3. \A d \in Drivers : d # Me => env'[d] = env[d]
  BY <1>1, <1>2 DEF Inv, Types
<1>4. env'[Me] = parse_config(line[Me]) /\ ComOf(env'[Me].environ) \in Coms
  BY <1>1, <1>2, LinesAssumption DEF Inv, Types
<1>5. Types'
  BY <1>1 DEF Inv, Types, Places, AfterSet
<1>6. PortsThere'
  <2> SUFFICES ASSUME NEW d \in Drivers, Parsed(d)' PROVE Settings(d)'.com \in Coms
    BY DEF PortsThere
  <2>1. CASE d = Me
    BY <1>4, <2>1 DEF Settings
  <2>2. CASE d # Me
    <3>1. Parsed(d)
      BY <1>1, <1>2, <2>2 DEF Parsed
    <3> QED
      BY <1>3, <2>2, <3>1 DEF Inv, PortsThere, Settings
  <2> QED
    BY <2>1, <2>2
<1>7. IrqsOff' /\ NoFifo' /\ MinePrepared' /\ NotEarly'
  BY <1>1, <1>2 DEF Inv, NotEarly, IrqsOff, NoFifo, MinePrepared, AfterSet, AfterIdentify
<1>8. DonePrepared'
  <2> SUFFICES ASSUME NEW d \in Drivers, ended[d] = "OP_COMPLETE"
               PROVE  d \in Over /\ AsAsked(d)'
    BY <1>1, <1>2 DEF DonePrepared
  <2>1. d \in Over /\ (AsAsked(d) \/ Spoilt(d)) /\ d # Me
    BY <1>2 DEF Inv, DonePrepared
  <2>2. ~Spoilt(d)
    BY <1>1, <1>2, <2>1, MeFacts, OrderFacts DEF Inv, Types, Spoilt, Parsed
  <2> QED
    BY <1>1, <1>3, <2>1, <2>2 DEF AsAsked, Settings, FifoWorks
<1>9. SysAnswered'
  BY <1>1, <1>2, <1>3 DEF Inv, SysAnswered, SysReaches, Reaches, Settings, Drivers
<1> QED
  BY <1>5, <1>6, <1>7, <1>8, <1>9 DEF Inv

\* A step that changes neither the settings nor the UARTs.
LEMMA StillInv ==
  ASSUME Inv, step \notin {"parse", "dos"}, step' \in Places \ {"parse", "dos"},
         order' = order, turn' = turn, env' = env, ended' = ended, line' = line, bus' = bus,
         uartKind' = uartKind, vector' = vector, fujinet' = fujinet,
         uart' \in [Coms -> Registers],
         \A c \in Coms \ {Port} : uart'[c] = uart[c],
         AsMine(uart[Port]) => AsMine(uart'[Port]),
         uart'[Port].ier => step' = "disable",
         uartKind \in {"8250", "16450"} => ~uart'[Port].fifo,
         uart[Port].ier /\ step' # "disable" => ~uart'[Port].ier,
         step' \in AfterSet => uart'[Port].div = Divisor(Bps) /\ uart'[Port].mcr,
         step' \in AfterIdentify => FifoWorks(uart'[Port]),
         step' = "vector" /\ Me = "sys" => SysReaches
  PROVE  Inv'
<1>1. Port \in Coms /\ uart \in [Coms -> Registers]
  BY PortIsThere
<1>2. Types'
  BY DEF Inv, Types
<1>3. PortsThere'
  BY SameSettings DEF Inv, PortsThere, Settings
<1>4. IrqsOff' /\ NoFifo'
  <2> SUFFICES ASSUME NEW c \in Coms
               PROVE  /\ uart'[c].ier => step' = "disable" /\ c = Port
                      /\ uartKind \in {"8250", "16450"} => ~uart'[c].fifo
    BY SameSettings DEF IrqsOff, NoFifo
  <2>1. CASE c = Port
    BY <2>1
  <2>2. CASE c # Port
    BY <2>2 DEF Inv, IrqsOff, NoFifo
  <2> QED
    BY <2>1, <2>2
<1>5. MinePrepared' /\ NotEarly'
  BY SameSettings DEF Inv, NotEarly, MinePrepared, FifoWorks
<1>6. DonePrepared'
  BY DoneKept DEF Places
<1>7. SysAnswered'
  BY SysKept DEF Places
<1> QED
  BY <1>2, <1>3, <1>4, <1>5, <1>6, <1>7 DEF Inv

LEMMA port_openInv == Inv /\ port_open => Inv'
<1> SUFFICES ASSUME Inv, port_open PROVE Inv'
  OBVIOUS
<1> USE DEF port_open, Goto, machine
<1>1. Port \in Coms /\ uart \in [Coms -> Registers]
  BY PortIsThere
<1>2. ~uart[Port].ier
  BY <1>1 DEF Inv, IrqsOff
<1> QED
  BY <1>1, <1>2, StillInv DEF Inv, NoFifo, Places, AfterSet, AfterIdentify

LEMMA DivideErrorInv == Inv /\ DivideError => Inv'
<1> SUFFICES ASSUME Inv, DivideError PROVE Inv'
  OBVIOUS
<1> USE DEF DivideError, Goto, machine
<1>1. Port \in Coms /\ uart \in [Coms -> Registers]
  BY PortIsThere
<1>2. ~uart[Port].ier
  BY <1>1 DEF Inv, IrqsOff
<1> QED
  BY <1>1, <1>2, StillInv DEF Inv, NoFifo, Places, AfterSet, AfterIdentify

LEMMA port_setInv == Inv /\ port_set => Inv'
<1> SUFFICES ASSUME Inv, port_set PROVE Inv'
  OBVIOUS
<1> USE DEF port_set, Goto, machine
<1>1. Port \in Coms /\ uart \in [Coms -> Registers] /\ uart[Port] \in Registers
  BY PortIsThere
<1>2. /\ uart'[Port].div = Divisor(Bps) /\ uart'[Port].mcr /\ uart'[Port].ier
      /\ uart'[Port].fifo = uart[Port].fifo /\ uart'[Port].found = uart[Port].found
      /\ \A c \in Coms \ {Port} : uart'[c] = uart[c]
  BY <1>1
<1>3. uart' \in [Coms -> Registers]
  <2>1. Divisor(Bps) \in {12} \cup {Divisor(b) : b \in Nat \ {0}}
    BY BpsIsNat
  <2> QED
    BY <1>1, <2>1 DEF Registers
<1>4. AsMine(uart[Port]) => AsMine(uart'[Port])
  BY <1>2 DEF AsMine, FifoWorks
<1>5. uartKind \in {"8250", "16450"} => ~uart'[Port].fifo
  BY <1>1, <1>2 DEF Inv, NoFifo
<1> QED
  BY <1>2, <1>3, <1>4, <1>5, StillInv DEF Places, AfterSet, AfterIdentify

LEMMA port_disable_interruptsInv == Inv /\ port_disable_interrupts => Inv'
<1> SUFFICES ASSUME Inv, port_disable_interrupts PROVE Inv'
  OBVIOUS
<1> USE DEF port_disable_interrupts, Goto, machine
<1>1. Port \in Coms /\ uart \in [Coms -> Registers] /\ uart[Port] \in Registers
  BY PortIsThere
<1>2. /\ uart'[Port].div = uart[Port].div /\ uart'[Port].mcr = uart[Port].mcr /\ ~uart'[Port].ier
      /\ uart'[Port].fifo = uart[Port].fifo /\ uart'[Port].found = uart[Port].found
      /\ \A c \in Coms \ {Port} : uart'[c] = uart[c]
  BY <1>1
<1>3. uart' \in [Coms -> Registers]
  BY <1>1 DEF Registers
<1>4. uart[Port].div = Divisor(Bps) /\ uart[Port].mcr
  BY DEF Inv, MinePrepared, AfterSet
<1>5. AsMine(uart[Port]) => AsMine(uart'[Port])
  BY <1>2 DEF AsMine, FifoWorks
<1>6. uartKind \in {"8250", "16450"} => ~uart'[Port].fifo
  BY <1>1, <1>2 DEF Inv, NoFifo
<1> QED
  BY <1>2, <1>3, <1>4, <1>5, <1>6, StillInv DEF Places, AfterSet, AfterIdentify

LEMMA check_uartInv == Inv /\ check_uart => Inv'
<1> SUFFICES ASSUME Inv, check_uart PROVE Inv'
  OBVIOUS
<1> USE DEF check_uart, Goto, machine
<1>1. Port \in Coms /\ uart \in [Coms -> Registers] /\ uart[Port] \in Registers
  BY PortIsThere
<1>2. FifoLeft \in BOOLEAN /\ (FifoLeft <=> uartKind = "16550A")
      /\ Identified \in {"8250", "16450", "16550", "16550A"}
  BY <1>1, Identification DEF Inv
<1>3. /\ uart'[Port].div = uart[Port].div /\ uart'[Port].mcr = uart[Port].mcr
      /\ uart'[Port].ier = uart[Port].ier /\ uart'[Port].fifo = FifoLeft
      /\ \A c \in Coms \ {Port} : uart'[c] = uart[c]
  BY <1>1
<1>4. uart' \in [Coms -> Registers]
  BY <1>1, <1>2 DEF Registers
<1>5. uart[Port].div = Divisor(Bps) /\ uart[Port].mcr /\ ~uart[Port].ier
  BY <1>1 DEF Inv, MinePrepared, AfterSet, IrqsOff
<1>6. FifoWorks(uart'[Port])
  BY <1>2, <1>3 DEF FifoWorks
<1>7. AsMine(uart'[Port])
  BY <1>3, <1>5, <1>6 DEF AsMine
<1>8. uartKind \in {"8250", "16450"} => ~uart'[Port].fifo
  BY <1>2, <1>3
<1>9. step' \in {"version", "vector"} /\ (step' = "vector" => Me # "sys")
  OBVIOUS
<1> QED
  BY <1>3, <1>4, <1>5, <1>6, <1>7, <1>8, <1>9, StillInv DEF Places, AfterSet, AfterIdentify

LEMMA get_fujinet_versionInv == Inv /\ get_fujinet_version => Inv'
<1> SUFFICES ASSUME Inv, get_fujinet_version PROVE Inv'
  OBVIOUS
<1> USE DEF get_fujinet_version, Goto, machine
<1>1. Port \in Coms /\ uart \in [Coms -> Registers]
  BY PortIsThere
<1>2. ~uart[Port].ier /\ uart[Port].div = Divisor(Bps) /\ uart[Port].mcr /\ FifoWorks(uart[Port])
  BY <1>1 DEF Inv, IrqsOff, MinePrepared, AfterSet, AfterIdentify
<1> QED
  BY <1>1, <1>2, StillInv DEF Inv, NoFifo, Places, AfterSet, AfterIdentify

LEMMA get_set_timeInv == Inv /\ get_set_time => Inv'
<1> SUFFICES ASSUME Inv, get_set_time PROVE Inv'
  OBVIOUS
<1> USE DEF get_set_time, Goto, machine
<1>1. Port \in Coms /\ uart \in [Coms -> Registers]
  BY PortIsThere
<1>2. ~uart[Port].ier /\ uart[Port].div = Divisor(Bps) /\ uart[Port].mcr /\ FifoWorks(uart[Port])
  BY <1>1 DEF Inv, IrqsOff, MinePrepared, AfterSet, AfterIdentify
<1>3. Me = "sys" => SysReaches
  BY <1>2, SettingsOfMe DEF Answers, SysReaches
<1> QED
  BY <1>1, <1>2, <1>3, StillInv DEF Inv, NoFifo, Places, AfterSet, AfterIdentify

----------------------------------------------------------------------------
\* The turn of the next driver, or DOS's.
LEMMA TurnFacts ==
  ASSUME Inv, step \notin {"parse", "dos"}, NEW result, NextDriver(result),
         order' = order, env' = env
  PROVE  /\ turn' \in 1..(Len(order) + 1) /\ step' \in {"parse", "dos"}
         /\ step' = "dos" <=> turn' = Len(order) + 1
         /\ Over' = Over \cup {Me}
         /\ \A d : Parsed(d)' => d \in Over \cup {Me}
         /\ \A d \in Drivers : Parsed(d) => Parsed(d)'
         /\ \A d \in Drivers : ended'[d] = IF d = Me THEN result ELSE ended[d]
<1>1. turn \in 1..Len(order) /\ turn \in {1, 2} /\ turn' = turn + 1 /\ Len(order) \in {1, 2}
  BY MeFacts, OrderFacts DEF Inv, Types, NextDriver
<1>2. step' = IF turn = Len(order) THEN "dos" ELSE "parse"
  BY DEF NextDriver, Goto
<1>3. turn' \in 1..(Len(order) + 1) /\ (step' = "dos" <=> turn' = Len(order) + 1)
      /\ step' \in {"parse", "dos"}
  <2>1. CASE Len(order) = 1
    BY <1>1, <1>2, <2>1, SMT
  <2>2. CASE Len(order) = 2
    BY <1>1, <1>2, <2>2, SMT
  <2> QED
    BY <1>1, <2>1, <2>2
<1>4. 1..(turn' - 1) = 1..(turn - 1) \cup {turn}
  BY <1>1, SMT
<1>5. Over' = Over \cup {Me}
  BY <1>4 DEF Over, Me
<1>6. \A d : Parsed(d)' <=> d \in Over \cup {Me}
  BY <1>3, <1>5 DEF Parsed
<1>7. \A d \in Drivers : ended'[d] = IF d = Me THEN result ELSE ended[d]
  BY MeFacts DEF Inv, Types, NextDriver
<1> QED
  BY <1>3, <1>5, <1>6, <1>7 DEF Parsed

LEMMA SetVectorInv == Inv /\ SetVector => Inv'
<1> SUFFICES ASSUME Inv, SetVector PROVE Inv'
  OBVIOUS
<1>1. /\ step = "vector" /\ NextDriver("OP_COMPLETE") /\ order' = order /\ env' = env
      /\ uart' = uart /\ line' = line /\ bus' = bus /\ uartKind' = uartKind /\ fujinet' = fujinet
      /\ vector' = [vector EXCEPT ![VectorOf[Me]] = Me]
  BY DEF SetVector, machine
<1>2. Me \in Drivers /\ Me \notin Over /\ Port \in Coms
  BY <1>1, MeFacts, PortIsThere DEF Inv
<1>3. /\ turn' \in 1..(Len(order) + 1) /\ step' \in {"parse", "dos"}
      /\ step' = "dos" <=> turn' = Len(order) + 1
      /\ Over' = Over \cup {Me} /\ \A d : Parsed(d)' => d \in Over \cup {Me}
      /\ \A d \in Drivers : Parsed(d) => Parsed(d)'
      /\ \A d \in Drivers : ended'[d] = IF d = Me THEN "OP_COMPLETE" ELSE ended[d]
  BY <1>1, TurnFacts
<1>4. \A d : d \in Over \cup {Me} => Parsed(d)
  BY <1>1 DEF Parsed
<1>5. Types'
  <2>1. vector' \in [{"F5", "17"} -> {"bios", "sys", "prn"}]
    BY <1>1, <1>2 DEF Inv, Types, Drivers
  <2>2. ended' \in [Drivers -> {"none", "ERROR_BIT", "OP_COMPLETE"}]
    BY <1>1, <1>2 DEF Inv, Types, NextDriver
  <2> QED
    BY <1>1, <1>3, <2>1, <2>2 DEF Inv, Types, Places
<1>6. PortsThere' /\ IrqsOff' /\ NoFifo' /\ MinePrepared' /\ NotEarly'
  <2>1. \A c \in Coms : ~uart[c].ier
    BY <1>1 DEF Inv, IrqsOff
  <2>2. PortsThere'
    BY <1>1, <1>3, <1>4 DEF Inv, PortsThere, Settings
  <2> QED
    BY <1>1, <1>3, <2>1, <2>2
        DEF Inv, NotEarly, IrqsOff, NoFifo, MinePrepared, AfterSet, AfterIdentify
<1>7. AsAsked(Me)
  BY <1>1, SettingsOfMe DEF Inv, MinePrepared, AsAsked, AfterSet, AfterIdentify
<1>8. DonePrepared'
  <2> SUFFICES ASSUME NEW d \in Drivers, ended'[d] = "OP_COMPLETE"
               PROVE  d \in Over' /\ (AsAsked(d)' \/ Spoilt(d)')
    BY DEF DonePrepared
  <2>1. CASE d = Me
    BY <1>1, <1>3, <1>7, <2>1 DEF AsAsked, FifoWorks, Settings
  <2>2. CASE d # Me
    <3>1. d \in Over /\ (AsAsked(d) \/ Spoilt(d))
      BY <1>3, <2>2 DEF Inv, DonePrepared
    <3>2. CASE AsAsked(d)
      BY <1>1, <1>3, <3>1, <3>2 DEF AsAsked, FifoWorks, Settings
    <3>3. CASE Spoilt(d)
      <4>1. PICK e \in Drivers :
              /\ order = <<d, e>> /\ Parsed(e) /\ Settings(e).com = Settings(d).com
              /\ Settings(e).bps # Settings(d).bps \/ ended[e] = "ERROR_BIT"
        BY <3>3 DEF Spoilt
      <4>2. ended[e] # "ERROR_BIT" \/ e # Me
        BY <1>2 DEF Inv, NotEarly
      <4> QED
        BY <1>1, <1>3, <3>1, <4>1, <4>2 DEF Spoilt, Settings
    <3> QED
      BY <3>1, <3>2, <3>3
  <2> QED
    BY <2>1, <2>2
<1>9. SysAnswered'
  <2> SUFFICES ASSUME vector'["F5"] = "sys" PROVE "sys" \in Over' /\ SysReaches'
    BY <1>3 DEF SysAnswered
  <2>1. CASE Me = "sys"
    BY <1>1, <1>3, <2>1 DEF Inv, SysAnswered, SysReaches, Reaches, Settings
  <2>2. CASE Me # "sys"
    <3>1. vector["F5"] = "sys"
      BY <1>1, <1>2, <2>2 DEF Inv, Types, Drivers, VectorOf
    <3> QED
      BY <1>1, <1>3, <3>1 DEF Inv, SysAnswered, SysReaches, Reaches, Settings
  <2> QED
    BY <2>1, <2>2
<1> QED
  BY <1>5, <1>6, <1>8, <1>9 DEF Inv

LEMMA fujicom_doneInv == Inv /\ fujicom_done => Inv'
<1> SUFFICES ASSUME Inv, fujicom_done PROVE Inv'
  OBVIOUS
<1>1. /\ step \in {"version", "time"} /\ NextDriver("ERROR_BIT") /\ order' = order /\ env' = env
      /\ uart' = [uart EXCEPT ![Port].ier = FALSE, ![Port].mcr = FALSE]
      /\ line' = line /\ bus' = bus /\ uartKind' = uartKind /\ fujinet' = fujinet
      /\ vector' = vector
  BY DEF fujicom_done, machine
<1>2. Me \in Drivers /\ Me \notin Over /\ Port \in Coms /\ uart \in [Coms -> Registers]
      /\ uart[Port] \in Registers
  BY <1>1, MeFacts, PortIsThere DEF Inv
<1>3. /\ turn' \in 1..(Len(order) + 1) /\ step' \in {"parse", "dos"}
      /\ step' = "dos" <=> turn' = Len(order) + 1
      /\ Over' = Over \cup {Me} /\ \A d : Parsed(d)' => d \in Over \cup {Me}
      /\ \A d \in Drivers : Parsed(d) => Parsed(d)'
      /\ \A d \in Drivers : ended'[d] = IF d = Me THEN "ERROR_BIT" ELSE ended[d]
  BY <1>1, TurnFacts
<1>4. \A d : d \in Over \cup {Me} => Parsed(d)
  BY <1>1 DEF Parsed
<1>5. \A c \in Coms \ {Port} : uart'[c] = uart[c]
  BY <1>1, <1>2
<1>6. uart' \in [Coms -> Registers] /\ ~uart'[Port].ier /\ uart'[Port].fifo = uart[Port].fifo
  BY <1>1, <1>2 DEF Registers
<1>7. Types'
  <2>1. ended' \in [Drivers -> {"none", "ERROR_BIT", "OP_COMPLETE"}]
    BY <1>1, <1>2 DEF Inv, Types, NextDriver
  <2> QED
    BY <1>1, <1>3, <1>6, <2>1 DEF Inv, Types, Places
<1>8. PortsThere' /\ MinePrepared' /\ NotEarly'
  BY <1>1, <1>3, <1>4 DEF Inv, NotEarly, PortsThere, Settings, MinePrepared, AfterSet, AfterIdentify
<1>9. IrqsOff' /\ NoFifo'
  BY <1>1, <1>2, <1>5, <1>6 DEF Inv, IrqsOff, NoFifo
<1>10. DonePrepared'
  <2> SUFFICES ASSUME NEW d \in Drivers, ended'[d] = "OP_COMPLETE"
               PROVE  d \in Over' /\ (AsAsked(d)' \/ Spoilt(d)')
    BY DEF DonePrepared
  <2>1. d # Me /\ d \in Over /\ (AsAsked(d) \/ Spoilt(d))
    BY <1>3 DEF Inv, DonePrepared
  <2>2. order = <<d, Me>>
    BY <1>1, <2>1, MeFacts DEF Inv
  <2>3. Settings(d).com \in Coms
    BY <1>4, <2>1 DEF Inv, PortsThere
  <2>4. CASE Settings(d).com = Port
    <3>1. PICK e \in Drivers : e = Me
      BY <1>2
    <3>2. order' = <<d, e>> /\ Parsed(e)' /\ Settings(e) = [com |-> Port, bps |-> Bps]
          /\ ended'[e] = "ERROR_BIT"
      BY <1>1, <1>3, <1>4, <2>2, <3>1, SettingsOfMe
    <3> QED
      BY <1>1, <1>3, <2>1, <2>4, <3>2 DEF Spoilt, Settings
  <2>5. CASE AsAsked(d) /\ Settings(d).com # Port
    BY <1>1, <1>3, <1>5, <2>1, <2>3, <2>5 DEF AsAsked, FifoWorks, Settings
  <2>6. CASE Spoilt(d)
    <3>1. PICK e \in Drivers :
            /\ order = <<d, e>> /\ Parsed(e) /\ Settings(e).com = Settings(d).com
            /\ Settings(e).bps # Settings(d).bps \/ ended[e] = "ERROR_BIT"
      BY <2>6 DEF Spoilt
    <3> QED
      BY <1>1, <1>3, <2>1, <3>1 DEF Spoilt, Settings
  <2> QED
    BY <2>1, <2>4, <2>5, <2>6
<1>11. SysAnswered'
  BY <1>1, <1>3 DEF Inv, SysAnswered, SysReaches, Reaches, Settings
<1> QED
  BY <1>7, <1>8, <1>9, <1>10, <1>11 DEF Inv

----------------------------------------------------------------------------
LEMMA UnchangedInv == Inv /\ UNCHANGED bootVars => Inv'
<1> SUFFICES ASSUME Inv, UNCHANGED bootVars PROVE Inv'
  OBVIOUS
<1> USE DEF bootVars
<1>1. Types' /\ PortsThere' /\ IrqsOff' /\ NoFifo' /\ MinePrepared' /\ NotEarly'
  BY DEF Inv, Types, PortsThere, IrqsOff, NoFifo, MinePrepared, NotEarly, FifoWorks, Parsed, Over,
         Me, Settings, Port, Bps
<1>2. DonePrepared'
  BY DEF Inv, DonePrepared, AsAsked, Spoilt, FifoWorks, Parsed, Over, Me, Settings
<1>3. SysAnswered'
  BY DEF Inv, SysAnswered, SysReaches, Reaches, Over, Me, Settings
<1> QED
  BY <1>1, <1>2, <1>3 DEF Inv

LEMMA NextInv == Inv /\ [Next]_vars => Inv'
<1> SUFFICES ASSUME Inv, [Next]_vars PROVE Inv'
  OBVIOUS
<1>1. CASE BootStep
  BY <1>1, ParseInv, port_openInv, port_setInv, DivideErrorInv, port_disable_interruptsInv,
     check_uartInv, get_fujinet_versionInv, get_set_timeInv, fujicom_doneInv, SetVectorInv
     DEF BootStep
<1>2. CASE UNCHANGED bootVars
  BY <1>2, UnchangedInv
<1> QED
  BY <1>1, <1>2 DEF Next, Idle, vars

LEMMA BootKeepsInv == Spec => []Inv
  BY InitInv, NextInv, PTL DEF Spec

LEMMA InvMeansPorts == Inv => PortsAsAsked
<1> SUFFICES ASSUME Inv, step = "dos" PROVE PortsAsAsked
  BY DEF PortsAsAsked
<1>1. \A c \in Coms : ~uart[c].ier
  BY DEF Inv, IrqsOff
<1>2. ASSUME NEW d \in Drivers, ended[d] = "OP_COMPLETE", ~Disturbed(d)
      PROVE  AsAsked(d)
  BY <1>2 DEF Inv, DonePrepared, Spoilt, Disturbed
<1> QED
  BY <1>1, <1>2 DEF PortsAsAsked, AsAsked, FifoWorks

\* Once DOS runs, no UART can interrupt, and every driver in place has its port as it asked,
\* whatever CONFIG.SYS says and whatever UART is there, unless a driver that came later took
\* the port for another rate or closed it (com.c:167-254, printer/init.c:77-107).
THEOREM PortsStayAsAsked == Spec => []PortsAsAsked
  BY BootKeepsInv, InvMeansPorts, PTL

\* The disk driver is in place only with a FujiNet that can answer it (init.c:82-90).
THEOREM InPlaceIsReached == Spec => []InPlaceMeansReached
<1>1. Inv => InPlaceMeansReached
  BY DEF Inv, SysAnswered, SysReaches, InPlaceMeansReached
<1> QED
  BY <1>1, BootKeepsInv, PTL

----------------------------------------------------------------------------
\* How the printer's part of the state looks between two requests.
PaperInv ==
  /\ job \in [way : Ways \cup {"none"}, at : 0..Len(Text)] /\ mishaps \in Nat
  /\ job.way = "none" => job.at = 0 /\ paper = <<>> /\ ~skipped
  /\ job.way = "cooked" /\ ~skipped => paper \in Seq(Characters)
  /\ PaperIsText

\* What is left of the text begins with the byte after the ones dealt with.
LEMMA LeftFacts ==
  ASSUME job.at \in 0..Len(Text)
  PROVE  /\ Left \in Seq(Characters) /\ Len(Left) = Len(Text) - job.at
         /\ Left # <<>> => /\ job.at + 1 \in 1..Len(Text)
                           /\ Head(Left) = Text[job.at + 1] /\ Head(Left) \in Characters
<1> DEFINE n == job.at
<1>1. Text \in Seq(Characters) /\ Len(Text) \in Nat /\ n \in 0..Len(Text)
  BY PrinterAssumption, LenProperties
<1>2. \A i \in 1..Len(Text) : Text[i] \in Characters
  BY <1>1, ElementOfSeq
<1> HIDE DEF n
<1>3. /\ SubSeq(Text, n + 1, Len(Text)) \in Seq(Characters)
      /\ Len(SubSeq(Text, n + 1, Len(Text))) = Len(Text) - n
      /\ \A i \in 1..Len(Text) - n : SubSeq(Text, n + 1, Len(Text))[i] = Text[n + i]
  <2>1. \A i \in n + 1..Len(Text) : Text[i] \in Characters
    BY <1>1, <1>2
  <2>2. /\ SubSeq(Text, n + 1, Len(Text)) \in Seq(Characters)
        /\ Len(SubSeq(Text, n + 1, Len(Text))) =
             IF n + 1 <= Len(Text) THEN Len(Text) - (n + 1) + 1 ELSE 0
        /\ \A i \in 1..Len(Text) - (n + 1) + 1 :
             SubSeq(Text, n + 1, Len(Text))[i] = Text[n + 1 + i - 1]
    BY <1>1, <2>1, SubSeqProperties
  <2> QED BY <1>1, <2>2
<1>4. ASSUME Left # <<>>
      PROVE  n + 1 \in 1..Len(Text) /\ Head(Left) = Text[n + 1] /\ Head(Left) \in Characters
  <2>1. Len(Left) # 0 /\ Len(Left) \in Nat
    BY <1>3, <1>4, EmptySeq, LenProperties DEF Left, n
  <2>2. n + 1 \in 1..Len(Text) /\ 1 \in 1..Len(Text) - n
    BY <1>1, <1>3, <2>1 DEF Left, n
  <2>3. Head(Left) = Left[1] /\ Left[1] = Text[n + 1]
    BY <1>3, <1>4, <2>2 DEF Left, n
  <2> QED BY <1>2, <2>2, <2>3
<1> QED BY <1>3, <1>4 DEF Left, n

\* The byte that was sent last once more, or the next one.
LEMMA EchoMore ==
  ASSUME NEW s \in Seq(Characters), NEW m \in 0..Len(Text), NEW p \in 1..Len(Text),
         p = m \/ p = m + 1, Echoes(s, m)
  PROVE  Echoes(Append(s, Text[p]), p)
<1> DEFINE n == Len(s)
           t == Append(s, Text[p])
<1>1. n \in Nat /\ Len(Text) \in Nat
  BY PrinterAssumption, LenProperties
<1>2. PICK f \in [1..n -> 1..m] :
        /\ \A k \in 1..n : s[k] = Text[f[k]]
        /\ \A k \in 1..n, l \in 1..n : k <= l => f[k] <= f[l]
        /\ \A j \in 1..m : \E k \in 1..n : f[k] = j
  BY DEF Echoes
<1>3. /\ Len(t) = n + 1 /\ t[n + 1] = Text[p]
      /\ \A k \in 1..n : t[k] = s[k]
  <2>1. Text[p] \in Characters
    BY PrinterAssumption, ElementOfSeq
  <2> QED BY <2>1, AppendProperties
<1> DEFINE g == [k \in 1..n + 1 |-> IF k = n + 1 THEN p ELSE f[k]]
<1> HIDE DEF n, t
<1>4. n + 1 \in 1..n + 1 /\ \A k \in 1..n + 1 : k = n + 1 \/ (k \in 1..n /\ k # n + 1)
  BY <1>1
<1>5. \A k \in 1..n : f[k] \in 1..m
  BY <1>2
<1>6. m \in Int /\ p \in Int /\ \A j \in 1..m : j \in 1..p /\ j <= p
  BY <1>1
<1>7. g \in [1..n + 1 -> 1..p]
  BY <1>1, <1>4, <1>5, <1>6
<1>8. g[n + 1] = p /\ \A k \in 1..n : k \in 1..n + 1 /\ g[k] = f[k]
  BY <1>1
<1> HIDE DEF g
<1>9. ASSUME NEW k \in 1..n + 1 PROVE t[k] = Text[g[k]]
  BY <1>2, <1>3, <1>4, <1>8
<1>10. ASSUME NEW k \in 1..n + 1, NEW l \in 1..n + 1, k <= l PROVE g[k] <= g[l]
  <2>1. CASE l = n + 1
    <3>1. g[k] \in 1..p
      BY <1>7
    <3> QED BY <1>6, <1>8, <2>1, <3>1
  <2>2. CASE l # n + 1
    <3>1. l \in 1..n /\ k \in 1..n
      BY <1>1, <1>4, <1>10, <2>2
    <3> QED BY <1>2, <1>8, <1>10, <3>1
  <2> QED BY <2>1, <2>2
<1>11. ASSUME NEW j \in 1..p PROVE \E k \in 1..n + 1 : g[k] = j
  <2>1. CASE j = p
    BY <1>4, <1>8, <2>1
  <2>2. CASE j # p
    <3>1. j \in 1..m
      BY <1>1, <1>6, <2>2
    <3>2. PICK k \in 1..n : f[k] = j
      BY <1>2, <3>1
    <3> QED BY <1>8, <3>2
  <2> QED BY <2>1, <2>2
<1>12. /\ \A k \in 1..n + 1 : t[k] = Text[g[k]]
       /\ \A k \in 1..n + 1, l \in 1..n + 1 : k <= l => g[k] <= g[l]
       /\ \A j \in 1..p : \E k \in 1..n + 1 : g[k] = j
  BY <1>9, <1>10, <1>11
<1>13. n + 1 = Len(t)
  BY <1>3
<1>14. /\ g \in [1..Len(t) -> 1..p]
       /\ \A k \in 1..Len(t) : t[k] = Text[g[k]]
       /\ \A k \in 1..Len(t), l \in 1..Len(t) : k <= l => g[k] <= g[l]
       /\ \A j \in 1..p : \E k \in 1..Len(t) : g[k] = j
  BY <1>7, <1>12, <1>13, Zenon
<1>15. Echoes(t, p)
  BY <1>14, Zenon DEF Echoes
<1> QED BY <1>15 DEF t

\* With one more byte on the paper, dealt with or not.
LEMMA OnPaper ==
  ASSUME PaperInv, job.way = "cooked", ~skipped, Left # <<>>, paper' = Append(paper, Head(Left)),
         NEW w \in Nat, job.at + w >= Len(paper)
  PROVE  /\ paper' \in Seq(Characters) /\ Echoes(paper', job.at + 1)
         /\ job.at + 1 \in 0..Len(Text) /\ Len(paper') <= job.at + 1 + w
<1>1. job.at \in 0..Len(Text) /\ paper \in Seq(Characters) /\ Len(Text) \in Nat
  BY PrinterAssumption, LenProperties DEF PaperInv
<1>2. PICK m \in {job.at, job.at + 1} \cap (0..Len(Text)) : Echoes(paper, m)
  BY DEF PaperInv, PaperIsText
<1>3. job.at + 1 \in 1..Len(Text) /\ Head(Left) = Text[job.at + 1] /\ Head(Left) \in Characters
  BY <1>1, LeftFacts
<1>4. m \in 0..Len(Text) /\ (job.at + 1 = m \/ job.at + 1 = m + 1)
  BY <1>1, <1>2
<1>5. Echoes(Append(paper, Text[job.at + 1]), job.at + 1)
  BY <1>1, <1>2, <1>3, <1>4, EchoMore
<1>6. paper' \in Seq(Characters) /\ Len(paper') = Len(paper) + 1 /\ Len(paper) \in Nat
  BY <1>1, <1>3, AppendProperties, LenProperties
<1>7. Len(paper') <= job.at + 1 + w
  <2>1. job.at \in Int /\ w \in Int
    BY <1>1
  <2> QED BY <1>6, <2>1
<1> QED BY <1>1, <1>3, <1>5, <1>6, <1>7

LEMMA PaperInit == Init => PaperInv
<1> SUFFICES ASSUME Init PROVE PaperInv
  OBVIOUS
<1>1. job = NoJob /\ paper = <<>> /\ mishaps = 0 /\ skipped = FALSE
  BY DEF Init, PrinterInit
<1>2. "none" # "cooked" /\ 0 \in 0..Len(Text)
  BY PrinterAssumption, LenProperties
<1> QED BY <1>1, <1>2 DEF NoJob, PaperInv, PaperIsText

\* Every step of the printer keeps it.
LEMMA StartPaper == ASSUME NEW way \in Ways, PaperInv, Start(way) PROVE PaperInv'
<1>1. job = NoJob /\ job' = [way |-> way, at |-> 0] /\ UNCHANGED <<paper, mishaps, skipped>>
  BY DEF Start
<1>2. paper = <<>> /\ ~skipped /\ mishaps \in Nat /\ Len(Text) \in Nat /\ way # "none"
  BY <1>1, PrinterAssumption, LenProperties DEF NoJob, PaperInv
<1>3. job'.way = way /\ job'.at = 0 /\ 0 \in {0, 0 + 1} \cap (0..Len(Text)) /\ Len(<<>>) = 0
  BY <1>1, <1>2
<1>4. Echoes(<<>>, 0)
  <2> DEFINE f == [k \in {} |-> 0]
  <2>1. 1..0 = {} /\ 1..Len(<<>>) = {}
    OBVIOUS
  <2>2. f \in [{} -> {}]
    OBVIOUS
  <2> QED BY <2>1, <2>2 DEF Echoes
<1>5. <<>> \in Seq(Characters) /\ 0 <= 0 + mishaps
  BY <1>2
<1>6. job' \in [way : Ways \cup {"none"}, at : 0..Len(Text)]
  BY <1>1, <1>2
<1>7. PaperIsText'
  <2>1. paper' = <<>> /\ mishaps' = mishaps
    BY <1>1, <1>2
  <2>2. Len(paper') <= job'.at + mishaps'
    BY <1>3, <1>5, <2>1
  <2>3. \E m \in {job'.at, job'.at + 1} \cap (0..Len(Text)) : Echoes(paper', m)
    BY <1>3, <1>4, <2>1
  <2> QED BY <2>2, <2>3 DEF PaperIsText, Echoes
<1> QED BY <1>1, <1>2, <1>3, <1>5, <1>6, <1>7 DEF PaperInv

LEMMA OutputPaper == ASSUME NEW o \in Outcomes, PaperInv, Output_cmd(o) PROVE PaperInv'
<1>1. /\ job \in [way : Ways \cup {"none"}, at : 0..Len(Text)] /\ mishaps \in Nat
      /\ job.way \in {"cooked", "raw"} /\ Left # <<>> /\ Len(Text) \in Nat
  BY PrinterAssumption, LenProperties DEF PaperInv, Output_cmd, Printing
<1>2. job.at \in 0..Len(Text) /\ job.at \in Int
  BY <1>1
<1>3. Len(Left) = Len(Text) - job.at /\ job.at + 1 \in 1..Len(Text)
  BY <1>1, <1>2, LeftFacts
<1>4. /\ job.at + Asked \in 0..Len(Text)
      /\ job.way = "cooked" => Asked = 1
  BY <1>1, <1>2, <1>3 DEF Asked
<1>5. /\ mishaps' = mishaps \/ mishaps' = mishaps + 1
      /\ o = "unheard" => mishaps' = mishaps + 1
      /\ o = "lost" => paper' = paper
      /\ o # "lost" => paper' = Append(paper, Head(Left))
  BY DEF Output_cmd, fujicom_command_write
<1>6. \/ /\ o = "done" /\ job' = [job EXCEPT !.at = @ + Asked] /\ UNCHANGED skipped
      \/ o # "done" /\ UNCHANGED <<job, skipped>>
      \/ job' = [job EXCEPT !.at = @ + Asked] /\ skipped' = TRUE
  BY DEF Output_cmd, Status
<1>7. /\ job' \in [way : Ways \cup {"none"}, at : 0..Len(Text)] /\ job'.way = job.way
      /\ job' = job \/ job'.at = job.at + Asked
  BY <1>1, <1>4, <1>6
<1>8. mishaps' \in Nat /\ job'.way # "none"
  BY <1>1, <1>5, <1>7
<1>9. ASSUME job.way = "cooked", ~skipped'
      PROVE  /\ paper' \in Seq(Characters) /\ Len(paper') <= job'.at + mishaps'
             /\ \E m \in {job'.at, job'.at + 1} \cap (0..Len(Text)) : Echoes(paper', m)
  <2>1. ~skipped /\ paper \in Seq(Characters) /\ Len(paper) \in Nat
    BY <1>6, <1>9, LenProperties DEF PaperInv
  <2>2. Len(paper) <= job.at + mishaps
    BY <1>9, <2>1 DEF PaperInv, PaperIsText
  <2>3. CASE o = "lost"
    <3>1. job' = job /\ paper' = paper
      BY <1>5, <1>6, <1>9, <2>3
    <3>2. Len(paper) <= job.at + mishaps'
      BY <1>1, <1>2, <1>5, <2>1, <2>2
    <3> QED BY <1>9, <2>1, <3>1, <3>2 DEF PaperInv, PaperIsText
  <2>4. CASE o # "lost"
    <3>1. job.at + mishaps >= Len(paper)
      BY <1>1, <1>2, <2>1, <2>2
    <3>2. /\ paper' \in Seq(Characters) /\ Echoes(paper', job.at + 1)
          /\ job.at + 1 \in 0..Len(Text) /\ Len(paper') <= job.at + 1 + mishaps
      BY <1>1, <1>5, <1>9, <2>1, <2>4, <3>1, OnPaper
    <3>3. CASE o = "done"
      <4>1. job'.at = job.at + 1
        BY <1>1, <1>4, <1>6, <1>9, <3>3
      <4>2. Len(paper') <= job.at + 1 + mishaps'
        <5>1. Len(paper') \in Nat
          BY <3>2, LenProperties
        <5> QED BY <1>1, <1>2, <1>5, <3>2, <5>1
      <4> QED BY <3>2, <4>1, <4>2
    <3>4. CASE o = "unheard"
      <4>1. job' = job /\ mishaps' = mishaps + 1
        BY <1>5, <1>6, <1>9, <3>4
      <4>2. Len(paper') <= job.at + mishaps'
        <5>1. Len(paper') \in Nat
          BY <3>2, LenProperties
        <5> QED BY <1>1, <1>2, <3>2, <4>1, <5>1
      <4> QED BY <3>2, <4>1, <4>2
    <3> QED BY <2>4, <3>3, <3>4 DEF Outcomes
  <2> QED BY <2>3, <2>4
<1>10. PaperIsText'
  BY <1>7, <1>9 DEF PaperIsText, Echoes
<1> QED BY <1>7, <1>8, <1>9, <1>10 DEF PaperInv

LEMMA VerifyPaper == ASSUME PaperInv, Output_verify_cmd PROVE PaperInv'
<1>1. /\ job \in [way : Ways \cup {"none"}, at : 0..Len(Text)] /\ job.way = "verify"
      /\ job' = [job EXCEPT !.at = Len(Text)] /\ mishaps' = mishaps /\ mishaps \in Nat
      /\ Len(Text) \in Nat
  BY PrinterAssumption, LenProperties DEF PaperInv, Output_verify_cmd, Printing
<1>2. job' \in [way : Ways \cup {"none"}, at : 0..Len(Text)] /\ job'.way = "verify"
  BY <1>1
<1> QED BY <1>1, <1>2 DEF PaperInv, PaperIsText

LEMMA int17Paper ==
  ASSUME NEW o \in Outcomes, NEW ah \in 0..2, PaperInv, int17(ah, o)
  PROVE  PaperInv'
<1>1. /\ job \in [way : Ways \cup {"none"}, at : 0..Len(Text)] /\ job.way = "bios"
      /\ mishaps \in Nat /\ Left # <<>> /\ Len(Text) \in Nat
  BY PrinterAssumption, LenProperties DEF PaperInv, int17, Printing
<1>2. job.at + 1 \in 1..Len(Text)
  BY <1>1, LeftFacts
<1>3. \/ job' = [job EXCEPT !.at = @ + 1]
      \/ job' = job
  BY DEF int17
<1>4. mishaps' = mishaps \/ mishaps' = mishaps + 1
  BY DEF int17, fujicom_command_write
<1>5. job' \in [way : Ways \cup {"none"}, at : 0..Len(Text)] /\ job'.way = "bios"
  BY <1>1, <1>2, <1>3
<1> QED BY <1>1, <1>4, <1>5 DEF PaperInv, PaperIsText

LEMMA EndPaper == ASSUME PaperInv, End PROVE PaperInv'
<1>1. job' = NoJob /\ paper' = <<>> /\ skipped' = FALSE /\ mishaps' = mishaps /\ mishaps \in Nat
  BY DEF End, PaperInv
<1>2. 0 \in 0..Len(Text) /\ "none" # "cooked"
  BY PrinterAssumption, LenProperties
<1>3. job' \in [way : Ways \cup {"none"}, at : 0..Len(Text)] /\ job'.way = "none" /\ job'.at = 0
  BY <1>1, <1>2 DEF NoJob
<1> QED BY <1>1, <1>3 DEF PaperInv, PaperIsText

LEMMA PaperStep == PaperInv /\ [Next]_vars => PaperInv'
<1> SUFFICES ASSUME PaperInv, [Next]_vars PROVE PaperInv'
  OBVIOUS
<1>1. CASE PrinterStep
  BY <1>1, StartPaper, OutputPaper, VerifyPaper, int17Paper, EndPaper DEF PrinterStep
<1>2. CASE UNCHANGED printerVars
  <2>1. UNCHANGED <<job, paper, mishaps, skipped>>
    BY <1>2 DEF printerVars
  <2>2. ASSUME job'.way = "cooked" /\ ~skipped'
        PROVE  \E m \in {job'.at, job'.at + 1} \cap (0..Len(Text)) : Echoes(paper', m)
    <3>1. PICK m \in {job.at, job.at + 1} \cap (0..Len(Text)) : Echoes(paper, m)
      BY <2>1, <2>2 DEF PaperInv, PaperIsText
    <3>2. Echoes(paper', m) /\ job' = job
      BY <2>1, <3>1
    <3> QED BY <3>2
  <2>3. job'.way = "cooked" /\ ~skipped' => Len(paper') <= job'.at + mishaps'
    BY <2>1 DEF PaperInv, PaperIsText
  <2>4. PaperIsText'
    BY <2>2, <2>3 DEF PaperIsText, Echoes
  <2> QED BY <2>1, <2>4 DEF PaperInv
<1> QED BY <1>1, <1>2 DEF Next, Idle, vars

\* Whatever is printed a byte for each request, the paper has what DOS has got to, and a byte
\* more than once only for an answer that was lost and a user who tried again, no more often
\* than writes went wrong (printer/commands.c:48-58).
THEOREM PaperIsTextHolds == Spec => []PaperIsText
<1>1. PaperInv => PaperIsText
  BY DEF PaperInv
<1> QED BY <1>1, PaperInit, PaperStep, PTL DEF Spec

----------------------------------------------------------------------------
(* The options of a line and the environment made of them.                 *)

\* How many options begin up to a place.
LEMMA RankIs ==
  ASSUME NEW l, IsLine(l), NEW p \in Nat
  PROVE  Rank(l, p) \in Nat /\ IsFiniteSet({j \in Starts(l) : j <= p})
<1> DEFINE D == {j \in Starts(l) : j <= p}
<1>1. Len(l) \in Nat
  BY LenProperties DEF IsLine
<1>2. D \in SUBSET (1..Len(l)) /\ IsFiniteSet(1..Len(l))
  BY <1>1, FS_Interval DEF Starts
<1> HIDE DEF D
<1>3. IsFiniteSet(D)
  BY <1>2, FS_Subset
<1>4. Cardinality(D) \in Nat
  BY <1>3, FS_CardinalityType
<1> QED BY <1>3, <1>4 DEF D, Rank

LEMMA RankNext ==
  ASSUME NEW l, IsLine(l), NEW p \in Nat
  PROVE  Rank(l, p + 1) = IF p + 1 \in Starts(l) THEN Rank(l, p) + 1 ELSE Rank(l, p)
<1> DEFINE D == {j \in Starts(l) : j <= p}
           E == {j \in Starts(l) : j <= p + 1}
<1>1. IsFiniteSet(D) /\ Rank(l, p) = Cardinality(D) /\ Rank(l, p + 1) = Cardinality(E)
  BY RankIs DEF Rank
<1>2. Starts(l) \in SUBSET Nat
  BY LenProperties DEF Starts, IsLine
<1>3. p + 1 \notin D
  BY <1>2
<1>4. E = IF p + 1 \in Starts(l) THEN D \cup {p + 1} ELSE D
  BY <1>2
<1> HIDE DEF D, E
<1> QED BY <1>1, <1>3, <1>4, FS_AddElement

LEMMA RankGrows ==
  ASSUME NEW l, IsLine(l), NEW p \in Nat, NEW q \in Nat, p <= q
  PROVE  Rank(l, p) <= Rank(l, q)
<1> DEFINE D == {j \in Starts(l) : j <= p}
           E == {j \in Starts(l) : j <= q}
<1>1. IsFiniteSet(E) /\ Rank(l, p) = Cardinality(D) /\ Rank(l, q) = Cardinality(E)
  BY RankIs DEF Rank
<1>2. Starts(l) \in SUBSET Nat
  BY LenProperties DEF Starts, IsLine
<1>3. D \in SUBSET E
  BY <1>2
<1> HIDE DEF D, E
<1> QED BY <1>1, <1>3, FS_Subset

\* An option that begins before another comes before it.
LEMMA RankOrder ==
  ASSUME NEW l, IsLine(l), NEW s \in Starts(l)
  PROVE  /\ s \in 2..Len(l) /\ s \in Nat /\ Rank(l, s) \in Nat /\ Rank(l, s) >= 1
         /\ \A i \in Starts(l) : i < s => Rank(l, i) < Rank(l, s)
<1>1. s \in 2..Len(l) /\ s \in Nat /\ s - 1 \in Nat /\ s - 1 + 1 = s
  BY LenProperties DEF Starts, IsLine
<1>2. Rank(l, s - 1 + 1) = Rank(l, s - 1) + 1
  BY <1>1, RankNext
<1>3. Rank(l, s) = Rank(l, s - 1) + 1 /\ Rank(l, s - 1) \in Nat
  BY <1>1, <1>2, RankIs
<1>4. ASSUME NEW i \in Starts(l), i < s PROVE Rank(l, i) < Rank(l, s)
  <2>1. i \in Nat /\ i <= s - 1
    BY <1>1, <1>4, LenProperties DEF Starts, IsLine
  <2>2. Rank(l, i) <= Rank(l, s - 1) /\ Rank(l, i) \in Nat
    BY <1>1, <2>1, RankGrows, RankIs
  <2> QED BY <1>3, <2>2
<1> QED BY <1>1, <1>3, <1>4

\* After the first blank everything but blanks and the end of the line is argument.
LEMMA ArgumentIs ==
  ASSUME NEW l, IsLine(l), NEW k \in 1..Len(l)
  PROVE  /\ IsArgument(l, k) => l[k] # Blank /\ k # Len(l) /\ \E b \in 1..k : l[b] = Blank
         /\ \A b \in 1..k : l[b] = Blank /\ l[k] # Blank /\ k # Len(l) => IsArgument(l, k)
<1>1. l[k] \in Eol <=> k = Len(l)
  BY DEF IsLine
<1> QED BY <1>1 DEF IsArgument

\* An option reaches from where it begins as far as there is argument.
LEMMA WordIs ==
  ASSUME NEW l, IsLine(l), NEW i \in 1..Len(l), NEW j \in i..Len(l), ~IsArgument(l, j + 1),
         \A k \in i..j : IsArgument(l, k)
  PROVE  WordAt(l, i) = SubSeq(l, i, j)
<1> DEFINE Ends(m) == ~IsArgument(l, m + 1) /\ \A k \in i..m : IsArgument(l, k)
           e == CHOOSE m \in i..Len(l) : Ends(m)
<1>1. e \in i..Len(l) /\ Ends(e)
  BY Zenon
<1>2. Len(l) \in Nat
  BY LenProperties DEF IsLine
<1> HIDE DEF e
<1>3. e = j
  <2>1. CASE e < j
    <3>1. e + 1 \in i..j
      BY <1>1, <1>2, <2>1
    <3> QED BY <1>1, <3>1
  <2>2. CASE j < e
    <3>1. j + 1 \in i..e
      BY <1>1, <1>2, <2>2
    <3> QED BY <1>1, <3>1
  <2> QED BY <1>1, <1>2, <2>1, <2>2
<1>4. WordAt(l, i) = SubSeq(l, i, e)
  BY DEF WordAt, e
<1> QED BY <1>3, <1>4

\* What is left of a line without the driver's file name, if there is anything, begins where
\* the first option does.
ArgumentsFrom(l, f) ==
  /\ f \in Starts(l) /\ \A i \in Starts(l) : f <= i
  /\ f \in 2..Len(l) - 1 /\ Arguments(l) = SubSeq(l, f, Len(l) - 1)
  /\ l[f] # Blank /\ \A k \in f..Len(l) - 1 : l[k] # Blank => IsArgument(l, k)

LEMMA ArgumentsAre ==
  ASSUME NEW l, IsLine(l)
  PROVE  (Arguments(l) = <<>> /\ Starts(l) = {}) \/ \E f \in Nat : ArgumentsFrom(l, f)
<1> DEFINE n == Len(l)
           E == {i \in 1..n : l[i] \in Eol}
           B == {i \in 1..n : l[i] \in Eol \cup {Blank}}
           end == SelectInSeq(l, LAMBDA c : c \in Eol)
           name == SelectInSeq(l, LAMBDA c : c \in Eol \cup {Blank})
           F == {i \in name..end : l[i] # Blank}
           first == SelectInSubSeq(l, name, end, LAMBDA c : c # Blank)
<1>1. n \in Nat /\ n >= 2 /\ l[1] # Blank /\ \A i \in 1..n : l[i] \in Eol <=> i = n
  BY LenProperties DEF IsLine
<1>2. /\ end = IF E # {} THEN Min(E) ELSE 0
      /\ name = IF B # {} THEN Min(B) ELSE 0
      /\ first = IF F # {} THEN Min(F) ELSE 0
  BY DEF SelectInSeq, SelectInSubSeq
<1>3. /\ Arguments(l) = IF l[name] # Blank THEN <<>> ELSE SubSeq(l, first, end - 1)
  BY DEF Arguments
<1>4. /\ E = {n}
      /\ \A i : i \in B <=> i \in 1..n /\ (i = n \/ l[i] = Blank)
      /\ \A i : i \in F <=> i \in name..end /\ l[i] # Blank
  BY <1>1
<1> HIDE DEF n, E, B, F, end, name, first
<1>5. end = n
  <2>1. n <= n
    BY <1>1
  <2>2. Min({n}) = n
    BY <2>1 DEF Min
  <2> QED BY <1>2, <1>4, <2>2
<1>6. name \in B /\ \A i \in B : name <= i
  <2>1. n \in B /\ B \in SUBSET Nat
    BY <1>1, <1>4
  <2>2. Min(B) \in B /\ \A i \in B : Min(B) <= i
    BY <2>1, LeastOf DEF Min
  <2> QED BY <1>2, <2>1, <2>2
<1>7. name \in 1..n /\ (name = n \/ l[name] = Blank)
  BY <1>4, <1>6
<1>8. \A i \in 1..n : l[i] = Blank => name <= i
  BY <1>4, <1>6
<1>9. l[n] # Blank
  <2>1. Blank \notin Eol
    BY DEF Eol, Blank
  <2>2. n \in 1..n
    BY <1>1
  <2>3. l[n] \in Eol
    BY <1>1, <2>2
  <2> QED BY <2>1, <2>3
<1>10. CASE name = n
  <2>1. Arguments(l) = <<>>
    BY <1>3, <1>9, <1>10
  <2>2. ASSUME NEW i \in Starts(l) PROVE FALSE
    <3>1. i \in 1..n /\ IsArgument(l, i) /\ i \in 2..n
      BY <1>1 DEF Starts, n
    <3>2. i # n /\ \E b \in 1..i : l[b] = Blank
      BY <3>1, ArgumentIs DEF n
    <3>3. PICK b \in 1..i : l[b] = Blank
      BY <3>2
    <3>4. b \in 1..n /\ name <= b
      BY <1>1, <1>8, <3>1, <3>3
    <3> QED BY <1>1, <1>10, <3>1, <3>2, <3>4
  <2> QED BY <2>1, <2>2
<1>11. CASE name # n
  <2>1. l[name] = Blank /\ name \in 1..n - 1 /\ Arguments(l) = SubSeq(l, first, n - 1)
    <3>1. l[name] = Blank
      BY <1>7, <1>11
    <3>2. name \in 1..n - 1
      BY <1>1, <1>7, <1>11
    <3>3. Arguments(l) = SubSeq(l, first, end - 1)
      BY <1>3, <3>1
    <3> QED BY <1>5, <3>1, <3>2, <3>3
  <2>2. first \in F /\ \A i \in F : first <= i
    <3>1. n \in F /\ F \in SUBSET Nat
      BY <1>1, <1>4, <1>5, <1>9, <2>1
    <3>2. Min(F) \in F /\ \A i \in F : Min(F) <= i
      BY <3>1, LeastOf DEF Min
    <3> QED BY <1>2, <3>1, <3>2
  <2>3. first \in name..n /\ l[first] # Blank /\ first # name
    BY <1>4, <1>5, <2>1, <2>2
  <2>4. first \in name + 1..n /\ first \in Nat
    BY <1>1, <2>1, <2>3
  <2>5. \A k \in name..first - 1 : l[k] = Blank
    <3> SUFFICES ASSUME NEW k \in name..first - 1, l[k] # Blank PROVE FALSE
      OBVIOUS
    <3>1. k \in name..n /\ ~(first <= k)
      BY <1>1, <2>1, <2>4
    <3>2. k \in F
      BY <1>4, <1>5, <3>1
    <3> QED BY <2>2, <3>1, <3>2
  <2>6. \A i \in Starts(l) : first <= i /\ i \in 1..n /\ i # n
    <3> SUFFICES ASSUME NEW i \in Starts(l) PROVE first <= i /\ i \in 1..n /\ i # n
      OBVIOUS
    <3>1. i \in 1..n /\ IsArgument(l, i)
      BY <1>1 DEF Starts, n
    <3>2. i # n /\ l[i] # Blank /\ \E b \in 1..i : l[b] = Blank
      BY <3>1, ArgumentIs DEF n
    <3>3. PICK b \in 1..i : l[b] = Blank
      BY <3>2
    <3>4. b \in 1..n
      BY <1>1, <3>1, <3>3
    <3>5. name <= b
      BY <1>8, <3>3, <3>4
    <3>6. i \in name..n
      BY <1>1, <2>1, <3>1, <3>3, <3>4, <3>5
    <3>7. i \in F
      BY <1>4, <1>5, <3>2, <3>6
    <3> QED BY <2>2, <3>1, <3>2, <3>7
  <2>7. CASE first = n
    <3>1. Arguments(l) = <<>>
      <4>1. SubSeq(l, n, n - 1) = <<>>
        <5>1. l \in Seq(STRING) /\ \A k \in n..n - 1 : l[k] \in STRING
          BY <1>1 DEF IsLine
        <5>2. SubSeq(l, n, n - 1) \in Seq(STRING) /\ Len(SubSeq(l, n, n - 1)) = 0
          BY <1>1, <5>1, SubSeqProperties DEF n
        <5> QED BY <5>2, EmptySeq
      <4> QED BY <2>1, <2>7, <4>1
    <3>2. Starts(l) = {}
      <4> SUFFICES ASSUME NEW i \in Starts(l) PROVE FALSE
        OBVIOUS
      <4>1. n <= i /\ i \in 1..n /\ i # n
        BY <2>6, <2>7
      <4> QED BY <1>1, <4>1
    <3> QED BY <3>1, <3>2
  <2>8. CASE first # n
    <3>1. first \in 2..n - 1 /\ first - 1 \in name..first - 1 /\ first \in 2..n /\ first \in 1..n
      BY <1>1, <2>1, <2>4, <2>8
    <3>2. l[first - 1] = Blank
      BY <2>5, <3>1
    <3>3. \A k \in first..n - 1 : l[k] # Blank => IsArgument(l, k)
      <4> SUFFICES ASSUME NEW k \in first..n - 1, l[k] # Blank PROVE IsArgument(l, k)
        OBVIOUS
      <4>1. k \in 1..n /\ name \in 1..k /\ k # n
        BY <1>1, <2>1, <2>4
      <4> QED BY <2>1, <4>1, ArgumentIs DEF n
    <3>4. first \in first..n - 1
      BY <1>1, <3>1
    <3>5. first \in Starts(l)
      BY <2>3, <3>1, <3>2, <3>3, <3>4 DEF Starts, n
    <3>6. ArgumentsFrom(l, first)
      BY <2>1, <2>3, <2>6, <3>1, <3>3, <3>5 DEF ArgumentsFrom, n
    <3> QED BY <2>4, <3>6
  <2> QED BY <2>7, <2>8
<1> QED BY <1>10, <1>11

\* "=" is a string, but none of the provers says so.
Tokens == STRING \cup {"="}
OptionLists == Seq(Seq(Tokens))

LEMMA LineIs ==
  ASSUME NEW l, IsLine(l)
  PROVE  l \in Seq(Tokens) /\ Len(l) \in Nat
<1>1. l \in Seq(STRING) /\ STRING \subseteq Tokens
  BY DEF IsLine, Tokens
<1> QED BY <1>1, SeqWider, LenProperties

\* What one character does to the options.
Scanned(v, w, c, n) ==
  /\ v \in OptionLists
  /\ c # Blank => /\ Len(v) = n /\ v[n] = Append(w[n], c)
                  /\ \A k \in 1..n - 1 : v[k] = w[k]
  /\ c = Blank /\ w[n] = <<>> => v = w
  /\ c = Blank /\ w[n] # <<>> => /\ Len(v) = n + 1 /\ v[n + 1] = <<>>
                                 /\ \A k \in 1..n : v[k] = w[k]

LEMMA ScanIs ==
  ASSUME NEW w \in OptionLists, NEW n \in Nat, Len(w) = n, n >= 1, NEW c \in Tokens
  PROVE  Scanned(Scan(w, c), w, c, n)
<1> USE DEF Scanned
<1> DEFINE W == Seq(Tokens)
<1>1. w \in Seq(W) /\ w[n] \in W /\ n \in 1..n
  <2>1. w \in Seq(W) /\ n \in 1..n
    BY DEF OptionLists
  <2> HIDE DEF W
  <2> QED BY <2>1, ElementOfSeq
<1>2. CASE c # Blank
  <2> DEFINE x == Append(w[n], c)
             v == SubSeq(w, 1, n - 1)
  <2>1. x \in W
    BY <1>1, AppendProperties
  <2>2. v \in Seq(W) /\ Len(v) = n - 1 /\ \A k \in 1..n - 1 : v[k] = w[k]
    <3>1. \A k \in 1..n - 1 : w[k] \in W
      <4> HIDE DEF W
      <4> QED BY <1>1, ElementOfSeq
    <3>2. /\ v \in Seq(W) /\ Len(v) = IF 1 <= n - 1 THEN n - 1 - 1 + 1 ELSE 0
          /\ \A i \in 1..n - 1 - 1 + 1 : v[i] = w[1 + i - 1]
      <4> HIDE DEF W
      <4> QED BY <1>1, <3>1, SubSeqProperties
    <3> HIDE DEF v
    <3> QED BY <3>2
  <2>3. Scan(w, c) = Append(v, x)
    BY <1>2 DEF Scan, Front, Last
  <2> HIDE DEF x, v, W
  <2>4. /\ Append(v, x) \in Seq(W) /\ Len(Append(v, x)) = n
        /\ \A k \in 1..n - 1 : Append(v, x)[k] = v[k]
        /\ Append(v, x)[n] = x
    <3>1. /\ Append(v, x) \in Seq(W) /\ Len(Append(v, x)) = Len(v) + 1
          /\ \A k \in 1..Len(v) : Append(v, x)[k] = v[k]
          /\ Append(v, x)[Len(v) + 1] = x
      BY <2>1, <2>2, AppendType
    <3>2. Len(v) + 1 = n
      BY <2>2
    <3> QED BY <2>2, <3>1, <3>2
  <2> QED BY <1>2, <2>2, <2>3, <2>4 DEF x, W, OptionLists
<1>3. CASE c = Blank /\ w[n] = <<>>
  BY <1>3 DEF Scan, Last
<1>4. CASE c = Blank /\ w[n] # <<>>
  <2>1. Scan(w, c) = Append(w, <<>>)
    BY <1>4 DEF Scan, Last
  <2>2. <<>> \in W
    OBVIOUS
  <2> HIDE DEF W
  <2>3. /\ Append(w, <<>>) \in Seq(W) /\ Len(Append(w, <<>>)) = n + 1
        /\ \A k \in 1..n : Append(w, <<>>)[k] = w[k]
        /\ Append(w, <<>>)[n + 1] = <<>>
    BY <1>1, <2>2, AppendType
  <2> QED BY <1>4, <2>1, <2>3 DEF W, OptionLists
<1> QED BY <1>2, <1>3, <1>4

\* The options read when the scan has come to the place p: behind a blank all that begin
\* before it and an empty one, else the one that p belongs to as far as it goes, and those
\* before it.
Between(l, w, p) ==
  /\ Len(w) = Rank(l, p) + 1 /\ w[Rank(l, p) + 1] = <<>>
  /\ \A i \in Starts(l) : i <= p => w[Rank(l, i)] = WordAt(l, i)

Inside(l, w, p, s) ==
  /\ s <= p /\ Len(w) = Rank(l, s) /\ Rank(l, p) = Rank(l, s)
  /\ w[Rank(l, s)] = SubSeq(l, s, p) /\ \A k \in s..p : IsArgument(l, k)
  /\ \A i \in Starts(l) : i < s => w[Rank(l, i)] = WordAt(l, i)

ReadUpTo(l, w, p) ==
  /\ w \in OptionLists
  /\ l[p] = Blank => Between(l, w, p)
  /\ l[p] # Blank => \E s \in Starts(l) : Inside(l, w, p, s)

\* A stretch of a line and the character behind it.
LEMMA SliceMore ==
  ASSUME NEW l \in Seq(Tokens), NEW s \in Nat, NEW p \in Nat, 1 <= s, s <= p, p + 1 <= Len(l)
  PROVE  /\ SubSeq(l, s, p) \in Seq(Tokens) /\ SubSeq(l, s, p) # <<>>
         /\ Append(SubSeq(l, s, p), l[p + 1]) = SubSeq(l, s, p + 1)
<1>1. Len(l) \in Nat /\ \A i \in 1..Len(l) : l[i] \in Tokens
  BY LenProperties, ElementOfSeq
<1>2. \A i \in s..p + 1 : l[i] \in Tokens
  BY <1>1
<1>3. /\ SubSeq(l, s, p) \in Seq(Tokens) /\ Len(SubSeq(l, s, p)) = p - s + 1
      /\ \A i \in 1..p - s + 1 : SubSeq(l, s, p)[i] = l[s + i - 1]
  BY <1>1, <1>2, SubSeqProperties
<1>4. /\ SubSeq(l, s, p + 1) \in Seq(Tokens) /\ Len(SubSeq(l, s, p + 1)) = p + 1 - s + 1
      /\ \A i \in 1..p + 1 - s + 1 : SubSeq(l, s, p + 1)[i] = l[s + i - 1]
  BY <1>1, <1>2, SubSeqProperties
<1> DEFINE t == SubSeq(l, s, p)
           u == SubSeq(l, s, p + 1)
           c == l[p + 1]
<1>5. c \in Tokens
  BY <1>2
<1> HIDE DEF t, u, c
<1>6. /\ Append(t, c) \in Seq(Tokens) /\ Len(Append(t, c)) = Len(t) + 1
      /\ \A i \in 1..Len(t) : Append(t, c)[i] = t[i]
      /\ Append(t, c)[Len(t) + 1] = c
  BY <1>3, <1>5, AppendType DEF t
<1>7. ASSUME NEW i \in 1..p - s + 2 PROVE Append(t, c)[i] = u[i]
  <2>1. u[i] = l[s + i - 1]
    BY <1>4 DEF u
  <2>2. CASE i = p - s + 2
    <3>1. Append(t, c)[i] = c /\ s + i - 1 = p + 1
      BY <1>3, <1>6, <2>2 DEF t
    <3> QED BY <2>1, <3>1 DEF c
  <2>3. CASE i # p - s + 2
    <3>1. i \in 1..p - s + 1 /\ i \in 1..Len(t)
      BY <1>3, <2>3 DEF t
    <3> QED BY <1>3, <1>6, <2>1, <3>1 DEF t
  <2> QED BY <2>2, <2>3
<1>8. Len(Append(t, c)) = p - s + 2 /\ Len(u) = p - s + 2
  BY <1>3, <1>4, <1>6 DEF t, u
<1>9. Append(t, c) = u
  BY <1>4, <1>6, <1>7, <1>8, SeqEqual DEF u
<1>10. t # <<>>
  BY <1>3 DEF t
<1> QED BY <1>3, <1>9, <1>10 DEF t, u, c

\* A sequence of one element.
LEMMA SingleIs ==
  ASSUME NEW S, NEW t \in Seq(S), Len(t) = 1, NEW c \in S, t[1] = c
  PROVE  t = Append(<<>>, c)
<1>1. <<>> \in Seq(S) /\ Len(<<>>) = 0
  OBVIOUS
<1>2. /\ Append(<<>>, c) \in Seq(S) /\ Len(Append(<<>>, c)) = 0 + 1
      /\ Append(<<>>, c)[0 + 1] = c
  <2> DEFINE e == <<>>
  <2>1. e \in Seq(S) /\ Len(e) = 0
    BY <1>1
  <2> HIDE DEF e
  <2>2. Append(e, c) \in Seq(S) /\ Len(Append(e, c)) = Len(e) + 1 /\ Append(e, c)[Len(e) + 1] = c
    BY <2>1, AppendType, Zenon
  <2> QED BY <2>1, <2>2, Zenon DEF e
<1> DEFINE u == Append(<<>>, c)
<1> HIDE DEF u
<1>3. u \in Seq(S) /\ Len(u) = 1 /\ u[1] = c
  BY <1>2 DEF u
<1>4. t = u
  BY <1>3, SeqEqual
<1> QED BY <1>4 DEF u

\* A stretch of one character.
LEMMA OneCharacter ==
  ASSUME NEW l \in Seq(Tokens), NEW p \in 1..Len(l)
  PROVE  SubSeq(l, p, p) = Append(<<>>, l[p])
<1>1. Len(l) \in Nat /\ p \in Int /\ l[p] \in Tokens
  BY LenProperties, ElementOfSeq
<1>2. \A i \in p..p : l[i] \in Tokens
  BY <1>1
<1>3. /\ SubSeq(l, p, p) \in Seq(Tokens)
      /\ Len(SubSeq(l, p, p)) = IF p <= p THEN p - p + 1 ELSE 0
      /\ \A i \in 1..p - p + 1 : SubSeq(l, p, p)[i] = l[p + i - 1]
  BY <1>1, <1>2, SubSeqProperties
<1>4. Len(SubSeq(l, p, p)) = 1 /\ SubSeq(l, p, p)[1] = l[p]
  BY <1>1, <1>3
<1> QED BY <1>1, <1>3, <1>4, SingleIs

LEMMA ReadFirst ==
  ASSUME NEW l, IsLine(l), NEW f \in Nat, ArgumentsFrom(l, f)
  PROVE  ReadUpTo(l, Scan(<< <<>> >>, l[f]), f)
<1> DEFINE w == Scan(<< <<>> >>, l[f])
<1>1. /\ l \in Seq(Tokens) /\ Len(l) \in Nat
      /\ f \in 2..Len(l) - 1 /\ f \in 1..Len(l) /\ l[f] \in Tokens
      /\ l[f] # Blank /\ IsArgument(l, f) /\ f \in Starts(l) /\ f \in f..f
  <2>1. /\ l \in Seq(Tokens) /\ Len(l) \in Nat
        /\ f \in 2..Len(l) - 1 /\ f \in Starts(l) /\ l[f] # Blank
    BY LineIs DEF ArgumentsFrom
  <2>2. f \in 1..Len(l) /\ f \in f..Len(l) - 1 /\ f \in f..f
    BY <2>1
  <2> QED BY <2>1, <2>2, ElementOfSeq DEF ArgumentsFrom
<1>2. /\ << <<>> >> \in OptionLists /\ Len(<< <<>> >>) = 1 /\ << <<>> >>[1] = <<>>
  BY DEF OptionLists
<1>3. w \in OptionLists /\ Len(w) = 1 /\ w[1] = Append(<<>>, l[f])
  <2>1. 1 \in Nat /\ 1 >= 1
    OBVIOUS
  <2>2. Scanned(w, << <<>> >>, l[f], 1)
    BY <1>1, <1>2, <2>1, ScanIs, Zenon
  <2> QED BY <1>1, <1>2, <2>2, Zenon DEF Scanned
<1>4. Rank(l, f) = 1
  <2>1. {j \in Starts(l) : j <= f} = {f}
    <3>1. ASSUME NEW j \in Starts(l), j <= f PROVE j = f
      <4>1. j \in 2..Len(l) /\ f <= j
        BY <1>1 DEF Starts, ArgumentsFrom
      <4> QED BY <1>1, <3>1, <4>1
    <3>2. f <= f
      BY <1>1
    <3> QED BY <1>1, <3>1, <3>2
  <2> QED BY <2>1, FS_Singleton DEF Rank
<1>5. SubSeq(l, f, f) = Append(<<>>, l[f])
  BY <1>1, OneCharacter
<1>6. \A i \in Starts(l) : ~(i < f)
  BY <1>1 DEF Starts, ArgumentsFrom
<1>7. f <= f /\ \A k \in f..f : IsArgument(l, k)
  BY <1>1
<1> HIDE DEF w
<1>8. Inside(l, w, f, f)
  BY <1>3, <1>4, <1>5, <1>6, <1>7 DEF Inside
<1>9. ReadUpTo(l, w, f)
  BY <1>1, <1>3, <1>8 DEF ReadUpTo
<1> QED BY <1>9 DEF w

LEMMA ReadNext ==
  ASSUME NEW l, IsLine(l), NEW f \in Nat, ArgumentsFrom(l, f),
         NEW p \in Nat, f <= p, p <= Len(l) - 2, NEW w, ReadUpTo(l, w, p)
  PROVE  ReadUpTo(l, Scan(w, l[p + 1]), p + 1)
<1> DEFINE c == l[p + 1]
           v == Scan(w, c)
           r == Rank(l, p)
<1>1. /\ l \in Seq(Tokens) /\ Len(l) \in Nat /\ f >= 2
      /\ p + 1 \in f..Len(l) - 1 /\ p + 1 \in 1..Len(l)
      /\ p + 1 \in Nat /\ p \in 1..Len(l) /\ p + 1 \in 2..Len(l) /\ p + 1 # Len(l) /\ p + 1 - 1 = p
      /\ p \in f..Len(l) - 1 /\ p + 1 <= Len(l)
  <2>1. l \in Seq(Tokens) /\ Len(l) \in Nat /\ f \in 2..Len(l) - 1
    BY LineIs DEF ArgumentsFrom
  <2> QED BY <2>1
<1>2. c \in Tokens
  BY <1>1, ElementOfSeq
<1>3. r \in Nat /\ w \in OptionLists
  BY RankIs DEF ReadUpTo
<1>4. /\ p + 1 \in Starts(l) <=> IsArgument(l, p + 1) /\ l[p] = Blank
      /\ l[p + 1] # Blank => IsArgument(l, p + 1)
      /\ IsArgument(l, p + 1) => l[p + 1] # Blank
  <2>1. p + 1 \in Starts(l) <=> IsArgument(l, p + 1) /\ l[p] = Blank
    BY <1>1 DEF Starts
  <2>2. l[p + 1] # Blank => IsArgument(l, p + 1)
    BY <1>1 DEF ArgumentsFrom
  <2>3. IsArgument(l, p + 1) => l[p + 1] # Blank
    BY <1>1, ArgumentIs
  <2> QED BY <2>1, <2>2, <2>3
<1>5. Rank(l, p + 1) = IF p + 1 \in Starts(l) THEN r + 1 ELSE r
  BY RankNext
<1>6. \A i \in Starts(l) : /\ i \in 2..Len(l) /\ i \in Nat /\ Rank(l, i) \in Nat /\ Rank(l, i) >= 1
                           /\ \A j \in Starts(l) : j < i => Rank(l, j) < Rank(l, i)
                           /\ i <= p => Rank(l, i) <= r
  <2> SUFFICES ASSUME NEW i \in Starts(l)
               PROVE  /\ i \in 2..Len(l) /\ i \in Nat /\ Rank(l, i) \in Nat /\ Rank(l, i) >= 1
                      /\ \A j \in Starts(l) : j < i => Rank(l, j) < Rank(l, i)
                      /\ i <= p => Rank(l, i) <= r
    OBVIOUS
  <2>1. /\ i \in 2..Len(l) /\ i \in Nat /\ Rank(l, i) \in Nat /\ Rank(l, i) >= 1
        /\ \A j \in Starts(l) : j < i => Rank(l, j) < Rank(l, i)
    BY RankOrder
  <2>2. i <= p => Rank(l, i) <= r
    BY <2>1, RankGrows
  <2> QED BY <2>1, <2>2
<1> HIDE DEF v, r
\* A character of an option behind a blank begins one.
<1>7. CASE c # Blank /\ l[p] = Blank
  <2>1. Between(l, w, p)
    BY <1>7 DEF ReadUpTo
  <2>2. /\ Len(w) = r + 1 /\ w[r + 1] = <<>>
        /\ \A i \in Starts(l) : i <= p => w[Rank(l, i)] = WordAt(l, i)
    BY <2>1 DEF Between, r
  <2>3. p + 1 \in Starts(l) /\ Rank(l, p + 1) = r + 1 /\ IsArgument(l, p + 1)
    BY <1>4, <1>5, <1>7
  <2>4. r + 1 \in Nat /\ r + 1 >= 1 /\ r + 1 - 1 = r
    BY <1>3
  <2>5. /\ v \in OptionLists /\ Len(v) = r + 1
        /\ v[r + 1] = Append(<<>>, c) /\ \A k \in 1..r : v[k] = w[k]
    <3>1. Scanned(v, w, c, r + 1)
      BY <1>2, <1>3, <2>2, <2>4, ScanIs, Zenon DEF v
    <3>2. /\ v \in OptionLists /\ Len(v) = r + 1 /\ v[r + 1] = Append(w[r + 1], c)
          /\ \A k \in 1..(r + 1) - 1 : v[k] = w[k]
      BY <1>7, <3>1, Zenon DEF Scanned
    <3>3. 1..(r + 1) - 1 = 1..r
      BY <1>3
    <3> QED BY <2>2, <3>2, <3>3, Zenon
  <2>6. SubSeq(l, p + 1, p + 1) = Append(<<>>, c)
    BY <1>1, OneCharacter
  <2>7. \A i \in Starts(l) : i < p + 1 => v[Rank(l, i)] = WordAt(l, i)
    <3> SUFFICES ASSUME NEW i \in Starts(l), i < p + 1 PROVE v[Rank(l, i)] = WordAt(l, i)
      OBVIOUS
    <3>1. i <= p
      BY <1>6
    <3>2. Rank(l, i) \in 1..r
      BY <1>3, <1>6, <3>1
    <3> QED BY <2>2, <2>5, <3>1, <3>2
  <2>8. p + 1 <= p + 1 /\ \A k \in p + 1..p + 1 : IsArgument(l, k)
    BY <1>1, <2>3
  <2>9. Inside(l, v, p + 1, p + 1)
    BY <2>3, <2>5, <2>6, <2>7, <2>8 DEF Inside
  <2> QED BY <1>7, <2>3, <2>5, <2>9 DEF ReadUpTo, v
\* Further blanks change nothing.
<1>8. CASE c = Blank /\ l[p] = Blank
  <2>1. Between(l, w, p)
    BY <1>8 DEF ReadUpTo
  <2>2. /\ Len(w) = r + 1 /\ w[r + 1] = <<>>
        /\ \A i \in Starts(l) : i <= p => w[Rank(l, i)] = WordAt(l, i)
    BY <2>1 DEF Between, r
  <2>3. p + 1 \notin Starts(l) /\ Rank(l, p + 1) = r
    BY <1>4, <1>5, <1>8
  <2>4. r + 1 \in Nat /\ r + 1 >= 1
    BY <1>3
  <2>5. v = w
    <3>1. Scanned(v, w, c, r + 1)
      BY <1>2, <1>3, <2>2, <2>4, ScanIs, Zenon DEF v
    <3> QED BY <1>8, <2>2, <3>1, Zenon DEF Scanned
  <2>6. \A i \in Starts(l) : i <= p + 1 => v[Rank(l, i)] = WordAt(l, i)
    <3> SUFFICES ASSUME NEW i \in Starts(l), i <= p + 1 PROVE v[Rank(l, i)] = WordAt(l, i)
      OBVIOUS
    <3>1. i <= p
      BY <1>6, <2>3
    <3> QED BY <2>2, <2>5, <3>1
  <2>7. Between(l, v, p + 1)
    BY <2>2, <2>3, <2>5, <2>6 DEF Between
  <2> QED BY <1>3, <1>8, <2>5, <2>7 DEF ReadUpTo, v
<1>9. CASE l[p] # Blank
  <2>1. PICK s \in Starts(l) : Inside(l, w, p, s)
    BY <1>9 DEF ReadUpTo
  <2> DEFINE n == Rank(l, s)
  <2>2. /\ s <= p /\ Len(w) = n /\ r = n
        /\ w[n] = SubSeq(l, s, p) /\ \A k \in s..p : IsArgument(l, k)
        /\ \A i \in Starts(l) : i < s => w[Rank(l, i)] = WordAt(l, i)
    BY <2>1 DEF Inside, r
  <2>3. n \in Nat /\ n >= 1 /\ s \in Nat /\ 1 <= s /\ s \in 2..Len(l)
    BY <1>6
  <2>4. p + 1 \notin Starts(l) /\ Rank(l, p + 1) = n
    BY <1>4, <1>5, <1>9, <2>2
  <2>5. SubSeq(l, s, p) # <<>> /\ Append(SubSeq(l, s, p), c) = SubSeq(l, s, p + 1)
    BY <1>1, <2>2, <2>3, SliceMore
  <2>6. \A i \in Starts(l) : i < s => Rank(l, i) \in 1..n - 1
    BY <1>6, <2>3
  \* Another character of an option.
  <2>7. CASE c # Blank
    <3>1. /\ v \in OptionLists /\ Len(v) = n
          /\ v[n] = Append(w[n], c) /\ \A k \in 1..n - 1 : v[k] = w[k]
      <4>1. Scanned(v, w, c, n)
        BY <1>2, <1>3, <2>2, <2>3, ScanIs, Zenon DEF v
      <4> QED BY <2>7, <4>1, Zenon DEF Scanned
    <3>2. \A k \in s..p + 1 : IsArgument(l, k)
      <4> SUFFICES ASSUME NEW k \in s..p + 1 PROVE IsArgument(l, k)
        OBVIOUS
      <4>1. k = p + 1 \/ k \in s..p
        BY <2>3
      <4> QED BY <1>4, <2>2, <2>7, <4>1
    <3>3. \A i \in Starts(l) : i < s => v[Rank(l, i)] = WordAt(l, i)
      BY <2>2, <2>6, <3>1
    <3>4. s <= p + 1
      BY <2>2, <2>3
    <3>5. Inside(l, v, p + 1, s)
      BY <2>2, <2>4, <2>5, <3>1, <3>2, <3>3, <3>4 DEF Inside
    <3> QED BY <2>7, <3>1, <3>5 DEF ReadUpTo, v
  \* A blank ends it.
  <2>8. CASE c = Blank
    <3>1. v \in OptionLists /\ Len(v) = n + 1 /\ v[n + 1] = <<>> /\ \A k \in 1..n : v[k] = w[k]
      <4>1. w[n] # <<>>
        BY <2>2, <2>5
      <4>2. Scanned(v, w, c, n)
        BY <1>2, <1>3, <2>2, <2>3, ScanIs, Zenon DEF v
      <4> QED BY <2>8, <4>1, <4>2, Zenon DEF Scanned
    <3>2. WordAt(l, s) = SubSeq(l, s, p)
      <4>1. s \in 1..Len(l) /\ p \in s..Len(l)
        BY <1>1, <2>2, <2>3
      <4>2. ~IsArgument(l, p + 1)
        BY <1>4, <2>8
      <4> QED BY <2>2, <4>1, <4>2, WordIs
    <3>3. \A i \in Starts(l) : i <= p + 1 => v[Rank(l, i)] = WordAt(l, i)
      <4> SUFFICES ASSUME NEW i \in Starts(l), i <= p + 1 PROVE v[Rank(l, i)] = WordAt(l, i)
        OBVIOUS
      <4>1. CASE i < s
        <5>1. Rank(l, i) \in 1..n - 1 /\ Rank(l, i) \in 1..n
          BY <2>3, <2>6, <4>1
        <5> QED BY <2>2, <3>1, <4>1, <5>1
      <4>2. CASE i = s
        <5>1. n \in 1..n
          BY <2>3
        <5> QED BY <2>2, <3>1, <3>2, <4>2, <5>1
      <4>3. CASE s < i
        <5>1. i <= p
          BY <1>6, <2>4
        <5>2. n < Rank(l, i) /\ Rank(l, i) <= r /\ Rank(l, i) \in Nat
          BY <1>6, <4>3, <5>1
        <5> QED BY <1>3, <2>2, <2>3, <5>2
      <4>4. i \in Nat /\ s \in Nat
        BY <1>6
      <4> QED BY <4>1, <4>2, <4>3, <4>4
    <3>4. Between(l, v, p + 1)
      BY <2>4, <3>1, <3>3 DEF Between
    <3> QED BY <2>8, <3>1, <3>4 DEF ReadUpTo, v
  <2> QED BY <2>7, <2>8
<1> QED BY <1>7, <1>8, <1>9

\* The recursive function of Options.
Scans(a) ==
  CHOOSE f : f = [n \in 0..Len(a) |-> IF n = 0 THEN << <<>> >> ELSE Scan(f[n - 1], a[n])]

LEMMA ScansIs ==
  ASSUME NEW a \in Seq(Tokens)
  PROVE  /\ Scans(a)[0] = << <<>> >>
         /\ \A k \in 1..Len(a) : Scans(a)[k] = Scan(Scans(a)[k - 1], a[k])
<1> DEFINE N == Len(a)
           S == {w \in OptionLists : Len(w) >= 1}
           base == << <<>> >>
           next == [k \in 1..N |-> [w \in S |-> Scan(w, a[k])]]
<1>1. N \in Nat /\ \A k \in 1..N : a[k] \in Tokens
  BY LenProperties, ElementOfSeq
<1>2. base \in S
  BY DEF OptionLists
<1>3. \A w : w \in S <=> w \in OptionLists /\ Len(w) >= 1
  OBVIOUS
<1> HIDE DEF S, N, base
<1>4. \A k \in 1..N, w \in S : Scan(w, a[k]) \in S
  <2> SUFFICES ASSUME NEW k \in 1..N, NEW w \in S PROVE Scan(w, a[k]) \in S
    OBVIOUS
  <2>1. w \in OptionLists /\ Len(w) \in Nat /\ Len(w) >= 1
    BY <1>3, LenProperties DEF OptionLists
  <2>2. a[k] \in Tokens
    BY <1>1
  <2> DEFINE c == a[k]
             v == Scan(w, c)
  <2>3. Scanned(v, w, c, Len(w))
    BY <2>1, <2>2, ScanIs, Zenon
  <2> HIDE DEF c, v
  <2>4. v \in OptionLists /\ (v = w \/ Len(v) = Len(w) \/ Len(v) = Len(w) + 1)
    BY <2>3, Zenon DEF Scanned
  <2>5. Len(v) >= 1
    BY <2>1, <2>4
  <2> QED BY <1>3, <2>4, <2>5 DEF c, v
<1>5. next \in [1..N -> [S -> S]] /\ \A k \in 1..N, w \in S : next[k][w] = Scan(w, a[k])
  BY <1>4
<1> HIDE DEF next
<1>6. PICK f : Steps(f, N, S, base, next)
  BY <1>1, <1>2, <1>5, Recursion
<1>7. f \in [0..N -> S] /\ f[0] = base /\ \A k \in 1..N : f[k] = next[k][f[k - 1]]
  BY <1>6 DEF Steps
<1>8. ASSUME NEW k \in 0..N PROVE f[k] = IF k = 0 THEN base ELSE Scan(f[k - 1], a[k])
  <2>1. CASE k = 0
    BY <1>7, <2>1
  <2>2. CASE k # 0
    <3>1. k \in 1..N /\ k - 1 \in 0..N
      BY <1>1, <2>2
    <3> QED BY <1>5, <1>7, <2>2, <3>1
  <2> QED BY <2>1, <2>2
<1>9. f = [k \in 0..N |-> IF k = 0 THEN base ELSE Scan(f[k - 1], a[k])]
  BY <1>7, <1>8
<1>10. Scans(a) = [k \in 0..N |-> IF k = 0 THEN base ELSE Scan(Scans(a)[k - 1], a[k])]
  BY <1>9 DEF Scans, base, N
<1>11. 0 \in 0..N /\ \A k \in 1..N : k \in 0..N /\ k # 0
  BY <1>1
<1> QED BY <1>10, <1>11 DEF base, N

\* What the scan of a whole line has read.
LEMMA ScansRead ==
  ASSUME NEW l, IsLine(l), NEW f \in Nat, ArgumentsFrom(l, f)
  PROVE  /\ Options(l) = Scans(Arguments(l))[Len(l) - f]
         /\ ReadUpTo(l, Options(l), Len(l) - 1)
<1> DEFINE a == Arguments(l)
           N == Len(l) - f
<1>1. /\ l \in Seq(Tokens) /\ Len(l) \in Nat /\ f \in 2..Len(l) - 1
      /\ a = SubSeq(l, f, Len(l) - 1)
  BY LineIs DEF ArgumentsFrom
<1>2. a \in Seq(Tokens) /\ Len(a) = N /\ \A k \in 1..N : a[k] = l[f + k - 1]
  <2>1. \A i \in 1..Len(l) : l[i] \in Tokens
    BY <1>1, ElementOfSeq
  <2>2. \A i \in f..Len(l) - 1 : l[i] \in Tokens
    BY <1>1, <2>1
  <2>3. /\ a \in Seq(Tokens)
        /\ Len(a) = IF f <= Len(l) - 1 THEN Len(l) - 1 - f + 1 ELSE 0
        /\ \A i \in 1..Len(l) - 1 - f + 1 : a[i] = l[f + i - 1]
    <3>1. f \in Int /\ Len(l) - 1 \in Int
      BY <1>1
    <3> QED BY <1>1, <2>2, <3>1, SubSeqProperties
  <2> HIDE DEF a
  <2> QED BY <1>1, <2>3
<1>3. N \in Nat /\ N >= 1 /\ f + N - 1 = Len(l) - 1
  BY <1>1
<1>4. Options(l) = Scans(a)[N]
  <2>1. a # <<>>
    BY <1>2, <1>3
  <2>2. Options(l) = Scans(a)[Len(a)]
    BY <2>1, Zenon DEF Options, Scans
  <2> QED BY <1>2, <2>2
<1>5. Scans(a)[0] = << <<>> >> /\ \A k \in 1..N : Scans(a)[k] = Scan(Scans(a)[k - 1], a[k])
  <2> HIDE DEF a, N
  <2> QED BY <1>2, ScansIs
<1> DEFINE T == {k \in 1..N : ~ReadUpTo(l, Scans(a)[k], f + k - 1)}
<1> HIDE DEF a, N
<1>6. T \in SUBSET Nat /\ \A k : k \in T <=> k \in 1..N /\ ~ReadUpTo(l, Scans(a)[k], f + k - 1)
  OBVIOUS
<1> HIDE DEF T
<1>7. T = {}
  <2> SUFFICES ASSUME T # {} PROVE FALSE
    OBVIOUS
  <2>1. PICK k \in T : \A j \in T : k <= j
    BY <1>6, LeastOf
  <2>2. k \in 1..N /\ ~ReadUpTo(l, Scans(a)[k], f + k - 1)
    BY <1>6
  <2>3. CASE k = 1
    <3>1. 1 \in 1..N /\ 1 - 1 = 0 /\ f + 1 - 1 = f
      BY <1>1, <1>3
    <3>2. Scans(a)[1] = Scan(<< <<>> >>, l[f])
      BY <1>2, <1>5, <3>1
    <3> QED BY <2>2, <2>3, <3>1, <3>2, ReadFirst
  <2>4. CASE k # 1
    <3>1. k - 1 \in 1..N /\ ~(k <= k - 1) /\ f + (k - 1) - 1 \in Nat /\ f <= f + (k - 1) - 1
      BY <1>1, <1>3, <2>2, <2>4
    <3>2. ReadUpTo(l, Scans(a)[k - 1], f + (k - 1) - 1)
      BY <1>6, <2>1, <3>1
    <3>3. f + (k - 1) - 1 <= Len(l) - 2 /\ f + (k - 1) - 1 + 1 = f + k - 1
      BY <1>1, <2>2 DEF N
    <3> DEFINE p == f + (k - 1) - 1
               w == Scans(a)[k - 1]
    <3>4. p \in Nat /\ f <= p /\ p <= Len(l) - 2 /\ p + 1 = f + k - 1 /\ ReadUpTo(l, w, p)
      BY <3>1, <3>2, <3>3
    <3>5. Scans(a)[k] = Scan(w, l[f + k - 1])
      BY <1>2, <1>5, <2>2
    <3> HIDE DEF p, w
    <3>6. ReadUpTo(l, Scan(w, l[p + 1]), p + 1)
      BY <3>4, ReadNext
    <3> QED BY <2>2, <3>4, <3>5, <3>6
  <2> QED BY <2>3, <2>4
<1>8. ReadUpTo(l, Scans(a)[N], f + N - 1)
  <2>1. N \in 1..N
    BY <1>3
  <2> QED BY <1>6, <1>7, <2>1
<1>9. ReadUpTo(l, Options(l), Len(l) - 1)
  BY <1>3, <1>4, <1>8
<1> QED BY <1>4, <1>9 DEF a, N

\* The options of a line are those that begin in it, each where it comes, and another one
\* without anything in it if blanks end the line.
OptionsOf(l, w) ==
  /\ w \in OptionLists
  /\ (w = <<>> /\ Starts(l) = {}) \/ (w # <<>> /\ Len(w) = Counted(l))
  /\ \A i \in Starts(l) : Rank(l, i) \in 1..Len(w) /\ w[Rank(l, i)] = WordAt(l, i)
  /\ Len(w) <= Counted(l)
  /\ Len(w) > Rank(l, Len(l)) => Len(w) = Rank(l, Len(l)) + 1 /\ w[Len(w)] = <<>>

LEMMA OptionsAre ==
  ASSUME NEW l, IsLine(l)
  PROVE  OptionsOf(l, Options(l))
<1> DEFINE n == Len(l)
           w == Options(l)
<1>1. n \in Nat /\ n >= 2 /\ n - 1 \in Nat /\ n - 1 + 1 = n /\ Rank(l, n) \in Nat
  <2>1. n \in Nat /\ n >= 2
    BY LenProperties DEF IsLine
  <2>2. Rank(l, n) \in Nat
    BY <2>1, RankIs
  <2> QED BY <2>1, <2>2
<1>2. Counted(l) = Rank(l, n) + IF l[n - 1] = Blank THEN 1 ELSE 0
  BY DEF Counted
<1>3. CASE Arguments(l) = <<>> /\ Starts(l) = {}
  <2>1. w = <<>>
    BY <1>3 DEF Options
  <2>2. w \in OptionLists /\ Len(w) = 0
    BY <2>1 DEF OptionLists
  <2>3. Len(w) <= Counted(l) /\ ~(Len(w) > Rank(l, n))
    <3>1. 0 <= Counted(l) /\ ~(0 > Rank(l, n))
      BY <1>1, <1>2
    <3> QED BY <2>2, <3>1
  <2>4. OptionsOf(l, w)
    <3> HIDE DEF w
    <3>1. \A i \in Starts(l) : Rank(l, i) \in 1..Len(w) /\ w[Rank(l, i)] = WordAt(l, i)
      BY <1>3
    <3>2. w = <<>> /\ Starts(l) = {}
      BY <1>3, <2>1
    <3>3. ~(Len(w) > Rank(l, Len(l))) /\ Len(w) <= Counted(l)
      BY <2>3
    <3> QED BY <2>2, <3>1, <3>2, <3>3, Zenon DEF OptionsOf
  <2> QED BY <2>4
<1>4. ASSUME NEW f \in Nat, ArgumentsFrom(l, f) PROVE OptionsOf(l, w)
  <2>1. ReadUpTo(l, w, n - 1)
    BY <1>4, ScansRead
  <2> DEFINE r == Rank(l, n)
  <2>2. \A i \in Starts(l) : /\ i \in 1..n /\ i \in Nat /\ i <= n - 1 /\ i # n /\ IsArgument(l, i)
                             /\ Rank(l, i) \in Nat /\ Rank(l, i) >= 1 /\ Rank(l, i) <= r
    <3> SUFFICES ASSUME NEW i \in Starts(l)
                 PROVE  /\ i \in 1..n /\ i \in Nat /\ i <= n - 1 /\ i # n /\ IsArgument(l, i)
                        /\ Rank(l, i) \in Nat /\ Rank(l, i) >= 1 /\ Rank(l, i) <= r
      OBVIOUS
    <3>1. i \in 2..n /\ i \in Nat /\ Rank(l, i) \in Nat /\ Rank(l, i) >= 1
      BY RankOrder
    <3>2. IsArgument(l, i)
      BY DEF Starts
    <3>3. i \in 1..n /\ i <= n
      BY <1>1, <3>1
    <3>4. i # n
      BY <3>2, <3>3, ArgumentIs
    <3>5. Rank(l, i) <= r
      BY <1>1, <3>1, <3>3, RankGrows
    <3>6. i <= n - 1
      <4> HIDE DEF n
      <4> QED BY <1>1, <3>1, <3>3, <3>4
    <3> QED BY <3>1, <3>2, <3>3, <3>4, <3>5, <3>6, Zenon
  <2>3. Rank(l, n - 1) = r
    <3>1. n \notin Starts(l)
      BY <2>2
    <3>2. Rank(l, n - 1 + 1) = IF n - 1 + 1 \in Starts(l) THEN Rank(l, n - 1) + 1 ELSE Rank(l, n - 1)
      BY <1>1, RankNext
    <3> QED BY <1>1, <3>1, <3>2
  <2> HIDE DEF w, r, n
  <2>4. CASE l[n - 1] = Blank
    <3>1. Between(l, w, n - 1)
      BY <2>1, <2>4 DEF ReadUpTo
    <3>2. /\ Len(w) = r + 1 /\ w[r + 1] = <<>>
          /\ \A i \in Starts(l) : i <= n - 1 => w[Rank(l, i)] = WordAt(l, i)
      BY <2>3, <3>1 DEF Between
    <3>3. Counted(l) = r + 1 /\ r \in Nat
      BY <1>1, <1>2, <2>4 DEF r
    <3>4. w \in OptionLists /\ w # <<>>
      <4>1. Len(w) # 0
        BY <3>2, <3>3
      <4>2. Len(<<>>) = 0
        OBVIOUS
      <4> QED BY <2>1, <4>1, <4>2, Zenon DEF ReadUpTo
    <3>5. \A i \in Starts(l) : Rank(l, i) \in 1..r + 1
      BY <2>2, <3>3
    <3>6. r + 1 <= r + 1
      BY <3>3
    <3>7. OptionsOf(l, w)
      BY <2>2, <3>2, <3>3, <3>4, <3>5, <3>6, Zenon DEF OptionsOf, r, n
    <3> QED BY <3>7
  <2>5. CASE l[n - 1] # Blank
    <3>1. PICK s \in Starts(l) : Inside(l, w, n - 1, s)
      BY <2>1, <2>5 DEF ReadUpTo
    <3>2. /\ Len(w) = r /\ Rank(l, s) = r /\ s <= n - 1
          /\ w[Rank(l, s)] = SubSeq(l, s, n - 1) /\ \A k \in s..n - 1 : IsArgument(l, k)
          /\ \A i \in Starts(l) : i < s => w[Rank(l, i)] = WordAt(l, i)
      BY <2>3, <3>1 DEF Inside
    <3>3. Counted(l) = r /\ r \in Nat /\ r >= 1 /\ r <= r /\ ~(r > r)
      <4>1. r \in Nat /\ Counted(l) = r + 0
        BY <1>1, <1>2, <2>5 DEF r
      <4> QED BY <2>2, <3>2, <4>1
    <3>4. w \in OptionLists /\ w # <<>>
      <4>1. Len(w) # 0
        BY <3>2, <3>3
      <4>2. Len(<<>>) = 0
        OBVIOUS
      <4> QED BY <2>1, <4>1, <4>2, Zenon DEF ReadUpTo
    <3>5. WordAt(l, s) = SubSeq(l, s, n - 1)
      <4>1. s \in 1..Len(l) /\ n - 1 \in s..Len(l)
        BY <1>1, <2>2, <3>2 DEF n
      <4>2. ~IsArgument(l, n - 1 + 1)
        <5>1. n \in 1..Len(l)
          BY <1>1 DEF n
        <5> QED BY <1>1, <5>1, ArgumentIs DEF n
      <4> QED BY <3>2, <4>1, <4>2, WordIs
    <3>6. \A i \in Starts(l) : Rank(l, i) \in 1..r /\ w[Rank(l, i)] = WordAt(l, i)
      <4> SUFFICES ASSUME NEW i \in Starts(l) PROVE Rank(l, i) \in 1..r /\ w[Rank(l, i)] = WordAt(l, i)
        OBVIOUS
      <4>1. Rank(l, i) \in 1..r
        BY <2>2, <3>3
      <4>2. CASE i < s
        BY <3>2, <4>1, <4>2
      <4>3. CASE i = s
        BY <3>2, <3>5, <4>1, <4>3
      <4>4. CASE s < i
        <5>1. Rank(l, s) < Rank(l, i)
          BY <4>4, RankOrder
        <5> QED BY <3>2, <3>3, <4>1, <5>1
      <4>5. i \in Nat /\ s \in Nat
        BY <2>2
      <4> QED BY <4>2, <4>3, <4>4, <4>5
    <3>7. OptionsOf(l, w)
      BY <3>2, <3>3, <3>4, <3>6, Zenon DEF OptionsOf, r, n
    <3> QED BY <3>7
  <2> QED BY <2>4, <2>5
<1> QED BY <1>3, <1>4, ArgumentsAre

\* An option gets an "=" when it has none.
LEMMA TextIs ==
  ASSUME NEW w \in Seq(Tokens)
  PROVE  Setting(w) \in Seq(Tokens) /\ Len(Setting(w)) \in Nat /\ Setting(w) = TextOf(w)
<1>1. PICK c \in Tokens : c = "="
  <2>1. "=" \in Tokens
    BY Zenon DEF Tokens
  <2> QED BY <2>1, Zenon
<1>2. DOMAIN w = 1..Len(w)
  BY LenProperties
<1>3. Append(w, c) = w \o <<c>> /\ Append(w, c) \in Seq(Tokens)
  BY AppendIsConcat, AppendProperties
<1>4. Setting(w) = IF \E i \in 1..Len(w) : w[i] = c THEN w ELSE Append(w, c)
  BY <1>1 DEF Setting, Contains
<1>5. TextOf(w) = IF \E i \in 1..Len(w) : w[i] = c THEN w ELSE w \o <<c>>
  BY <1>1, <1>2 DEF TextOf
<1>6. Setting(w) = TextOf(w) /\ Setting(w) \in Seq(Tokens)
  BY <1>3, <1>4, <1>5, Zenon
<1> QED BY <1>6, LenProperties

LEMMA EmptyText == Setting(<<>>) = <<"=">>
<1>1. Append(<<>>, "=") = <<"=">>
  OBVIOUS
<1>2. ~Contains(<<>>, "=")
  BY DEF Contains
<1> QED BY <1>1, <1>2 DEF Setting

\* Where the strings of an environment end, one behind the other.
Ends(e, from) ==
  CHOOSE f : f = [n \in 0..Len(e) |-> IF n = 0 THEN from ELSE f[n - 1] + Len(e[n]) + 1]

LEMMA EndsIs ==
  ASSUME NEW e \in OptionLists, NEW from \in Nat
  PROVE  /\ Taken(e, from) = Ends(e, from)[Len(e)]
         /\ Ends(e, from)[0] = from
         /\ \A k \in 0..Len(e) : Ends(e, from)[k] \in Nat
         /\ \A k \in 1..Len(e) : Ends(e, from)[k] = Ends(e, from)[k - 1] + Len(e[k]) + 1
<1> DEFINE N == Len(e)
           next == [k \in 1..N |-> [m \in Nat |-> m + Len(e[k]) + 1]]
<1>1. N \in Nat /\ \A k \in 1..N : Len(e[k]) \in Nat
  <2>1. N \in Nat
    BY LenProperties DEF OptionLists
  <2>2. \A k \in 1..N : e[k] \in Seq(Tokens)
    BY ElementOfSeq DEF OptionLists
  <2> QED BY <2>1, <2>2, LenProperties
<1> HIDE DEF N
<1>2. next \in [1..N -> [Nat -> Nat]] /\ \A k \in 1..N, m \in Nat : next[k][m] = m + Len(e[k]) + 1
  BY <1>1
<1> HIDE DEF next
<1>3. PICK f : Steps(f, N, Nat, from, next)
  BY <1>1, <1>2, Recursion
<1>4. f \in [0..N -> Nat] /\ f[0] = from /\ \A k \in 1..N : f[k] = next[k][f[k - 1]]
  BY <1>3 DEF Steps
<1>5. ASSUME NEW k \in 0..N PROVE f[k] = IF k = 0 THEN from ELSE f[k - 1] + Len(e[k]) + 1
  <2>1. CASE k = 0
    BY <1>4, <2>1
  <2>2. CASE k # 0
    <3>1. k \in 1..N /\ k - 1 \in 0..N
      BY <1>1, <2>2
    <3> QED BY <1>2, <1>4, <2>2, <3>1
  <2> QED BY <2>1, <2>2
<1>6. f = [k \in 0..N |-> IF k = 0 THEN from ELSE f[k - 1] + Len(e[k]) + 1]
  BY <1>4, <1>5
<1>7. Ends(e, from) = [k \in 0..N |-> IF k = 0 THEN from ELSE Ends(e, from)[k - 1] + Len(e[k]) + 1]
  BY <1>6 DEF Ends, N
<1>8. 0 \in 0..N /\ \A k \in 1..N : k \in 0..N /\ k # 0
  BY <1>1
<1> DEFINE g == Ends(e, from)
<1> HIDE DEF g
<1>9. g[0] = from /\ \A k \in 1..N : g[k] = g[k - 1] + Len(e[k]) + 1
  BY <1>7, <1>8 DEF g
<1>10. \A k \in 0..N : f[k] = g[k]
  <2>1. \A k \in 1..N : f[k - 1] = g[k - 1] => f[k] = g[k]
    BY <1>2, <1>5, <1>8, <1>9
  <2>2. f[0] = g[0] /\ N \in Nat
    BY <1>1, <1>4, <1>9
  <2> QED BY <2>1, <2>2, SameSteps, Zenon
<1>11. \A k \in 0..N : g[k] \in Nat
  BY <1>4, <1>10
<1>12. Taken(e, from) = g[N]
  BY Zenon DEF Taken, Ends, g, N
<1> QED BY <1>9, <1>11, <1>12 DEF g, N

\* The recursive function of parse_config.
Stores(words) ==
  CHOOSE f : f = [n \in 0..Len(words) |->
                    IF n = 0 THEN [at |-> Table(words), environ |-> <<>>]
                    ELSE Store(f[n - 1], Setting(words[n]))]

Environs == [at : Nat, environ : OptionLists]

\* One option more goes in behind the others, or config_env is full.
LEMMA StoreIs ==
  ASSUME NEW x \in Environs, NEW t \in Seq(Tokens)
  PROVE  /\ Store(x, t) \in Environs /\ Len(t) \in Nat
         /\ x.at >= ENV_SIZE => Store(x, t) = x
         /\ x.at + Len(t) < ENV_SIZE =>
              Store(x, t) = [at |-> x.at + Len(t) + 1, environ |-> Append(x.environ, t)]
         /\ x.at < ENV_SIZE /\ ~(x.at + Len(t) < ENV_SIZE) =>
              Store(x, t) = [at |-> ENV_SIZE, environ |-> x.environ]
<1>1. ENV_SIZE \in Nat /\ x.at \in Nat /\ x.environ \in OptionLists /\ Len(t) \in Nat
      /\ x = [at |-> x.at, environ |-> x.environ]
  BY EnvAssumption, LenProperties DEF Environs
<1>2. Append(x.environ, t) \in OptionLists
  <2> DEFINE W == Seq(Tokens)
  <2>1. x.environ \in Seq(W) /\ t \in W
    BY <1>1 DEF OptionLists
  <2> HIDE DEF W
  <2>2. Append(x.environ, t) \in Seq(W)
    BY <2>1, AppendType
  <2> QED BY <2>2 DEF W, OptionLists
<1>3. CASE x.at >= ENV_SIZE
  <2>1. Store(x, t) = x
    BY <1>3 DEF Store
  <2>2. ~(x.at + Len(t) < ENV_SIZE) /\ ~(x.at < ENV_SIZE)
    BY <1>1, <1>3
  <2> QED BY <1>1, <2>1, <2>2
<1>4. CASE x.at + Len(t) < ENV_SIZE
  <2>1. ~(x.at >= ENV_SIZE)
    BY <1>1, <1>4
  <2>2. Store(x, t) = [at |-> x.at + Len(t) + 1, environ |-> Append(x.environ, t)]
    BY <1>4, <2>1, Zenon DEF Store, Fits
  <2>3. x.at + Len(t) + 1 \in Nat
    BY <1>1
  <2>4. Store(x, t) \in Environs
    BY <1>2, <2>2, <2>3 DEF Environs
  <2> QED BY <1>1, <1>4, <2>1, <2>2, <2>4, Zenon
<1>5. CASE ~(x.at >= ENV_SIZE) /\ ~(x.at + Len(t) < ENV_SIZE)
  <2>1. Store(x, t) = [x EXCEPT !.at = ENV_SIZE]
    BY <1>5, Zenon DEF Store, Fits
  <2>2. [x EXCEPT !.at = ENV_SIZE] = [at |-> ENV_SIZE, environ |-> x.environ]
    BY <1>1 DEF Environs
  <2>3. [at |-> ENV_SIZE, environ |-> x.environ] \in Environs
    BY <1>1 DEF Environs
  <2> QED BY <1>1, <1>5, <2>1, <2>2, <2>3, Zenon
<1> QED BY <1>3, <1>4, <1>5

LEMMA StoresIs ==
  ASSUME NEW words \in OptionLists
  PROVE  /\ Stores(words)[0] = [at |-> Table(words), environ |-> <<>>]
         /\ Table(words) \in Nat
         /\ \A k \in 1..Len(words) :
              Stores(words)[k] = Store(Stores(words)[k - 1], Setting(words[k]))
<1> DEFINE N == Len(words)
           base == [at |-> Table(words), environ |-> <<>>]
           next == [k \in 1..N |-> [x \in Environs |-> Store(x, Setting(words[k]))]]
<1>1. N \in Nat /\ \A k \in 1..N : Setting(words[k]) \in Seq(Tokens)
  <2>1. N \in Nat
    BY LenProperties DEF OptionLists
  <2>2. \A k \in 1..N : words[k] \in Seq(Tokens)
    BY ElementOfSeq DEF OptionLists
  <2> QED BY <2>1, <2>2, TextIs
<1>2. Table(words) \in Nat
  BY <1>1 DEF Table, Pointer
<1>3. base \in Environs
  <2>1. <<>> \in OptionLists
    BY DEF OptionLists
  <2> QED BY <1>2, <2>1 DEF Environs
<1> HIDE DEF N, base
<1>4. next \in [1..N -> [Environs -> Environs]]
      /\ \A k \in 1..N, x \in Environs : next[k][x] = Store(x, Setting(words[k]))
  <2>1. \A k \in 1..N, x \in Environs : Store(x, Setting(words[k])) \in Environs
    BY <1>1, StoreIs
  <2> QED BY <2>1
<1> HIDE DEF next
<1>5. PICK f : Steps(f, N, Environs, base, next)
  BY <1>1, <1>3, <1>4, Recursion
<1>6. f \in [0..N -> Environs] /\ f[0] = base /\ \A k \in 1..N : f[k] = next[k][f[k - 1]]
  BY <1>5 DEF Steps
<1>7. ASSUME NEW k \in 0..N PROVE f[k] = IF k = 0 THEN base ELSE Store(f[k - 1], Setting(words[k]))
  <2>1. CASE k = 0
    BY <1>6, <2>1
  <2>2. CASE k # 0
    <3>1. k \in 1..N /\ k - 1 \in 0..N
      BY <1>1, <2>2
    <3> QED BY <1>4, <1>6, <2>2, <3>1
  <2> QED BY <2>1, <2>2
<1>8. f = [k \in 0..N |-> IF k = 0 THEN base ELSE Store(f[k - 1], Setting(words[k]))]
  BY <1>6, <1>7
<1>9. Stores(words)
        = [k \in 0..N |-> IF k = 0 THEN base ELSE Store(Stores(words)[k - 1], Setting(words[k]))]
  BY <1>8 DEF Stores, base, N
<1>10. 0 \in 0..N /\ \A k \in 1..N : k \in 0..N /\ k # 0
  BY <1>1
<1> QED BY <1>2, <1>9, <1>10 DEF base, N

\* After k options: all of them are in, or the first m and the next one has no room.  E[m] is
\* where the strings of the first m end.
Filled(x, words, E, k, m) ==
  /\ x \in Environs /\ Len(x.environ) = m
  /\ \A j \in 1..m : x.environ[j] = Setting(words[j])
  /\ (m = k /\ x.at = E[k])
       \/ (m < k /\ x.at >= ENV_SIZE /\ E[m] + Len(Setting(words[m + 1])) >= ENV_SIZE)

LEMMA FilledNext ==
  ASSUME NEW words \in OptionLists, NEW E, NEW k \in 1..Len(words), NEW m \in 0..k - 1, NEW x,
         Filled(x, words, E, k - 1, m), E[k - 1] \in Nat,
         E[k] = E[k - 1] + Len(Setting(words[k])) + 1
  PROVE  \E n \in 0..k : Filled(Store(x, Setting(words[k])), words, E, k, n)
<1> DEFINE t == Setting(words[k])
           y == Store(x, t)
<1>1. k \in Nat /\ k >= 1 /\ k - 1 \in Nat /\ m \in Nat /\ m <= k - 1 /\ m \in 0..k /\ m < k /\ k \in 0..k
      /\ k - 1 + 1 = k
  BY LenProperties DEF OptionLists
<1>2. t \in Seq(Tokens) /\ Len(t) \in Nat
  <2>1. words[k] \in Seq(Tokens)
    BY ElementOfSeq DEF OptionLists
  <2> QED BY <2>1, TextIs
<1>3. /\ x \in Environs /\ x.environ \in OptionLists /\ Len(x.environ) = m /\ x.at \in Nat
      /\ \A j \in 1..m : x.environ[j] = Setting(words[j])
  BY DEF Filled, Environs
<1>4. /\ y \in Environs
      /\ x.at >= ENV_SIZE => y = x
      /\ x.at + Len(t) < ENV_SIZE =>
           y = [at |-> x.at + Len(t) + 1, environ |-> Append(x.environ, t)]
      /\ x.at < ENV_SIZE /\ ~(x.at + Len(t) < ENV_SIZE) =>
           y = [at |-> ENV_SIZE, environ |-> x.environ]
  <2> HIDE DEF t
  <2> QED BY <1>2, <1>3, StoreIs
<1>5. ENV_SIZE \in Nat
  BY EnvAssumption
<1>6. E[k] = E[k - 1] + Len(t) + 1
  OBVIOUS
<1> HIDE DEF y
<1>7. CASE m < k - 1
  <2>1. x.at >= ENV_SIZE /\ E[m] + Len(Setting(words[m + 1])) >= ENV_SIZE
    <3>1. m # k - 1
      BY <1>1, <1>7
    <3> QED BY <3>1, Zenon DEF Filled
  <2>2. y = x
    BY <1>4, <2>1
  <2>3. Filled(y, words, E, k, m)
    BY <1>1, <1>3, <2>1, <2>2, Zenon DEF Filled
  <2> QED BY <1>1, <2>3 DEF y
<1>8. CASE m = k - 1
  <2>1. x.at = E[k - 1]
    <3>1. ~(m < k - 1)
      BY <1>1, <1>8
    <3> QED BY <3>1, Zenon DEF Filled
  <2>2. m + 1 = k
    BY <1>1, <1>8
  <2> HIDE DEF t
  <2>3. CASE x.at + Len(t) < ENV_SIZE
    <3> DEFINE e == Append(x.environ, t)
    <3>1. y = [at |-> x.at + Len(t) + 1, environ |-> e]
      BY <1>4, <2>3
    <3>2. Len(e) = k /\ \A j \in 1..k : e[j] = Setting(words[j])
      <4> DEFINE W == Seq(Tokens)
      <4>1. x.environ \in Seq(W) /\ t \in W
        BY <1>2, <1>3 DEF OptionLists
      <4> HIDE DEF W
      <4>2. /\ Len(e) = Len(x.environ) + 1
            /\ \A i \in 1..Len(x.environ) : e[i] = x.environ[i]
            /\ e[Len(x.environ) + 1] = t
        BY <4>1, AppendType
      <4> HIDE DEF e
      <4>3. Len(e) = k /\ (\A i \in 1..m : e[i] = x.environ[i]) /\ e[k] = t
        BY <1>3, <2>2, <4>2
      <4>4. ASSUME NEW j \in 1..k PROVE e[j] = Setting(words[j])
        <5>1. j = k \/ j \in 1..m
          BY <1>1, <2>2
        <5> QED BY <1>3, <4>3, <5>1, Zenon DEF t
      <4> QED BY <4>3, <4>4
    <3> HIDE DEF e
    <3>3. y.environ = e /\ y.at = E[k]
      BY <1>6, <2>1, <3>1 DEF t
    <3>4. Filled(y, words, E, k, k)
      BY <1>4, <3>2, <3>3, Zenon DEF Filled
    <3> QED BY <1>1, <3>4 DEF y, t
  <2>4. CASE ~(x.at + Len(t) < ENV_SIZE)
    <3>1. E[m] + Len(Setting(words[m + 1])) >= ENV_SIZE
      <4>1. x.at + Len(t) >= ENV_SIZE
        BY <1>2, <1>3, <1>5, <2>4
      <4> QED BY <1>8, <2>1, <2>2, <4>1 DEF t
    <3>2. y.environ = x.environ /\ y.at >= ENV_SIZE
      <4>1. CASE x.at >= ENV_SIZE
        BY <1>4, <4>1
      <4>2. CASE x.at < ENV_SIZE
        <5>1. y = [at |-> ENV_SIZE, environ |-> x.environ]
          BY <1>4, <2>4, <4>2
        <5> QED BY <1>5, <5>1
      <4> QED BY <1>3, <1>5, <4>1, <4>2
    <3>3. Filled(y, words, E, k, m)
      BY <1>1, <1>3, <1>4, <3>1, <3>2, Zenon DEF Filled
    <3> QED BY <1>1, <3>3 DEF y, t
  <2> QED BY <2>3, <2>4
<1> QED BY <1>1, <1>7, <1>8

\* What parse_config returns, for any list of options.
LEMMA StoresFill ==
  ASSUME NEW words \in OptionLists, NEW E, E[0] = Table(words),
         \A k \in 0..Len(words) : E[k] \in Nat,
         \A k \in 1..Len(words) : E[k] = E[k - 1] + Len(Setting(words[k])) + 1
  PROVE  \E m \in 0..Len(words) : Filled(Stores(words)[Len(words)], words, E, Len(words), m)
<1> DEFINE N == Len(words)
           g == Stores(words)
           Good(k) == \E m \in 0..k : Filled(g[k], words, E, k, m)
           T == {k \in 0..N : ~Good(k)}
<1>1. N \in Nat
  BY LenProperties DEF OptionLists
<1>2. /\ g[0] = [at |-> Table(words), environ |-> <<>>] /\ Table(words) \in Nat
      /\ \A k \in 1..N : g[k] = Store(g[k - 1], Setting(words[k]))
  BY StoresIs
<1> HIDE DEF g
<1>3. Good(0)
  <2>1. <<>> \in OptionLists /\ Len(<<>>) = 0 /\ 0 \in 0..0 /\ 1..0 = {}
    BY DEF OptionLists
  <2>2. g[0] \in Environs /\ g[0].environ = <<>> /\ g[0].at = E[0]
    BY <1>2, <2>1 DEF Environs
  <2>3. Filled(g[0], words, E, 0, 0)
    BY <2>1, <2>2, Zenon DEF Filled
  <2> QED BY <2>1, <2>3
<1>4. ASSUME NEW k \in 1..N, Good(k - 1) PROVE Good(k)
  <2>1. k - 1 \in 0..N /\ k \in 1..Len(words)
    BY <1>1
  <2>2. PICK m \in 0..k - 1 : Filled(g[k - 1], words, E, k - 1, m)
    BY <1>4
  <2>3. E[k - 1] \in Nat /\ E[k] = E[k - 1] + Len(Setting(words[k])) + 1
    BY <2>1
  <2>4. \E n \in 0..k : Filled(Store(g[k - 1], Setting(words[k])), words, E, k, n)
    BY <2>1, <2>2, <2>3, FilledNext
  <2> QED BY <1>2, <2>4
<1> HIDE DEF Good, N
<1>5. T \in SUBSET Nat /\ \A k : k \in T <=> k \in 0..N /\ ~Good(k)
  BY <1>1
<1> HIDE DEF T
<1>6. T = {}
  <2> SUFFICES ASSUME T # {} PROVE FALSE
    OBVIOUS
  <2>1. PICK k \in T : \A j \in T : k <= j
    BY <1>5, LeastOf
  <2>2. k \in 1..N /\ k - 1 \in 0..N /\ ~(k <= k - 1)
    <3>1. k \in 0..N /\ k # 0
      BY <1>3, <1>5
    <3> QED BY <1>1, <3>1
  <2>3. Good(k - 1)
    BY <1>5, <2>1, <2>2
  <2> QED BY <1>4, <1>5, <2>2, <2>3
<1>7. Good(N)
  BY <1>1, <1>5, <1>6
<1> QED BY <1>7 DEF Good, N, g

\* The environment that parse_config makes of a line has the options of the line.
LEMMA ParsedIs ==
  ASSUME NEW l, IsLine(l)
  PROVE  IsEnvOf(parse_config(l).environ, l) /\ parse_config(l).at \in Nat
<1> DEFINE words == Options(l)
           N == Len(words)
           x == Stores(words)[N]
           e == x.environ
           s == [j \in 1..N |-> Setting(words[j])]
           from == Pointer * (Counted(l) + 1)
           E == Ends(s, Table(words))
           r == Rank(l, Len(l))
<1>1. OptionsOf(l, words)
  BY OptionsAre
<1>2. words \in OptionLists /\ N \in Nat /\ \A j \in 1..N : words[j] \in Seq(Tokens)
  <2>1. words \in OptionLists
    BY <1>1 DEF OptionsOf
  <2> HIDE DEF words
  <2> QED BY <2>1, LenProperties, ElementOfSeq DEF OptionLists
<1>3. parse_config(l) = x
  BY Zenon DEF parse_config, Stores
<1> HIDE DEF words, N
<1>4. \A j \in 1..N : Setting(words[j]) \in Seq(Tokens) /\ Setting(words[j]) = TextOf(words[j])
  BY <1>2, TextIs
<1>5. s \in OptionLists /\ Len(s) = N /\ \A j \in 1..N : s[j] = Setting(words[j])
  <2> DEFINE W == Seq(Tokens)
  <2>1. \A j \in 1..N : Setting(words[j]) \in W
    BY <1>4
  <2> HIDE DEF W
  <2>2. s \in [1..N -> W]
    BY <2>1
  <2>3. s \in Seq(W)
    BY <1>2, <2>2, SeqDef
  <2>4. DOMAIN s = 1..N
    OBVIOUS
  <2>5. Len(s) = N
    BY <1>2, <2>3, <2>4, LenProperties
  <2> QED BY <2>3, <2>5 DEF W, OptionLists
<1> HIDE DEF s
<1>6. Table(words) \in Nat
  BY <1>2, StoresIs
<1>7. /\ E[0] = Table(words) /\ \A k \in 0..N : E[k] \in Nat
      /\ \A k \in 1..N : E[k] = E[k - 1] + Len(Setting(words[k])) + 1
  <2>1. /\ E[0] = Table(words) /\ \A k \in 0..Len(s) : E[k] \in Nat
        /\ \A k \in 1..Len(s) : E[k] = E[k - 1] + Len(s[k]) + 1
    BY <1>5, <1>6, EndsIs
  <2> HIDE DEF E
  <2> QED BY <1>5, <2>1
<1> HIDE DEF E
<1>8. PICK m \in 0..N : Filled(x, words, E, N, m)
  BY <1>2, <1>7, StoresFill DEF N
<1>a. x.at \in Nat
  BY <1>8 DEF Filled, Environs
<1> HIDE DEF x
<1>9. /\ e \in OptionLists /\ Len(e) = m /\ \A j \in 1..m : e[j] = Setting(words[j])
      /\ m < N => E[m] + Len(Setting(words[m + 1])) >= ENV_SIZE
  <2>1. /\ x \in Environs /\ Len(x.environ) = m /\ \A j \in 1..m : x.environ[j] = Setting(words[j])
        /\ (m = N /\ x.at = E[N])
             \/ (m < N /\ x.at >= ENV_SIZE /\ E[m] + Len(Setting(words[m + 1])) >= ENV_SIZE)
    BY <1>8, Zenon DEF Filled
  <2>2. m < N => m # N
    BY <1>2
  <2>3. e \in OptionLists
    BY <2>1 DEF Environs
  <2> QED BY <2>1, <2>2, <2>3, Zenon
<1> HIDE DEF e
<1>10. m \in Nat /\ m <= N /\ r \in Nat
  <2>1. r \in Nat
    BY LenProperties, RankIs DEF IsLine
  <2> QED BY <1>2, <2>1
<1>11. /\ (words = <<>> /\ Starts(l) = {}) \/ (words # <<>> /\ N = Counted(l))
       /\ \A i \in Starts(l) : Rank(l, i) \in 1..N /\ words[Rank(l, i)] = WordAt(l, i)
       /\ N <= Counted(l)
       /\ N > r => N = r + 1 /\ words[N] = <<>>
  BY <1>1, Zenon DEF OptionsOf, N
<1> HIDE DEF r
<1>12. ASSUME NEW i \in Starts(l), Rank(l, i) <= Len(e)
       PROVE  e[Rank(l, i)] = TextOf(WordAt(l, i))
  <2>1. Rank(l, i) \in 1..N /\ words[Rank(l, i)] = WordAt(l, i)
    BY <1>11
  <2>2. Rank(l, i) \in 1..m
    BY <1>2, <1>9, <1>10, <1>12, <2>1
  <2> QED BY <1>4, <1>9, <2>1, <2>2
<1>13. ASSUME NEW i \in Starts(l), Rank(l, i) = Len(e) + 1
       PROVE  Taken(e, from) + Len(TextOf(WordAt(l, i))) >= ENV_SIZE
  <2>1. Rank(l, i) \in 1..N /\ words[Rank(l, i)] = WordAt(l, i)
    BY <1>11
  <2>2. m + 1 \in 1..N /\ m < N /\ words[m + 1] = WordAt(l, i)
    <3>1. Rank(l, i) = m + 1
      BY <1>9, <1>13
    <3>2. m + 1 \in 1..N /\ words[m + 1] = WordAt(l, i)
      BY <2>1, <3>1
    <3> QED BY <1>2, <1>10, <3>2
  <2>3. words # <<>> /\ N = Counted(l)
    BY <1>11
  <2>4. from = Table(words)
    BY <2>3 DEF Table, N
  <2>5. /\ Taken(e, from) = Ends(e, from)[m] /\ Ends(e, from)[0] = from
        /\ \A k \in 1..m : Ends(e, from)[k] = Ends(e, from)[k - 1] + Len(e[k]) + 1
    <3> HIDE DEF from
    <3>1. from \in Nat
      BY <1>6, <2>4
    <3> QED BY <1>9, <3>1, EndsIs
  <2> DEFINE g == Ends(e, from)
  <2> HIDE DEF g, from
  <2>6. g[m] = E[m]
    <3>1. g[0] = E[0]
      BY <1>7, <2>4, <2>5 DEF g
    <3>2. ASSUME NEW k \in 1..m, g[k - 1] = E[k - 1] PROVE g[k] = E[k]
      <4>1. k \in 1..N
        BY <1>2, <1>10
      <4>2. E[k] = E[k - 1] + Len(Setting(words[k])) + 1
        BY <1>7, <4>1
      <4>3. g[k] = g[k - 1] + Len(Setting(words[k])) + 1
        <5>1. g[k] = g[k - 1] + Len(e[k]) + 1 /\ e[k] = Setting(words[k])
          BY <1>9, <2>5, Zenon DEF g
        <5> QED BY <5>1
      <4> QED BY <3>2, <4>2, <4>3
    <3>3. \A k \in 0..m : g[k] = E[k]
      <4>1. \A k \in 1..m : g[k - 1] = E[k - 1] => g[k] = E[k]
        BY <3>2, Zenon
      <4> QED BY <1>10, <3>1, <4>1, SameSteps
    <3>4. m \in 0..m
      BY <1>10
    <3> QED BY <3>3, <3>4
  <2>7. Setting(words[m + 1]) = TextOf(WordAt(l, i))
    BY <1>4, <2>2
  <2>8. E[m] + Len(Setting(words[m + 1])) >= ENV_SIZE
    BY <1>9, <2>2
  <2>9. Taken(e, from) = E[m]
    BY <2>5, <2>6 DEF g
  <2> QED BY <2>7, <2>8, <2>9
<1>14. Len(e) <= Counted(l)
  <2>1. Counted(l) \in Int
    <3>1. Counted(l) = r + (IF l[Len(l) - 1] = Blank THEN 1 ELSE 0)
      BY DEF Counted, r
    <3> QED BY <1>10, <3>1
  <2> QED BY <1>2, <1>9, <1>10, <1>11, <2>1
<1>15. ASSUME Len(e) > r PROVE e[Len(e)] = <<"=">>
  <2>1. m > r
    BY <1>9, <1>15
  <2>2. N > r /\ m >= 1
    BY <1>2, <1>10, <2>1
  <2>3. N = r + 1 /\ words[N] = <<>>
    BY <1>11, <2>2
  <2>4. m = N /\ m \in 1..m
    BY <1>2, <1>10, <2>1, <2>2, <2>3
  <2>5. e[m] = Setting(<<>>)
    BY <1>9, <2>3, <2>4
  <2> QED BY <1>9, <2>5, EmptyText
<1>16. IsEnvOf(e, l)
  BY <1>12, <1>13, <1>14, <1>15, Zenon DEF IsEnvOf, r
<1> QED BY <1>3, <1>a, <1>16 DEF e

EnvInv == \A d \in Drivers : env[d] = NoEnv \/ env[d] = parse_config(line[d])

LEMMA EnvStep == Inv /\ EnvInv /\ [Next]_vars => EnvInv'
<1> SUFFICES ASSUME Inv, EnvInv, [Next]_vars PROVE EnvInv'
  OBVIOUS
<1>1. CASE Parse
  <2>1. line' = line /\ env' = [env EXCEPT ![Me] = parse_config(line[Me])] /\ DOMAIN env = Drivers
    BY <1>1 DEF Parse, machine, Inv, Types
  <2>2. \A d \in Drivers : env'[d] = IF d = Me THEN parse_config(line[Me]) ELSE env[d]
    BY <2>1
  <2> QED BY <2>1, <2>2 DEF EnvInv
<1>2. CASE UNCHANGED <<env, line>>
  BY <1>2 DEF EnvInv
<1>3. CASE BootStep /\ ~Parse
  <2>1. UNCHANGED <<env, line>>
    BY <1>3 DEF BootStep, port_open, port_set, DivideError, port_disable_interrupts, check_uart,
                get_fujinet_version, get_set_time, fujicom_done, SetVector, machine
  <2> QED BY <1>2, <2>1
<1> QED BY <1>1, <1>2, <1>3 DEF Next, Idle, vars, bootVars

\* Every driver that has read its options has those of its line, in their order and each with
\* an "=", as far as config_env has room, whatever the lines and however big it is
\* (parse_config of sys/init.c and printer/init.c).
THEOREM EnvIsOptionsHolds == Spec => []EnvIsOptions
<1>1. Init => EnvInv
  BY DEF Init, BootInit, EnvInv
<1>2. Inv /\ EnvInv => EnvIsOptions
  <2> SUFFICES ASSUME Inv, EnvInv, NEW d \in Drivers, env[d] # NoEnv
               PROVE  IsEnvOf(env[d].environ, line[d])
    BY DEF EnvIsOptions
  <2>1. env[d] = parse_config(line[d])
    BY DEF EnvInv
  <2>2. IsLine(line[d])
    BY LinesAssumption DEF Inv, Types
  <2>3. IsEnvOf(parse_config(line[d]).environ, line[d])
    BY <2>2, ParsedIs
  <2> QED BY <2>1, <2>3
<1> QED BY <1>1, <1>2, BootKeepsInv, EnvStep, PTL DEF Spec
----------------------------------------------------------------------------
(* Types.                                                                  *)

\* What Inv and PaperInv leave open.
Rest ==
  /\ uartKind \in Kinds /\ \A c \in Coms : uart[c].found \in Kinds \cup {"none"}
  /\ unmasked \subseteq Coms
  /\ vector["F5"] \in {"bios", "sys"} /\ vector["17"] \in {"bios", "prn"}
  /\ clock \in {"bios", "fujinet"}
  /\ mishaps \in 0..MaxMishaps /\ skipped \in BOOLEAN

LEMMA InitRest == Init => Rest
<1> SUFFICES ASSUME Init PROVE Rest
  OBVIOUS
<1>1. \A c \in Coms : uart[c].found = "none"
  BY DEF Init, BootInit
<1>2. vector["F5"] = "bios" /\ vector["17"] = "bios"
  BY DEF Init, BootInit
<1>3. mishaps \in 0..MaxMishaps /\ skipped = FALSE
  BY PrinterAssumption DEF Init, PrinterInit
<1>4. uartKind \in Kinds /\ unmasked = {} /\ clock = "bios"
  BY DEF Init, BootInit
<1> QED BY <1>1, <1>2, <1>3, <1>4 DEF Rest

LEMMA BootRest == ASSUME Inv, Rest, BootStep, UNCHANGED printerVars PROVE Rest'
<1>1. UNCHANGED <<uartKind, mishaps, skipped>> /\ step # "dos"
  BY DEF BootStep, Parse, port_open, port_set, DivideError, port_disable_interrupts, check_uart,
         get_fujinet_version, get_set_time, fujicom_done, SetVector, machine, printerVars
<1>2. Me \in Drivers
  BY <1>1, MeFacts DEF Inv
<1>3. CASE Parse
  BY <1>1, <1>3 DEF Parse, Rest
<1> SUFFICES ASSUME ~Parse PROVE Rest'
  BY <1>3
<1>4. Port \in Coms /\ uart \in [Coms -> Registers]
  BY <1>1, PortIsThere DEF BootStep, Parse, port_open, port_set, DivideError, port_disable_interrupts,
         check_uart, get_fujinet_version, get_set_time, fujicom_done, SetVector
<1>5. \A c \in Coms : uart'[c].found \in Kinds \cup {"none"}
  <2>1. CASE uart' = uart
    BY <2>1 DEF Rest
  <2>2. CASE port_set \/ port_disable_interrupts \/ fujicom_done
    <3>1. \A c \in Coms : uart'[c].found = uart[c].found
      BY <1>4, <2>2 DEF port_set, port_disable_interrupts, fujicom_done, Registers
    <3> QED BY <3>1 DEF Rest
  <2>3. CASE check_uart
    <3>1. Identified = uartKind
      BY DEF Inv, Types, Identified, Scratch, FifoStatus
    <3>2. \A c \in Coms : uart'[c].found = IF c = Port THEN uartKind ELSE uart[c].found
      BY <1>4, <2>3, <3>1 DEF check_uart, Registers
    <3> QED BY <3>2 DEF Rest
  <2> QED BY <2>1, <2>2, <2>3
          DEF BootStep, Parse, port_open, DivideError, get_fujinet_version, get_set_time, SetVector
<1>6. unmasked' \subseteq Coms /\ clock' \in {"bios", "fujinet"}
  BY <1>4 DEF BootStep, port_open, port_set, DivideError, port_disable_interrupts, check_uart,
              get_fujinet_version, get_set_time, fujicom_done, SetVector, Rest
<1>7. vector'["F5"] \in {"bios", "sys"} /\ vector'["17"] \in {"bios", "prn"}
  <2>1. CASE vector' = vector
    BY <2>1 DEF Rest
  <2>2. CASE SetVector
    <3>1. vector' = [vector EXCEPT ![VectorOf[Me]] = Me] /\ DOMAIN vector = {"F5", "17"}
      BY <2>2 DEF SetVector, Inv, Types
    <3>2. VectorOf["sys"] = "F5" /\ VectorOf["prn"] = "17"
      BY DEF VectorOf
    <3>3. CASE Me = "sys"
      <4>1. vector' = [vector EXCEPT !["F5"] = "sys"]
        BY <3>1, <3>2, <3>3
      <4> QED BY <3>1, <4>1 DEF Rest
    <3>4. CASE Me = "prn"
      <4>1. vector' = [vector EXCEPT !["17"] = "prn"]
        BY <3>1, <3>2, <3>4
      <4> QED BY <3>1, <4>1 DEF Rest
    <3> QED BY <1>2, <3>3, <3>4 DEF Drivers
  <2> QED BY <2>1, <2>2
          DEF BootStep, Parse, port_open, port_set, DivideError, port_disable_interrupts, check_uart,
              get_fujinet_version, get_set_time, fujicom_done
<1> QED BY <1>1, <1>5, <1>6, <1>7 DEF Rest

LEMMA PrinterRest == ASSUME Rest, PrinterStep, UNCHANGED bootVars PROVE Rest'
<1>1. UNCHANGED <<uartKind, uart, unmasked, vector, clock>>
  BY DEF bootVars
<1>2. mishaps' \in 0..MaxMishaps /\ skipped' \in BOOLEAN
  <2>1. MaxMishaps \in Nat /\ mishaps \in 0..MaxMishaps /\ skipped \in BOOLEAN
    BY PrinterAssumption DEF Rest
  <2>2. ASSUME NEW byte, NEW o, fujicom_command_write(byte, o) PROVE mishaps' \in 0..MaxMishaps
    BY <2>1, <2>2 DEF fujicom_command_write
  <2>3. ASSUME NEW way \in Ways, Start(way) PROVE mishaps' = mishaps /\ skipped' = skipped
    BY <2>3 DEF Start
  <2>4. ASSUME NEW o \in Outcomes, Output_cmd(o)
        PROVE  mishaps' \in 0..MaxMishaps /\ skipped' \in {skipped, TRUE}
    BY <2>2, <2>4 DEF Output_cmd
  <2>5. ASSUME NEW o \in Outcomes, NEW ah \in 0..2, int17(ah, o)
        PROVE  mishaps' \in 0..MaxMishaps /\ skipped' = skipped
    BY <2>1, <2>2, <2>5 DEF int17
  <2>6. CASE Output_verify_cmd \/ End
    BY <2>1, <2>6 DEF Output_verify_cmd, End
  <2> QED BY <2>1, <2>3, <2>4, <2>5, <2>6 DEF PrinterStep
<1> QED BY <1>1, <1>2 DEF Rest

LEMMA RestStep == Inv /\ Rest /\ [Next]_vars => Rest'
<1> SUFFICES ASSUME Inv, Rest, [Next]_vars PROVE Rest'
  OBVIOUS
<1>1. CASE UNCHANGED vars
  BY <1>1 DEF vars, bootVars, printerVars, Rest
<1> QED BY <1>1, BootRest, PrinterRest DEF Next, Idle

LEMMA DivisorFits == \A b \in Nat \ {0} : Divisor(b) \in Latch
<1>1. \A q \in Int : q % 65536 \in Latch
  BY DEF Latch
<1>2. \A b \in Nat \ {0} : 115200 \div b \in Int
  OBVIOUS
<1>3. \A b \in Nat \ {0} : (115200 \div b) % 65536 \in Latch
  BY <1>1, <1>2, SMT
<1> QED BY <1>3, SMT DEF Divisor

\* From CONFIG.SYS to the last byte printed the variables keep their types: divisors fit the two
\* registers of the UART (com.c:216-221), the UART found is one that may be there, and each
\* vector is the BIOS's or that of the driver it is meant for.
THEOREM TypeCorrect == Spec => []TypeOK
<1>1. Init => EnvInv
  BY DEF Init, BootInit, EnvInv
<1>2. Inv /\ EnvInv /\ PaperInv /\ Rest => TypeOK
  <2> SUFFICES ASSUME Inv, EnvInv, PaperInv, Rest PROVE TypeOK
    OBVIOUS
  <2>1. \A d \in Drivers : env[d].at \in Nat
    <3> SUFFICES ASSUME NEW d \in Drivers PROVE env[d].at \in Nat
      OBVIOUS
    <3>1. IsLine(line[d])
      BY LinesAssumption DEF Inv, Types
    <3>2. parse_config(line[d]).at \in Nat
      BY <3>1, ParsedIs
    <3> QED BY <3>2 DEF EnvInv, NoEnv
  <2>2. \A c \in Coms :
          /\ uart[c].div \in Latch /\ uart[c].lcr = <<8, "N", 1>> /\ uart[c].mcr \in BOOLEAN
          /\ uart[c].ier \in BOOLEAN /\ uart[c].fifo \in BOOLEAN
    <3>1. \A x \in {12} \cup {Divisor(b) : b \in Nat \ {0}} : x \in Latch
      <4>1. 12 \in Latch
        BY DEF Latch
      <4> QED BY <4>1, DivisorFits, SMT
    <3> SUFFICES ASSUME NEW c \in Coms
                 PROVE  /\ uart[c].div \in Latch /\ uart[c].lcr = <<8, "N", 1>>
                        /\ uart[c].mcr \in BOOLEAN
                        /\ uart[c].ier \in BOOLEAN /\ uart[c].fifo \in BOOLEAN
      OBVIOUS
    <3>2. uart[c] \in Registers
      BY DEF Inv, Types
    <3>3. uart[c].div \in {12} \cup {Divisor(b) : b \in Nat \ {0}}
      BY <3>2 DEF Registers
    <3>4. /\ uart[c].lcr = <<8, "N", 1>> /\ uart[c].mcr \in BOOLEAN
          /\ uart[c].ier \in BOOLEAN /\ uart[c].fifo \in BOOLEAN
      BY <3>2 DEF Registers
    <3> QED BY <3>1, <3>3, <3>4, Zenon
  <2>3. /\ order \in Orders /\ turn \in 1..(Len(order) + 1) /\ step \in Places
        /\ ended \in [Drivers -> {"none", "ERROR_BIT", "OP_COMPLETE"}]
    BY DEF Inv, Types
  <2>4. BootTypeOK
    <3>1. step \in {"parse", "open", "set", "disable", "identify", "version", "time", "vector", "dos",
                    "crashed"}
      BY <2>3 DEF Places, AfterSet
    <3>2. /\ \A c \in Coms : uart[c].found \in Kinds \cup {"none"}
          /\ unmasked \subseteq Coms
          /\ vector.F5 \in {"bios", "sys"} /\ vector["17"] \in {"bios", "prn"}
          /\ clock \in {"bios", "fujinet"}
      BY DEF Rest
    <3> QED BY <2>1, <2>2, <2>3, <3>1, <3>2 DEF BootTypeOK
  <2>5. PrinterTypeOK
    BY DEF PrinterTypeOK, PaperInv, Rest
  <2> QED BY <2>4, <2>5 DEF TypeOK
<1> QED BY <1>1, <1>2, BootKeepsInv, EnvStep, PaperInit, PaperStep, InitRest, RestStep, PTL DEF Spec
=============================================================================
