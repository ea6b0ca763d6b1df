--------------------------- MODULE RoutineProofs ---------------------------
(***************************************************************************)
(* Theorems about the routines that FUJICOM rests on: the checksum, for    *)
(* buffers of every length, and the wait for a byte, for every timeout.    *)
(***************************************************************************)
EXTENDS CksumLoop, ComTimeout, SeqLemmas

\* A 9-bit number is its low byte and a carry.
LEMMA NineBits ==
  ASSUME NEW a \in 256..511
  PROVE  a \div 256 = 1 /\ a % 256 = a - 256
<1> DEFINE q == a \div 256
           r == a % 256
<1>1. q \in Int /\ r \in 0..255 /\ a = 256 * q + r
  OBVIOUS
<1> HIDE DEF q, r
<1>2. q = 1
  BY <1>1
<1> QED BY <1>1, <1>2 DEF q, r

\* Arithmetic of the differences modulo 255.
LEMMA Differences ==
  ASSUME NEW a \in Int, NEW b \in Int, NEW d \in Int, NEW m \in Int, NEW x \in Int,
         NEW d1 \in Int, NEW d2 \in Int, a - b = d + 255 * m
  PROVE  (a + x - 255 * d1) - (b + x - 255 * d2) = d + 255 * (m + d2 - d1)
  OBVIOUS

\* Two different bytes that are equal modulo 255 are 0 and 255.
LEMMA EqualMod255 ==
  ASSUME NEW a \in Byte, NEW b \in Byte, NEW m \in Int, a # b, 0 = a - b + 255 * m
  PROVE  (a = 0 /\ b = 255) \/ (a = 255 /\ b = 0)
<1>1. m \in {-1, 0, 1}
  BY DEF Byte
<1> QED BY <1>1 DEF Byte

\* A round of the loop keeps chk within a byte, so the uint16_t never carries
\* and the cast to uint8_t drops nothing; and it adds modulo 255.
LEMMA AddByteRange ==
  ASSUME NEW c \in Byte, NEW b \in Byte
  PROVE  /\ AddByte(c, b) \in Byte
         /\ (c + b) \div 256 \in {0, 1}
         /\ AddByte(c, b) = c + b - 255 * ((c + b) \div 256)
<1>1. c + b \in 0..510
  BY DEF Byte
<1>2. CASE c + b < 256
  <2>1. (c + b) \div 256 = 0 /\ (c + b) % 256 = c + b
    BY <1>1, <1>2
  <2> QED BY <1>1, <1>2, <2>1 DEF AddByte, Byte
<1>3. CASE c + b >= 256
  <2>1. (c + b) \div 256 = 1 /\ (c + b) % 256 = c + b - 256
    <3>1. PICK a \in 256..511 : a = c + b
      BY <1>1, <1>3
    <3>2. a \div 256 = 1 /\ a % 256 = a - 256
      BY NineBits
    <3> QED BY <1>1, <3>1, <3>2 DEF Byte
  <2> QED BY <1>1, <1>3, <2>1 DEF AddByte, Byte
<1> QED BY <1>1, <1>2, <1>3

\* The two checksums agree until the damaged byte, and from then on differ by
\* as much as the byte does, modulo 255.
Apart ==
  /\ got = [sent EXCEPT ![hit] = got[hit]]
  /\ got[hit] # sent[hit]
  /\ i < hit => chkSent = chkGot
  /\ i >= hit => \E m \in Int : chkSent - chkGot = sent[hit] - got[hit] + 255 * m

Inv == TypeOK /\ Apart

LEMMA InvInit == Init => Inv
<1> SUFFICES ASSUME Init PROVE Inv
  OBVIOUS
<1>1. PICK b \in Bytes \ {sent[hit]} : got = [sent EXCEPT ![hit] = b]
  BY DEF Init
<1>2. sent \in [1..N -> Bytes] /\ hit \in 1..N /\ i = 0 /\ chkSent = 0 /\ chkGot = 0
  BY DEF Init
<1>3. got \in [1..N -> Bytes] /\ got[hit] = b
  BY <1>1, <1>2
<1>4. TypeOK
  BY <1>2, <1>3, NAssumption DEF TypeOK, Byte
<1>5. Apart
  BY <1>1, <1>2, <1>3 DEF Apart
<1> QED BY <1>4, <1>5 DEF Inv

LEMMA InvStep == Inv /\ [Next]_vars => Inv'
<1> SUFFICES ASSUME Inv, [Next]_vars PROVE Inv'
  OBVIOUS
<1> USE NAssumption, BytesAssumption DEF Inv
<1>1. CASE Add
  <2> DEFINE x == sent[i + 1]
             y == got[i + 1]
             d1 == (chkSent + x) \div 256
             d2 == (chkGot + y) \div 256
  <2>1. /\ i + 1 \in 1..N /\ i' = i + 1 /\ UNCHANGED <<sent, got, hit>>
        /\ chkSent' = AddByte(chkSent, x) /\ chkGot' = AddByte(chkGot, y)
    BY <1>1 DEF Add, TypeOK
  <2>2. x \in Byte /\ y \in Byte /\ sent[hit] \in Byte /\ got[hit] \in Byte
        /\ chkSent \in Byte /\ chkGot \in Byte
    BY <2>1 DEF TypeOK
  <2>3. /\ chkSent' \in Byte /\ d1 \in {0, 1} /\ chkSent' = chkSent + x - 255 * d1
        /\ chkGot' \in Byte /\ d2 \in {0, 1} /\ chkGot' = chkGot + y - 255 * d2
    BY <2>1, <2>2, AddByteRange
  <2>4. TypeOK'
    BY <2>1, <2>3 DEF TypeOK
  <2>5. i + 1 # hit => x = y
    BY <2>1 DEF Apart, TypeOK
  <2>6. i + 1 = hit => x = sent[hit] /\ y = got[hit]
    OBVIOUS
  <2> HIDE DEF x, y, d1, d2
  <2>7. i' < hit' => chkSent' = chkGot'
    BY <2>1, <2>5 DEF Apart, TypeOK
  <2>8. ASSUME i' >= hit'
        PROVE  \E m \in Int : chkSent' - chkGot' = sent'[hit'] - got'[hit'] + 255 * m
    <3>1. CASE i + 1 = hit
      <4>1. chkSent = chkGot
        BY <3>1 DEF Apart, TypeOK
      <4>2. chkSent' - chkGot' = sent[hit] - got[hit] + 255 * (d2 - d1)
        BY <2>2, <2>3, <2>6, <3>1, <4>1 DEF Byte
      <4> QED BY <2>1, <2>3, <4>2
    <3>2. CASE i >= hit
      <4>1. PICK m \in Int : chkSent - chkGot = sent[hit] - got[hit] + 255 * m
        BY <3>2 DEF Apart
      <4>2. i + 1 # hit
        BY <3>2 DEF TypeOK
      <4>3. chkSent' - chkGot' = sent[hit] - got[hit] + 255 * (m + d2 - d1)
        <5> DEFINE d == sent[hit] - got[hit]
        <5>4. d \in Int
          <6>1. sent[hit] \in Int /\ got[hit] \in Int
            BY <2>2 DEF Byte
          <6> QED BY <6>1
        <5>3. chkSent - chkGot = d + 255 * m
          BY <4>1
        <5> HIDE DEF d
        <5>1. /\ chkSent \in Int /\ chkGot \in Int /\ x \in Int /\ d1 \in Int /\ d2 \in Int
              /\ x = y
          BY <2>2, <2>3, <2>5, <4>2 DEF Byte
        <5>2. (chkSent + x - 255 * d1) - (chkGot + x - 255 * d2) = d + 255 * (m + d2 - d1)
          BY <5>1, <5>3, <5>4, Differences
        <5> QED BY <2>3, <5>1, <5>2 DEF d
      <4>4. m + d2 - d1 \in Int
        BY <2>3, <4>1
      <4> QED BY <2>1, <4>3, <4>4
    <3> QED BY <2>1, <2>8, <3>1, <3>2 DEF TypeOK
  <2>9. got' = [sent' EXCEPT ![hit'] = got'[hit']] /\ got'[hit'] # sent'[hit']
    BY <2>1 DEF Apart
  <2> QED BY <2>4, <2>7, <2>8, <2>9 DEF Apart
<1>2. CASE UNCHANGED vars
  BY <1>2 DEF vars, TypeOK, Apart
<1> QED BY <1>1, <1>2 DEF Next, Finished

\* chk never leaves the range of a byte, in buffers of any length.
THEOREM ChkFitsByte == Spec => []TypeOK
<1>1. Inv => TypeOK
  BY DEF Inv
<1> QED BY <1>1, InvInit, InvStep, PTL DEF Spec

\* In a buffer of any length, every damaged byte shows in the checksum, but for
\* a 0 that became 255 or a 255 that became 0.
THEOREM DamageAlwaysShows == Spec => []DamageShows
<1>1. Inv => DamageShows
  <2> SUFFICES ASSUME Inv, i = N, chkSent = chkGot PROVE {sent[hit], got[hit]} = {0, 255}
    BY DEF DamageShows
  <2>1. /\ sent[hit] \in Byte /\ got[hit] \in Byte /\ sent[hit] # got[hit] /\ i >= hit
        /\ chkSent \in Byte /\ chkGot \in Byte
    BY NAssumption, BytesAssumption DEF Inv, TypeOK, Apart
  <2>2. PICK m \in Int : chkSent - chkGot = sent[hit] - got[hit] + 255 * m
    BY <2>1 DEF Inv, Apart
  <2>3. 0 = sent[hit] - got[hit] + 255 * m
    BY <2>1, <2>2 DEF Byte
  <2> QED BY <2>1, <2>2, <2>3, EqualMod255
<1> QED BY <1>1, InvInit, InvStep, PTL DEF Spec

----------------------------------------------------------------------------
(* The checksum as a sum.                                                  *)

\* The recursive functions of Total and of fujicom_cksum, for what was sent.
Sums == CHOOSE f : f = [k \in 0..N |-> IF k = 0 THEN 0 ELSE f[k - 1] + sent[k]]
Chks == CHOOSE f : f = [k \in 0..Len(sent) |-> IF k = 0 THEN 0 ELSE AddByte(f[k - 1], sent[k])]

LEMMA SumsIs ==
  ASSUME TypeOK
  PROVE  Sums[0] = 0 /\ \A k \in 1..N : Sums[k] = Sums[k - 1] + sent[k]
<1>1. N \in Nat /\ 0 \in Nat /\ \A k \in 1..N : sent[k] \in Nat
  <2>1. \A k \in 1..N : sent[k] \in Byte
    BY BytesAssumption DEF TypeOK
  <2>2. \A b \in Byte : b \in Nat
    BY DEF Byte
  <2> QED BY <2>1, <2>2, NAssumption
<1> DEFINE step == [k \in 1..N |-> [s \in Nat |-> s + sent[k]]]
<1>2. step \in [1..N -> [Nat -> Nat]] /\ \A k \in 1..N, s \in Nat : step[k][s] = s + sent[k]
  BY <1>1
<1> HIDE DEF step
<1>a. PICK f : Steps(f, N, Nat, 0, step)
  BY <1>1, <1>2, Recursion
<1>3. f \in [0..N -> Nat] /\ f[0] = 0 /\ \A k \in 1..N : f[k] = step[k][f[k - 1]]
  BY <1>a DEF Steps
<1>4. ASSUME NEW k \in 0..N PROVE f[k] = IF k = 0 THEN 0 ELSE f[k - 1] + sent[k]
  <2>1. CASE k = 0
    BY <1>3, <2>1
  <2>2. CASE k # 0
    <3>1. k \in 1..N /\ k - 1 \in 0..N
      BY <1>1, <2>2
    <3> QED BY <1>2, <1>3, <2>2, <3>1
  <2> QED BY <2>1, <2>2
<1>5. f = [k \in 0..N |-> IF k = 0 THEN 0 ELSE f[k - 1] + sent[k]]
  BY <1>3, <1>4
<1>6. Sums = [k \in 0..N |-> IF k = 0 THEN 0 ELSE Sums[k - 1] + sent[k]]
  BY <1>5 DEF Sums
<1>7. 0 \in 0..N /\ \A k \in 1..N : k \in 0..N /\ k # 0
  BY <1>1
<1> HIDE DEF Sums
<1> QED BY <1>6, <1>7

LEMMA ChksIs ==
  ASSUME TypeOK
  PROVE  /\ Len(sent) = N
         /\ Chks[0] = 0 /\ \A k \in 1..N : Chks[k] = AddByte(Chks[k - 1], sent[k])
<1>1. N \in Nat /\ \A k \in 1..N : sent[k] \in Byte
  BY NAssumption, BytesAssumption DEF TypeOK, Byte
<1>2. Len(sent) = N
  <2>1. sent \in Seq(Bytes)
    BY <1>1, SeqDef DEF TypeOK
  <2> QED BY <1>1, <2>1, LenProperties DEF TypeOK
<1> DEFINE step == [k \in 1..N |-> [s \in Byte |-> AddByte(s, sent[k])]]
<1>3. /\ step \in [1..N -> [Byte -> Byte]]
      /\ \A k \in 1..N, s \in Byte : step[k][s] = AddByte(s, sent[k])
  <2>1. \A k \in 1..N, s \in Byte : AddByte(s, sent[k]) \in Byte
    BY <1>1, AddByteRange
  <2> QED BY <2>1
<1>4. 0 \in Byte
  BY DEF Byte
<1> HIDE DEF step
<1>a. PICK f : Steps(f, N, Byte, 0, step)
  BY <1>1, <1>3, <1>4, Recursion
<1>5. f \in [0..N -> Byte] /\ f[0] = 0 /\ \A k \in 1..N : f[k] = step[k][f[k - 1]]
  BY <1>a DEF Steps
<1>6. ASSUME NEW k \in 0..N PROVE f[k] = IF k = 0 THEN 0 ELSE AddByte(f[k - 1], sent[k])
  <2>1. CASE k = 0
    BY <1>5, <2>1
  <2>2. CASE k # 0
    <3>1. k \in 1..N /\ k - 1 \in 0..N
      BY <1>1, <2>2
    <3> QED BY <1>3, <1>5, <2>2, <3>1
  <2> QED BY <2>1, <2>2
<1>7. f = [k \in 0..Len(sent) |-> IF k = 0 THEN 0 ELSE AddByte(f[k - 1], sent[k])]
  BY <1>2, <1>5, <1>6
<1>8. Chks = [k \in 0..Len(sent) |-> IF k = 0 THEN 0 ELSE AddByte(Chks[k - 1], sent[k])]
  BY <1>7 DEF Chks
<1>9. 0 \in 0..N /\ \A k \in 1..N : k \in 0..N /\ k # 0
  BY <1>1
<1> HIDE DEF Chks
<1> QED BY <1>2, <1>8, <1>9

\* chk is the sum less a multiple of 255, and 0 only as long as nothing but zeros was added.
Counted ==
  /\ Sums[i] \in Nat /\ \E m \in Nat : Sums[i] = chkSent + 255 * m
  /\ chkSent = 0 => Sums[i] = 0
  /\ chkSent = Chks[i]

LEMMA CountedInit == Init /\ TypeOK => Counted
<1> SUFFICES ASSUME Init, TypeOK PROVE Counted
  OBVIOUS
<1>1. Sums[i] = 0 /\ Chks[i] = 0 /\ chkSent = 0
  BY SumsIs, ChksIs DEF Init
<1>2. 0 = 0 + 255 * 0
  OBVIOUS
<1> QED BY <1>1, <1>2 DEF Counted

LEMMA CountedStep == TypeOK /\ Counted /\ [Next]_vars => Counted'
<1> SUFFICES ASSUME TypeOK, Counted, [Next]_vars PROVE Counted'
  OBVIOUS
<1>1. CASE Add
  <2> DEFINE x == sent[i + 1]
             d == (chkSent + x) \div 256
             S == Sums[i]
  <2>1. /\ i + 1 \in 1..N /\ i' = i + 1 /\ sent' = sent /\ i \in Int /\ i + 1 - 1 = i
        /\ chkSent' = AddByte(chkSent, x)
    BY <1>1, NAssumption DEF Add, TypeOK
  <2>2. x \in Byte /\ chkSent \in Byte
    BY <2>1, BytesAssumption DEF TypeOK
  <2>3. chkSent' \in Byte /\ d \in {0, 1} /\ chkSent' = chkSent + x - 255 * d
    BY <2>1, <2>2, AddByteRange
  <2>4. Sums' = Sums /\ Chks' = Chks
    BY <2>1 DEF Sums, Chks
  <2>5. Sums[i + 1] = S + x /\ Chks[i + 1] = AddByte(chkSent, x)
    <3>a. /\ \A k \in 1..N : Sums[k] = Sums[k - 1] + sent[k]
          /\ \A k \in 1..N : Chks[k] = AddByte(Chks[k - 1], sent[k])
      BY SumsIs, ChksIs
    <3>1. Sums[i + 1] = Sums[i + 1 - 1] + x
      BY <2>1, <3>a
    <3>2. Chks[i + 1] = AddByte(Chks[i + 1 - 1], x)
      BY <2>1, <3>a
    <3>3. chkSent = Chks[i]
      BY DEF Counted
    <3> QED BY <2>1, <3>1, <3>2, <3>3
  <2>6. PICK m \in Nat : S = chkSent + 255 * m
    BY DEF Counted
  <2>7. S \in Nat /\ (chkSent = 0 => S = 0)
    BY DEF Counted
  <2>e. (chkSent + x >= 256 \/ d = 0) /\ (d = 1 => chkSent' = chkSent + x - 255)
    <3> HIDE DEF x
    <3>1. chkSent + x \in 0..510
      BY <2>2 DEF Byte
    <3>2. chkSent + x < 256 => d = 0
      BY <3>1
    <3>3. chkSent + x \in Int
      BY <3>1
    <3> HIDE DEF d
    <3> QED BY <2>3, <3>2, <3>3
  <2> HIDE DEF x, d, S
  <2>8. S + x \in Nat
    BY <2>2, <2>7 DEF Byte
  <2>9. S + x = chkSent' + 255 * (m + d) /\ m + d \in Nat
    <3>1. chkSent \in Int /\ x \in Int /\ d \in Nat /\ chkSent' \in Int
      BY <2>2, <2>3 DEF Byte
    <3> QED BY <2>3, <2>6, <3>1
  <2>10. chkSent' = 0 => S + x = 0
    <3>1. chkSent \in 0..255 /\ x \in 0..255
      BY <2>2 DEF Byte
    <3>2. CASE d = 0
      BY <2>3, <2>7, <3>1, <3>2
    <3>3. CASE d = 1
      BY <2>e, <3>1, <3>3
    <3> QED BY <2>3, <3>2, <3>3
  <2>11. Sums'[i'] = S + x /\ Chks'[i'] = chkSent'
    BY <2>1, <2>4, <2>5
  <2> HIDE DEF Sums, Chks
  <2> QED BY <2>8, <2>9, <2>10, <2>11 DEF Counted
<1>2. CASE UNCHANGED vars
  <2>1. UNCHANGED <<i, chkSent>> /\ Sums' = Sums /\ Chks' = Chks
    BY <1>2 DEF vars, Sums, Chks
  <2> QED BY <2>1 DEF Counted
<1> QED BY <1>1, <1>2 DEF Next, Finished

LEMMA Remainder ==
  ASSUME NEW r \in 0..254, NEW m \in Nat
  PROVE  (r + 255 * m) % 255 = r
OBVIOUS

\* In a buffer of any length the checksum is the sum of the bytes modulo 255, with 255 for the
\* multiples of it that are not zero, and fujicom_cksum is what the loop computes
\* (fujicom.c:74-85).
THEOREM CksumCounts == Spec => []CksumIsSumMod255
<1>1. Inv /\ Counted => CksumIsSumMod255
  <2> SUFFICES ASSUME Inv, Counted PROVE CksumIsSumMod255
    OBVIOUS
  <2>0. TypeOK /\ chkSent \in 0..255
    BY DEF Inv, TypeOK, Byte
  <2>1. Total = Sums[i]
    BY DEF Total, Sums
  <2> DEFINE S == Sums[i]
  <2>2. S \in Nat /\ (chkSent = 0 => S = 0)
    BY DEF Counted
  <2>3. PICK m \in Nat : S = chkSent + 255 * m
    BY DEF Counted
  <2> HIDE DEF S
  <2>4. S # 0 => (S - 1) % 255 = chkSent - 1
    <3> SUFFICES ASSUME S # 0 PROVE (S - 1) % 255 = chkSent - 1
      OBVIOUS
    <3>1. chkSent - 1 \in 0..254
      BY <2>0, <2>2
    <3>2. S - 1 = (chkSent - 1) + 255 * m
      BY <2>0, <2>3
    <3> QED BY <3>1, <3>2, Remainder
  <2>5. S = 0 => chkSent = 0
    BY <2>0, <2>3
  <2>6. chkSent = IF S = 0 THEN 0 ELSE ((S - 1) % 255) + 1
    BY <2>0, <2>4, <2>5
  <2>7. i = N => chkSent = fujicom_cksum(sent)
    <3>1. fujicom_cksum(sent) = Chks[Len(sent)] % 256
      BY DEF fujicom_cksum, Chks
    <3>2. Len(sent) = N
      BY <2>0, ChksIs
    <3>3. chkSent % 256 = chkSent
      BY <2>0
    <3> QED BY <3>1, <3>2, <3>3 DEF Counted
  <2> QED BY <2>1, <2>6, <2>7 DEF CksumIsSumMod255, LoopIsCksum, S
<1>2. Init => Inv /\ Counted
  BY InvInit, CountedInit DEF Inv
<1>3. (Inv /\ Counted) /\ [Next]_vars => (Inv /\ Counted)'
  BY InvStep, CountedStep DEF Inv
<1> QED BY <1>1, <1>2, <1>3, PTL DEF Spec

----------------------------------------------------------------------------
(* The wait for a byte.                                                    *)

\* The 16-bit milliseconds follow the counter modulo 2^16, while they do not come round.
LEMMA Elapsed ==
  ASSUME NEW t \in Nat, NEW w \in 0..Word \div MsPerTick
  PROVE  timeout_delta(get_time_ms(t), get_time_ms(t + w)) = w * MsPerTick
<1>1. (((((t + w) % 65536) * 55) % 65536) - (((t % 65536) * 55) % 65536)) % 65536 = w * 55
  <2>1. w \in 0..1191
    BY SMT DEF Word, MsPerTick
  <2> QED BY <2>1, SMT
<1> QED BY <1>1, SMT DEF timeout_delta, get_time_ms, Word, MsPerTick

\* While port_getc_nobuf waits the timer is let in, and the counter has advanced from the start
\* by every tick there was.
Getting == pc # "idle" /\ routine = "port_getc_nobuf"

ClockInv ==
  /\ tick \in Nat
  /\ pc = "idle" => enabled = TRUE /\ pending = FALSE
  /\ waited \in 0..MaxTicks
  /\ Getting => /\ enabled = TRUE /\ pending = FALSE
                /\ \E t \in Nat : to_start = get_time_ms(t) /\ tick = t + waited

LEMMA ClockInit == WaitInit => ClockInv
<1> SUFFICES ASSUME WaitInit PROVE ClockInv
  OBVIOUS
<1>1. tick \in Nat
  BY StartsAssumption DEF WaitInit
<1> QED BY <1>1, TicksAssumption DEF WaitInit, ClockInv, Getting

\* The same unless the clock is set back.
LEMMA TickOn ==
  ASSUME tick \in Nat, NextTick(tick) >= tick
  PROVE  NextTick(tick) = tick + 1
BY DEF NextTick, Midnight

LEMMA ClockStep == ClockInv /\ [WaitNext]_waitVars /\ [tick' >= tick]_waitVars => ClockInv'
<1> SUFFICES ASSUME ClockInv, [WaitNext]_waitVars, [tick' >= tick]_waitVars PROVE ClockInv'
  OBVIOUS
<1> USE DEF Getting
<1>1. tick \in Nat /\ waited \in Nat /\ MaxTicks \in Nat
  <2>1. 65536 \div 55 = 1191
    OBVIOUS
  <2>2. MaxTicks \in 1..1191
    BY <2>1, TicksAssumption DEF Word, MsPerTick
  <2> QED BY <2>2 DEF ClockInv
<1>0. (tick' >= tick) \/ UNCHANGED waitVars
  OBVIOUS
<1>2. CASE TimerTick
  <2>1. pc # "idle" /\ waited' = waited + 1 /\ waited' \in 0..MaxTicks
    BY <1>1, <1>2 DEF TimerTick
  <2>2. CASE enabled
    <3>1. tick' = NextTick(tick) /\ UNCHANGED <<pending, enabled, pc, wait, to_start>>
      BY <1>2, <2>2 DEF TimerTick
    <3>2. tick' >= tick
      BY <1>0, <1>1 DEF waitVars
    <3>3. tick' = tick + 1
      BY <1>1, <3>1, <3>2, TickOn
    <3>4. ASSUME Getting, NEW t \in Nat, tick = t + waited PROVE tick' = t + waited'
      BY <1>1, <2>1, <3>3, <3>4
    <3>5. tick' \in Nat
      BY <1>1, <3>3
    <3> QED BY <2>1, <3>1, <3>4, <3>5 DEF ClockInv, routine
  <2>3. CASE ~enabled
    <3>1. tick' = tick /\ UNCHANGED <<enabled, pc, wait, to_start>>
      BY <1>2, <2>3 DEF TimerTick
    <3>2. ~Getting
      BY <2>3 DEF ClockInv
    <3> QED BY <1>1, <2>1, <3>1, <3>2 DEF ClockInv, routine
  <2> QED BY <2>2, <2>3
<1>3. CASE Arrive \/ PollEmpty
  BY <1>3 DEF Arrive, PollEmpty, ClockInv, routine
<1>4. ASSUME NEW r, Return(r), UNCHANGED <<wait, to_start, waited>> PROVE ClockInv'
  <2>1. pc' = "idle" /\ enabled' = TRUE /\ pending' = FALSE
    BY <1>4 DEF Return, Enable
  <2>2. tick' \in Nat
    BY <1>1, <1>4 DEF Return, Enable, NextTick
  <2> QED BY <1>4, <2>1, <2>2 DEF ClockInv
<1>5. ASSUME timeout_start, UNCHANGED <<enabled, pending, tick, wait, pc>>, pc # "idle"
      PROVE  ClockInv'
  <2>1. to_start' = get_time_ms(tick) /\ waited' = 0 /\ waited' \in 0..MaxTicks /\ tick = tick + 0
    BY <1>1, <1>5 DEF timeout_start
  <2> QED BY <1>1, <1>5, <2>1 DEF ClockInv, routine
<1>6. CASE PollFull
  BY <1>4, <1>5, <1>6 DEF PollFull
<1>7. CASE Clock
  <2>1. UNCHANGED <<wait, to_start, waited>>
    BY <1>7 DEF Clock
  <2>2. CASE timeout_delta(to_start, get_time_ms(tick)) > timeout
    BY <1>4, <1>7, <2>1, <2>2 DEF Clock
  <2>3. CASE ~(timeout_delta(to_start, get_time_ms(tick)) > timeout)
    <3>1. pc' = "poll" /\ UNCHANGED <<enabled, pending, tick>>
      BY <1>7, <2>3 DEF Clock
    <3> QED BY <1>7, <2>1, <3>1 DEF ClockInv, routine, Clock
  <2> QED BY <2>2, <2>3
<1>8. ASSUME NEW w \in Waits, Begin(w) PROVE ClockInv'
  <2>1. /\ pc = "idle" /\ UNCHANGED <<tick, pending>> /\ wait' = w /\ pc' = "poll"
        /\ enabled' = (w[1] = "port_getc_nobuf")
        /\ to_start' = get_time_ms(tick) /\ waited' = 0
    BY <1>8 DEF Begin, timeout_start
  <2>2. waited' \in 0..MaxTicks /\ tick = tick + 0
    BY <1>1, <2>1
  <2>3. Getting' => enabled' = TRUE /\ pending' = FALSE
    <3>1. pending' = FALSE
      BY <2>1 DEF ClockInv
    <3>2. Getting' => w[1] = "port_getc_nobuf"
      BY <2>1 DEF routine
    <3> QED BY <2>1, <3>1, <3>2
  <2> QED BY <1>1, <2>1, <2>2, <2>3 DEF ClockInv
<1>9. CASE UNCHANGED waitVars
  BY <1>9 DEF waitVars, ClockInv, routine
<1>10. CASE WaitOver
  BY <1>9, <1>10 DEF WaitOver
<1> QED BY <1>2, <1>3, <1>6, <1>7, <1>8, <1>9, <1>10 DEF WaitNext, HostStep

\* As long as midnight does not set the counter back, port_getc_nobuf ends at its first look at
\* the clock after its timeout, and never before, for every timeout that 16 bits hold and
\* wherever the counter's low word or the milliseconds wrap (com.c:475-492).
THEOREM GivesUpOnTimeHolds == WaitSpec /\ [][tick' >= tick]_waitVars => GivesUpOnTime
<1>1. ClockInv /\ [WaitNext]_waitVars =>
        [pc = "clock" /\ pc' # "clock" /\ routine = "port_getc_nobuf" =>
           (pc' = "idle" <=> waited * MsPerTick > timeout)]_waitVars
  <2> SUFFICES ASSUME ClockInv, WaitNext, pc = "clock", pc' # "clock",
                      routine = "port_getc_nobuf"
               PROVE  pc' = "idle" <=> waited * MsPerTick > timeout
    BY DEF waitVars
  <2>1. Clock
    BY DEF WaitNext, HostStep, TimerTick, Arrive, PollFull, PollEmpty, Begin, WaitOver, waitVars
  <2>2. PICK t \in Nat : to_start = get_time_ms(t) /\ tick = t + waited
    BY DEF ClockInv, Getting
  <2>3. waited \in 0..Word \div MsPerTick
    BY TicksAssumption DEF ClockInv, Word, MsPerTick
  <2>4. timeout_delta(to_start, get_time_ms(tick)) = waited * MsPerTick
    BY <2>2, <2>3, Elapsed
  <2> QED BY <2>1, <2>4 DEF Clock, Return
<1> QED BY <1>1, ClockInit, ClockStep, PTL DEF WaitSpec, GivesUpOnTime
=============================================================================
