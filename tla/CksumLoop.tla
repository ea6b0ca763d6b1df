----------------------------- MODULE CksumLoop -----------------------------
(***************************************************************************)
(* The loop of fujicom_cksum (fujicom/fujicom.c:74-85), byte by byte, run  *)
(* side by side over what the sender checksummed and over what the         *)
(* receiver got: the same bytes, with one of them damaged on the line.     *)
(***************************************************************************)
EXTENDS Cksum

CONSTANTS
  N,      \* bytes in the buffer
  Bytes   \* the values they may have

ASSUME NAssumption == N \in Nat \ {0}
ASSUME BytesAssumption == Bytes \subseteq Byte

VARIABLES
  sent, got,          \* the buffer as sent and as received
  hit,                \* the place of the damaged byte
  i,                  \* the loop counter
  chkSent, chkGot     \* chk in the sender's loop and in the receiver's

vars == <<sent, got, hit, i, chkSent, chkGot>>

Init ==
  /\ sent \in [1..N -> Bytes]
  /\ hit \in 1..N
  /\ \E b \in Bytes \ {sent[hit]} : got = [sent EXCEPT ![hit] = b]
  /\ i = 0 /\ chkSent = 0 /\ chkGot = 0

Add ==
  /\ i < N
  /\ i' = i + 1
  /\ chkSent' = AddByte(chkSent, sent[i + 1])
  /\ chkGot' = AddByte(chkGot, got[i + 1])
  /\ UNCHANGED <<sent, got, hit>>

\* The loop ends with i = len; the result is returned.
Finished == i = N /\ UNCHANGED vars

Next == Add \/ Finished

Spec == Init /\ [][Next]_vars

-----------------------------------------------------------------------------
TypeOK ==
  /\ sent \in [1..N -> Bytes] /\ got \in [1..N -> Bytes]
  /\ hit \in 1..N /\ i \in 0..N
  /\ chkSent \in Byte /\ chkGot \in Byte

\* A damaged byte changes the checksum unless 0 and 255 were exchanged: the two
\* are the same number to a sum that folds its carry back in.
DamageShows == i = N /\ chkSent = chkGot => {sent[hit], got[hit]} = {0, 255}

\* The operator that the other modules use is what the loop computes.
LoopIsCksum == i = N => chkSent = fujicom_cksum(sent)

\* The plain sum of the bytes that have been added.
Total ==
  LET sum[k \in 0..N] == IF k = 0 THEN 0 ELSE sum[k - 1] + sent[k]
  IN  sum[i]

\* Folding the carry in as it appears is counting modulo 255, with 255 and not 0
\* for the multiples that are not zero: not the plain sum with its carry ignored that
\* FUJICOM-Protocol.md:93 describes.  The operator the other modules use is that, too.
CksumIsSumMod255 ==
  /\ chkSent = IF Total = 0 THEN 0 ELSE ((Total - 1) % 255) + 1
  /\ LoopIsCksum
=============================================================================
