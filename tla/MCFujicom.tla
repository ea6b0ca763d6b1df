----------------------------- MODULE MCFujicom -----------------------------
(***************************************************************************)
(* TLC instances of Fujicom.                                               *)
(***************************************************************************)
EXTENDS Fujicom

\* No byte is a reply code, and no two calls have a byte in common.
MCPayload == [k \in Calls |-> [i \in 1..LEN |-> 10 * k + i]]
MCCheck == [k \in Calls |-> fujicom_cksum(MCPayload[k])]

\* Without its first byte, the payload and its checksum, 128, sum to 255.
MCSumPayload == [k \in Calls |-> <<1, 127>>]
MCSumCheck == [k \in Calls |-> fujicom_cksum(MCSumPayload[k])]
=============================================================================
