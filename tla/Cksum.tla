------------------------------- MODULE Cksum -------------------------------
(***************************************************************************)
(* fujicom_cksum (fujicom/fujicom.c:74-85): the 8-bit checksum of command  *)
(* frames and payloads.  Bytes are added one at a time into a uint16_t and *)
(* the carry out of the low byte is folded back in after every addition.   *)
(***************************************************************************)
EXTENDS Integers, Sequences

Byte == 0..255

\* Variants of AddByte that a slip would give: the carry dropped, the carry or-ed in.
AddByteDropCarry(chk, b) == (chk + b) % 256
AddByteOrCarry(chk, b) ==
  LET low == (chk + b) % 256
  IN  IF chk + b > 255 /\ low % 2 = 0 THEN low + 1 ELSE low

\* One round of the loop: chk = ((chk + b) >> 8) + ((chk + b) & 0xFF).
AddByte(chk, b) == ((chk + b) \div 256) + ((chk + b) % 256)

\* The whole loop over the len bytes at ptr, returned as a uint8_t.
fujicom_cksum(buf) ==
  LET chk[i \in 0..Len(buf)] ==
        IF i = 0 THEN 0 ELSE AddByte(chk[i - 1], buf[i])
  IN  chk[Len(buf)] % 256
=============================================================================
