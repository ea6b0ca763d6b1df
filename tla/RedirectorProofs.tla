-------------------------- MODULE RedirectorProofs --------------------------
(***************************************************************************)
(* Proofs about Redirector, for any number of handles, files, directories, *)
(* programs and buffers, and any functions of the server that may fail.    *)
(***************************************************************************)
EXTENDS Redirector, SeqLemmas

-----------------------------------------------------------------------------
(* The handles and devices of the fujifs layer, and the listings a device sends. *)

\* What fujifs keeps of a handle, and the network device behind it.
HandleRec == [is_open : BOOLEAN, position : 0..BufLen, length : 0..BufLen]
Channel == [kind : {"none", "file", "dir"}, file : Files \cup {Junk}, at : Nat,
            left : Seq(Cells)]

LEMMA HandlesAreNumbers == NoHandle \notin Handles /\ Handles \subseteq Nat /\ NETDEV_TOTAL \in Handles
  BY HandlesAssumption DEF Handles, NoHandle

LEMMA FsTypes ==
  FsTypeOK <=> /\ tree \in [Dirs -> Seq(Names)]
               /\ size \in [Files -> 0..MaxSize]
               /\ chan \in [Handles -> Channel]
               /\ hnd \in [Handles -> HandleRec]
               /\ buf \in [1..BufLen -> Cells]
  BY DEF FsTypeOK, Channel, HandleRec

\* fujifs_find_handle finds a handle that is not open, if there is one.
AllOpen == \A h \in Handles : hnd[h].is_open

LEMMA FoundHandleIsFree ==
  ASSUME hnd \in [Handles -> HandleRec]
  PROVE  IF AllOpen THEN fujifs_find_handle = NoHandle
         ELSE fujifs_find_handle \in Handles /\ ~hnd[fujifs_find_handle].is_open
<1> DEFINE T == {h \in Handles : ~hnd[h].is_open}
           Least(h) == ~hnd[h].is_open /\ \A g \in Handles : g < h => hnd[g].is_open
<1>1. CASE AllOpen
  BY <1>1 DEF fujifs_find_handle, AllOpen
<1>2. CASE ~AllOpen
  <2>1. T # {} /\ T \in SUBSET Nat
    BY <1>2, HandlesAreNumbers DEF AllOpen
  <2>2. PICK x \in T : \A y \in T : x <= y
    BY <2>1, LeastOf
  <2>3. \A g \in Handles : g < x => hnd[g].is_open
    BY <2>2, HandlesAreNumbers
  <2>4. \E h \in Handles : Least(h)
    BY <2>2, <2>3
  <2>5. fujifs_find_handle = CHOOSE h \in Handles : Least(h)
    BY <1>2 DEF fujifs_find_handle, AllOpen
  <2> QED BY <1>2, <2>4, <2>5
<1> QED BY <1>1, <1>2

\* A listing is made of records, cell by cell.
LEMMA ListingType ==
  ASSUME FsTypeOK, NEW d \in Dirs
  PROVE  Listing(d) \in Seq(Cells)
<1>1. tree[d] \in Seq(Names) /\ Len(tree[d]) \in Nat /\ \A i \in 1..Len(tree[d]) : tree[d][i] \in Names
  BY LenProperties, ElementOfSeq DEF FsTypeOK
<1>2. RecLen \in Nat \ {0}
  BY BufferAssumption
<1> DEFINE n == Len(tree[d]) * RecLen
<1>3. n \in Nat
  BY <1>1, <1>2, SMT
<1>4. ASSUME NEW i \in 1..n
      PROVE  <<d, tree[d][(i - 1) \div RecLen + 1], ((i - 1) % RecLen) + 1>> \in Cells
  <2> DEFINE q == (i - 1) \div RecLen
             r == (i - 1) % RecLen
             len == Len(tree[d])
  <2>1. i \in Nat /\ 1 <= i /\ i <= len * RecLen
    BY <1>3
  <2>2. q \in Int /\ r \in 0..RecLen - 1 /\ i - 1 = q * RecLen + r
    BY <2>1, <1>2, SMT
  <2> HIDE DEF q, r, len
  <2>3. len \in Nat
    BY <1>1 DEF len
  <2>4. q >= 0
    <3> SUFFICES ASSUME q <= -1 PROVE FALSE
      BY <2>2
    <3>1. q * RecLen <= (-1) * RecLen
      BY <1>2, <2>2, SMT
    <3> QED BY <1>2, <2>1, <2>2, <3>1, SMT
  <2>5. q < len
    <3> SUFFICES ASSUME q >= len PROVE FALSE
      BY <2>2, <2>3
    <3>1. q * RecLen >= len * RecLen
      BY <1>2, <2>2, <2>3, SMT
    <3> QED BY <1>2, <2>1, <2>2, <2>3, <3>1, SMT
  <2>6. q + 1 \in 1..Len(tree[d])
    BY <2>2, <2>3, <2>4, <2>5 DEF len
  <2>7. r + 1 \in 1..RecLen
    BY <1>2, <2>2
  <2>8. tree[d][q + 1] \in Names
    BY <1>1, <2>6
  <2> QED BY <2>7, <2>8 DEF Cells, q, r
<1> HIDE DEF n
<1>5. Listing(d) = [i \in 1..n |-> <<d, tree[d][(i - 1) \div RecLen + 1], ((i - 1) % RecLen) + 1>>]
  BY DEF Listing, n
<1>6. Listing(d) \in [1..n -> Cells]
  BY <1>4, <1>5
<1> QED BY <1>3, <1>6, SeqDef

\* A read takes no more than is waiting, and leaves a device that may be read on.
LEMMA ReadType ==
  ASSUME NEW c \in Channel, NEW n \in Nat, n <= Waiting(c), size \in [Files -> 0..MaxSize]
  PROVE  /\ After(c, n) \in Channel /\ After(c, n).kind = c.kind /\ After(c, n).file = c.file
         /\ \A i \in 1..n : Taken(c, n)[i] \in Cells
<1>1. CASE c.kind = "dir"
  <2>1. c.left \in Seq(Cells) /\ Len(c.left) \in Nat /\ n \in 0..Len(c.left)
    BY <1>1, LenProperties DEF Channel, Waiting
  <2>2. SubSeq(c.left, n + 1, Len(c.left)) \in Seq(Cells)
    BY <2>1, DropType
  <2>3. SubSeq(c.left, 1, n) \in Seq(Cells) /\ Len(SubSeq(c.left, 1, n)) = n
    BY <2>1, TakeType
  <2>4. \A i \in 1..n : SubSeq(c.left, 1, n)[i] \in Cells
    BY <2>3, ElementOfSeq
  <2> QED BY <1>1, <2>2, <2>4 DEF After, Taken, Channel
<1>2. CASE c.kind # "dir"
  BY <1>2 DEF After, Taken, Channel, Cells
<1> QED BY <1>1, <1>2

\* What can be read is a number.
LEMMA WaitingType ==
  ASSUME NEW c \in Channel, size \in [Files -> 0..MaxSize], c.kind = "file" => c.file \in Files
  PROVE  Waiting(c) \in Nat
<1>1. Len(c.left) \in Nat
  BY LenProperties DEF Channel
<1>2. CASE c.kind = "file"
  <2>1. size[c.file] \in Nat /\ c.at \in Nat
    BY <1>2, SizeAssumption DEF Channel
  <2> QED BY <1>2, <2>1 DEF Waiting
<1> QED BY <1>1, <1>2 DEF Waiting, Channel

-----------------------------------------------------------------------------
(* The functions of the fujifs layer: what each opens, closes and reads.   *)

\* Everything fujifs keeps has its type, and a device that has a file open knows which.
FsOK == FsTypeOK /\ \A h \in Handles : chan[h].kind = "file" => chan[h].file \in Files

\* What a step does to the handles: at most h is opened; h is closed; h is read.
OpensOnly(h) ==
  /\ h \in Handles => ~hnd[h].is_open /\ hnd'[h].is_open
  /\ \A g \in Handles : hnd[g].is_open => hnd'[g] = hnd[g] /\ chan'[g] = chan[g]
  /\ \A g \in Handles : hnd'[g].is_open => hnd[g].is_open \/ g = h
ClosesOnly(h) ==
  /\ \A g \in Handles : hnd'[g].is_open <=> hnd[g].is_open /\ g # h
  /\ \A g \in Handles \ {h} : hnd'[g] = hnd[g] /\ chan'[g] = chan[g]
ReadsOnly(h) ==
  /\ \A g \in Handles : hnd'[g].is_open <=> hnd[g].is_open
  /\ \A g \in Handles \ {h} : hnd'[g] = hnd[g] /\ chan'[g] = chan[g]

LEMMA EnnifiedType ==
  ASSUME FsOK PROVE Ennified \in [1..BufLen -> Cells]
  BY DEF FsOK, FsTypeOK, Ennified, Cells

LEMMA CreatedType ==
  ASSUME FsOK, NEW f \in Files
  PROVE  Created(f) \in [Dirs -> Seq(Names)]
<1>1. f[1] \in Dirs /\ f[2] \in Names
  BY DEF Files
<1>2. tree \in [Dirs -> Seq(Names)] /\ tree[f[1]] \in Seq(Names)
  BY <1>1 DEF FsOK, FsTypeOK
<1>3. Append(tree[f[1]], f[2]) \in Seq(Names)
  BY <1>1, <1>2, AppendType
<1> QED BY <1>1, <1>2, <1>3 DEF Created

LEMMA OpendirEffect ==
  ASSUME FsOK, NEW d \in Dirs, NEW h \in Handles \cup {NoHandle}, fujifs_opendir(d, h)
  PROVE  FsOK' /\ OpensOnly(h) /\ UNCHANGED <<tree, size>>
<1> USE HandlesAreNumbers
<1>1. CASE NoDevice(h)
  BY <1>1 DEF NoDevice, fsVars, FsOK, FsTypeOK, OpensOnly
<1>2. CASE ~NoDevice(h)
  <2> DEFINE free == fujifs_find_handle
             slot == [FreeHandle EXCEPT !.is_open = (h # NoHandle)]
             dev == IF h = NoHandle THEN NoChan ELSE DirChan(Listing(d))
  <2>1. /\ free # NoHandle /\ h \in {free, NoHandle}
        /\ hnd' = [hnd EXCEPT ![free] = slot] /\ chan' = [chan EXCEPT ![free] = dev]
        /\ buf' = Ennified /\ UNCHANGED <<tree, size>>
    BY <1>2 DEF fujifs_opendir
  <2>2. chan \in [Handles -> Channel] /\ hnd \in [Handles -> HandleRec]
    BY FsTypes DEF FsOK
  <2>3. free \in Handles /\ ~hnd[free].is_open
    BY <2>1, <2>2, FoundHandleIsFree
  <2>4. slot \in HandleRec /\ slot.is_open = (h # NoHandle)
    <3>1. 0 \in 0..BufLen
      BY BufferAssumption
    <3>2. FreeHandle \in HandleRec
      BY <3>1 DEF FreeHandle, HandleRec
    <3>3. CASE h = NoHandle
      <4>1. slot = [FreeHandle EXCEPT !.is_open = FALSE]
        BY <3>3
      <4> QED BY <3>2, <3>3, <4>1 DEF HandleRec
    <3>4. CASE h # NoHandle
      <4>1. slot = [FreeHandle EXCEPT !.is_open = TRUE]
        BY <3>4
      <4> QED BY <3>2, <3>4, <4>1 DEF HandleRec
    <3> QED BY <3>3, <3>4
  <2>5. <<>> \in Seq(Cells) /\ Listing(d) \in Seq(Cells)
    BY ListingType DEF FsOK
  <2>6. dev \in Channel /\ dev.kind # "file"
    BY <2>5 DEF NoChan, DirChan, Channel
  <2> HIDE DEF free, slot, dev
  <2>7. hnd' \in [Handles -> HandleRec] /\ chan' \in [Handles -> Channel]
    BY <2>1, <2>2, <2>4, <2>6
  <2>8. FsTypeOK'
    BY <2>1, <2>7, EnnifiedType DEF FsOK, FsTypeOK, Channel, HandleRec
  <2>9. FsOK'
    BY <2>1, <2>2, <2>6, <2>8 DEF FsOK
  <2>10. OpensOnly(h)
    BY <2>1, <2>2, <2>3, <2>4 DEF OpensOnly
  <2> QED BY <2>1, <2>9, <2>10
<1> QED BY <1>1, <1>2

LEMMA OpenEffect ==
  ASSUME FsOK, NEW f \in Files, NEW mode, NEW h \in Handles \cup {NoHandle},
         fujifs_open(f, mode, h)
  PROVE  /\ FsOK' /\ OpensOnly(h)
         /\ h \in Handles => \/ chan'[h] = FileChan(f)
                             \/ chan'[h] = NoChan /\ "file" \in Refuse
<1> USE HandlesAreNumbers
<1>1. CASE NoDevice(h)
  BY <1>1 DEF NoDevice, fsVars, FsOK, FsTypeOK, OpensOnly
<1>2. CASE ~NoDevice(h)
  <2> DEFINE free == fujifs_find_handle
  <2>1. PICK opened \in (IF "file" \in Refuse THEN BOOLEAN ELSE {TRUE}) :
          /\ free # NoHandle
          /\ h = IF opened \/ mode = "write" THEN free ELSE NoHandle
          /\ hnd' = [hnd EXCEPT ![free].is_open = (h # NoHandle)]
          /\ chan' = [chan EXCEPT ![free] = IF opened THEN FileChan(f) ELSE NoChan]
          /\ buf' = Ennified
          /\ tree' = IF opened THEN Created(f) ELSE tree
          /\ size' = IF opened /\ mode = "write" THEN [size EXCEPT ![f] = 0] ELSE size
    BY <1>2 DEF fujifs_open
  <2> DEFINE dev == IF opened THEN FileChan(f) ELSE NoChan
  <2>2. chan \in [Handles -> Channel] /\ hnd \in [Handles -> HandleRec]
        /\ tree \in [Dirs -> Seq(Names)] /\ size \in [Files -> 0..MaxSize]
    BY FsTypes DEF FsOK
  <2>3. free \in Handles /\ ~hnd[free].is_open
    BY <2>1, <2>2, FoundHandleIsFree
  <2>4. <<>> \in Seq(Cells)
    OBVIOUS
  <2>5. dev \in Channel /\ (dev.kind = "file" => dev.file \in Files)
    BY <2>4 DEF NoChan, FileChan, Channel
  <2>6. chan' = [chan EXCEPT ![free] = dev]
    BY <2>1
  <2>7. ~opened => dev = NoChan /\ "file" \in Refuse
    BY <2>1
  <2> HIDE DEF free, dev
  <2>8. hnd' \in [Handles -> HandleRec] /\ chan' \in [Handles -> Channel]
    <3>1. hnd' = [hnd EXCEPT ![free] = [hnd[free] EXCEPT !.is_open = (h # NoHandle)]]
      BY <2>1
    <3>2. hnd[free] \in HandleRec
      BY <2>2, <2>3
    <3>3. [hnd[free] EXCEPT !.is_open = (h # NoHandle)] \in HandleRec
      BY <3>2 DEF HandleRec
    <3>4. hnd' \in [Handles -> HandleRec]
      BY <2>2, <2>3, <3>1, <3>3
    <3> QED BY <2>2, <2>3, <2>5, <2>6, <3>4
  <2>9. tree' \in [Dirs -> Seq(Names)] /\ size' \in [Files -> 0..MaxSize]
    BY <2>1, <2>2, CreatedType, SizeAssumption
  <2>10. FsTypeOK'
    BY <2>1, <2>8, <2>9, EnnifiedType DEF FsTypeOK, Channel, HandleRec
  <2>11. FsOK'
    BY <2>2, <2>5, <2>6, <2>10 DEF FsOK
  <2>12. OpensOnly(h)
    <3>1. \A g \in Handles \ {free} : hnd'[g] = hnd[g] /\ chan'[g] = chan[g]
      BY <2>1, <2>2, <2>6
    <3>2. hnd'[free].is_open = (h # NoHandle)
      BY <2>1, <2>2, <2>3 DEF HandleRec
    <3>3. h \in {free, NoHandle}
      BY <2>1
    <3> QED BY <2>3, <3>1, <3>2, <3>3 DEF OpensOnly
  <2>13. h \in Handles => h = free
    BY <2>1
  <2>14. chan'[free] = dev
    BY <2>2, <2>3, <2>6
  <2>15. opened => dev = FileChan(f)
    BY DEF dev
  <2> QED BY <2>7, <2>11, <2>12, <2>13, <2>14, <2>15
<1> QED BY <1>1, <1>2

LEMMA CloseEffect ==
  ASSUME FsOK, NEW h, fujifs_close(h), UNCHANGED <<tree, size, buf>>
  PROVE  FsOK' /\ ClosesOnly(h)
<1>1. chan \in [Handles -> Channel] /\ hnd \in [Handles -> HandleRec]
  BY FsTypes DEF FsOK
<1>2. NoChan \in Channel /\ NoChan.kind # "file"
  <2>1. <<>> \in Seq(Cells)
    OBVIOUS
  <2> QED BY <2>1 DEF NoChan, Channel
<1>3. CASE h \in Handles /\ hnd[h].is_open
  <2>1. hnd' = [hnd EXCEPT ![h].is_open = FALSE] /\ chan' = [chan EXCEPT ![h] = NoChan]
    BY <1>3 DEF fujifs_close
  <2>2. hnd' \in [Handles -> HandleRec] /\ chan' \in [Handles -> Channel]
    BY <1>1, <1>2, <2>1 DEF HandleRec
  <2>3. FsOK'
    BY <1>1, <1>2, <2>1, <2>2 DEF FsOK, FsTypeOK, Channel, HandleRec
  <2>4. ClosesOnly(h)
    BY <1>1, <1>3, <2>1 DEF ClosesOnly, HandleRec
  <2> QED BY <2>3, <2>4
<1>4. CASE ~(h \in Handles /\ hnd[h].is_open)
  BY <1>4 DEF fujifs_close, FsOK, FsTypeOK, ClosesOnly
<1> QED BY <1>3, <1>4

LEMMA MkdirEffect ==
  ASSUME FsOK, NEW f \in Files, NEW done \in BOOLEAN, fujifs_mkdir(f, done)
  PROVE  FsOK' /\ UNCHANGED <<chan, hnd>>
  BY CreatedType, EnnifiedType DEF fujifs_mkdir, FsOK, FsTypeOK

LEMMA TakeAwayEffect ==
  ASSUME FsOK, NEW f \in Files, NEW kind, NEW done \in BOOLEAN, TakeAway(f, kind, done)
  PROVE  FsOK' /\ UNCHANGED <<chan, hnd>>
<1>1. f[1] \in Dirs /\ tree \in [Dirs -> Seq(Names)] /\ size \in [Files -> 0..MaxSize]
  BY DEF FsOK, FsTypeOK, Files
<1>2. RemoveFirst(tree[f[1]], f[2]) \in Seq(Names)
  BY <1>1, RemoveFirstType
<1>3. Removed(f) \in [Dirs -> Seq(Names)]
  BY <1>1, <1>2 DEF Removed
<1>4. tree' \in [Dirs -> Seq(Names)] /\ size' \in [Files -> 0..MaxSize]
  BY <1>1, <1>3, SizeAssumption DEF TakeAway
<1>5. buf' = Ennified /\ UNCHANGED <<chan, hnd>>
  BY DEF TakeAway
<1> QED BY <1>4, <1>5, EnnifiedType DEF FsOK, FsTypeOK

LEMMA ReadLengthType ==
  ASSUME FsOK, NEW h \in Handles, NEW room \in Nat
  PROVE  /\ ReadLength(h, room) \in 0..room
         /\ ReadLength(h, room) <= Waiting(chan[h]) /\ Waiting(chan[h]) \in Nat
<1>1. chan[h] \in Channel /\ size \in [Files -> 0..MaxSize]
      /\ (chan[h].kind = "file" => chan[h].file \in Files)
  BY FsTypes DEF FsOK
<1>2. Waiting(chan[h]) \in Nat
  BY <1>1, WaitingType
<1> QED BY <1>2 DEF ReadLength

\* The buffer and the device after a read of n cells.
LEMMA StoredType ==
  ASSUME FsOK, NEW h \in Handles, NEW b \in [1..BufLen -> Cells], NEW from \in Nat,
         NEW n \in Nat, n <= Waiting(chan[h])
  PROVE  /\ Stored(b, from, h, n) \in [1..BufLen -> Cells]
         /\ After(chan[h], n) \in Channel
         /\ After(chan[h], n).kind = chan[h].kind /\ After(chan[h], n).file = chan[h].file
<1>1. chan[h] \in Channel /\ size \in [Files -> 0..MaxSize] /\ BufLen \in Nat
  BY FsTypes, BufferAssumption DEF FsOK
<1>2. \A i \in 1..n : Taken(chan[h], n)[i] \in Cells
  BY <1>1, ReadType
<1>3. ASSUME NEW i \in 1..BufLen
      PROVE  (IF i \in from + 1..from + n THEN Taken(chan[h], n)[i - from] ELSE b[i]) \in Cells
  <2>1. i \in from + 1..from + n => i - from \in 1..n
    BY <1>1
  <2> QED BY <1>2, <2>1
<1>4. Stored(b, from, h, n) \in [1..BufLen -> Cells]
  BY <1>3 DEF Stored
<1> QED BY <1>1, <1>4, ReadType

LEMMA MovedType ==
  ASSUME FsOK, NEW p \in Nat, NEW part \in Nat, p + part <= BufLen
  PROVE  Moved(p, part) \in [1..BufLen -> Cells]
<1>1. buf \in [1..BufLen -> Cells] /\ BufLen \in Nat
  BY FsTypes, BufferAssumption DEF FsOK
<1>2. ASSUME NEW i \in 1..BufLen
      PROVE  (IF i <= part THEN buf[p + i] ELSE buf[i]) \in Cells
  <2>1. i <= part => p + i \in 1..BufLen
    BY <1>1
  <2> QED BY <1>1, <2>1
<1> QED BY <1>2 DEF Moved

\* An entry is that of a file, and its record ends within the buffer.
LEMMA EntryType ==
  ASSUME NEW b \in [1..BufLen -> Cells], NEW p \in Nat
  PROVE  EntryAt(b, p) # Junk => EntryAt(b, p) \in Files /\ p + RecLen \in p + 1..BufLen
<1> SUFFICES ASSUME EntryAt(b, p) # Junk
             PROVE  EntryAt(b, p) \in Files /\ p + RecLen \in p + 1..BufLen
  OBVIOUS
<1>1. RecLen \in Nat \ {0} /\ BufLen \in Nat
  BY BufferAssumption
<1>2. /\ p + RecLen <= BufLen
      /\ \A i \in 1..RecLen : b[p + i] # Junk
      /\ EntryAt(b, p) = <<b[p + 1][1], b[p + 1][2]>>
  BY DEF EntryAt
<1>3. p + 1 \in 1..BufLen /\ 1 \in 1..RecLen
  BY <1>1, <1>2
<1>4. b[p + 1] \in Dirs \X Names \X (1..RecLen)
  BY <1>2, <1>3 DEF Cells
<1>5. b[p + 1][1] \in Dirs /\ b[p + 1][2] \in Names
  BY <1>4
<1> QED BY <1>1, <1>2, <1>5 DEF Files

LEMMA ParseEffect ==
  ASSUME FsOK, NEW h \in Handles, NEW b \in [1..BufLen -> Cells], NEW p \in Nat,
         NEW len \in 0..BufLen, NEW e, Parse(h, b, p, len, e)
  PROVE  /\ buf' \in [1..BufLen -> Cells] /\ hnd' \in [Handles -> HandleRec]
         /\ \A g \in Handles : hnd'[g].is_open <=> hnd[g].is_open
         /\ \A g \in Handles \ {h} : hnd'[g] = hnd[g]
<1>1. PICK q \in (IF e = Junk THEN p + 1..BufLen ELSE {p + RecLen}) :
        /\ buf' = [i \in 1..BufLen |-> IF i \in p + 1..q THEN Junk ELSE b[i]]
        /\ hnd' = [hnd EXCEPT ![h].position = q, ![h].length = len]
  BY DEF Parse
<1>2. q \in 0..BufLen
  <2>1. BufLen \in Nat
    BY BufferAssumption
  <2> QED BY <1>1, <2>1, EntryType DEF Parse
<1>3. hnd \in [Handles -> HandleRec]
  BY FsTypes DEF FsOK
<1>4. Junk \in Cells
  BY DEF Cells
<1>5. buf' \in [1..BufLen -> Cells]
  BY <1>1, <1>4
<1>6. hnd' \in [Handles -> HandleRec]
  BY <1>1, <1>2, <1>3 DEF HandleRec
<1>7. \A g \in Handles : hnd'[g].is_open = hnd[g].is_open
  BY <1>1, <1>3 DEF HandleRec
<1>8. \A g \in Handles \ {h} : hnd'[g] = hnd[g]
  BY <1>1, <1>3
<1> QED BY <1>5, <1>6, <1>7, <1>8

LEMMA RefillEffect ==
  ASSUME FsOK, NEW h \in Handles, NEW more, ReaddirRefill(h, more)
  PROVE  /\ FsOK' /\ ReadsOnly(h) /\ UNCHANGED <<tree, size>>
         /\ more => hnd'[h].position < hnd'[h].length
<1>1. CASE hnd[h].position < hnd[h].length
  BY <1>1 DEF ReaddirRefill, fsVars, FsOK, FsTypeOK, ReadsOnly
<1>2. CASE ~(hnd[h].position < hnd[h].length)
  <2> DEFINE n == ReadLength(h, BufLen)
             at == IF n > 0 THEN 0 ELSE hnd[h].position
             dev == After(chan[h], n)
  <2>1. /\ more = (n > 0)
        /\ hnd' = [hnd EXCEPT ![h].length = n, ![h].position = at]
        /\ buf' = Stored(buf, 0, h, n) /\ chan' = [chan EXCEPT ![h] = dev]
        /\ UNCHANGED <<tree, size>>
    BY <1>2 DEF ReaddirRefill
  <2>2. /\ chan \in [Handles -> Channel] /\ hnd \in [Handles -> HandleRec]
        /\ buf \in [1..BufLen -> Cells] /\ BufLen \in Nat
    BY FsTypes, BufferAssumption DEF FsOK
  <2>3. n \in 0..BufLen /\ n <= Waiting(chan[h])
    BY <2>2, ReadLengthType
  <2>4. /\ Stored(buf, 0, h, n) \in [1..BufLen -> Cells] /\ dev \in Channel
        /\ dev.kind = chan[h].kind /\ dev.file = chan[h].file
    BY <2>2, <2>3, StoredType
  <2>5. at \in 0..BufLen /\ (n > 0 => at = 0)
    BY <2>2 DEF HandleRec
  <2> HIDE DEF n, at, dev
  <2>6. hnd' \in [Handles -> HandleRec] /\ chan' \in [Handles -> Channel]
    BY <2>1, <2>2, <2>3, <2>4, <2>5 DEF HandleRec
  <2>7. FsTypeOK'
    BY <2>1, <2>4, <2>6 DEF FsOK, FsTypeOK, Channel, HandleRec
  <2>8. FsOK'
    BY <2>1, <2>2, <2>4, <2>7 DEF FsOK
  <2>9. hnd'[h].length = n /\ hnd'[h].position = at
    BY <2>1, <2>2 DEF HandleRec
  <2>10. \A g \in Handles : hnd'[g].is_open = hnd[g].is_open
    BY <2>1, <2>2 DEF HandleRec
  <2>11. \A g \in Handles \ {h} : hnd'[g] = hnd[g] /\ chan'[g] = chan[g]
    BY <2>1, <2>2
  <2>12. ReadsOnly(h)
    BY <2>10, <2>11 DEF ReadsOnly
  <2> QED BY <2>1, <2>3, <2>5, <2>8, <2>9, <2>12
<1> QED BY <1>1, <1>2

LEMMA RecordEffect ==
  ASSUME FsOK, NEW h \in Handles, NEW e, ReaddirRecord(h, e),
         hnd[h].position < hnd[h].length
  PROVE  FsOK' /\ ReadsOnly(h) /\ UNCHANGED <<tree, size>>
<1> DEFINE p == hnd[h].position
           len == hnd[h].length
           part == len - p
           n == ReadLength(h, Room(part))
           dev == After(chan[h], n)
<1>1. /\ chan \in [Handles -> Channel] /\ hnd \in [Handles -> HandleRec]
      /\ buf \in [1..BufLen -> Cells] /\ BufLen \in Nat
  BY FsTypes, BufferAssumption DEF FsOK
<1>2. p \in 0..BufLen /\ len \in 0..BufLen /\ part \in Nat /\ p + part <= BufLen
  BY <1>1 DEF HandleRec
<1>3. UNCHANGED <<tree, size>>
  BY DEF ReaddirRecord
<1>4. CASE \E i \in p + 1..len : EndOfRecord(buf[i])
  <2>1. Parse(h, buf, p, len, e) /\ UNCHANGED chan
    BY <1>4 DEF ReaddirRecord
  <2>2. /\ buf' \in [1..BufLen -> Cells] /\ hnd' \in [Handles -> HandleRec]
        /\ \A g \in Handles : hnd'[g].is_open <=> hnd[g].is_open
        /\ \A g \in Handles \ {h} : hnd'[g] = hnd[g]
    BY <1>1, <1>2, <2>1, ParseEffect
  <2>3. FsOK'
    BY <1>3, <2>1, <2>2 DEF FsOK, FsTypeOK, HandleRec
  <2> QED BY <1>3, <2>1, <2>2, <2>3 DEF ReadsOnly
<1>5. CASE ~\E i \in p + 1..len : EndOfRecord(buf[i])
  <2>1. /\ chan' = [chan EXCEPT ![h] = dev]
        /\ IF n = 0 THEN e = End /\ buf' = Moved(p, part) /\ UNCHANGED hnd
           ELSE Parse(h, Stored(Moved(p, part), part, h, n), 0, part + n, e)
    BY <1>5 DEF ReaddirRecord
  <2>2. Room(part) \in Nat /\ Room(part) + part = BufLen
    BY <1>1, <1>2 DEF Room
  <2>3. n \in 0..Room(part) /\ n <= Waiting(chan[h])
    BY <2>2, ReadLengthType
  <2>4. Moved(p, part) \in [1..BufLen -> Cells]
    BY <1>2, MovedType
  <2>5. /\ Stored(Moved(p, part), part, h, n) \in [1..BufLen -> Cells] /\ dev \in Channel
        /\ dev.kind = chan[h].kind /\ dev.file = chan[h].file
    <3>1. n \in Nat
      BY <2>2, <2>3
    <3> QED BY <1>2, <2>3, <2>4, <3>1, StoredType
  <2>6. 0 \in Nat /\ part + n \in 0..BufLen
    BY <1>1, <1>2, <2>2, <2>3
  <2> HIDE DEF n, part, p, len, dev
  <2>7. /\ buf' \in [1..BufLen -> Cells] /\ hnd' \in [Handles -> HandleRec]
        /\ \A g \in Handles : hnd'[g].is_open <=> hnd[g].is_open
        /\ \A g \in Handles \ {h} : hnd'[g] = hnd[g]
    <3>1. CASE n = 0
      BY <1>1, <2>1, <2>4, <3>1
    <3>2. CASE n # 0
      <4>1. Parse(h, Stored(Moved(p, part), part, h, n), 0, part + n, e)
        BY <2>1, <3>2
      <4> QED BY <2>5, <2>6, <4>1, ParseEffect
    <3> QED BY <3>1, <3>2
  <2>8. chan' \in [Handles -> Channel] /\ chan'[h] = dev
        /\ \A g \in Handles \ {h} : chan'[g] = chan[g]
    BY <1>1, <2>1, <2>5
  <2>9. FsTypeOK'
    BY <1>3, <2>7, <2>8 DEF FsOK, FsTypeOK, HandleRec, Channel
  <2>10. FsOK'
    BY <2>5, <2>8, <2>9 DEF FsOK
  <2> QED BY <1>3, <2>7, <2>8, <2>10 DEF ReadsOnly
<1> QED BY <1>4, <1>5

-----------------------------------------------------------------------------
(* What a call of FNSHARE keeps: its own state, the search records, the system *)
(* file table.                                                             *)

Calls == {"find_first", "find_next", "delete_files", "rename_files", "query", "make_dir",
          "remove_dir", "open_extended"}
Looping == {"refill", "record", "closedir"}
CallFields == {"fn", "phase", "dir", "name", "who", "handle", "entry", "how"}
DtaFields == {"state", "rec", "want", "got", "disturbed"}
SearchRec == [dir_handle : Handles \cup {NoHandle}, pattern : Names \cup {Wild}]
Sft == [open : BOOLEAN, mode : {"read", "write", "readwrite"},
        handle : Handles \cup {NoHandle}, file : Files \cup {Junk},
        pos : Nat, last_pos : Nat, size : Nat, failed : BOOLEAN]

\* What the function that runs was called with, and where it can be.
CallOK ==
  /\ DOMAIN call = CallFields
  /\ call.fn \in Calls \cup {None}
  /\ call.phase \in {"idle", "opendir", "act"} \cup Looping
  /\ call.phase = "idle" <=> call.fn = None
  /\ call.handle \in Handles \cup {NoHandle}
  /\ call.fn \in Calls \ {"find_next"} => call.dir \in Dirs
  /\ call.fn \in {"find_first", "find_next"} => call.who \in Progs /\ call.phase # "act"
  /\ call.fn = "find_next" => call.phase # "opendir"
  /\ call.fn \in {"make_dir", "remove_dir"} => call.name \in Names
  /\ call.fn = "open_extended" =>
       /\ call.who \in Sfts /\ ~sft[call.who].open
       /\ call.name \in FileNames /\ call.how \in HowToOpen
  /\ call.fn = "delete_files" /\ call.phase = "act" => call.entry \in Files \cup {Junk}

\* A search that lives has a handle to go on with.
DtaOK ==
  /\ DOMAIN dta = Progs
  /\ \A p \in Progs :
       /\ DOMAIN dta[p] = DtaFields
       /\ dta[p].state \in {"none", "live", "done"} /\ dta[p].rec \in SearchRec
       /\ Live(p) => dta[p].rec.dir_handle \in Handles

\* So have an open file and a loop that reads a directory, which gets to a record only
\* when there is something in the buffer.
SftOK == sft \in [Sfts -> Sft] /\ \A s \in Sfts : sft[s].open => sft[s].handle \in Handles
ReadingOK ==
  /\ call.phase \in Looping => Reading \in Handles
  /\ Searching \/ call.phase \notin Looping => call.handle = NoHandle
  /\ Searching /\ call.phase = "opendir" => sda.dir_handle = NoHandle
  /\ Searching /\ call.phase = "act" => sda.dir_handle \in Handles
  /\ call.phase = "record" => hnd[Reading].position < hnd[Reading].length

Typed ==
  FsOK /\ sda \in SearchRec /\ DtaOK /\ SftOK /\ CallOK /\ ReadingOK /\ lost \subseteq Handles

LEMMA TypedImpliesTypeOK == Typed => TypeOK
  BY DEF Typed, TypeOK, FsOK, SearchRec, DtaOK, SftOK, Sft, CallOK, Looping

LEMMA InitTyped == Init => Typed
<1> SUFFICES ASSUME Init PROVE Typed
  OBVIOUS
<1> USE HandlesAreNumbers
<1>1. 0 \in 0..BufLen /\ <<>> \in Seq(Cells)
  BY BufferAssumption
<1>2. FsTypeOK
  <2>1. tree \in [Dirs -> Seq(Names)]
    <3>1. \A d \in Dirs : Share[d] \in Seq(Names)
      BY ShareAssumption DEF Names
    <3>2. Share = [d \in Dirs |-> Share[d]]
      BY ShareAssumption
    <3> QED BY <3>1, <3>2 DEF Init, FsInit
  <2>2. size \in [Files -> 0..MaxSize]
    BY SizeAssumption DEF Init, FsInit
  <2>3. chan \in [Handles -> Channel]
    BY <1>1 DEF Init, FsInit, NoChan, Channel
  <2>4. hnd \in [Handles -> HandleRec]
    BY <1>1 DEF Init, FsInit, FreeHandle, HandleRec
  <2>5. buf \in [1..BufLen -> Cells]
    BY DEF Init, FsInit, Cells
  <2> QED BY <2>1, <2>2, <2>3, <2>4, <2>5, FsTypes
<1>3. FsOK
  BY <1>2 DEF FsOK, Init, FsInit, NoChan
<1>4. NoSearch \in SearchRec
  BY DEF NoSearch, SearchRec
<1>5. sda \in SearchRec /\ DtaOK
  BY <1>4 DEF Init, DtaOK, NoDta, DtaFields, Live
<1>6. SftOK
  BY DEF Init, SftOK, Sft, NoFile
<1>7. CallOK /\ ReadingOK
  BY DEF Init, CallOK, ReadingOK, NoCall, CallFields, Calls, Looping, None, Searching, SearchCalls
<1> QED BY <1>3, <1>5, <1>6, <1>7 DEF Typed, Init

----------------------------------------------------------------------------
\* What Begin leaves in call.
LEMMA BeginSets ==
  ASSUME NEW fn, NEW phase, NEW d, NEW n, NEW who, NEW how, Begin(fn, phase, d, n, who, how)
  PROVE  /\ DOMAIN call' = CallFields
         /\ call'.fn = fn /\ call'.phase = phase /\ call'.dir = d /\ call'.name = n
         /\ call'.who = who /\ call'.how = how /\ call'.handle = NoHandle
  BY DEF Begin, NoCall, CallFields

LEMMA ReturnSets ==
  ASSUME Return
  PROVE  /\ DOMAIN call' = CallFields /\ call'.fn = None /\ call'.phase = "idle"
         /\ call'.handle = NoHandle
  BY DEF Return, NoCall, CallFields

LEMMA GotoSets ==
  ASSUME CallOK, NEW phase, Goto(phase)
  PROVE  /\ DOMAIN call' = CallFields /\ call'.phase = phase
         /\ call'.fn = call.fn /\ call'.dir = call.dir /\ call'.name = call.name
         /\ call'.who = call.who /\ call'.how = call.how /\ call'.handle = call.handle
         /\ call'.entry = call.entry
  BY DEF Goto, CallOK, CallFields

LEMMA DisturbType ==
  ASSUME DtaOK, NEW but
  PROVE  LET d == Disturb(but)
         IN  /\ DOMAIN d = Progs
             /\ \A p \in Progs : /\ DOMAIN d[p] = DtaFields
                                 /\ d[p].state = dta[p].state /\ d[p].rec = dta[p].rec
  BY DEF Disturb, DtaOK, DtaFields

\* A step that changes nothing but how the program's copies are marked.
LEMMA MarkedTyped ==
  ASSUME DtaOK, NEW but, dta' = Disturb(but)
  PROVE  DtaOK' /\ \A p \in Progs : (Live(p)' <=> Live(p)) /\ dta'[p].rec = dta[p].rec
<1>1. /\ DOMAIN dta' = Progs
      /\ \A p \in Progs : /\ DOMAIN dta'[p] = DtaFields
                          /\ dta'[p].state = dta[p].state /\ dta'[p].rec = dta[p].rec
  BY DisturbType
<1> QED BY <1>1 DEF DtaOK, Live

LEMMA ReturnTyped ==
  ASSUME Return
  PROVE  CallOK' /\ ReadingOK'
  BY ReturnSets, HandlesAreNumbers DEF CallOK, ReadingOK, Calls, Looping, None, Searching, SearchCalls

-----------------------------------------------------------------------------
(* Searching.                                                              *)

\* Closing the search that is in the record and making room for a new one.
LEMMA NewSearchTyped ==
  ASSUME Typed, NEW n \in Patterns, NewSearch(n)
  PROVE  /\ FsOK' /\ sda' \in SearchRec /\ sda'.dir_handle = NoHandle
         /\ ClosesOnly(sda.dir_handle) /\ UNCHANGED <<tree, size, buf>>
<1>1. fujifs_close(sda.dir_handle) /\ UNCHANGED <<tree, size, buf>>
      /\ sda' = [dir_handle |-> NoHandle, pattern |-> n]
  BY DEF NewSearch
<1>2. FsOK' /\ ClosesOnly(sda.dir_handle)
  BY <1>1, CloseEffect DEF Typed
<1> QED BY <1>1, <1>2, ArgumentsAssumption DEF SearchRec

LEMMA FindFirstTyped ==
  ASSUME Typed, NEW p \in Progs, NEW d \in Dirs, NEW n \in Patterns, FindFirst(p, d, n)
  PROVE  Typed'
<1>1. NewSearch(n) /\ UNCHANGED <<sft, lost>>
      /\ dta' = [Disturb({}) EXCEPT ![p] = NoDta]
      /\ Begin("find_first", "opendir", d, n, p, None)
  BY DEF FindFirst
<1>2. FsOK' /\ sda' \in SearchRec /\ sda'.dir_handle = NoHandle
  BY <1>1, NewSearchTyped
<1>3. DtaOK'
  <2> DEFINE D == Disturb({})
  <2>1. /\ DOMAIN D = Progs
        /\ \A q \in Progs : /\ DOMAIN D[q] = DtaFields
                            /\ D[q].state = dta[q].state /\ D[q].rec = dta[q].rec
    BY DisturbType DEF Typed
  <2>2. /\ DOMAIN NoDta = DtaFields /\ NoDta.state = "none" /\ NoDta.rec \in SearchRec
    BY DEF NoDta, DtaFields, NoSearch, SearchRec
  <2>3. dta' = [D EXCEPT ![p] = NoDta]
    BY <1>1
  <2> HIDE DEF D
  <2>4. DOMAIN dta' = Progs /\ dta'[p] = NoDta /\ \A q \in Progs \ {p} : dta'[q] = D[q]
    BY <2>1, <2>3
  <2> QED BY <2>1, <2>2, <2>4 DEF Typed, DtaOK, Live
<1>4. CallOK' /\ ReadingOK'
  BY <1>1, <1>2, BeginSets, HandlesAreNumbers
     DEF CallOK, ReadingOK, Calls, Looping, None, Searching, SearchCalls
<1>5. SftOK' /\ lost' \subseteq Handles
  BY <1>1 DEF Typed, SftOK
<1> QED BY <1>2, <1>3, <1>4, <1>5 DEF Typed

LEMMA FindNextTyped ==
  ASSUME Typed, NEW p \in Progs, FindNext(p)
  PROVE  Typed'
<1>1. /\ Idle /\ Live(p) /\ sda' = dta[p].rec /\ dta' = Disturb({p})
      /\ Begin("find_next", "refill", None, dta[p].rec.pattern, p, None)
      /\ UNCHANGED <<tree, size, chan, hnd, buf, sft, lost>>
  BY DEF FindNext
<1>2. sda' \in SearchRec /\ sda'.dir_handle \in Handles
  BY <1>1 DEF Typed, DtaOK
<1>3. DtaOK'
  BY <1>1, MarkedTyped DEF Typed
<1>4. CallOK' /\ ReadingOK'
  BY <1>1, <1>2, BeginSets, HandlesAreNumbers
     DEF CallOK, ReadingOK, Calls, Looping, None, Searching, SearchCalls, Reading
<1>5. FsOK' /\ SftOK' /\ lost' \subseteq Handles
  BY <1>1 DEF Typed, SftOK, FsOK, FsTypeOK
<1> QED BY <1>2, <1>3, <1>4, <1>5 DEF Typed

LEMMA AbandonTyped ==
  ASSUME Typed, NEW p \in Progs, Abandon(p)
  PROVE  Typed'
<1>1. /\ dta' = [dta EXCEPT ![p] = NoDta]
      /\ UNCHANGED <<tree, size, chan, hnd, buf, sda, sft, call, lost>>
  BY DEF Abandon
<1>2. DOMAIN NoDta = DtaFields /\ NoDta.state = "none" /\ NoDta.rec \in SearchRec
  BY DEF NoDta, DtaFields, NoSearch, SearchRec
<1>3. DtaOK'
  BY <1>1, <1>2 DEF Typed, DtaOK, Live
<1>4. FsOK' /\ SftOK' /\ CallOK' /\ ReadingOK'
  BY <1>1 DEF Typed, FsOK, FsTypeOK, SftOK, CallOK, ReadingOK, Reading, Searching
<1> QED BY <1>1, <1>3, <1>4 DEF Typed

\* delete_files and rename_files.
LEMMA Files1Typed ==
  ASSUME Typed, NEW fn \in {"delete_files", "rename_files"}, NEW d \in Dirs,
         NEW n \in Patterns, Files1(fn, d, n)
  PROVE  Typed'
<1>1. NewSearch(n) /\ UNCHANGED <<sft, lost>> /\ dta' = Disturb({})
      /\ Begin(fn, "opendir", d, n, None, None)
  BY DEF Files1
<1>2. FsOK' /\ sda' \in SearchRec /\ sda'.dir_handle = NoHandle
  BY <1>1, NewSearchTyped
<1>3. DtaOK'
  BY <1>1, MarkedTyped DEF Typed
<1>4. CallOK' /\ ReadingOK'
  BY <1>1, <1>2, BeginSets, HandlesAreNumbers
     DEF CallOK, ReadingOK, Calls, Looping, None, Searching, SearchCalls
<1>5. SftOK' /\ lost' \subseteq Handles
  BY <1>1 DEF Typed, SftOK
<1> QED BY <1>2, <1>3, <1>4, <1>5 DEF Typed

\* What every look-up starts with.
LEMMA LookUpTyped ==
  ASSUME Typed, NEW fn \in {"query", "make_dir", "remove_dir", "open_extended"},
         NEW d \in Dirs, NEW n \in Names, NEW who, NEW how, LookUp(fn, d, n, who, how),
         fn = "open_extended" =>
           who \in Sfts /\ ~sft[who].open /\ n \in FileNames /\ how \in HowToOpen
  PROVE  Typed'
<1>1. dta' = Disturb({}) /\ Begin(fn, "opendir", d, n, who, how)
      /\ UNCHANGED <<tree, size, chan, hnd, buf, sda, sft, lost>>
  BY DEF LookUp
<1>2. DtaOK'
  BY <1>1, MarkedTyped DEF Typed
<1>3. CallOK' /\ ReadingOK'
  BY <1>1, BeginSets, HandlesAreNumbers
     DEF CallOK, ReadingOK, Calls, Looping, None, Searching, SearchCalls
<1>4. FsOK' /\ SftOK'
  BY <1>1 DEF Typed, FsOK, FsTypeOK, SftOK
<1> QED BY <1>1, <1>2, <1>3, <1>4 DEF Typed

LEMMA LookUpsTyped ==
  ASSUME Typed, NEW d \in Dirs,
         \/ \E n \in Lookups : Query(d, n) \/ RemoveDir(d, n)
         \/ \E n \in DirNames : MakeDir(d, n)
         \/ \E s \in Sfts, n \in FileNames, how \in HowToOpen : OpenExtended(s, d, n, how)
  PROVE  Typed'
<1>1. Lookups \subseteq Names /\ DirNames \subseteq Names /\ FileNames \subseteq Names
  BY ArgumentsAssumption DEF Names
<1>2. CASE \E n \in Lookups : Query(d, n)
  BY <1>1, <1>2, LookUpTyped DEF Query
<1>3. CASE \E n \in Lookups : RemoveDir(d, n)
  BY <1>1, <1>3, LookUpTyped DEF RemoveDir
<1>4. CASE \E n \in DirNames : MakeDir(d, n)
  BY <1>1, <1>4, LookUpTyped DEF MakeDir
<1>5. CASE \E s \in Sfts, n \in FileNames, how \in HowToOpen : OpenExtended(s, d, n, how)
  <2>1. PICK s \in Sfts, n \in FileNames, how \in HowToOpen : OpenExtended(s, d, n, how)
    BY <1>5
  <2>2. n \in Names /\ ~sft[s].open /\ LookUp("open_extended", d, n, s, how)
    BY <1>1, <2>1 DEF OpenExtended
  <2> QED BY <2>2, LookUpTyped
<1> QED BY <1>2, <1>3, <1>4, <1>5

LEMMA OpendirTyped ==
  ASSUME Typed, Opendir
  PROVE  Typed'
<1> USE HandlesAreNumbers
<1>1. call.phase = "opendir" /\ UNCHANGED <<sft, lost>> /\ call.dir \in Dirs
      /\ call.fn \in Calls \ {"find_next"} /\ CallOK
  BY DEF Opendir, Typed, CallOK, None
<1>2. PICK h \in Handles \cup {NoHandle} :
        /\ fujifs_opendir(call.dir, h)
        /\ IF Searching
           THEN /\ IF h = NoHandle THEN Return ELSE Goto("refill")
                /\ sda' = [sda EXCEPT !.dir_handle = h]
           ELSE /\ call' = [call EXCEPT !.handle = h,
                                        !.phase = IF h = NoHandle THEN "act" ELSE "refill"]
                /\ UNCHANGED sda
  BY DEF Opendir
<1>3. FsOK'
  BY <1>1, <1>2, OpendirEffect DEF Typed
<1>4. sda' \in SearchRec
  BY <1>2 DEF Typed, SearchRec
<1>5. DtaOK'
  <2> DEFINE w == Wanted(call.dir, tree[call.dir], call.name)[Len(tree[call.dir])]
  <2>1. dta' = IF call.fn = "find_first" THEN [dta EXCEPT ![call.who].want = w] ELSE dta
    BY DEF Opendir
  <2> HIDE DEF w
  <2>2. /\ DOMAIN dta' = Progs
        /\ \A p \in Progs : DOMAIN dta'[p] = DtaFields /\ dta'[p].state = dta[p].state
                            /\ dta'[p].rec = dta[p].rec
    BY <2>1 DEF Typed, DtaOK, DtaFields
  <2> QED BY <2>2 DEF Typed, DtaOK, Live
<1>6. CallOK' /\ ReadingOK'
  <2>1. CASE Searching /\ h = NoHandle
    BY <1>2, <2>1, ReturnTyped
  <2>2. CASE Searching /\ h # NoHandle
    <3>1. Goto("refill") /\ sda'.dir_handle = h /\ h \in Handles
      BY <1>2, <2>2 DEF Typed, SearchRec
    <3>2. /\ DOMAIN call' = CallFields /\ call'.phase = "refill"
          /\ call'.fn = call.fn /\ call'.dir = call.dir /\ call'.name = call.name
          /\ call'.who = call.who /\ call'.how = call.how /\ call'.handle = call.handle
      BY <1>1, <3>1, GotoSets
    <3>3. Searching' /\ call.handle = NoHandle
      BY <2>2, <3>2 DEF Searching, Typed, ReadingOK
    <3>4. CallOK'
      BY <1>1, <2>2, <3>2 DEF CallOK, Searching, SearchCalls, Looping, Calls, None
    <3> QED BY <2>2, <3>1, <3>2, <3>3, <3>4 DEF ReadingOK, Reading, Looping
  <2>3. CASE ~Searching
    <3>1. call' = [call EXCEPT !.handle = h, !.phase = IF h = NoHandle THEN "act" ELSE "refill"]
      BY <1>2, <2>3
    <3>2. /\ DOMAIN call' = CallFields
          /\ call'.phase = (IF h = NoHandle THEN "act" ELSE "refill") /\ call'.handle = h
          /\ call'.fn = call.fn /\ call'.dir = call.dir /\ call'.name = call.name
          /\ call'.who = call.who /\ call'.how = call.how
      BY <1>1, <3>1 DEF CallOK, CallFields
    <3>3. ~Searching' /\ call.fn \notin SearchCalls
      BY <2>3, <3>2 DEF Searching
    <3>4. CallOK'
      BY <1>1, <3>2, <3>3 DEF CallOK, SearchCalls, Looping, Calls, None
    <3> QED BY <3>2, <3>3, <3>4 DEF ReadingOK, Reading, Looping
  <2> QED BY <2>1, <2>2, <2>3
<1>7. SftOK' /\ lost' \subseteq Handles
  BY <1>1 DEF Typed, SftOK
<1> QED BY <1>3, <1>4, <1>5, <1>6, <1>7 DEF Typed

\* A step within the loop that leaves the search record alone.
LEMMA GoOnTyped ==
  ASSUME CallOK, ReadingOK, NEW phase, Goto(phase), UNCHANGED sda,
         call.phase \in Looping, UNCHANGED sft,
         \/ phase \in {"refill", "closedir"}
         \/ phase = "record" /\ hnd'[Reading].position < hnd'[Reading].length
  PROVE  CallOK' /\ ReadingOK'
<1>1. /\ DOMAIN call' = CallFields /\ call'.phase = phase
      /\ call'.fn = call.fn /\ call'.dir = call.dir /\ call'.name = call.name
      /\ call'.who = call.who /\ call'.how = call.how /\ call'.handle = call.handle
      /\ call'.entry = call.entry
  BY GotoSets
<1>2. phase \in Looping /\ phase \notin {"idle", "opendir", "act"}
  BY DEF Looping
<1>3. (Searching' <=> Searching) /\ Reading' = Reading
  BY <1>1 DEF Searching, Reading
<1>4. CallOK'
  <2>1. call.phase \notin {"idle", "opendir", "act"}
    BY DEF Looping
  <2> QED BY <1>1, <1>2, <2>1 DEF CallOK
<1>5. ReadingOK'
  BY <1>1, <1>2, <1>3 DEF ReadingOK
<1> QED BY <1>4, <1>5

LEMMA RefillTyped ==
  ASSUME Typed, Refill
  PROVE  Typed'
<1>1. call.phase = "refill" /\ UNCHANGED <<sda, dta, sft, lost>> /\ Reading \in Handles
      /\ call.phase \in Looping
  BY DEF Refill, Typed, ReadingOK, Looping
<1>2. PICK more \in BOOLEAN :
        ReaddirRefill(Reading, more) /\ Goto(IF more THEN "record" ELSE "closedir")
  BY DEF Refill
<1>3. /\ FsOK' /\ (more => hnd'[Reading].position < hnd'[Reading].length)
  BY <1>1, <1>2, RefillEffect DEF Typed
<1>4. CallOK' /\ ReadingOK'
  <2> DEFINE phase == IF more THEN "record" ELSE "closedir"
  <2>1. Goto(phase)
    BY <1>2
  <2>2. \/ phase \in {"refill", "closedir"}
        \/ phase = "record" /\ hnd'[Reading].position < hnd'[Reading].length
    BY <1>3
  <2> HIDE DEF phase
  <2> QED BY <1>1, <2>1, <2>2, GoOnTyped DEF Typed
<1>5. DtaOK' /\ SftOK'
  BY <1>1 DEF Typed, DtaOK, SftOK, Live
<1> QED BY <1>1, <1>3, <1>4, <1>5 DEF Typed

LEMMA FoundTyped ==
  ASSUME Typed, NEW e, Found(e), call.phase = "record",
         call.fn \in {"find_first", "find_next"}, UNCHANGED sda
  PROVE  DtaOK' /\ CallOK' /\ ReadingOK'
<1>1. CallOK' /\ ReadingOK'
  BY ReturnTyped DEF Found
<1>2. sda.dir_handle \in Handles /\ call.who \in Progs /\ sda \in SearchRec
  BY DEF Typed, ReadingOK, Reading, Searching, SearchCalls, Looping, CallOK
<1>3. dta' = [dta EXCEPT ![call.who].state = "live", ![call.who].rec = sda,
                         ![call.who].got = Append(@, e)]
  BY DEF Found
<1>4. /\ DOMAIN dta' = Progs
      /\ \A p \in Progs \ {call.who} : dta'[p] = dta[p]
      /\ DOMAIN dta'[call.who] = DtaFields
      /\ dta'[call.who].state = "live" /\ dta'[call.who].rec = sda
  BY <1>2, <1>3 DEF Typed, DtaOK, DtaFields
<1>5. DtaOK'
  BY <1>2, <1>4 DEF Typed, DtaOK, Live
<1> QED BY <1>1, <1>5

LEMMA RecordTyped ==
  ASSUME Typed, Record
  PROVE  Typed'
<1>1. call.phase = "record" /\ UNCHANGED <<sda, sft, lost>> /\ Reading \in Handles
      /\ call.phase \in Looping /\ hnd[Reading].position < hnd[Reading].length
  BY DEF Record, Typed, ReadingOK, Looping
<1>2. PICK e \in Files \cup {Junk, End} :
        /\ ReaddirRecord(Reading, e)
        /\ CASE e = End -> Goto("closedir") /\ UNCHANGED dta
             [] e # End /\ ~Matches(e, call.name, call.fn) -> Goto("refill") /\ UNCHANGED dta
             [] e # End /\ Matches(e, call.name, call.fn) ->
                  CASE call.fn \in {"find_first", "find_next"} -> Found(e)
                    [] call.fn \in {"delete_files", "rename_files"} ->
                         call' = [call EXCEPT !.phase = "act", !.entry = e] /\ UNCHANGED dta
                    [] OTHER ->
                         call' = [call EXCEPT !.phase = "closedir", !.entry = e] /\ UNCHANGED dta
  BY DEF Record
<1>3. FsOK'
  BY <1>1, <1>2, RecordEffect DEF Typed
<1>4. DtaOK' /\ CallOK' /\ ReadingOK'
  <2>1. CASE e = End \/ ~Matches(e, call.name, call.fn)
    <3>1. (Goto("closedir") \/ Goto("refill")) /\ UNCHANGED dta
      BY <1>2, <2>1
    <3>2. CallOK' /\ ReadingOK'
      BY <1>1, <3>1, GoOnTyped DEF Typed
    <3> QED BY <3>1, <3>2 DEF Typed, DtaOK, Live
  <2>2. CASE e # End /\ Matches(e, call.name, call.fn)
    <3>1. CASE call.fn \in {"find_first", "find_next"}
      BY <1>1, <1>2, <2>2, <3>1, FoundTyped
    <3>2. CASE call.fn \in {"delete_files", "rename_files"}
      <4>1. call' = [call EXCEPT !.phase = "act", !.entry = e] /\ UNCHANGED dta
        BY <1>2, <2>2, <3>2
      <4>2. /\ DOMAIN call' = CallFields /\ call'.phase = "act" /\ call'.entry = e
            /\ call'.fn = call.fn /\ call'.dir = call.dir /\ call'.name = call.name
            /\ call'.who = call.who /\ call'.how = call.how /\ call'.handle = call.handle
        BY <4>1 DEF Typed, CallOK, CallFields
      <4>3. CallOK'
        BY <1>1, <1>2, <2>2, <3>2, <4>2 DEF Typed, CallOK, None
      <4>4. ReadingOK'
        BY <1>1, <3>2, <4>2 DEF Typed, ReadingOK, Reading, Searching, SearchCalls, Looping
      <4>5. DtaOK'
        BY <4>1 DEF Typed, DtaOK, Live
      <4> QED BY <4>3, <4>4, <4>5
    <3>3. CASE call.fn \notin {"find_first", "find_next", "delete_files", "rename_files"}
      <4>1. call' = [call EXCEPT !.phase = "closedir", !.entry = e] /\ UNCHANGED dta
        BY <1>2, <2>2, <3>3
      <4>2. /\ DOMAIN call' = CallFields /\ call'.phase = "closedir" /\ call'.entry = e
            /\ call'.fn = call.fn /\ call'.dir = call.dir /\ call'.name = call.name
            /\ call'.who = call.who /\ call'.how = call.how /\ call'.handle = call.handle
        BY <4>1 DEF Typed, CallOK, CallFields
      <4>3. CallOK'
        BY <1>1, <3>3, <4>2 DEF Typed, CallOK, Looping
      <4>4. ReadingOK'
        BY <1>1, <3>3, <4>2 DEF Typed, ReadingOK, Reading, Searching, SearchCalls, Looping
      <4>5. DtaOK'
        BY <4>1 DEF Typed, DtaOK, Live
      <4> QED BY <4>3, <4>4, <4>5
    <3> QED BY <3>1, <3>2, <3>3
  <2> QED BY <2>1, <2>2
<1>5. SftOK'
  BY <1>1 DEF Typed, SftOK
<1> QED BY <1>1, <1>3, <1>4, <1>5 DEF Typed

-----------------------------------------------------------------------------
(* Answering, and opening files.                                           *)

LEMMA ClosedirTyped ==
  ASSUME Typed, Closedir
  PROVE  Typed'
<1> USE HandlesAreNumbers
<1>1. call.phase = "closedir" /\ UNCHANGED <<tree, size, buf, sft, lost>> /\ fujifs_close(Reading)
  BY DEF Closedir
<1>2. FsOK'
  BY <1>1, CloseEffect DEF Typed
<1>3. CASE Searching
  <2>1. /\ sda' = [sda EXCEPT !.dir_handle = NoHandle]
        /\ dta' = IF call.who \in Progs THEN [dta EXCEPT ![call.who].state = "done"] ELSE dta
        /\ Return
    BY <1>3 DEF Closedir
  <2>2. sda' \in SearchRec
    BY <2>1 DEF Typed, SearchRec
  <2>3. /\ DOMAIN dta' = Progs
        /\ \A p \in Progs : DOMAIN dta'[p] = DtaFields /\ dta'[p].rec = dta[p].rec
                            /\ dta'[p].state \in {dta[p].state, "done"}
    BY <2>1 DEF Typed, DtaOK, DtaFields
  <2>4. DtaOK'
    BY <2>3 DEF Typed, DtaOK, Live
  <2>5. SftOK' /\ CallOK' /\ ReadingOK'
    BY <1>1, <2>1, ReturnTyped DEF Typed, SftOK
  <2> QED BY <1>1, <1>2, <2>2, <2>4, <2>5 DEF Typed
<1>4. CASE ~Searching
  <2>1. call' = [call EXCEPT !.phase = "act", !.handle = NoHandle] /\ UNCHANGED <<sda, dta>>
    BY <1>4 DEF Closedir
  <2>2. /\ DOMAIN call' = CallFields /\ call'.phase = "act" /\ call'.handle = NoHandle
        /\ call'.fn = call.fn /\ call'.dir = call.dir /\ call'.name = call.name
        /\ call'.who = call.who /\ call'.how = call.how
    BY <2>1 DEF Typed, CallOK, CallFields
  <2>3. call.fn \notin SearchCalls /\ ~Searching'
    BY <1>4, <2>2 DEF Searching
  <2>4. CallOK'
    BY <1>1, <2>2, <2>3 DEF Typed, CallOK, SearchCalls
  <2>5. ReadingOK'
    BY <2>2, <2>3 DEF ReadingOK, Looping
  <2>6. DtaOK' /\ SftOK'
    BY <1>1, <2>1 DEF Typed, DtaOK, SftOK, Live
  <2> QED BY <1>1, <1>2, <2>1, <2>4, <2>5, <2>6 DEF Typed
<1> QED BY <1>3, <1>4

LEMMA DeleteTyped ==
  ASSUME Typed, Delete
  PROVE  Typed'
<1>1. /\ call.phase = "act" /\ call.fn = "delete_files" /\ UNCHANGED <<sda, dta, sft, lost>>
      /\ call.dir \in Dirs /\ call.entry \in Files \cup {Junk}
  BY DEF Delete, Typed, CallOK, Calls
<1>2. PICK done \in BOOLEAN :
        /\ IF call.entry = Junk
           THEN done = FALSE /\ buf' = Ennified /\ UNCHANGED <<tree, size, chan, hnd>>
           ELSE fujifs_unlink(<<call.dir, call.entry[2]>>, done)
        /\ IF done THEN Goto("refill") ELSE Return
  BY DEF Delete
<1>3. CASE call.entry = Junk
  <2>1. Return /\ buf' = Ennified /\ UNCHANGED <<tree, size, chan, hnd>>
    BY <1>2, <1>3
  <2>2. FsOK'
    BY <2>1, EnnifiedType DEF Typed, FsOK, FsTypeOK
  <2> QED BY <1>1, <2>1, <2>2, ReturnTyped DEF Typed, DtaOK, SftOK, Live
<1>4. CASE call.entry # Junk
  <2>1. <<call.dir, call.entry[2]>> \in Files
    BY <1>1, <1>4 DEF Files
  <2>2. FsOK' /\ UNCHANGED <<chan, hnd>>
    BY <1>2, <1>4, <2>1, TakeAwayEffect DEF fujifs_unlink, Typed
  <2>3. CallOK' /\ ReadingOK'
    <3>1. CASE done
      <4>1. Goto("refill") /\ CallOK /\ ReadingOK
        BY <1>2, <3>1 DEF Typed
      <4>2. /\ DOMAIN call' = CallFields /\ call'.phase = "refill"
            /\ call'.fn = call.fn /\ call'.dir = call.dir /\ call'.name = call.name
            /\ call'.who = call.who /\ call'.how = call.how /\ call'.handle = call.handle
        BY <4>1, GotoSets
      <4>3. CallOK'
        BY <1>1, <4>1, <4>2 DEF CallOK, Looping, Calls
      <4> QED
        BY <1>1, <4>1, <4>2, <4>3 DEF ReadingOK, Reading, Searching, SearchCalls, Looping
    <3>2. CASE ~done
      BY <1>2, <3>2, ReturnTyped
    <3> QED BY <3>1, <3>2
  <2> QED BY <1>1, <2>2, <2>3 DEF Typed, DtaOK, SftOK, Live
<1> QED BY <1>3, <1>4

LEMMA ReturnsTyped ==
  ASSUME Typed, Rename \/ Answer \/ Mkdir \/ Rmdir
  PROVE  Typed'
<1>1. Return /\ UNCHANGED <<sda, dta, sft, lost>>
  BY DEF Rename, Answer, Mkdir, Rmdir
<1>2. CallOK' /\ ReadingOK' /\ DtaOK' /\ SftOK'
  BY <1>1, ReturnTyped DEF Typed, DtaOK, SftOK, Live
<1>3. FsOK'
  <2>1. CASE UNCHANGED fsVars
    BY <2>1 DEF fsVars, Typed, FsOK, FsTypeOK
  <2>2. CASE Rename \/ Answer
    BY <2>2 DEF Rename, Answer, Typed, FsOK, FsTypeOK
  <2>3. CASE Mkdir /\ ~UNCHANGED fsVars
    <3>1. <<call.dir, call.name>> \in Files
      BY <2>3 DEF Mkdir, Typed, CallOK, Calls, Files
    <3> QED BY <2>3, <3>1, MkdirEffect DEF Mkdir, Typed
  <2>4. CASE Rmdir /\ ~UNCHANGED fsVars
    <3>1. <<call.dir, call.name>> \in Files
      BY <2>4 DEF Rmdir, Typed, CallOK, Calls, Files
    <3> QED BY <2>4, <3>1, TakeAwayEffect DEF Rmdir, fujifs_rmdir, Typed
  <2> QED BY <2>1, <2>2, <2>3, <2>4
<1> QED BY <1>1, <1>2, <1>3 DEF Typed

\* The entry of the system file table that an open fills in.
LEMMA OpenedType ==
  ASSUME Typed, call.fn = "open_extended", NEW h \in Handles, NEW f \in Files
  PROVE  /\ Opened(h, f) \in Sft /\ Opened(h, f).open /\ Opened(h, f).handle = h
         /\ Opened(h, f).file = f /\ Opened(h, f).last_pos = 0
<1>1. call.how \in OpenRequests
  BY HowAssumption DEF Typed, CallOK
<1>2. call.how.sft_mode \in {"read", "write", "readwrite"}
  BY <1>1 DEF OpenRequests
<1>3. size[f] \in Nat
  BY SizeAssumption DEF Typed, FsOK, FsTypeOK
<1>4. NoFile \in Sft
  BY DEF NoFile, Sft
<1> QED BY <1>2, <1>3, <1>4 DEF Opened, Sft, NoFile

LEMMA OpenTyped ==
  ASSUME Typed, Open
  PROVE  Typed'
<1> USE HandlesAreNumbers
<1> DEFINE f == <<call.dir, call.name>>
<1>1. /\ call.fn = "open_extended" /\ Return /\ UNCHANGED <<sda, dta, lost>> /\ call.who \in Sfts
  BY DEF Open, Typed, CallOK
<1>2. f \in Files
  BY <1>1 DEF Typed, CallOK, Calls, Files, Names
<1>3. CallOK' /\ ReadingOK' /\ DtaOK'
  BY <1>1, ReturnTyped DEF Typed, DtaOK, Live
<1>4. FsOK' /\ SftOK'
  <2>1. CASE UNCHANGED <<fsVars, sft>>
    BY <2>1 DEF fsVars, Typed, FsOK, FsTypeOK, SftOK
  <2>2. CASE ~UNCHANGED <<fsVars, sft>>
    <3>1. PICK h \in Handles \cup {NoHandle} :
            /\ fujifs_open(f, call.how.mode, h)
            /\ sft' = IF h = NoHandle THEN sft ELSE [sft EXCEPT ![call.who] = Opened(h, f)]
      BY <2>2 DEF Open
    <3> HIDE DEF f
    <3>2. FsOK'
      BY <1>2, <3>1, OpenEffect DEF Typed
    <3>3. SftOK'
      <4>1. CASE h = NoHandle
        BY <3>1, <4>1 DEF Typed, SftOK
      <4>2. CASE h \in Handles
        <5>1. Opened(h, f) \in Sft /\ Opened(h, f).handle = h
          BY <1>1, <1>2, <4>2, OpenedType
        <5>2. sft' = [sft EXCEPT ![call.who] = Opened(h, f)]
          BY <3>1, <4>2
        <5> QED BY <1>1, <4>2, <5>1, <5>2 DEF Typed, SftOK
      <4> QED BY <4>1, <4>2
    <3> QED BY <3>2, <3>3
  <2> QED BY <2>1, <2>2
<1> QED BY <1>1, <1>3, <1>4 DEF Typed

-----------------------------------------------------------------------------
(* Transfers, and type correctness.                                        *)

\* The device that a file's next transfer finds.
LEMMA SoughtType ==
  ASSUME Typed, NEW s \in Sfts, sft[s].open
  PROVE  /\ Sought(s) \in Channel
         /\ Sought(s).kind = chan[sft[s].handle].kind /\ Sought(s).file = chan[sft[s].handle].file
         /\ Sought(s).kind = "file" => Sought(s).file \in Files
         /\ Waiting(Sought(s)) \in Nat
<1> DEFINE h == sft[s].handle
           c == chan[h]
<1>1. h \in Handles /\ sft[s].pos \in Nat
  BY DEF Typed, SftOK, Sft
<1>2. c \in Channel /\ (c.kind = "file" => c.file \in Files) /\ size \in [Files -> 0..MaxSize]
  BY <1>1, FsTypes DEF Typed, FsOK
<1>3. Sought(s) = IF sft[s].pos # sft[s].last_pos /\ hnd[h].is_open /\ c.kind = "file"
                  THEN [c EXCEPT !.at = sft[s].pos] ELSE c
  BY DEF Sought
<1> HIDE DEF c, h
<1>4. Sought(s) \in Channel /\ Sought(s).kind = c.kind /\ Sought(s).file = c.file
  BY <1>1, <1>2, <1>3 DEF Channel
<1>5. Waiting(Sought(s)) \in Nat
  BY <1>2, <1>4, WaitingType
<1> QED BY <1>2, <1>4, <1>5 DEF c, h

LEMMA DosSeekTyped ==
  ASSUME Typed, NEW s \in Sfts, NEW pos \in 0..MaxSize, DosSeek(s, pos)
  PROVE  Typed'
<1>1. sft' = [sft EXCEPT ![s].pos = pos]
      /\ UNCHANGED <<tree, size, chan, hnd, buf, sda, dta, call, lost>> /\ sft[s].open
      /\ call.fn = None
  BY DEF DosSeek, Idle
<1>2. pos \in Nat
  BY SizeAssumption
<1>3. SftOK'
  BY <1>1, <1>2 DEF Typed, SftOK, Sft
<1>4. CallOK'
  BY <1>1 DEF Typed, CallOK, None
<1>5. FsOK' /\ DtaOK' /\ ReadingOK'
  BY <1>1 DEF Typed, FsOK, FsTypeOK, DtaOK, ReadingOK, Reading, Searching, Live
<1> QED BY <1>1, <1>3, <1>4, <1>5 DEF Typed

\* How much of a file a read takes from the device.
Cx(s, asked) ==
  IF sft[s].pos + asked > sft[s].size THEN (sft[s].size - sft[s].pos) % W ELSE asked
Count(s, asked) ==
  IF ~hnd[sft[s].handle].is_open THEN 0
  ELSE IF Waiting(Sought(s)) < Cx(s, asked) THEN Waiting(Sought(s)) ELSE Cx(s, asked)

LEMMA ReadFileSets ==
  ASSUME NEW s, NEW asked, ReadFile(s, asked)
  PROVE  /\ Idle /\ sft[s].open /\ sft[s].mode # "write" /\ Cx(s, asked) > 0
         /\ chan' = [chan EXCEPT ![sft[s].handle] = After(Sought(s), Count(s, asked))]
         /\ sft' = [sft EXCEPT ![s].pos = sft[s].pos + Count(s, asked),
                               ![s].last_pos = sft[s].pos + Count(s, asked)]
         /\ UNCHANGED <<tree, size, hnd, buf, sda, dta, call, calls, lost>>
  BY DEF ReadFile, Cx, Count

LEMMA CountType ==
  ASSUME Typed, NEW s \in Sfts, NEW asked \in 1..MaxSize, sft[s].open
  PROVE  Count(s, asked) \in Nat /\ Count(s, asked) <= Waiting(Sought(s))
<1>1. asked \in Nat /\ sft[s].size \in Nat /\ sft[s].pos \in Nat
  BY SizeAssumption DEF Typed, SftOK, Sft
<1>2. \A x \in Int : x % 65536 \in Nat
  OBVIOUS
<1>3. Cx(s, asked) \in Nat
  <2>1. sft[s].size - sft[s].pos \in Int
    BY <1>1
  <2>2. (sft[s].size - sft[s].pos) % W \in Nat
    BY <1>2, <2>1 DEF W
  <2> QED BY <1>1, <2>2 DEF Cx
<1>4. Waiting(Sought(s)) \in Nat
  BY SoughtType
<1> QED BY <1>3, <1>4 DEF Count

LEMMA ReadFileTyped ==
  ASSUME Typed, NEW s \in Sfts, NEW asked \in 1..MaxSize, ReadFile(s, asked)
  PROVE  Typed'
<1> DEFINE n == Count(s, asked)
           h == sft[s].handle
           dev == After(Sought(s), n)
<1>1. /\ Idle /\ sft[s].open /\ chan' = [chan EXCEPT ![h] = dev]
      /\ sft' = [sft EXCEPT ![s].pos = sft[s].pos + n, ![s].last_pos = sft[s].pos + n]
      /\ UNCHANGED <<tree, size, hnd, buf, sda, dta, call, lost>>
  BY ReadFileSets
<1>2. n \in Nat /\ n <= Waiting(Sought(s))
  BY <1>1, CountType
<1>3. h \in Handles /\ sft[s].pos \in Nat /\ sft \in [Sfts -> Sft]
  BY <1>1 DEF Typed, SftOK, Sft
<1>4. /\ size \in [Files -> 0..MaxSize] /\ chan \in [Handles -> Channel]
  BY FsTypes DEF Typed, FsOK
<1>5. dev \in Channel /\ dev.kind = Sought(s).kind /\ dev.file = Sought(s).file
      /\ (dev.kind = "file" => dev.file \in Files)
  BY <1>1, <1>2, <1>4, SoughtType, ReadType
<1> HIDE DEF n, h, dev
<1>6. sft[s].pos + n \in Nat
  BY <1>2, <1>3
<1>7. SftOK'
  BY <1>1, <1>3, <1>6 DEF Typed, SftOK, Sft
<1>8. chan' \in [Handles -> Channel] /\ \A g \in Handles : chan'[g] \in {chan[g], dev}
  BY <1>1, <1>3, <1>4, <1>5
<1>9. FsTypeOK'
  BY <1>1, <1>8 DEF Typed, FsOK, FsTypeOK, Channel
<1>10. FsOK'
  BY <1>5, <1>8, <1>9 DEF Typed, FsOK
<1>11. CallOK'
  BY <1>1 DEF Typed, CallOK, None, Idle
<1>12. DtaOK' /\ ReadingOK'
  BY <1>1 DEF Typed, DtaOK, ReadingOK, Reading, Searching, Live
<1> QED BY <1>1, <1>7, <1>10, <1>11, <1>12 DEF Typed

LEMMA WriteFileTyped ==
  ASSUME Typed, NEW s \in Sfts, WriteFile(s)
  PROVE  Typed'
<1> DEFINE h == sft[s].handle
           c == Sought(s)
<1>1. Idle /\ sft[s].open /\ UNCHANGED <<tree, hnd, buf, sda, dta, call, lost>>
  BY DEF WriteFile
<1>2. h \in Handles /\ sft[s].pos \in Nat /\ sft \in [Sfts -> Sft] /\ sft[s].size \in Nat
  BY <1>1 DEF Typed, SftOK, Sft
<1>3. /\ size \in [Files -> 0..MaxSize] /\ chan \in [Handles -> Channel]
  BY FsTypes DEF Typed, FsOK
<1>4. c \in Channel /\ (c.kind = "file" => c.file \in Files)
  BY <1>1, SoughtType
<1>5. /\ SftOK' /\ chan' \in [Handles -> Channel] /\ size' \in [Files -> 0..MaxSize]
      /\ \A g \in Handles : chan'[g].kind = "file" => chan'[g].file \in Files
  <2>1. CASE /\ Writable(h, c) /\ c.at < MaxSize
             /\ chan' = [chan EXCEPT ![h] = After(c, 1)]
             /\ size' = [size EXCEPT ![c.file] = IF @ > c.at THEN @ ELSE c.at + 1]
             /\ sft' = [sft EXCEPT ![s].pos = sft[s].pos + 1, ![s].last_pos = sft[s].pos + 1,
                          ![s].size = IF sft[s].pos + 1 > @ THEN sft[s].pos + 1 ELSE @]
    <3>1. c.kind = "file" /\ c.file \in Files /\ c.at \in Nat
      BY <1>4, <2>1 DEF Writable, Channel
    <3>2. After(c, 1) \in Channel /\ After(c, 1).kind = "file" /\ After(c, 1).file = c.file
      <4>1. After(c, 1) = [c EXCEPT !.at = @ + 1]
        BY <3>1 DEF After
      <4> QED BY <1>4, <3>1, <4>1 DEF Channel
    <3> HIDE DEF c, h
    <3>3. chan' \in [Handles -> Channel] /\ \A g \in Handles : chan'[g] \in {chan[g], After(c, 1)}
      BY <1>2, <1>3, <2>1, <3>2
    <3>4. c.at + 1 \in 0..MaxSize
      BY <2>1, <3>1, SizeAssumption
    <3>5. size' \in [Files -> 0..MaxSize]
      BY <1>3, <2>1, <3>1, <3>4
    <3>6. SftOK'
      <4>1. sft[s].pos + 1 \in Nat
        BY <1>2
      <4>2. (IF sft[s].pos + 1 > sft[s].size THEN sft[s].pos + 1 ELSE sft[s].size) \in Nat
        BY <1>2, <4>1
      <4>3. /\ sft' \in [Sfts -> Sft] /\ \A t \in Sfts \ {s} : sft'[t] = sft[t]
            /\ sft'[s].handle = sft[s].handle
        <5> DEFINE n == sft[s].pos + 1
                   z == IF n > sft[s].size THEN n ELSE sft[s].size
        <5>1. sft' = [sft EXCEPT ![s].pos = n, ![s].last_pos = n,
                                 ![s].size = IF n > @ THEN n ELSE @]
          BY <2>1
        <5>2. n \in Nat /\ z \in Nat
          BY <4>1, <4>2
        <5>3. sft' = [sft EXCEPT ![s] = [sft[s] EXCEPT !.pos = n, !.last_pos = n, !.size = z]]
          BY <1>2, <5>1 DEF Sft
        <5> HIDE DEF n, z
        <5>4. sft[s] \in Sft
          BY <1>2
        <5>5. /\ [sft[s] EXCEPT !.pos = n, !.last_pos = n, !.size = z] \in Sft
              /\ [sft[s] EXCEPT !.pos = n, !.last_pos = n, !.size = z].handle = sft[s].handle
          BY <5>2, <5>4 DEF Sft
        <5> QED BY <1>2, <5>3, <5>5
      <4> QED BY <1>1, <1>2, <4>3 DEF Typed, SftOK
    <3> QED BY <3>1, <3>2, <3>3, <3>5, <3>6 DEF Typed, FsOK
  <2>2. CASE /\ chan' = [chan EXCEPT ![h] = c]
             /\ sft' = [sft EXCEPT ![s].failed = TRUE]
             /\ UNCHANGED size
    <3> HIDE DEF c, h
    <3>1. SftOK'
      BY <1>2, <2>2 DEF Typed, SftOK, Sft
    <3>2. chan' \in [Handles -> Channel] /\ \A g \in Handles : chan'[g] \in {chan[g], c}
      BY <1>2, <1>3, <1>4, <2>2
    <3> QED BY <1>3, <1>4, <2>2, <3>1, <3>2 DEF Typed, FsOK
  <2> QED BY <2>1, <2>2 DEF WriteFile
<1>6. FsTypeOK'
  BY <1>1, <1>5 DEF Typed, FsOK, FsTypeOK, Channel
<1>7. FsOK'
  BY <1>5, <1>6 DEF FsOK
<1>8. CallOK'
  BY <1>1 DEF Typed, CallOK, None, Idle
<1>9. DtaOK' /\ ReadingOK'
  BY <1>1 DEF Typed, DtaOK, ReadingOK, Reading, Searching, Live
<1> QED BY <1>1, <1>5, <1>7, <1>8, <1>9 DEF Typed

LEMMA CloseFileTyped ==
  ASSUME Typed, NEW s \in Sfts, CloseFile(s)
  PROVE  Typed'
<1>1. /\ Idle /\ sft[s].open /\ UNCHANGED <<tree, size, buf, sda, dta, call>>
      /\ sft' = [sft EXCEPT ![s] = NoFile]
  BY DEF CloseFile
<1>2. sft[s].handle \in Handles
  BY <1>1 DEF Typed, SftOK
<1>3. FsOK' /\ lost' \subseteq Handles
  <2>1. CASE sft[s].mode = "read"
    <3>1. lost' = lost \cup {sft[s].handle} /\ UNCHANGED <<chan, hnd>>
      BY <2>1 DEF CloseFile
    <3> QED BY <1>1, <1>2, <3>1 DEF Typed, FsOK, FsTypeOK
  <2>2. CASE sft[s].mode # "read"
    <3>1. fujifs_close(sft[s].handle) /\ UNCHANGED lost
      BY <2>2 DEF CloseFile
    <3> QED BY <1>1, <3>1, CloseEffect DEF Typed
  <2> QED BY <2>1, <2>2
<1>4. SftOK'
  <2>1. NoFile \in Sft /\ ~NoFile.open
    BY DEF NoFile, Sft
  <2> QED BY <1>1, <2>1 DEF Typed, SftOK
<1>5. CallOK'
  BY <1>1 DEF Typed, CallOK, None, Idle
<1>6. DtaOK' /\ ReadingOK'
  BY <1>1 DEF Typed, DtaOK, ReadingOK, Reading, Searching, Live, CallOK, Idle, Looping, None
<1> QED BY <1>1, <1>3, <1>4, <1>5, <1>6 DEF Typed

LEMMA StepTyped == Typed /\ [Next]_vars => Typed'
<1> SUFFICES ASSUME Typed, [Next]_vars PROVE Typed'
  OBVIOUS
<1>1. CASE UNCHANGED vars
  BY <1>1 DEF vars, Typed, FsOK, FsTypeOK, DtaOK, SftOK, CallOK, ReadingOK, Reading, Searching, Live
<1>2. CASE Step
  BY <1>2, OpendirTyped, RefillTyped, RecordTyped, ClosedirTyped, DeleteTyped, ReturnsTyped,
     OpenTyped DEF Step
<1>3. CASE Dos
  <2>1. CASE \E p \in Progs, d \in Dirs, n \in Patterns : FindFirst(p, d, n)
    BY <2>1, FindFirstTyped
  <2>2. CASE \E p \in Progs : FindNext(p) \/ Abandon(p)
    BY <2>2, FindNextTyped, AbandonTyped
  <2>3. CASE \E d \in Dirs, n \in Patterns : DeleteFiles(d, n) \/ RenameFiles(d, n)
    BY <2>3, Files1Typed DEF DeleteFiles, RenameFiles
  <2>4. CASE \E d \in Dirs : \/ \E n \in Lookups : Query(d, n) \/ RemoveDir(d, n)
                             \/ \E n \in DirNames : MakeDir(d, n)
                             \/ \E s \in Sfts, n \in FileNames, how \in HowToOpen :
                                  OpenExtended(s, d, n, how)
    BY <2>4, LookUpsTyped
  <2>5. CASE \E s \in Sfts :
               \/ \E pos \in 0..MaxSize : DosSeek(s, pos)
               \/ \E asked \in 1..MaxSize : ReadFile(s, asked)
               \/ WriteFile(s) \/ CloseFile(s)
    BY <2>5, DosSeekTyped, ReadFileTyped, WriteFileTyped, CloseFileTyped
  <2> QED BY <1>3, <2>1, <2>2, <2>3, <2>4, <2>5 DEF Dos
<1> QED BY <1>1, <1>2, <1>3 DEF Next, Finished

\* Whatever functions of redir.c DOS calls, searches that overlap included, and whatever the
\* server refuses, the state keeps its types: position and length of a handle stay within
\* fujifs_buf (fujifs_readdir), every file read or written is in the share, and the search
\* record, the programs' copies of it and the file table hold handles of the table.
THEOREM TypeCorrect == Spec => []TypeOK
<1>1. Spec => []Typed
  BY InitTyped, StepTyped, PTL DEF Spec
<1> QED BY <1>1, TypedImpliesTypeOK, PTL

-----------------------------------------------------------------------------
(* One search at a time.  With ~Nested, DOS runs one search to its end before *)
(* the next, so the record in the SDA is the record its program keeps.     *)

\* There is one search at a time, and what its program keeps of it is what is in the
\* record of the SDA; no other function that uses the record runs before it is over.
OneSearch ==
  \A p \in Progs : Live(p) =>
    /\ dta[p].rec = sda
    /\ \A q \in Progs : Live(q) => q = p
    /\ Searching => call.fn = "find_next" /\ call.who = p

LEMMA InitOneSearch == Init => OneSearch
  BY DEF Init, OneSearch, NoDta, Live

\* The search calls.
LEMMA SearchCallOneSearch ==
  ASSUME Typed, OneSearch, ~Nested,
         \/ \E p \in Progs, d \in Dirs, n \in Patterns : FindFirst(p, d, n)
         \/ \E p \in Progs : FindNext(p) \/ Abandon(p)
         \/ \E fn \in {"delete_files", "rename_files"}, d \in Dirs, n \in Patterns : Files1(fn, d, n)
  PROVE  OneSearch'
<1>1. ASSUME NEW p \in Progs, NEW d \in Dirs, NEW n \in Patterns, FindFirst(p, d, n)
      PROVE  OneSearch'
  <2>1. (\A q \in Progs : ~Live(q)) /\ dta' = [Disturb({}) EXCEPT ![p] = NoDta]
    BY <1>1 DEF FindFirst
  <2>2. /\ DOMAIN Disturb({}) = Progs
        /\ \A q \in Progs : Disturb({})[q].state = dta[q].state
    BY DisturbType DEF Typed
  <2>3. \A q \in Progs : ~Live(q)'
    <3>1. \A q \in Progs : dta'[q] \in {NoDta, Disturb({})[q]}
      BY <2>1, <2>2
    <3> QED BY <2>1, <2>2, <3>1 DEF Live, NoDta
  <2> QED BY <2>3 DEF OneSearch
<1>2. ASSUME NEW p \in Progs, FindNext(p)
      PROVE  OneSearch'
  <2>1. /\ Live(p) /\ sda' = dta[p].rec /\ dta' = Disturb({p})
        /\ Begin("find_next", "refill", None, dta[p].rec.pattern, p, None)
    BY <1>2 DEF FindNext
  <2>2. \A q \in Progs : (Live(q)' <=> Live(q)) /\ dta'[q].rec = dta[q].rec
    BY <2>1, MarkedTyped DEF Typed
  <2>3. call'.fn = "find_next" /\ call'.who = p
    BY <2>1, BeginSets
  <2> QED BY <2>1, <2>2, <2>3 DEF OneSearch
<1>3. ASSUME NEW p \in Progs, Abandon(p)
      PROVE  OneSearch'
  <2>1. dta' = [dta EXCEPT ![p] = NoDta] /\ UNCHANGED <<sda, call>>
    BY <1>3 DEF Abandon
  <2>2. \A q \in Progs : Live(q)' => Live(q) /\ dta'[q] = dta[q]
    BY <2>1 DEF Typed, DtaOK, Live, NoDta
  <2>3. Searching' <=> Searching
    BY <2>1 DEF Searching
  <2> QED BY <2>1, <2>2, <2>3 DEF OneSearch
<1>4. ASSUME NEW fn \in {"delete_files", "rename_files"}, NEW d \in Dirs, NEW n \in Patterns,
             Files1(fn, d, n)
      PROVE  OneSearch'
  <2>1. (\A q \in Progs : ~Live(q)) /\ dta' = Disturb({})
    BY <1>4 DEF Files1
  <2>2. \A q \in Progs : Live(q)' <=> Live(q)
    BY <2>1, MarkedTyped DEF Typed
  <2> QED BY <2>1, <2>2 DEF OneSearch
<1> QED BY <1>1, <1>2, <1>3, <1>4

LEMMA LookUpOneSearch ==
  ASSUME Typed, OneSearch, NEW fn \in {"query", "make_dir", "remove_dir", "open_extended"},
         NEW d, NEW n, NEW who, NEW how, LookUp(fn, d, n, who, how)
  PROVE  OneSearch'
<1>1. dta' = Disturb({}) /\ UNCHANGED sda /\ Begin(fn, "opendir", d, n, who, how)
  BY DEF LookUp
<1>2. \A q \in Progs : (Live(q)' <=> Live(q)) /\ dta'[q].rec = dta[q].rec
  BY <1>1, MarkedTyped DEF Typed
<1>3. ~Searching'
  BY <1>1, BeginSets DEF Searching, SearchCalls
<1> QED BY <1>1, <1>2, <1>3 DEF OneSearch

\* A step that leaves the searches alone, and the function that runs, unless it returns.
LEMMA RunningOneSearch ==
  ASSUME OneSearch, UNCHANGED sda,
         \A q \in Progs : (Live(q)' <=> Live(q)) /\ dta'[q].rec = dta[q].rec,
         call'.fn = None \/ (call'.fn = call.fn /\ call'.who = call.who)
  PROVE  OneSearch'
<1>1. Searching' => Searching /\ call'.fn = call.fn /\ call'.who = call.who
  BY DEF Searching, SearchCalls, None
<1> QED BY <1>1 DEF OneSearch

LEMMA OpendirOneSearch ==
  ASSUME Typed, OneSearch, Opendir
  PROVE  OneSearch'
<1> DEFINE w == Wanted(call.dir, tree[call.dir], call.name)[Len(tree[call.dir])]
<1>1. call.phase = "opendir" /\ call.fn # "find_next" /\ CallOK
      /\ dta' = IF call.fn = "find_first" THEN [dta EXCEPT ![call.who].want = w] ELSE dta
  BY DEF Opendir, Typed, CallOK
<1> HIDE DEF w
<1>2. \A q \in Progs : (Live(q)' <=> Live(q)) /\ dta'[q].rec = dta[q].rec
  BY <1>1 DEF Typed, DtaOK, DtaFields, Live
<1>3. CASE Searching
  BY <1>1, <1>2, <1>3 DEF OneSearch
<1>4. CASE ~Searching
  <2>1. UNCHANGED sda
    BY <1>4 DEF Opendir
  <2>2. PICK h : call' = [call EXCEPT !.handle = h, !.phase = IF h = NoHandle THEN "act" ELSE "refill"]
    BY <1>4 DEF Opendir
  <2>3. call'.fn = call.fn /\ call'.who = call.who
    BY <1>1, <2>2 DEF CallOK, CallFields
  <2> QED BY <1>2, <2>1, <2>3, RunningOneSearch
<1> QED BY <1>3, <1>4

LEMMA RecordOneSearch ==
  ASSUME Typed, OneSearch, Record
  PROVE  OneSearch'
<1>1. UNCHANGED sda /\ CallOK /\ call.phase = "record"
  BY DEF Record, Typed
<1>2. PICK e \in Files \cup {Junk, End} :
        CASE e = End -> Goto("closedir") /\ UNCHANGED dta
          [] e # End /\ ~Matches(e, call.name, call.fn) -> Goto("refill") /\ UNCHANGED dta
          [] e # End /\ Matches(e, call.name, call.fn) ->
               CASE call.fn \in {"find_first", "find_next"} -> Found(e)
                 [] call.fn \in {"delete_files", "rename_files"} ->
                      call' = [call EXCEPT !.phase = "act", !.entry = e] /\ UNCHANGED dta
                 [] OTHER ->
                      call' = [call EXCEPT !.phase = "closedir", !.entry = e] /\ UNCHANGED dta
  BY DEF Record
<1>3. CASE call.fn \in {"find_first", "find_next"} /\ Found(e)
  <2>1. /\ call.who \in Progs
        /\ dta' = [dta EXCEPT ![call.who].state = "live", ![call.who].rec = sda,
                              ![call.who].got = Append(@, e)]
        /\ Return
    BY <1>1, <1>3 DEF Found, CallOK
  <2>2. dta'[call.who].rec = sda /\ \A q \in Progs \ {call.who} : dta'[q] = dta[q]
    BY <2>1 DEF Typed, DtaOK, DtaFields
  <2>3. \A q \in Progs : Live(q) => q = call.who
    BY <1>1, <1>3 DEF OneSearch, Searching, SearchCalls
  <2>4. \A q \in Progs : Live(q)' => q = call.who
    BY <2>2, <2>3 DEF Live
  <2>5. ~Searching'
    BY <2>1, ReturnSets DEF Searching, SearchCalls, None
  <2> QED BY <1>1, <2>2, <2>4, <2>5 DEF OneSearch
<1>4. CASE ~(call.fn \in {"find_first", "find_next"} /\ Found(e))
  <2>1. /\ UNCHANGED dta
        /\ \/ Goto("closedir") \/ Goto("refill")
           \/ call' = [call EXCEPT !.phase = "act", !.entry = e]
           \/ call' = [call EXCEPT !.phase = "closedir", !.entry = e]
    BY <1>2, <1>4
  <2>2. call'.fn = call.fn /\ call'.who = call.who
    BY <1>1, <2>1 DEF Goto, CallOK, CallFields
  <2> QED BY <1>1, <2>1, <2>2, RunningOneSearch DEF Live
<1> QED BY <1>3, <1>4

LEMMA ClosedirOneSearch ==
  ASSUME Typed, OneSearch, Closedir
  PROVE  OneSearch'
<1>1. CASE Searching
  <2>1. dta' = IF call.who \in Progs THEN [dta EXCEPT ![call.who].state = "done"] ELSE dta
    BY <1>1 DEF Closedir
  <2>2. \A q \in Progs : Live(q) => q = call.who
    BY <1>1 DEF OneSearch
  <2>3. \A q \in Progs : ~Live(q)'
    BY <2>1, <2>2 DEF Typed, DtaOK, DtaFields, Live
  <2> QED BY <2>3 DEF OneSearch
<1>2. CASE ~Searching
  <2>1. UNCHANGED <<sda, dta>> /\ call' = [call EXCEPT !.phase = "act", !.handle = NoHandle]
    BY <1>2 DEF Closedir
  <2>2. call'.fn = call.fn /\ call'.who = call.who
    BY <2>1 DEF Typed, CallOK, CallFields
  <2> QED BY <2>1, <2>2, RunningOneSearch DEF Live
<1> QED BY <1>1, <1>2

\* Every other step.
LEMMA OtherOneSearch ==
  ASSUME Typed, OneSearch,
         \/ Refill \/ Delete \/ Rename \/ Answer \/ Mkdir \/ Rmdir \/ Open \/ UNCHANGED vars
         \/ \E s \in Sfts :
              \/ \E pos \in 0..MaxSize : DosSeek(s, pos)
              \/ \E asked \in 1..MaxSize : ReadFile(s, asked)
              \/ WriteFile(s) \/ CloseFile(s)
  PROVE  OneSearch'
<1>1. UNCHANGED <<sda, dta>>
  BY ReadFileSets DEF Refill, Delete, Rename, Answer, Mkdir, Rmdir, Open, DosSeek, WriteFile,
     CloseFile, vars
<1>2. \/ Return \/ Goto("refill") \/ Goto("record") \/ Goto("closedir") \/ UNCHANGED call
  <2>1. Refill => Goto("record") \/ Goto("closedir")
    BY DEF Refill
  <2>2. Delete => Goto("refill") \/ Return
    BY DEF Delete
  <2>3. Rename \/ Answer \/ Mkdir \/ Rmdir \/ Open => Return
    BY DEF Rename, Answer, Mkdir, Rmdir, Open
  <2> QED BY <2>1, <2>2, <2>3, ReadFileSets DEF DosSeek, WriteFile, CloseFile, vars
<1>3. \/ call'.fn = None
      \/ call'.fn = call.fn /\ call'.who = call.who
  BY <1>2, ReturnSets, GotoSets DEF Typed
<1> QED BY <1>1, <1>3, RunningOneSearch DEF Live

LEMMA StepOneSearch ==
  ASSUME Typed, OneSearch, ~Nested, [Next]_vars
  PROVE  OneSearch'
<1>1. CASE Step \/ UNCHANGED vars
  BY <1>1, OpendirOneSearch, RecordOneSearch, ClosedirOneSearch, OtherOneSearch DEF Step
<1>2. CASE Dos
  BY <1>2, SearchCallOneSearch, LookUpOneSearch, OtherOneSearch
     DEF Dos, DeleteFiles, RenameFiles, Query, MakeDir, RemoveDir, OpenExtended
<1> QED BY <1>1, <1>2 DEF Next, Finished

-----------------------------------------------------------------------------
(* Who has which handle.                                                   *)

\* The handles a directory is read through are open, are not the same and none of those
\* that close_file left open, which are open too.
Loop == {sda.dir_handle, call.handle} \ {NoHandle}
LoopsOwn ==
  /\ \A h \in Loop \cup lost : hnd[h].is_open
  /\ Loop \cap lost = {}
  /\ sda.dir_handle = call.handle => call.handle = NoHandle

Owned == LoopsOwn /\ HandlesApart /\ HandlesAccounted /\ OffsetsAgree

LEMMA InitOwned == Init => Owned
<1> SUFFICES ASSUME Init PROVE Owned
  OBVIOUS
<1>1. sda.dir_handle = NoHandle /\ call.handle = NoHandle /\ lost = {}
  BY DEF Init, NoSearch, NoCall
<1>2. (\A s \in Sfts : ~sft[s].open) /\ \A h \in Handles : ~hnd[h].is_open
  BY DEF Init, FsInit, NoFile, FreeHandle
<1> QED
  BY <1>1, <1>2 DEF Owned, LoopsOwn, Loop, HandlesApart, HandlesAccounted, OffsetsAgree

\* The files' handles, apart from what their devices do.
LEMMA FileHandles ==
  ASSUME Typed, Owned, NEW s \in Sfts, sft[s].open
  PROVE  /\ sft[s].handle \in Handles /\ hnd[sft[s].handle].is_open
         /\ sft[s].handle \notin {sda.dir_handle, call.handle} \cup lost
         /\ \A t \in Sfts \ {s} : sft[t].open => sft[t].handle # sft[s].handle
  BY DEF Owned, HandlesApart

\* A step that opens and closes nothing, and moves no open file's device.
LEMMA OwnedStays ==
  ASSUME Typed, Owned, UNCHANGED <<sft, lost>>,
         sda'.dir_handle = sda.dir_handle, call'.handle = call.handle,
         \A g \in Handles : hnd'[g].is_open <=> hnd[g].is_open,
         \A s \in Sfts : sft[s].open => chan'[sft[s].handle] = chan[sft[s].handle]
  PROVE  Owned'
<1>1. sda.dir_handle \in Handles \cup {NoHandle} /\ call.handle \in Handles \cup {NoHandle}
      /\ lost \subseteq Handles
  BY DEF Typed, SearchRec, CallOK
<1>2. Loop' = Loop /\ Owners' = Owners /\ Loop \cup lost \subseteq Handles
  BY <1>1 DEF Loop, Owners
<1>3. LoopsOwn'
  BY <1>2 DEF Owned, LoopsOwn
<1>4. HandlesApart'
  <2> SUFFICES ASSUME NEW s \in Sfts, sft[s].open
               PROVE  /\ sft[s].handle \in Handles /\ hnd'[sft[s].handle].is_open
                      /\ sft[s].handle \notin {sda.dir_handle, call.handle} \cup lost
                      /\ \A t \in Sfts \ {s} : sft[t].open => sft[t].handle # sft[s].handle
                      /\ \/ chan[sft[s].handle].kind = "file" /\ chan[sft[s].handle].file = sft[s].file
                         \/ chan[sft[s].handle].kind = "none" /\ "file" \in Refuse
    BY DEF HandlesApart
  <2> QED BY DEF Owned, HandlesApart
<1>5. HandlesAccounted'
  BY <1>2 DEF Owned, HandlesAccounted
<1>6. OffsetsAgree'
  BY DEF Owned, OffsetsAgree
<1> QED BY <1>3, <1>4, <1>5, <1>6 DEF Owned

LEMMA NewSearchOwned ==
  ASSUME Typed, Owned, NEW n \in Patterns, NewSearch(n), UNCHANGED <<sft, lost>>,
         call.handle = NoHandle, call'.handle = NoHandle
  PROVE  Owned'
<1> USE HandlesAreNumbers
<1>1. ClosesOnly(sda.dir_handle) /\ sda'.dir_handle = NoHandle
  BY NewSearchTyped
<1>2. lost \subseteq Handles
  BY DEF Typed
<1>3. LoopsOwn'
  BY <1>1, <1>2 DEF Owned, LoopsOwn, Loop, ClosesOnly
<1>4. \A s \in Sfts : sft[s].open => /\ sft[s].handle \in Handles \ {sda.dir_handle}
                                     /\ hnd'[sft[s].handle] = hnd[sft[s].handle]
                                     /\ chan'[sft[s].handle] = chan[sft[s].handle]
  BY <1>1 DEF Owned, HandlesApart, ClosesOnly
<1>5. HandlesApart'
  BY <1>1, <1>4 DEF Owned, HandlesApart
<1>6. HandlesAccounted'
  BY <1>1 DEF Owned, HandlesAccounted, Owners, ClosesOnly
<1>7. OffsetsAgree'
  BY <1>4 DEF Owned, OffsetsAgree
<1> QED BY <1>3, <1>5, <1>6, <1>7 DEF Owned

LEMMA SearchCallOwned ==
  ASSUME Typed, Owned, OneSearch, ~Nested,
         \/ \E p \in Progs, d \in Dirs, n \in Patterns : FindFirst(p, d, n)
         \/ \E p \in Progs : FindNext(p) \/ Abandon(p)
         \/ \E fn \in {"delete_files", "rename_files"}, d \in Dirs, n \in Patterns : Files1(fn, d, n)
  PROVE  Owned'
<1>1. ASSUME Idle
      PROVE  call.handle = NoHandle
  BY <1>1 DEF Idle, Typed, ReadingOK, CallOK, Looping
<1>2. ASSUME NEW p \in Progs, NEW d \in Dirs, NEW n \in Patterns, FindFirst(p, d, n)
      PROVE  Owned'
  <2>1. Idle /\ NewSearch(n) /\ UNCHANGED <<sft, lost>> /\ call'.handle = NoHandle
    BY <1>2, BeginSets DEF FindFirst, Called
  <2> QED BY <1>1, <2>1, NewSearchOwned
<1>3. ASSUME NEW p \in Progs, FindNext(p)
      PROVE  Owned'
  <2>1. /\ Idle /\ Live(p) /\ sda' = dta[p].rec /\ call'.handle = NoHandle
        /\ UNCHANGED <<chan, hnd, sft, lost>>
    BY <1>3, BeginSets DEF FindNext
  <2>2. sda' = sda
    BY <2>1 DEF OneSearch
  <2> QED BY <1>1, <2>1, <2>2, OwnedStays
<1>4. ASSUME NEW p \in Progs, Abandon(p)
      PROVE  Owned'
  BY <1>4, OwnedStays DEF Abandon
<1>5. ASSUME NEW fn \in {"delete_files", "rename_files"}, NEW d \in Dirs, NEW n \in Patterns,
             Files1(fn, d, n)
      PROVE  Owned'
  <2>1. Idle /\ NewSearch(n) /\ UNCHANGED <<sft, lost>> /\ call'.handle = NoHandle
    BY <1>5, BeginSets DEF Files1, Called
  <2> QED BY <1>1, <2>1, NewSearchOwned
<1> QED BY <1>2, <1>3, <1>4, <1>5

LEMMA LookUpOwned ==
  ASSUME Typed, Owned, NEW fn, NEW d, NEW n, NEW who, NEW how, LookUp(fn, d, n, who, how)
  PROVE  Owned'
<1>1. call.handle = NoHandle
  BY DEF LookUp, Called, Idle, Typed, ReadingOK, CallOK, Looping
<1>2. call'.handle = NoHandle /\ UNCHANGED <<chan, hnd, sda, sft, lost>>
  BY BeginSets DEF LookUp
<1> QED BY <1>1, <1>2, OwnedStays

\* A handle that was not open becomes the loop's or a new file's.
LEMMA OpenedOwned ==
  ASSUME Typed, Owned, NEW h \in Handles \cup {NoHandle}, OpensOnly(h), UNCHANGED lost,
         \/ /\ UNCHANGED sft
            /\ \/ sda'.dir_handle = h /\ sda.dir_handle = NoHandle /\ call'.handle = call.handle
               \/ call'.handle = h /\ call.handle = NoHandle /\ sda'.dir_handle = sda.dir_handle
         \/ /\ h \in Handles /\ sda'.dir_handle = sda.dir_handle /\ call'.handle = call.handle
            /\ \E s \in Sfts :
                 /\ ~sft[s].open /\ sft'[s].open /\ sft'[s].handle = h /\ sft'[s].last_pos = 0
                 /\ \A t \in Sfts \ {s} : sft'[t] = sft[t]
                 /\ \/ chan'[h] = FileChan(sft'[s].file)
                    \/ chan'[h] = NoChan /\ "file" \in Refuse
  PROVE  Owned'
<1> USE HandlesAreNumbers
<1>1. sda.dir_handle \in Handles \cup {NoHandle} /\ call.handle \in Handles \cup {NoHandle}
      /\ lost \subseteq Handles
  BY DEF Typed, SearchRec, CallOK
<1>2. \A g \in Loop \cup lost : g \in Handles /\ hnd[g].is_open /\ hnd'[g].is_open /\ g # h
  BY <1>1 DEF Owned, LoopsOwn, Loop, OpensOnly
<1>3. \A s \in Sfts : sft[s].open =>
        /\ sft[s].handle \in Handles /\ sft[s].handle # h /\ hnd'[sft[s].handle].is_open
        /\ chan'[sft[s].handle] = chan[sft[s].handle]
  BY DEF Owned, HandlesApart, OpensOnly
<1>4. CASE /\ UNCHANGED sft
           /\ \/ sda'.dir_handle = h /\ sda.dir_handle = NoHandle /\ call'.handle = call.handle
              \/ call'.handle = h /\ call.handle = NoHandle /\ sda'.dir_handle = sda.dir_handle
  <2>1. LoopsOwn'
    BY <1>1, <1>2, <1>4 DEF Owned, LoopsOwn, Loop, OpensOnly
  <2>2. HandlesApart'
    BY <1>3, <1>4 DEF Owned, HandlesApart
  <2>3. HandlesAccounted'
    BY <1>4 DEF Owned, HandlesAccounted, Owners, OpensOnly
  <2>4. OffsetsAgree'
    BY <1>3, <1>4 DEF Owned, OffsetsAgree
  <2> QED BY <2>1, <2>2, <2>3, <2>4 DEF Owned
<1>5. CASE /\ h \in Handles /\ sda'.dir_handle = sda.dir_handle /\ call'.handle = call.handle
           /\ \E s \in Sfts :
                /\ ~sft[s].open /\ sft'[s].open /\ sft'[s].handle = h /\ sft'[s].last_pos = 0
                /\ \A t \in Sfts \ {s} : sft'[t] = sft[t]
                /\ \/ chan'[h] = FileChan(sft'[s].file)
                   \/ chan'[h] = NoChan /\ "file" \in Refuse
  <2>1. PICK s \in Sfts :
                /\ ~sft[s].open /\ sft'[s].open /\ sft'[s].handle = h /\ sft'[s].last_pos = 0
                /\ \A t \in Sfts \ {s} : sft'[t] = sft[t]
                /\ \/ chan'[h] = FileChan(sft'[s].file)
                   \/ chan'[h] = NoChan /\ "file" \in Refuse
    BY <1>5
  <2>2. LoopsOwn'
    BY <1>2, <1>5 DEF Owned, LoopsOwn, Loop
  <2>3. h \in Handles /\ hnd'[h].is_open /\ ~hnd[h].is_open
        /\ h \notin {sda.dir_handle, call.handle} \cup lost
    BY <1>2, <1>5 DEF OpensOnly, Owned, LoopsOwn, Loop
  <2>4. /\ chan'[h].kind = "file" => chan'[h].at = 0
        /\ \/ chan'[h].kind = "file" /\ chan'[h].file = sft'[s].file
           \/ chan'[h].kind = "none" /\ "file" \in Refuse
    <3>1. NoChan.kind = "none"
      BY DEF NoChan
    <3>2. LET c == FileChan(sft'[s].file)
          IN  c.kind = "file" /\ c.at = 0 /\ c.file = sft'[s].file
      BY DEF FileChan, NoChan
    <3> QED BY <2>1, <3>1, <3>2
  <2>5. HandlesApart'
    <3> SUFFICES ASSUME NEW t \in Sfts, sft'[t].open
                 PROVE  /\ sft'[t].handle \in Handles /\ hnd'[sft'[t].handle].is_open
                        /\ sft'[t].handle \notin {sda'.dir_handle, call'.handle} \cup lost'
                        /\ \A r \in Sfts \ {t} : sft'[r].open => sft'[r].handle # sft'[t].handle
                        /\ \/ chan'[sft'[t].handle].kind = "file"
                              /\ chan'[sft'[t].handle].file = sft'[t].file
                           \/ chan'[sft'[t].handle].kind = "none" /\ "file" \in Refuse
      BY DEF HandlesApart
    <3>1. CASE t = s
      BY <1>3, <1>5, <2>1, <2>3, <2>4, <3>1
    <3>2. CASE t # s
      BY <1>3, <1>5, <2>1, <3>2 DEF Owned, HandlesApart
    <3> QED BY <3>1, <3>2
  <2>6. HandlesAccounted'
    <3> SUFFICES ASSUME NEW g \in Handles, hnd'[g].is_open PROVE g \in Owners' \cup lost'
      BY DEF HandlesAccounted
    <3>1. CASE g = h
      BY <2>1, <3>1 DEF Owners
    <3>2. CASE g # h
      <4>1. g \in Owners \cup lost
        BY <3>2 DEF Owned, HandlesAccounted, OpensOnly
      <4> QED BY <1>5, <2>1, <4>1 DEF Owners
    <3> QED BY <3>1, <3>2
  <2>7. OffsetsAgree'
    <3> SUFFICES ASSUME NEW t \in Sfts, sft'[t].open, ~sft'[t].failed,
                        chan'[sft'[t].handle].kind = "file"
                 PROVE  chan'[sft'[t].handle].at = sft'[t].last_pos
      BY DEF OffsetsAgree
    <3>1. CASE t = s
      BY <2>1, <2>4, <3>1
    <3>2. CASE t # s
      <4>1. sft'[t] = sft[t] /\ chan'[sft[t].handle] = chan[sft[t].handle]
        BY <1>3, <2>1, <3>2
      <4> QED BY <4>1 DEF Owned, OffsetsAgree
    <3> QED BY <3>1, <3>2
  <2> QED BY <2>2, <2>5, <2>6, <2>7 DEF Owned
<1> QED BY <1>4, <1>5

LEMMA OpendirOwned ==
  ASSUME Typed, Owned, Opendir
  PROVE  Owned'
<1>1. call.phase = "opendir" /\ UNCHANGED <<sft, lost>> /\ call.dir \in Dirs
      /\ call.handle = NoHandle /\ CallOK
  BY DEF Opendir, Typed, CallOK, Calls, None, ReadingOK, Looping
<1>2. PICK h \in Handles \cup {NoHandle} :
        /\ fujifs_opendir(call.dir, h)
        /\ IF Searching
           THEN /\ IF h = NoHandle THEN Return ELSE Goto("refill")
                /\ sda' = [sda EXCEPT !.dir_handle = h]
           ELSE /\ call' = [call EXCEPT !.handle = h,
                                        !.phase = IF h = NoHandle THEN "act" ELSE "refill"]
                /\ UNCHANGED sda
  BY DEF Opendir
<1>3. OpensOnly(h)
  BY <1>1, <1>2, OpendirEffect DEF Typed
<1>4. CASE Searching
  <2>1. sda'.dir_handle = h /\ sda.dir_handle = NoHandle
    BY <1>1, <1>2, <1>4 DEF Typed, SearchRec, ReadingOK
  <2>2. call'.handle = call.handle
    BY <1>1, <1>2, <1>4, ReturnSets, GotoSets
  <2> QED BY <1>1, <1>3, <2>1, <2>2, OpenedOwned
<1>5. CASE ~Searching
  <2>1. call'.handle = h /\ sda' = sda
    BY <1>1, <1>2, <1>5 DEF CallOK, CallFields
  <2> QED BY <1>1, <1>3, <2>1, OpenedOwned
<1> QED BY <1>4, <1>5

LEMMA OpenOwned ==
  ASSUME Typed, Owned, Open
  PROVE  Owned'
<1> DEFINE f == <<call.dir, call.name>>
<1>1. /\ call.fn = "open_extended" /\ Return /\ UNCHANGED <<sda, lost>>
      /\ call.who \in Sfts /\ ~sft[call.who].open
  BY DEF Open, Typed, CallOK
<1>2. f \in Files
  BY <1>1 DEF Typed, CallOK, Calls, Files, Names
<1>3. call'.handle = call.handle
  BY <1>1, ReturnSets DEF Open, Typed, ReadingOK, Looping
<1>4. CASE UNCHANGED <<fsVars, sft>>
  BY <1>1, <1>3, <1>4, OwnedStays DEF fsVars
<1>5. CASE ~UNCHANGED <<fsVars, sft>>
  <2>1. PICK h \in Handles \cup {NoHandle} :
          /\ fujifs_open(f, call.how.mode, h)
          /\ sft' = IF h = NoHandle THEN sft ELSE [sft EXCEPT ![call.who] = Opened(h, f)]
    BY <1>5 DEF Open
  <2> HIDE DEF f
  <2>2. OpensOnly(h) /\ (h \in Handles => \/ chan'[h] = FileChan(f)
                                          \/ chan'[h] = NoChan /\ "file" \in Refuse)
    BY <1>2, <2>1, OpenEffect DEF Typed
  <2>3. CASE h = NoHandle
    <3>1. \A g \in Handles : hnd'[g].is_open <=> hnd[g].is_open
      BY <2>2, <2>3, HandlesAreNumbers DEF OpensOnly
    <3>2. \A s \in Sfts : sft[s].open => chan'[sft[s].handle] = chan[sft[s].handle]
      BY <2>2, FileHandles DEF OpensOnly
    <3> QED BY <1>1, <1>3, <2>1, <2>3, <3>1, <3>2, OwnedStays
  <2>4. CASE h # NoHandle
    <3>1. h \in Handles /\ sft' = [sft EXCEPT ![call.who] = Opened(h, f)]
      BY <2>1, <2>4
    <3>2. /\ Opened(h, f).open /\ Opened(h, f).handle = h /\ Opened(h, f).file = f
          /\ Opened(h, f).last_pos = 0
      BY <1>1, <1>2, <3>1, OpenedType
    <3>3. sft'[call.who] = Opened(h, f) /\ \A t \in Sfts \ {call.who} : sft'[t] = sft[t]
      BY <1>1, <3>1 DEF Typed, SftOK
    <3> HIDE DEF LoopsOwn
    <3>4. /\ ~sft[call.who].open /\ sft'[call.who].open /\ sft'[call.who].handle = h
          /\ sft'[call.who].last_pos = 0
          /\ \/ chan'[h] = FileChan(sft'[call.who].file)
             \/ chan'[h] = NoChan /\ "file" \in Refuse
      BY <1>1, <2>2, <3>1, <3>2, <3>3
    <3> QED BY <1>1, <1>3, <2>2, <3>1, <3>3, <3>4, OpenedOwned
  <2> QED BY <2>3, <2>4
<1> QED BY <1>4, <1>5

\* The directory that is read through the loop's handle is nobody's file.
LEMMA ReadOwned ==
  ASSUME Typed, Owned, call.phase \in Looping, ReadsOnly(Reading), UNCHANGED <<sda, sft, lost>>,
         call'.handle = call.handle
  PROVE  Owned'
<1>1. Reading \in Handles /\ Reading \in {sda.dir_handle, call.handle}
  BY DEF Typed, ReadingOK, Reading
<1>2. \A s \in Sfts : sft[s].open => chan'[sft[s].handle] = chan[sft[s].handle]
  BY <1>1, FileHandles DEF ReadsOnly
<1> QED BY <1>2, OwnedStays DEF ReadsOnly

LEMMA RefillOwned ==
  ASSUME Typed, Owned, Refill
  PROVE  Owned'
<1>1. call.phase \in Looping /\ UNCHANGED <<sda, sft, lost>> /\ Reading \in Handles
  BY DEF Refill, Typed, ReadingOK, Looping
<1>2. PICK more \in BOOLEAN :
        ReaddirRefill(Reading, more) /\ Goto(IF more THEN "record" ELSE "closedir")
  BY DEF Refill
<1>3. ReadsOnly(Reading) /\ call'.handle = call.handle
  BY <1>1, <1>2, RefillEffect, GotoSets DEF Typed
<1> QED BY <1>1, <1>3, ReadOwned

LEMMA RecordOwned ==
  ASSUME Typed, Owned, Record
  PROVE  Owned'
<1>1. call.phase \in Looping /\ UNCHANGED <<sda, sft, lost>> /\ Reading \in Handles
      /\ hnd[Reading].position < hnd[Reading].length /\ CallOK /\ call.phase = "record"
  BY DEF Record, Typed, ReadingOK, Looping
<1>2. PICK e \in Files \cup {Junk, End} :
        /\ ReaddirRecord(Reading, e)
        /\ CASE e = End -> Goto("closedir") /\ UNCHANGED dta
             [] e # End /\ ~Matches(e, call.name, call.fn) -> Goto("refill") /\ UNCHANGED dta
             [] e # End /\ Matches(e, call.name, call.fn) ->
                  CASE call.fn \in {"find_first", "find_next"} -> Found(e)
                    [] call.fn \in {"delete_files", "rename_files"} ->
                         call' = [call EXCEPT !.phase = "act", !.entry = e] /\ UNCHANGED dta
                    [] OTHER ->
                         call' = [call EXCEPT !.phase = "closedir", !.entry = e] /\ UNCHANGED dta
  BY DEF Record
<1>3. ReadsOnly(Reading)
  BY <1>1, <1>2, RecordEffect DEF Typed
<1>4. call'.handle = call.handle
  <2>1. CASE call.fn \in {"find_first", "find_next"} /\ Found(e)
    BY <2>1, ReturnSets DEF Found, Typed, ReadingOK, Searching, SearchCalls
  <2>2. CASE ~(call.fn \in {"find_first", "find_next"} /\ Found(e))
    <3>1. \/ Goto("closedir") \/ Goto("refill")
          \/ call' = [call EXCEPT !.phase = "act", !.entry = e]
          \/ call' = [call EXCEPT !.phase = "closedir", !.entry = e]
      BY <1>2, <2>2
    <3> QED BY <1>1, <3>1, GotoSets DEF CallOK, CallFields
  <2> QED BY <2>1, <2>2
<1> QED BY <1>1, <1>3, <1>4, ReadOwned

LEMMA ClosedirOwned ==
  ASSUME Typed, Owned, Closedir
  PROVE  Owned'
<1> USE HandlesAreNumbers
<1>1. call.phase = "closedir" /\ UNCHANGED <<tree, size, buf, sft, lost>> /\ fujifs_close(Reading)
      /\ Reading \in Handles /\ Reading \in {sda.dir_handle, call.handle}
  BY DEF Closedir, Typed, ReadingOK, Looping, Reading
<1>2. ClosesOnly(Reading)
  BY <1>1, CloseEffect DEF Typed
<1>3. /\ {sda'.dir_handle, call'.handle} = ({sda.dir_handle, call.handle} \ {Reading}) \cup {NoHandle}
  <2>1. CASE Searching
    <3>1. sda' = [sda EXCEPT !.dir_handle = NoHandle] /\ Return
      BY <2>1 DEF Closedir
    <3>2. sda'.dir_handle = NoHandle /\ call'.handle = NoHandle /\ call.handle = NoHandle
      BY <2>1, <3>1, ReturnSets DEF Typed, SearchRec, ReadingOK
    <3> QED BY <1>1, <2>1, <3>2 DEF Reading
  <2>2. CASE ~Searching
    <3>1. UNCHANGED sda /\ call' = [call EXCEPT !.phase = "act", !.handle = NoHandle]
      BY <2>2 DEF Closedir
    <3>2. call'.handle = NoHandle /\ Reading = call.handle
      BY <2>2, <3>1 DEF Typed, CallOK, CallFields, Reading
    <3> QED BY <1>1, <3>1, <3>2 DEF Owned, LoopsOwn
  <2> QED BY <2>1, <2>2
<1>4. \A s \in Sfts : sft[s].open => /\ sft[s].handle \in Handles \ {Reading}
                                     /\ hnd'[sft[s].handle] = hnd[sft[s].handle]
                                     /\ chan'[sft[s].handle] = chan[sft[s].handle]
  BY <1>1, <1>2, FileHandles DEF ClosesOnly
<1>5. LoopsOwn'
  <2>1. Loop' = Loop \ {Reading} /\ Loop \cup lost \subseteq Handles /\ Reading \in Loop
    BY <1>1, <1>3 DEF Loop, Typed, SearchRec, CallOK
  <2>2. \A h \in Loop' \cup lost' : hnd'[h].is_open
    BY <1>1, <1>2, <2>1 DEF Owned, LoopsOwn, ClosesOnly
  <2>3. sda'.dir_handle = call'.handle => call'.handle = NoHandle
    BY <1>3 DEF Owned, LoopsOwn
  <2> QED BY <1>1, <2>1, <2>2, <2>3 DEF Owned, LoopsOwn
<1>6. HandlesApart'
  <2> SUFFICES ASSUME NEW s \in Sfts, sft[s].open
               PROVE  /\ sft[s].handle \in Handles /\ hnd'[sft[s].handle].is_open
                      /\ sft[s].handle \notin {sda'.dir_handle, call'.handle} \cup lost
                      /\ \A t \in Sfts \ {s} : sft[t].open => sft[t].handle # sft[s].handle
                      /\ \/ chan'[sft[s].handle].kind = "file" /\ chan'[sft[s].handle].file = sft[s].file
                         \/ chan'[sft[s].handle].kind = "none" /\ "file" \in Refuse
    BY <1>1 DEF HandlesApart
  <2>1. sft[s].handle # NoHandle /\ sft[s].handle \notin {sda.dir_handle, call.handle} \cup lost
    BY FileHandles
  <2> QED BY <1>3, <1>4, <2>1 DEF Owned, HandlesApart
<1>7. HandlesAccounted'
  <2> SUFFICES ASSUME NEW g \in Handles, hnd'[g].is_open PROVE g \in Owners' \cup lost'
    BY DEF HandlesAccounted
  <2>1. g # Reading /\ g \in Owners \cup lost
    BY <1>2 DEF Owned, HandlesAccounted, ClosesOnly
  <2> QED BY <1>1, <1>3, <2>1 DEF Owners
<1>8. OffsetsAgree'
  BY <1>1, <1>4 DEF Owned, OffsetsAgree
<1> QED BY <1>5, <1>6, <1>7, <1>8 DEF Owned

LEMMA ActOwned ==
  ASSUME Typed, Owned, Delete \/ Rename \/ Answer \/ Mkdir \/ Rmdir \/ UNCHANGED vars
  PROVE  Owned'
<1>1. UNCHANGED <<chan, hnd, sda, sft, lost>>
  BY DEF Delete, fujifs_unlink, TakeAway, Rename, Answer, Mkdir, fujifs_mkdir, Rmdir, fujifs_rmdir,
         fsVars, vars
<1>2. call'.handle = call.handle
  <2>1. CASE call.phase = "act"
    <3>1. call.handle = NoHandle /\ CallOK
      BY <2>1 DEF Typed, ReadingOK, Looping
    <3>2. Return \/ Goto("refill") \/ UNCHANGED call
      <4>1. Delete => Goto("refill") \/ Return
        BY DEF Delete
      <4> QED BY <4>1 DEF Rename, Answer, Mkdir, Rmdir, vars
    <3> QED BY <3>1, <3>2, ReturnSets, GotoSets
  <2>2. CASE call.phase # "act"
    BY <2>2 DEF Delete, Rename, Answer, Mkdir, Rmdir, vars
  <2> QED BY <2>1, <2>2
<1> QED BY <1>1, <1>2, OwnedStays

\* A transfer, or DOS's own seek: one file's device and entry change, and nothing is
\* opened or closed.
LEMMA TransferOwned ==
  ASSUME Typed, Owned, NEW s \in Sfts, sft[s].open, UNCHANGED <<hnd, sda, call, lost>>,
         DOMAIN sft' = Sfts, sft'[s].open, sft'[s].handle = sft[s].handle,
         sft'[s].file = sft[s].file,
         \A t \in Sfts \ {s} : sft'[t] = sft[t],
         \A g \in Handles \ {sft[s].handle} : chan'[g] = chan[g],
         NEW c, chan'[sft[s].handle] = c,
         c.kind = chan[sft[s].handle].kind, c.file = chan[sft[s].handle].file,
         ~sft'[s].failed /\ c.kind = "file" => c.at = sft'[s].last_pos
  PROVE  Owned'
<1>1. LoopsOwn'
  BY DEF Owned, LoopsOwn, Loop
<1>2. HandlesApart'
  <2> SUFFICES ASSUME NEW t \in Sfts, sft'[t].open
               PROVE  /\ sft'[t].handle \in Handles /\ hnd[sft'[t].handle].is_open
                      /\ sft'[t].handle \notin {sda.dir_handle, call.handle} \cup lost
                      /\ \A r \in Sfts \ {t} : sft'[r].open => sft'[r].handle # sft'[t].handle
                      /\ \/ chan'[sft'[t].handle].kind = "file"
                            /\ chan'[sft'[t].handle].file = sft'[t].file
                         \/ chan'[sft'[t].handle].kind = "none" /\ "file" \in Refuse
    BY DEF HandlesApart
  <2>1. \A r \in Sfts : (sft'[r].open <=> sft[r].open) /\ sft'[r].handle = sft[r].handle
                        /\ sft'[r].file = sft[r].file
    BY DEF Typed, SftOK, Sft
  <2>2. sft[t].open /\ sft[t].handle \in Handles
        /\ chan'[sft[t].handle].kind = chan[sft[t].handle].kind
        /\ chan'[sft[t].handle].file = chan[sft[t].handle].file
    BY <2>1 DEF Typed, SftOK
  <2> QED BY <2>1, <2>2 DEF Owned, HandlesApart
<1>3. HandlesAccounted'
  <2>1. Owners' = Owners
    BY DEF Owners
  <2> QED BY <2>1 DEF Owned, HandlesAccounted
<1>4. OffsetsAgree'
  <2> SUFFICES ASSUME NEW t \in Sfts, sft'[t].open, ~sft'[t].failed,
                      chan'[sft'[t].handle].kind = "file"
               PROVE  chan'[sft'[t].handle].at = sft'[t].last_pos
    BY DEF OffsetsAgree
  <2>1. CASE t = s
    BY <2>1
  <2>2. CASE t # s
    <3>1. sft'[t] = sft[t]
      BY <2>2
    <3>2. sft[t].handle \in Handles \ {sft[s].handle}
      BY <2>2, <3>1, FileHandles
    <3> QED BY <3>1, <3>2 DEF Owned, OffsetsAgree
  <2> QED BY <2>1, <2>2
<1> QED BY <1>1, <1>2, <1>3, <1>4 DEF Owned

\* Before a transfer the device is at the position DOS means.
LEMMA SoughtAgrees ==
  ASSUME Typed, Owned, NEW s \in Sfts, sft[s].open, ~sft[s].failed, Sought(s).kind = "file"
  PROVE  Sought(s).at = sft[s].pos
<1> DEFINE h == sft[s].handle
           c == chan[h]
<1>1. h \in Handles /\ hnd[h].is_open /\ c \in Channel
  BY FileHandles, FsTypes DEF Typed, FsOK
<1>2. c.kind = "file" => c.at = sft[s].last_pos
  BY DEF Owned, OffsetsAgree
<1>3. Sought(s) = IF sft[s].pos # sft[s].last_pos /\ hnd[h].is_open /\ c.kind = "file"
                  THEN [c EXCEPT !.at = sft[s].pos] ELSE c
  BY DEF Sought
<1> HIDE DEF c, h
<1> QED BY <1>1, <1>2, <1>3 DEF Channel

LEMMA DosSeekOwned ==
  ASSUME Typed, Owned, NEW s \in Sfts, NEW pos \in 0..MaxSize, DosSeek(s, pos)
  PROVE  Owned'
<1>1. /\ sft[s].open /\ sft' = [sft EXCEPT ![s].pos = pos]
      /\ UNCHANGED <<chan, hnd, sda, call, lost>>
  BY DEF DosSeek
<1>2. /\ DOMAIN sft' = Sfts /\ sft'[s].open /\ sft'[s].handle = sft[s].handle
      /\ sft'[s].file = sft[s].file /\ sft'[s].failed = sft[s].failed
      /\ sft'[s].last_pos = sft[s].last_pos /\ \A t \in Sfts \ {s} : sft'[t] = sft[t]
  BY <1>1 DEF Typed, SftOK, Sft
<1>3. ~sft[s].failed /\ chan[sft[s].handle].kind = "file"
        => chan[sft[s].handle].at = sft[s].last_pos
  BY <1>1 DEF Owned, OffsetsAgree
<1> QED BY <1>1, <1>2, <1>3, TransferOwned

LEMMA ReadFileOwned ==
  ASSUME Typed, Owned, NEW s \in Sfts, NEW asked \in 1..MaxSize, ReadFile(s, asked)
  PROVE  Owned'
<1> DEFINE n == Count(s, asked)
           h == sft[s].handle
           dev == After(Sought(s), n)
<1>1. /\ sft[s].open /\ chan' = [chan EXCEPT ![h] = dev]
      /\ sft' = [sft EXCEPT ![s].pos = sft[s].pos + n, ![s].last_pos = sft[s].pos + n]
      /\ UNCHANGED <<hnd, sda, call, lost>>
  BY ReadFileSets
<1>2. n \in Nat /\ n <= Waiting(Sought(s))
  BY <1>1, CountType
<1>3. h \in Handles /\ size \in [Files -> 0..MaxSize] /\ chan \in [Handles -> Channel]
  BY <1>1, FsTypes DEF Typed, FsOK, SftOK
<1>4. /\ dev.kind = Sought(s).kind /\ dev.file = Sought(s).file
      /\ Sought(s).kind = chan[h].kind /\ Sought(s).file = chan[h].file
  BY <1>1, <1>2, <1>3, SoughtType, ReadType
<1>5. ~sft[s].failed /\ dev.kind = "file" => dev.at = sft[s].pos + n
  <2> SUFFICES ASSUME ~sft[s].failed, dev.kind = "file" PROVE dev.at = sft[s].pos + n
    OBVIOUS
  <2>1. Sought(s).at = sft[s].pos /\ Sought(s).kind = "file" /\ Sought(s) \in Channel
    BY <1>1, <1>4, SoughtAgrees, SoughtType
  <2>2. dev = [Sought(s) EXCEPT !.at = @ + n]
    BY <2>1 DEF After
  <2> QED BY <2>1, <2>2 DEF Channel
<1> HIDE DEF n, h, dev
<1>6. /\ DOMAIN sft' = Sfts /\ sft'[s].open /\ sft'[s].handle = sft[s].handle
      /\ sft'[s].file = sft[s].file /\ sft'[s].failed = sft[s].failed
      /\ sft'[s].last_pos = sft[s].pos + n /\ \A t \in Sfts \ {s} : sft'[t] = sft[t]
  BY <1>1 DEF Typed, SftOK, Sft
<1>7. chan'[h] = dev /\ \A g \in Handles \ {h} : chan'[g] = chan[g]
  BY <1>1, <1>3
<1> QED
  BY <1>1, <1>4, <1>5, <1>6, <1>7, TransferOwned DEF h

LEMMA WriteFileOwned ==
  ASSUME Typed, Owned, NEW s \in Sfts, WriteFile(s)
  PROVE  Owned'
<1> DEFINE h == sft[s].handle
           c == Sought(s)
<1>1. sft[s].open /\ UNCHANGED <<hnd, sda, call, lost>>
  BY DEF WriteFile
<1>2. h \in Handles /\ chan \in [Handles -> Channel] /\ sft \in [Sfts -> Sft]
  BY <1>1, FsTypes DEF Typed, FsOK, SftOK
<1>3. c \in Channel /\ c.kind = chan[h].kind /\ c.file = chan[h].file
  BY <1>1, SoughtType
<1>4. CASE /\ Writable(h, c)
           /\ chan' = [chan EXCEPT ![h] = After(c, 1)]
           /\ sft' = [sft EXCEPT ![s].pos = sft[s].pos + 1, ![s].last_pos = sft[s].pos + 1,
                        ![s].size = IF sft[s].pos + 1 > @ THEN sft[s].pos + 1 ELSE @]
  <2>1. After(c, 1) = [c EXCEPT !.at = @ + 1] /\ c.kind = "file"
    BY <1>4 DEF Writable, After
  <2>2. /\ After(c, 1).kind = chan[h].kind /\ After(c, 1).file = chan[h].file
        /\ After(c, 1).at = c.at + 1
    BY <1>3, <2>1 DEF Channel
  <2>3. ~sft[s].failed => After(c, 1).at = sft[s].pos + 1
    BY <1>1, <2>1, <2>2, SoughtAgrees
  <2>4. /\ DOMAIN sft' = Sfts /\ sft'[s].open /\ sft'[s].handle = sft[s].handle
        /\ sft'[s].file = sft[s].file /\ sft'[s].failed = sft[s].failed
        /\ sft'[s].last_pos = sft[s].pos + 1 /\ \A t \in Sfts \ {s} : sft'[t] = sft[t]
    BY <1>1, <1>2, <1>4 DEF Sft
  <2>5. chan'[h] = After(c, 1) /\ \A g \in Handles \ {h} : chan'[g] = chan[g]
    BY <1>2, <1>4
  <2> QED BY <1>1, <2>2, <2>3, <2>4, <2>5, TransferOwned
<1>5. CASE chan' = [chan EXCEPT ![h] = c] /\ sft' = [sft EXCEPT ![s].failed = TRUE]
  <2>1. chan'[h] = c /\ \A g \in Handles \ {h} : chan'[g] = chan[g]
    BY <1>2, <1>5
  <2>2. /\ DOMAIN sft' = Sfts /\ sft'[s].open /\ sft'[s].handle = sft[s].handle
        /\ sft'[s].file = sft[s].file /\ sft'[s].failed
        /\ \A t \in Sfts \ {s} : sft'[t] = sft[t]
    BY <1>1, <1>2, <1>5 DEF Sft
  <2> QED BY <1>1, <1>3, <2>1, <2>2, TransferOwned
<1> QED BY <1>4, <1>5 DEF WriteFile

LEMMA CloseFileOwned ==
  ASSUME Typed, Owned, NEW s \in Sfts, CloseFile(s)
  PROVE  Owned'
<1> DEFINE h == sft[s].handle
<1>1. /\ sft[s].open /\ UNCHANGED <<tree, size, buf, sda, call>> /\ sft' = [sft EXCEPT ![s] = NoFile]
  BY DEF CloseFile
<1>2. /\ h \in Handles /\ hnd[h].is_open /\ h \notin {sda.dir_handle, call.handle} \cup lost
      /\ \A t \in Sfts \ {s} : sft[t].open => sft[t].handle # h
  BY <1>1, FileHandles
<1>3. ~sft'[s].open /\ \A t \in Sfts \ {s} : sft'[t] = sft[t]
  BY <1>1 DEF Typed, SftOK, NoFile
<1>4. /\ \A g \in Handles \ {h} : hnd'[g] = hnd[g] /\ chan'[g] = chan[g]
      /\ \/ lost' = lost \cup {h} /\ hnd'[h].is_open
         \/ lost' = lost /\ ~hnd'[h].is_open
  <2>1. CASE sft[s].mode = "read"
    BY <1>2, <2>1 DEF CloseFile
  <2>2. CASE sft[s].mode # "read"
    <3>1. fujifs_close(h) /\ UNCHANGED lost
      BY <2>2 DEF CloseFile
    <3> QED BY <1>1, <1>2, <3>1, CloseEffect DEF Typed, ClosesOnly
  <2> QED BY <2>1, <2>2
<1> HIDE DEF h
<1>5. LoopsOwn'
  <2>1. Loop \cup lost \subseteq Handles
    BY DEF Loop, Typed, SearchRec, CallOK
  <2> QED BY <1>1, <1>2, <1>4, <2>1 DEF Owned, LoopsOwn, Loop
<1>6. HandlesApart'
  <2> SUFFICES ASSUME NEW t \in Sfts \ {s}, sft[t].open
               PROVE  /\ sft[t].handle \in Handles /\ hnd'[sft[t].handle].is_open
                      /\ sft[t].handle \notin {sda.dir_handle, call.handle} \cup lost'
                      /\ \A r \in Sfts \ {t} : sft'[r].open => sft'[r].handle # sft[t].handle
                      /\ \/ chan'[sft[t].handle].kind = "file" /\ chan'[sft[t].handle].file = sft[t].file
                         \/ chan'[sft[t].handle].kind = "none" /\ "file" \in Refuse
    BY <1>1, <1>3 DEF HandlesApart
  <2>1. sft[t].handle \in Handles \ {h}
    BY <1>2, FileHandles
  <2>2. hnd'[sft[t].handle] = hnd[sft[t].handle] /\ chan'[sft[t].handle] = chan[sft[t].handle]
    BY <1>4, <2>1
  <2> QED BY <1>3, <1>4, <2>1, <2>2 DEF Owned, HandlesApart
<1>7. HandlesAccounted'
  <2> SUFFICES ASSUME NEW g \in Handles, hnd'[g].is_open PROVE g \in Owners' \cup lost'
    BY DEF HandlesAccounted
  <2>1. CASE g = h
    BY <1>4, <2>1
  <2>2. CASE g # h
    <3>1. hnd[g].is_open /\ g \in Owners \cup lost
      BY <1>4, <2>2 DEF Owned, HandlesAccounted
    <3>2. g \in lost => g \in lost'
      BY <1>4
    <3>3. g \in Owners => g \in Owners'
      BY <1>1, <1>3, <2>2 DEF Owners, h
    <3> QED BY <3>1, <3>2, <3>3
  <2> QED BY <2>1, <2>2
<1>8. OffsetsAgree'
  <2> SUFFICES ASSUME NEW t \in Sfts, sft'[t].open, ~sft'[t].failed,
                      chan'[sft'[t].handle].kind = "file"
               PROVE  chan'[sft'[t].handle].at = sft'[t].last_pos
    BY DEF OffsetsAgree
  <2>1. t # s /\ sft'[t] = sft[t] /\ sft[t].handle \in Handles \ {h}
    BY <1>2, <1>3, FileHandles
  <2> QED BY <1>4, <2>1 DEF Owned, OffsetsAgree
<1> QED BY <1>5, <1>6, <1>7, <1>8 DEF Owned

LEMMA StepOwned ==
  ASSUME Typed, OneSearch, Owned, ~Nested, [Next]_vars
  PROVE  Owned'
<1>1. CASE Step \/ UNCHANGED vars
  BY <1>1, OpendirOwned, RefillOwned, RecordOwned, ClosedirOwned, ActOwned, OpenOwned DEF Step
<1>2. CASE Dos
  BY <1>2, SearchCallOwned, LookUpOwned, DosSeekOwned, ReadFileOwned, WriteFileOwned, CloseFileOwned
     DEF Dos, DeleteFiles, RenameFiles, Query, MakeDir, RemoveDir, OpenExtended
<1> QED BY <1>1, <1>2 DEF Next, Finished

LEMMA OwnedAlways ==
  ASSUME ~Nested
  PROVE  Spec => [](Typed /\ OneSearch /\ Owned)
<1> DEFINE I == Typed /\ OneSearch /\ Owned
<1>1. Init => I
  BY InitTyped, InitOneSearch, InitOwned
<1>2. I /\ [Next]_vars => I'
  BY StepTyped, StepOneSearch, StepOwned
<1> QED BY <1>1, <1>2, PTL DEF Spec

\* When searches do not overlap, the handle of an open file (open_extended) is open, no other
\* file, search or look-up uses it, nor a file that close_file has left open, and its device
\* has that file open, unless the server refused a write-mode open (fujifs.c:228): no read,
\* write or close reaches another's device.
THEOREM HandlesApartHolds ==
  ASSUME ~Nested
  PROVE  Spec => []HandlesApart
  BY OwnedAlways, PTL DEF Owned

\* When searches do not overlap, every open handle of fujifs belongs to a file in DOS's table,
\* to the search record or to the look-up that runs, or is one that close_file left open
\* (redir.c:445): failed opens, refused deletions and abandoned searches leave none behind.
THEOREM HandlesAccountedHolds ==
  ASSUME ~Nested
  PROVE  Spec => []HandlesAccounted
  BY OwnedAlways, PTL DEF Owned

\* When searches do not overlap, the device of an open file is where last_pos (redir.c:496)
\* says it is, after any reads, writes, seeks of DOS and opens, until a write to the file
\* fails: so a transfer without a seek happens at the position DOS means.
THEOREM OffsetsAgreeHolds ==
  ASSUME ~Nested
  PROVE  Spec => []OffsetsAgree
  BY OwnedAlways, PTL DEF Owned

-----------------------------------------------------------------------------
(* Reading a listing: fujifs_readdir returns the records of the directory one *)
(* after the other, wherever the ends of what is in the buffer fall.          *)

\* The i-th cell of a listing of d that names L, and what is left to read of it after k
\* records: the cells of b from p to len, then the cells of `left'.
CellOf(d, L, i) == <<d, L[(i - 1) \div RecLen + 1], ((i - 1) % RecLen) + 1>>

Unread(b, p, len, left, d, L, k) ==
  /\ p \in Nat /\ len \in p..BufLen /\ left \in Seq(Cells) /\ d \in Dirs
  /\ L \in Seq(Names) /\ k \in 0..Len(L)
  /\ len - p + Len(left) = (Len(L) - k) * RecLen
  /\ \A i \in 1..len - p : b[p + i] = CellOf(d, L, k * RecLen + i)
  /\ \A i \in 1..Len(left) : left[i] = CellOf(d, L, k * RecLen + (len - p) + i)

LEMMA CellOfRecord ==
  ASSUME NEW d, NEW L, NEW k \in Nat, NEW j \in 1..RecLen
  PROVE  CellOf(d, L, k * RecLen + j) = <<d, L[k + 1], j>>
<1> DEFINE i == k * RecLen + j
           q == (i - 1) \div RecLen
           r == (i - 1) % RecLen
<1>1. RecLen \in Nat /\ RecLen > 0
  BY BufferAssumption
<1>2. k * RecLen \in Nat
  BY <1>1, SMT
<1>3. i \in Nat /\ i - 1 = k * RecLen + (j - 1) /\ j - 1 \in 0..RecLen - 1
  BY <1>1, <1>2
<1>4. q \in Int /\ r \in 0..RecLen - 1 /\ i - 1 = q * RecLen + r
  BY <1>1, <1>3, SMT
<1> HIDE DEF q, r, i
<1>5. ~(q >= k + 1)
  <2> SUFFICES ASSUME q >= k + 1 PROVE FALSE
    OBVIOUS
  <2>1. q * RecLen >= (k + 1) * RecLen
    BY <1>1, <1>4, SMT
  <2>2. (k + 1) * RecLen = k * RecLen + RecLen
    BY <1>1, SMT
  <2>3. q * RecLen \in Int
    BY <1>1, <1>4, SMT
  <2> QED BY <1>1, <1>2, <1>3, <1>4, <2>1, <2>2, <2>3
<1>6. ~(q <= k - 1)
  <2> SUFFICES ASSUME q <= k - 1 PROVE FALSE
    OBVIOUS
  <2>1. q * RecLen <= (k - 1) * RecLen
    BY <1>1, <1>4, SMT
  <2>2. (k - 1) * RecLen = k * RecLen - RecLen
    BY <1>1, SMT
  <2>3. q * RecLen \in Int
    BY <1>1, <1>4, SMT
  <2> QED BY <1>1, <1>2, <1>3, <1>4, <2>1, <2>2, <2>3
<1>7. q = k
  BY <1>4, <1>5, <1>6
<1>8. r = j - 1
  BY <1>2, <1>3, <1>4, <1>7
<1>9. CellOf(d, L, i) = <<d, L[q + 1], r + 1>>
  BY DEF CellOf, q, r
<1> QED BY <1>7, <1>8, <1>9 DEF i

\* The listing as the device sends it.
LEMMA FreshListing ==
  ASSUME FsOK, NEW d \in Dirs, NEW b
  PROVE  Unread(b, 0, 0, Listing(d), d, tree[d], 0)
<1>1. tree \in [Dirs -> Seq(Names)] /\ BufLen \in Nat /\ RecLen \in Nat
  BY FsTypes, BufferAssumption DEF FsOK
<1>2. Listing(d) \in Seq(Cells)
  BY ListingType DEF FsOK
<1> DEFINE L == tree[d]
           n == Len(L)
           m == n * RecLen
<1>3. n \in Nat /\ m \in Nat
  <2>1. n \in Nat
    BY <1>1, LenProperties DEF L
  <2> HIDE DEF n
  <2> QED BY <1>1, <2>1, SMT
<1>4. Listing(d) = [i \in 1..m |-> CellOf(d, L, i)]
  BY DEF Listing, CellOf, L
<1>5. (n - 0) * RecLen = m /\ 0 * RecLen = 0
  BY <1>1, <1>3
<1> HIDE DEF n, m
<1>6. Len(Listing(d)) = m
  BY <1>3, <1>4
<1>7. \A i \in 1..m : Listing(d)[i] = CellOf(d, L, 0 * RecLen + (0 - 0) + i)
  BY <1>3, <1>4, <1>5
<1> QED BY <1>1, <1>2, <1>3, <1>5, <1>6, <1>7 DEF Unread, n

\* Whether a whole record is in the buffer shows in the cell that ends it.
LEMMA WholeRecordShows ==
  ASSUME NEW b, NEW p, NEW len, NEW left, NEW d, NEW L, NEW k, Unread(b, p, len, left, d, L, k)
  PROVE  (\E i \in p + 1..len : EndOfRecord(b[i])) <=> len - p >= RecLen
<1>1. /\ p \in Nat /\ len \in p..BufLen /\ RecLen \in Nat /\ RecLen > 0 /\ k \in Nat
      /\ BufLen \in Nat
  <2>1. k \in Nat
    BY DEF Unread
  <2> QED BY <2>1, BufferAssumption DEF Unread
<1>2. ASSUME NEW j \in 1..RecLen, j <= len - p
      PROVE  b[p + j] = <<d, L[k + 1], j>>
  <2>1. j \in 1..len - p
    BY <1>1, <1>2
  <2>2. b[p + j] = CellOf(d, L, k * RecLen + j)
    BY <2>1 DEF Unread
  <2>3. CellOf(d, L, k * RecLen + j) = <<d, L[k + 1], j>>
    BY <1>1, CellOfRecord
  <2> QED BY <2>2, <2>3
<1>3. CASE len - p >= RecLen
  <2>1. RecLen \in 1..RecLen /\ p + RecLen \in p + 1..len
    BY <1>1, <1>3
  <2>2. b[p + RecLen] = <<d, L[k + 1], RecLen>>
    BY <1>1, <1>2, <1>3, <2>1
  <2>3. EndOfRecord(b[p + RecLen])
    BY <2>2 DEF EndOfRecord, Junk
  <2> QED BY <1>3, <2>1, <2>3
<1>4. CASE ~(len - p >= RecLen)
  <2> SUFFICES ASSUME NEW i \in p + 1..len PROVE ~EndOfRecord(b[i])
    BY <1>4
  <2> DEFINE j == i - p
  <2>1. j \in 1..RecLen /\ j <= len - p /\ j < RecLen /\ p + j = i
    BY <1>1, <1>4
  <2> HIDE DEF j
  <2>2. b[p + j] = <<d, L[k + 1], j>>
    BY <1>2, <2>1
  <2> QED BY <1>1, <2>1, <2>2 DEF EndOfRecord
<1> QED BY <1>3, <1>4

\* A whole record at p is the next entry, and what comes after it is left.
LEMMA NextRecord ==
  ASSUME NEW b, NEW p, NEW len, NEW left, NEW d, NEW L, NEW k, Unread(b, p, len, left, d, L, k),
         len - p >= RecLen,
         NEW b2, \A i \in p + RecLen + 1..BufLen : b2[i] = b[i]
  PROVE  /\ k + 1 \in 1..Len(L) /\ EntryAt(b, p) = <<d, L[k + 1]>>
         /\ Unread(b2, p + RecLen, len, left, d, L, k + 1)
<1> DEFINE n == Len(L)
<1>1. /\ p \in Nat /\ len \in p..BufLen /\ RecLen \in Nat /\ RecLen > 0 /\ BufLen \in Nat
      /\ n \in Nat /\ k \in 0..n /\ left \in Seq(Cells) /\ Len(left) \in Nat /\ d \in Dirs
      /\ L \in Seq(Names)
  BY LenProperties, BufferAssumption DEF Unread
<1>2. len - p + Len(left) = (n - k) * RecLen
  BY DEF Unread
<1>3. k < n
  <2> SUFFICES ASSUME k = n PROVE FALSE
    BY <1>1
  <2>1. (n - k) * RecLen = 0
    BY <1>1
  <2> QED BY <1>1, <1>2, <2>1
<1>4. (n - (k + 1)) * RecLen = (n - k) * RecLen - RecLen
  <2> HIDE DEF n
  <2> QED BY <1>1, SMT
<1>5. (k + 1) * RecLen = k * RecLen + RecLen /\ k * RecLen \in Nat
  BY <1>1, SMT
<1>6. ASSUME NEW j \in 1..RecLen
      PROVE  b[p + j] = <<d, L[k + 1], j>>
  <2>1. j \in 1..len - p
    BY <1>1
  <2>2. k \in Nat
    BY <1>1
  <2>3. b[p + j] = CellOf(d, L, k * RecLen + j)
    BY <2>1 DEF Unread
  <2>4. CellOf(d, L, k * RecLen + j) = <<d, L[k + 1], j>>
    BY <2>2, CellOfRecord
  <2> QED BY <2>3, <2>4
<1>7. EntryAt(b, p) = <<d, L[k + 1]>>
  <2>1. p + RecLen <= BufLen /\ 1 \in 1..RecLen
    BY <1>1
  <2>2. b[p + 1] = <<d, L[k + 1], 1>>
    BY <1>6, <2>1
  <2>3. b[p + 1][1] = d /\ b[p + 1][2] = L[k + 1]
    BY <2>2
  <2>4. \A i \in 1..RecLen : b[p + i] # Junk
    <3>1. ASSUME NEW i \in 1..RecLen PROVE b[p + i] # Junk
      <4>1. b[p + i] = <<d, L[k + 1], i>>
        BY <1>6
      <4>2. Len(<<d, L[k + 1], i>>) = 3 /\ Len(<<>>) = 0
        OBVIOUS
      <4> QED BY <4>1, <4>2 DEF Junk
    <3> QED BY <3>1
  <2> QED BY <1>6, <2>1, <2>3, <2>4 DEF EntryAt
<1>8. ASSUME NEW i \in 1..len - (p + RecLen)
      PROVE  b2[p + RecLen + i] = CellOf(d, L, (k + 1) * RecLen + i)
  <2>1. RecLen + i \in 1..len - p /\ p + RecLen + i \in p + RecLen + 1..BufLen
    BY <1>1
  <2>2. b[p + (RecLen + i)] = CellOf(d, L, k * RecLen + (RecLen + i))
    BY <2>1 DEF Unread
  <2>3. k * RecLen + (RecLen + i) = (k + 1) * RecLen + i /\ p + (RecLen + i) = p + RecLen + i
    BY <1>1, <1>5
  <2> QED BY <2>1, <2>2, <2>3
<1>9. ASSUME NEW i \in 1..Len(left)
      PROVE  left[i] = CellOf(d, L, (k + 1) * RecLen + (len - (p + RecLen)) + i)
  <2>1. left[i] = CellOf(d, L, k * RecLen + (len - p) + i)
    BY DEF Unread
  <2>2. k * RecLen + (len - p) + i = (k + 1) * RecLen + (len - (p + RecLen)) + i
    BY <1>1, <1>5
  <2> QED BY <2>1, <2>2
<1>10. /\ p + RecLen \in Nat /\ len \in p + RecLen..BufLen /\ k + 1 \in 1..n
       /\ len - (p + RecLen) + Len(left) = (n - (k + 1)) * RecLen
  <2>1. (n - k) * RecLen \in Int
    BY <1>1, <1>2
  <2> HIDE DEF n
  <2> QED BY <1>1, <1>2, <1>3, <1>4, <2>1
<1>11. Unread(b2, p + RecLen, len, left, d, L, k + 1)
  BY <1>1, <1>8, <1>9, <1>10 DEF Unread
<1> QED BY <1>7, <1>10, <1>11

\* What is in the buffer goes to its front and n more cells go behind it: the same is left.
LEMMA MoreRead ==
  ASSUME NEW b, NEW p, NEW len, NEW left, NEW d, NEW L, NEW k, Unread(b, p, len, left, d, L, k),
         NEW n \in 0..Len(left), len - p + n <= BufLen,
         NEW b2, \A i \in 1..len - p : b2[i] = b[p + i],
         \A i \in 1..n : b2[len - p + i] = left[i]
  PROVE  Unread(b2, 0, len - p + n, SubSeq(left, n + 1, Len(left)), d, L, k)
<1> DEFINE part == len - p
           rest == SubSeq(left, n + 1, Len(left))
           m == k * RecLen
<1>1. /\ p \in Nat /\ len \in p..BufLen /\ RecLen \in Nat /\ BufLen \in Nat /\ k \in Nat
      /\ left \in Seq(Cells) /\ Len(left) \in Nat /\ d \in Dirs /\ k \in 0..Len(L)
      /\ L \in Seq(Names)
  <2>1. left \in Seq(Cells) /\ L \in Seq(Names) /\ k \in 0..Len(L)
    BY DEF Unread
  <2> QED BY <2>1, LenProperties, BufferAssumption DEF Unread
<1>2. m \in Nat
  BY <1>1, SMT
<1>3. part \in Nat /\ part + n \in 0..BufLen
  BY <1>1
<1>4. part + Len(left) = (Len(L) - k) * RecLen
      /\ (\A i \in 1..part : b[p + i] = CellOf(d, L, m + i))
      /\ \A i \in 1..Len(left) : left[i] = CellOf(d, L, m + part + i)
  BY DEF Unread
<1>5. rest \in Seq(Cells) /\ Len(rest) = Len(left) - n
      /\ \A i \in 1..Len(left) - n : rest[i] = left[n + i]
  <2>1. rest \in Seq(Cells)
    BY <1>1, DropType
  <2>2. \A i \in 1..Len(left) : left[i] \in Cells
    BY <1>1, ElementOfSeq
  <2>3. /\ Len(rest) = IF n + 1 <= Len(left) THEN Len(left) - (n + 1) + 1 ELSE 0
        /\ \A i \in 1..Len(left) - (n + 1) + 1 : rest[i] = left[n + 1 + i - 1]
    BY <1>1, <2>2, SubSeqProperties
  <2>4. Len(rest) = Len(left) - n
    BY <1>1, <2>3
  <2>5. ASSUME NEW i \in 1..Len(left) - n PROVE rest[i] = left[n + i]
    <3>1. n + 1 + i - 1 = n + i /\ i \in 1..Len(left) - (n + 1) + 1
      BY <1>1
    <3> QED BY <2>3, <3>1
  <2> QED BY <2>1, <2>4, <2>5
<1> HIDE DEF rest, m, part
<1>6. ASSUME NEW i \in 1..part + n - 0 PROVE b2[0 + i] = CellOf(d, L, m + i)
  <2>0. (\A j \in 1..part : b2[j] = b[p + j]) /\ (\A j \in 1..n : b2[part + j] = left[j])
    BY DEF part
  <2>1. CASE i <= part
    <3>1. i \in 1..part /\ 0 + i = i
      BY <1>3, <2>1
    <3> QED BY <1>4, <2>0, <3>1
  <2>2. CASE i > part
    <3> DEFINE j == i - part
    <3>1. j \in 1..n /\ j \in 1..Len(left) /\ part + j = 0 + i /\ m + part + j = m + i
      BY <1>1, <1>2, <1>3, <2>2
    <3> HIDE DEF j
    <3> QED BY <1>4, <2>0, <3>1
  <2> QED BY <1>3, <2>1, <2>2
<1>7. ASSUME NEW i \in 1..Len(rest) PROVE rest[i] = CellOf(d, L, m + (part + n - 0) + i)
  <2>1. i \in 1..Len(left) - n
    BY <1>5
  <2>2. /\ Len(left) \in Nat /\ n \in 0..Len(left) /\ i \in Nat
        /\ m \in Nat /\ part \in Nat
    BY <1>1, <1>2, <1>3, <2>1
  <2>3. n + i \in 1..Len(left)
    BY <2>1, <2>2
  <2>4. m + part + (n + i) = m + (part + n - 0) + i
    BY <2>2
  <2>5. left[n + i] = CellOf(d, L, m + part + (n + i))
    BY <1>4, <2>3
  <2> QED BY <1>5, <2>1, <2>4, <2>5
<1>8. part + n - 0 + Len(rest) = (Len(L) - k) * RecLen
  <2>1. part + n - 0 + Len(rest) = part + Len(left)
    BY <1>1, <1>3, <1>5
  <2> QED BY <1>4, <2>1
<1>9. 0 \in Nat /\ part + n \in 0..BufLen
  BY <1>3
<1>10. 0 \in Nat /\ part + n \in 0..BufLen /\ rest \in Seq(Cells) /\ d \in Dirs /\ k \in 0..Len(L)
       /\ L \in Seq(Names)
  BY <1>1, <1>5, <1>9
<1>11. Unread(b2, 0, part + n, rest, d, L, k)
  BY <1>6, <1>7, <1>8, <1>10 DEF Unread, m
<1> QED BY <1>11 DEF rest, part

\* What is still to come through the handle h: the records of
\* a listing of d that names L, after the first k.
Listed(h, d, L, k) ==
  /\ hnd[h].is_open /\ chan[h].kind = "dir"
  /\ Unread(buf, hnd[h].position, hnd[h].length, chan[h].left, d, L, k)

\* A handle that is open to a directory reads as much as there is and as fits.
LEMMA ListingRead ==
  ASSUME FsOK, NEW h \in Handles, hnd[h].is_open, chan[h].kind = "dir", NEW room \in Nat
  PROVE  LET n == ReadLength(h, room)
         IN  /\ n = IF Len(chan[h].left) < room THEN Len(chan[h].left) ELSE room
             /\ n \in 0..Len(chan[h].left) /\ n \in 0..room
             /\ After(chan[h], n).left = SubSeq(chan[h].left, n + 1, Len(chan[h].left))
             /\ After(chan[h], n).kind = "dir"
             /\ \A i \in 1..n : Taken(chan[h], n)[i] = chan[h].left[i]
<1> DEFINE n == ReadLength(h, room)
           left == chan[h].left
<1>1. chan[h] \in Channel /\ left \in Seq(Cells) /\ Len(left) \in Nat
  BY FsTypes, LenProperties DEF FsOK, Channel
<1>2. n = IF Len(left) < room THEN Len(left) ELSE room
  BY DEF ReadLength, Waiting
<1>3. n \in 0..Len(left) /\ n \in 0..room
  BY <1>1, <1>2
<1> HIDE DEF n
<1>4. After(chan[h], n) = [chan[h] EXCEPT !.left = SubSeq(left, n + 1, Len(left))]
  BY DEF After
<1>5. After(chan[h], n).left = SubSeq(left, n + 1, Len(left)) /\ After(chan[h], n).kind = "dir"
  BY <1>1, <1>4 DEF Channel
<1>6. ASSUME NEW i \in 1..n PROVE Taken(chan[h], n)[i] = left[i]
  <2>1. Taken(chan[h], n) = SubSeq(left, 1, n)
    BY DEF Taken
  <2>2. \A j \in 1..Len(left) : left[j] \in Cells
    BY <1>1, ElementOfSeq
  <2>3. \A j \in 1..n - 1 + 1 : SubSeq(left, 1, n)[j] = left[1 + j - 1]
    <3>1. 1 \in Int /\ n \in Int /\ \A j \in 1..n : left[j] \in Cells
      BY <1>1, <1>3, <2>2
    <3> QED BY <1>1, <3>1, SubSeqProperties
  <2>4. i \in 1..n - 1 + 1 /\ 1 + i - 1 = i
    BY <1>1, <1>3
  <2> QED BY <2>1, <2>3, <2>4
<1> QED BY <1>2, <1>3, <1>5, <1>6 DEF n

\* fujifs_readdir reads on only when the buffer is used up, and finds nothing only at the end.
LEMMA RefillListed ==
  ASSUME FsOK, NEW h \in Handles, NEW d, NEW L, NEW k, Listed(h, d, L, k),
         NEW more, ReaddirRefill(h, more)
  PROVE  IF more THEN Listed(h, d, L, k)' ELSE k = Len(L)
<1> DEFINE p == hnd[h].position
           len == hnd[h].length
           left == chan[h].left
<1>1. Unread(buf, p, len, left, d, L, k) /\ hnd[h].is_open /\ chan[h].kind = "dir"
  BY DEF Listed
<1>2. /\ chan \in [Handles -> Channel] /\ hnd \in [Handles -> HandleRec]
      /\ buf \in [1..BufLen -> Cells] /\ BufLen \in Nat \ {0} /\ RecLen \in Nat \ {0}
  BY FsTypes, BufferAssumption DEF FsOK
<1>3. CASE p < len
  <2>1. more = TRUE /\ UNCHANGED <<chan, hnd, buf>>
    BY <1>3 DEF ReaddirRefill, fsVars
  <2> QED BY <1>1, <2>1 DEF Listed, Unread, CellOf
<1>4. CASE ~(p < len)
  <2> DEFINE n == ReadLength(h, BufLen)
             at == IF n > 0 THEN 0 ELSE p
             dev == After(chan[h], n)
  <2>1. /\ more = (n > 0)
        /\ hnd' = [hnd EXCEPT ![h].length = n, ![h].position = at]
        /\ buf' = Stored(buf, 0, h, n) /\ chan' = [chan EXCEPT ![h] = dev]
    BY <1>4 DEF ReaddirRefill
  <2>2. /\ n = IF Len(left) < BufLen THEN Len(left) ELSE BufLen
        /\ n \in 0..Len(left) /\ n \in 0..BufLen
        /\ dev.left = SubSeq(left, n + 1, Len(left)) /\ dev.kind = "dir"
        /\ \A i \in 1..n : Taken(chan[h], n)[i] = left[i]
    BY <1>1, <1>2, ListingRead
  <2>3. /\ p \in Nat /\ len = p /\ Len(left) \in Nat /\ k \in 0..Len(L)
        /\ len - p + Len(left) = (Len(L) - k) * RecLen /\ Len(L) \in Nat
    <3>1. d \in Dirs /\ left \in Seq(Cells) /\ p \in Nat /\ len \in p..BufLen
          /\ k \in 0..Len(L) /\ len - p + Len(left) = (Len(L) - k) * RecLen
      BY <1>1 DEF Unread
    <3>2. L \in Seq(Names)
      BY <1>1 DEF Unread
    <3> QED BY <1>2, <1>4, <3>1, <3>2, LenProperties
  <2> HIDE DEF n, dev
  <2>4. hnd'[h].length = n /\ hnd'[h].position = at /\ hnd'[h].is_open
        /\ chan'[h] = dev
    BY <1>1, <1>2, <2>1 DEF HandleRec
  <2>5. CASE n > 0
    <3>1. \A i \in 1..n : buf'[i] = left[i]
      <4> SUFFICES ASSUME NEW i \in 1..n PROVE buf'[i] = left[i]
        OBVIOUS
      <4>1. i \in 1..BufLen /\ i \in 0 + 1..0 + n /\ i - 0 = i
        BY <1>2, <2>2
      <4>2. buf'[i] = Taken(chan[h], n)[i - 0]
        BY <2>1, <4>1 DEF Stored
      <4> QED BY <2>2, <4>1, <4>2
    <3>2. len - p = 0 /\ len - p + n = n
      BY <2>2, <2>3
    <3>3. /\ \A i \in 1..len - p : buf'[i] = buf[p + i]
          /\ \A i \in 1..n : buf'[len - p + i] = left[i]
          /\ len - p + n <= BufLen
      <4>1. \A i \in 1..n : len - p + i = i
        BY <2>2, <3>2
      <4>2. \A i \in 1..len - p : FALSE
        BY <3>2
      <4> QED BY <2>2, <3>1, <3>2, <4>1, <4>2
    <3>4. Unread(buf', 0, len - p + n, SubSeq(left, n + 1, Len(left)), d, L, k)
      BY <1>1, <2>2, <3>3, MoreRead
    <3>5. Unread(buf', 0, n, dev.left, d, L, k)
      BY <2>2, <3>2, <3>4
    <3>6. /\ hnd'[h].position = 0 /\ hnd'[h].length = n /\ hnd'[h].is_open
          /\ chan'[h].left = dev.left /\ chan'[h].kind = "dir"
      BY <2>1, <2>2, <2>4, <2>5
    <3>7. Unread(buf, hnd[h].position, hnd[h].length, chan[h].left, d, L, k)'
      BY <3>5, <3>6 DEF Unread, CellOf
    <3>8. Listed(h, d, L, k)'
      BY <3>6, <3>7 DEF Listed
    <3> QED BY <2>1, <2>5, <3>8
  <2>6. CASE ~(n > 0)
    <3>1. Len(left) = 0
      BY <1>2, <2>2, <2>3, <2>6
    <3>2. (Len(L) - k) * RecLen = 0
      BY <2>3, <3>1
    <3>3. k = Len(L)
      <4> DEFINE j == Len(L) - k
      <4>1. j \in Nat /\ j * RecLen = 0
        BY <2>3, <3>2
      <4> HIDE DEF j
      <4>2. j = 0
        <5> SUFFICES ASSUME j >= 1 PROVE FALSE
          BY <4>1
        <5>1. j * RecLen >= 1 * RecLen
          BY <1>2, <4>1, SMT
        <5> QED BY <1>2, <4>1, <5>1
      <4> QED BY <2>3, <4>2 DEF j
    <3> QED BY <2>1, <2>6, <3>3
  <2> QED BY <2>5, <2>6
<1> QED BY <1>3, <1>4

LEMMA EntryIsSomething == \A d, x : <<d, x>> # Junk /\ <<d, x>> # End
<1> SUFFICES ASSUME NEW d, NEW x PROVE <<d, x>> # Junk /\ <<d, x>> # End
  OBVIOUS
<1>1. Len(<<d, x>>) = 2 /\ Len(<<>>) = 0 /\ Len(<<"NULL">>) = 1
  OBVIOUS
<1> QED BY <1>1 DEF Junk, End

\* What the calls of fujifs_strtok do with a whole record at p.
LEMMA ParseListed ==
  ASSUME FsOK, NEW h \in Handles, NEW b, NEW p, NEW len, NEW left, NEW d, NEW L, NEW k,
         Unread(b, p, len, left, d, L, k), len - p >= RecLen, b \in [1..BufLen -> Cells],
         hnd[h].is_open, chan' \in [Handles -> Channel], chan'[h].left = left,
         chan'[h].kind = "dir", NEW e, Parse(h, b, p, len, e)
  PROVE  /\ k + 1 \in 1..Len(L) /\ e = <<d, L[k + 1]>>
         /\ Listed(h, d, L, k + 1)' /\ RecLen <= hnd'[h].position
<1>1. hnd \in [Handles -> HandleRec] /\ BufLen \in Nat
      /\ RecLen \in Nat
  BY FsTypes, BufferAssumption DEF FsOK
<1>2. d \in Dirs /\ p \in Nat /\ len \in p..BufLen
  BY DEF Unread
<1> DEFINE b2 == [i \in 1..BufLen |-> IF i \in p + 1..p + RecLen THEN Junk ELSE b[i]]
<1>3. \A i \in p + RecLen + 1..BufLen : b2[i] = b[i]
  <2> SUFFICES ASSUME NEW i \in p + RecLen + 1..BufLen PROVE b2[i] = b[i]
    OBVIOUS
  <2>1. i \in 1..BufLen /\ i \notin p + 1..p + RecLen
    BY <1>1, <1>2
  <2> QED BY <2>1
<1> HIDE DEF b2
<1>5. /\ k + 1 \in 1..Len(L) /\ EntryAt(b, p) = <<d, L[k + 1]>>
      /\ Unread(b2, p + RecLen, len, left, d, L, k + 1)
  <2>1. Unread(b, p, len, left, d, L, k) /\ len - p >= RecLen
    OBVIOUS
  <2> QED BY <1>1, <1>2, <1>3, <2>1, NextRecord
<1>6. e = <<d, L[k + 1]>> /\ e # Junk
  BY <1>5, EntryIsSomething DEF Parse
<1>7. /\ buf' = b2
      /\ hnd' = [hnd EXCEPT ![h].position = p + RecLen, ![h].length = len]
  BY <1>6 DEF Parse, b2
<1>8. hnd'[h].position = p + RecLen /\ hnd'[h].length = len /\ hnd'[h].is_open
  BY <1>1, <1>7 DEF HandleRec
<1>9. Unread(buf, hnd[h].position, hnd[h].length, chan[h].left, d, L, k + 1)'
  BY <1>5, <1>7, <1>8 DEF Unread, CellOf
<1>10. RecLen <= hnd'[h].position
  BY <1>1, <1>2, <1>8
<1> QED BY <1>5, <1>6, <1>8, <1>9, <1>10 DEF Listed

\* fujifs_readdir returns the next entry, wherever its record lies in the buffer and however
\* much of it has been read.
LEMMA RecordListed ==
  ASSUME FsOK, NEW h \in Handles, NEW d, NEW L, NEW k, Listed(h, d, L, k),
         NEW e, ReaddirRecord(h, e), hnd[h].position < hnd[h].length
  PROVE  /\ k + 1 \in 1..Len(L) /\ e = <<d, L[k + 1]>>
         /\ Listed(h, d, L, k + 1)' /\ RecLen <= hnd'[h].position
<1> DEFINE p == hnd[h].position
           len == hnd[h].length
           left == chan[h].left
           part == len - p
           n == ReadLength(h, Room(part))
           dev == After(chan[h], n)
<1>1. /\ chan \in [Handles -> Channel] /\ hnd \in [Handles -> HandleRec]
      /\ buf \in [1..BufLen -> Cells] /\ BufLen \in Nat /\ RecLen \in Nat \ {0}
      /\ RecLen < BufLen
  BY FsTypes, BufferAssumption DEF FsOK
<1>2. Unread(buf, p, len, left, d, L, k) /\ hnd[h].is_open /\ chan[h].kind = "dir"
  BY DEF Listed
<1>3. /\ p \in Nat /\ len \in p..BufLen /\ part \in Nat /\ part > 0 /\ p + part <= BufLen
      /\ left \in Seq(Cells) /\ Len(left) \in Nat /\ d \in Dirs /\ k \in 0..Len(L)
      /\ Len(L) \in Nat
  <2>1. /\ p \in Nat /\ len \in p..BufLen /\ left \in Seq(Cells) /\ d \in Dirs
        /\ k \in 0..Len(L)
    BY <1>2 DEF Unread
  <2>2. L \in Seq(Names)
    BY <1>2 DEF Unread
  <2> QED BY <1>1, <2>1, <2>2, LenProperties
<1>5. CASE \E i \in p + 1..len : EndOfRecord(buf[i])
  <2>1. Parse(h, buf, p, len, e) /\ UNCHANGED chan
    BY <1>5 DEF ReaddirRecord
  <2>2. len - p >= RecLen
    BY <1>2, <1>5, WholeRecordShows
  <2> QED BY <1>1, <1>2, <2>1, <2>2, ParseListed
<1>6. CASE ~\E i \in p + 1..len : EndOfRecord(buf[i])
  <2> DEFINE mv == Moved(p, part)
             b2 == Stored(mv, part, h, n)
  <2>1. /\ chan' = [chan EXCEPT ![h] = dev]
        /\ IF n = 0 THEN e = End /\ buf' = mv /\ UNCHANGED hnd
           ELSE Parse(h, b2, 0, part + n, e)
    BY <1>6 DEF ReaddirRecord
  <2>2. part < RecLen
    <3>1. ~(part >= RecLen)
      BY <1>2, <1>6, WholeRecordShows, Zenon
    <3> HIDE DEF part
    <3> QED BY <1>1, <1>3, <3>1
  <2>3. Room(part) \in Nat /\ Room(part) + part = BufLen /\ Room(part) > 0
    <3>1. Room(part) = BufLen - part
      BY DEF Room
    <3> HIDE DEF part
    <3> QED BY <1>1, <1>3, <2>2, <3>1
  <2>4. /\ n = IF Len(left) < Room(part) THEN Len(left) ELSE Room(part)
        /\ n \in 0..Len(left) /\ n \in 0..Room(part)
        /\ dev.left = SubSeq(left, n + 1, Len(left)) /\ dev.kind = "dir"
        /\ \A i \in 1..n : Taken(chan[h], n)[i] = left[i]
    BY <1>2, <2>3, ListingRead
  <2>5. Len(left) >= RecLen - part
    <3>1. part + Len(left) = (Len(L) - k) * RecLen
      BY <1>2 DEF Unread
    <3> DEFINE j == Len(L) - k
    <3>2. j \in Nat
      BY <1>3
    <3>3. j >= 1
      <4> SUFFICES ASSUME j = 0 PROVE FALSE
        BY <3>2
      <4>1. j * RecLen = 0
        BY <1>1
      <4> QED BY <1>3, <3>1, <4>1
    <3> HIDE DEF j
    <3>4. j * RecLen >= 1 * RecLen
      BY <1>1, <3>2, <3>3, SMT
    <3>5. part + Len(left) = j * RecLen
      BY <3>1 DEF j
    <3> QED BY <1>1, <1>3, <3>4, <3>5
  <2>6. n > 0 /\ part + n >= RecLen /\ part + n <= BufLen /\ n <= Waiting(chan[h])
    <3>1. n > 0 /\ part + n >= RecLen /\ part + n <= BufLen
      <4> HIDE DEF n, part, left
      <4>1. /\ Room(part) \in Nat /\ Room(part) + part = BufLen
            /\ part \in Nat /\ RecLen \in Nat /\ BufLen \in Nat
        BY <1>1, <1>3, <2>3
      <4>2. Room(part) >= RecLen - part /\ RecLen - part > 0
        BY <1>1, <1>3, <2>2, <2>3
      <4>3. Len(left) \in Nat
        BY <1>3
      <4>4. n = (IF Len(left) < Room(part) THEN Len(left) ELSE Room(part)) /\ n \in 0..Room(part)
        BY <2>4
      <4>5. n >= RecLen - part
        BY <2>5, <4>1, <4>2, <4>3, <4>4
      <4>6. n \in Nat /\ n <= Room(part)
        BY <4>1, <4>4
      <4>7. n > 0
        BY <4>1, <4>2, <4>5, <4>6
      <4>8. part + n >= RecLen
        BY <4>1, <4>5, <4>6
      <4>9. part + n <= BufLen
        BY <4>1, <4>6
      <4> QED BY <4>7, <4>8, <4>9
    <3>2. n <= Waiting(chan[h])
      BY <2>3, ReadLengthType
    <3> QED BY <3>1, <3>2
  <2>7. mv \in [1..BufLen -> Cells]
    BY <1>3, MovedType
  <2>8. b2 \in [1..BufLen -> Cells] /\ dev \in Channel
    <3>1. n \in Nat
      BY <2>3, <2>4
    <3> QED BY <1>3, <2>6, <2>7, <3>1, StoredType
  <2> HIDE DEF n, dev, mv, part
  <2>9. \A i \in 1..part : b2[i] = buf[p + i]
    <3> SUFFICES ASSUME NEW i \in 1..part PROVE b2[i] = buf[p + i]
      OBVIOUS
    <3>1. i \in 1..BufLen /\ i <= part /\ i \notin part + 1..part + n
      BY <1>1, <1>3
    <3>2. b2[i] = mv[i]
      BY <3>1 DEF Stored
    <3>3. mv[i] = buf[p + i]
      BY <3>1 DEF mv, Moved
    <3> QED BY <3>2, <3>3
  <2>10. \A i \in 1..n : b2[part + i] = left[i]
    <3> SUFFICES ASSUME NEW i \in 1..n PROVE b2[part + i] = left[i]
      OBVIOUS
    <3>1. part + i \in 1..BufLen /\ part + i \in part + 1..part + n /\ (part + i) - part = i
      BY <1>1, <1>3, <2>3, <2>4
    <3>2. b2[part + i] = Taken(chan[h], n)[(part + i) - part]
      BY <3>1 DEF Stored
    <3> QED BY <2>4, <3>1, <3>2
  <2> HIDE DEF b2
  <2>11. Unread(b2, 0, part + n, dev.left, d, L, k)
    <3>1. /\ \A i \in 1..len - p : b2[i] = buf[p + i]
          /\ \A i \in 1..n : b2[len - p + i] = left[i]
          /\ len - p + n <= BufLen
      BY <2>6, <2>9, <2>10 DEF part
    <3>2. Unread(b2, 0, len - p + n, SubSeq(left, n + 1, Len(left)), d, L, k)
      BY <1>2, <2>4, <3>1, MoreRead
    <3> QED BY <2>4, <3>2 DEF part
  <2>12. Parse(h, b2, 0, part + n, e)
    BY <2>1, <2>6
  <2>13. chan' \in [Handles -> Channel] /\ chan'[h] = dev
    BY <1>1, <2>1, <2>8
  <2>14. part + n - 0 >= RecLen
    BY <1>3, <2>3, <2>4, <2>6
  <2>15. chan'[h].left = dev.left /\ chan'[h].kind = "dir"
    BY <2>4, <2>13
  <2>16. part + n \in Nat /\ 0 \in Nat
    BY <1>3, <2>3, <2>4
  <2> DEFINE to == part + n
             rest == dev.left
  <2>17. Unread(b2, 0, to, rest, d, L, k)
    BY <2>11
  <2>18. Parse(h, b2, 0, to, e)
    BY <2>12
  <2>19. to - 0 >= RecLen
    BY <1>3, <2>3, <2>4, <2>14
  <2>20. to \in Nat
    BY <2>16
  <2>21. chan'[h].left = rest
    BY <2>15
  <2> HIDE DEF to, rest
  <2> QED BY <1>1, <1>2, <2>8, <2>13, <2>15, <2>17, <2>18, <2>19, <2>20, <2>21, ParseListed
<1> QED BY <1>5, <1>6

-----------------------------------------------------------------------------
(* Looking a name up: fujifs_stat.                                         *)

\* When the listing has been read to its end without the name, there is no such file.
NotAmong(L, k, n) == \A i \in 1..k : L[i] # n
LookUpInv ==
  LET f == <<call.dir, call.name>>
      L == tree[call.dir]
  IN  call.fn # None /\ ~Searching =>
        /\ call.phase = "opendir" => call.entry = End
        /\ call.phase \in {"refill", "record"} =>
             /\ call.entry = End
             /\ \E k \in Nat : Listed(call.handle, call.dir, L, k) /\ NotAmong(L, k, call.name)
        /\ call.phase = "closedir" /\ call.entry = End => ~Exists(f)

\* fujifs_opendir gives out a handle with the whole listing before it.
LEMMA OpendirListed ==
  ASSUME FsOK, NEW d \in Dirs, NEW h \in Handles, fujifs_opendir(d, h)
  PROVE  tree' = tree /\ \E L : L = tree[d] /\ Listed(h, d, L, 0)'
<1> USE HandlesAreNumbers
<1>1. ~NoDevice(h)
  BY DEF NoDevice
<1> DEFINE free == fujifs_find_handle
           slot == [FreeHandle EXCEPT !.is_open = (h # NoHandle)]
           dev == IF h = NoHandle THEN NoChan ELSE DirChan(Listing(d))
<1>2. /\ h = free
      /\ hnd' = [hnd EXCEPT ![free] = slot] /\ chan' = [chan EXCEPT ![free] = dev]
      /\ UNCHANGED <<tree, size>>
  BY <1>1 DEF fujifs_opendir
<1>3. chan \in [Handles -> Channel] /\ hnd \in [Handles -> HandleRec]
  BY FsTypes DEF FsOK
<1>4. slot = [FreeHandle EXCEPT !.is_open = TRUE]
  BY HandlesAreNumbers
<1>5. slot.is_open /\ slot.position = 0 /\ slot.length = 0
  BY <1>4 DEF FreeHandle
<1>6. dev.kind = "dir" /\ dev.left = Listing(d)
  BY DEF DirChan, NoChan
<1> HIDE DEF slot, dev, free
<1>7. hnd'[h] = slot /\ chan'[h] = dev
  BY <1>2, <1>3
<1> PICK L : L = tree[d]
  OBVIOUS
<1>8. Unread(buf', 0, 0, Listing(d), d, L, 0)
  BY FreshListing
<1>9. hnd'[h].position = 0 /\ hnd'[h].length = 0 /\ chan'[h].left = Listing(d)
      /\ hnd'[h].is_open /\ chan'[h].kind = "dir" /\ tree' = tree
  BY <1>2, <1>5, <1>6, <1>7
<1>10. Unread(buf, hnd[h].position, hnd[h].length, chan[h].left, d, L, 0)'
  BY <1>8, <1>9 DEF Unread, CellOf
<1>11. Listed(h, d, L, 0)'
  BY <1>9, <1>10 DEF Listed
<1> QED BY <1>9, <1>11

LEMMA OpendirLookUp ==
  ASSUME Typed, LookUpInv, Opendir
  PROVE  LookUpInv'
<1> USE HandlesAreNumbers
<1>1. call.phase = "opendir" /\ call.dir \in Dirs /\ CallOK /\ FsOK
      /\ call.fn \in Calls \ {"find_next"}
  BY DEF Opendir, Typed, CallOK, None
<1>2. PICK h \in Handles \cup {NoHandle} :
        /\ fujifs_opendir(call.dir, h)
        /\ IF Searching
           THEN /\ IF h = NoHandle THEN Return ELSE Goto("refill")
                /\ sda' = [sda EXCEPT !.dir_handle = h]
           ELSE /\ call' = [call EXCEPT !.handle = h,
                                        !.phase = IF h = NoHandle THEN "act" ELSE "refill"]
                /\ UNCHANGED sda
  BY DEF Opendir
<1>3. CASE Searching
  <2>1. Return \/ Goto("refill")
    BY <1>2, <1>3
  <2>2. call'.fn \in {call.fn, None}
    BY <1>1, <2>1, ReturnSets, GotoSets
  <2> QED BY <1>3, <2>2 DEF LookUpInv, Searching
<1>4. CASE ~Searching
  <2>1. call' = [call EXCEPT !.handle = h, !.phase = IF h = NoHandle THEN "act" ELSE "refill"]
    BY <1>2, <1>4
  <2>2. /\ call'.phase = (IF h = NoHandle THEN "act" ELSE "refill") /\ call'.handle = h
        /\ call'.fn = call.fn /\ call'.dir = call.dir /\ call'.name = call.name
        /\ call'.entry = call.entry
    BY <1>1, <2>1 DEF CallOK, CallFields
  <2>3. call.entry = End
    BY <1>1, <1>4 DEF LookUpInv, Calls, None
  <2>4. CASE h = NoHandle
    BY <2>2, <2>4 DEF LookUpInv
  <2>5. CASE h # NoHandle
    <3>1. h \in Handles /\ call'.phase = "refill"
      BY <2>2, <2>5
    <3> PICK d \in Dirs : d = call.dir
      BY <1>1
    <3>2. PICK L : tree' = tree /\ L = tree[d] /\ Listed(h, d, L, 0)'
      BY <1>1, <1>2, <3>1, OpendirListed
    <3>3. L = tree'[call'.dir] /\ call'.dir = d /\ call'.handle = h
      BY <2>2, <3>2
    <3>4. Listed(call.handle, call.dir, tree[call.dir], 0)'
      BY <3>2, <3>3
    <3>5. NotAmong(tree[call.dir], 0, call.name)'
      BY DEF NotAmong
    <3> QED BY <2>2, <2>3, <3>1, <3>4, <3>5 DEF LookUpInv
  <2> QED BY <2>4, <2>5
<1> QED BY <1>3, <1>4

\* A step of a function that reads the directory through the search record.
LEMMA SearchLookUp ==
  ASSUME Searching, call'.fn \in {call.fn, None}
  PROVE  LookUpInv'
  BY DEF LookUpInv, Searching

LEMMA RefillLookUp ==
  ASSUME Typed, LookUpInv, Refill
  PROVE  LookUpInv'
<1>1. call.phase = "refill" /\ Reading \in Handles /\ CallOK /\ FsOK /\ call.fn # None
      /\ (call.dir \in Dirs \/ Searching)
  BY DEF Refill, Typed, ReadingOK, Looping, CallOK, Searching, SearchCalls
<1>2. PICK more \in BOOLEAN :
        ReaddirRefill(Reading, more) /\ Goto(IF more THEN "record" ELSE "closedir")
  BY DEF Refill
<1>a. tree' = tree
  BY <1>1, <1>2, RefillEffect
<1>3. /\ call'.phase = (IF more THEN "record" ELSE "closedir")
      /\ call'.fn = call.fn /\ call'.dir = call.dir /\ call'.name = call.name
      /\ call'.handle = call.handle /\ call'.entry = call.entry
  <2> DEFINE phase == IF more THEN "record" ELSE "closedir"
  <2>1. Goto(phase)
    BY <1>2
  <2> HIDE DEF phase
  <2>2. /\ call'.phase = phase
        /\ call'.fn = call.fn /\ call'.dir = call.dir /\ call'.name = call.name
        /\ call'.handle = call.handle /\ call'.entry = call.entry
    BY <1>1, <2>1, GotoSets
  <2> QED BY <2>2 DEF phase
<1>4. CASE ~Searching
  <2> PICK h \in Handles, d \in Dirs : h = Reading /\ d = call.dir
    BY <1>1, <1>4
  <2> PICK L : L = tree[d]
    OBVIOUS
  <2>1. call.entry = End /\ h = call.handle
    BY <1>1, <1>4 DEF LookUpInv, Reading
  <2>2. PICK k \in Nat : Listed(call.handle, call.dir, tree[call.dir], k)
                         /\ NotAmong(tree[call.dir], k, call.name)
    BY <1>1, <1>4 DEF LookUpInv
  <2>3. Listed(h, d, L, k) /\ NotAmong(L, k, call.name)
    BY <2>1, <2>2
  <2>4. tree' = tree
    BY <1>a
  <2>5. IF more THEN Listed(h, d, L, k)' ELSE k = Len(L)
    BY <1>1, <1>2, <2>3, RefillListed
  <2>6. CASE more
    <3>1. Listed(call.handle, call.dir, tree[call.dir], k)'
      BY <1>3, <2>1, <2>4, <2>5, <2>6
    <3>2. NotAmong(tree[call.dir], k, call.name)'
      BY <1>3, <2>3, <2>4 DEF NotAmong
    <3> QED BY <1>3, <2>1, <2>6, <3>1, <3>2 DEF LookUpInv
  <2>7. CASE ~more
    <3>1. DOMAIN L = 1..Len(L)
      BY <1>1, FsTypes DEF FsOK
    <3>2. ~Exists(<<call.dir, call.name>>)'
      BY <1>3, <2>3, <2>4, <2>5, <2>7, <3>1 DEF Exists, NotAmong
    <3> QED BY <1>3, <2>7, <3>2 DEF LookUpInv
  <2> QED BY <2>6, <2>7
<1> QED BY <1>3, <1>4, SearchLookUp

LEMMA RecordLookUp ==
  ASSUME Typed, LookUpInv, Record
  PROVE  LookUpInv'
<1>1. call.phase = "record" /\ Reading \in Handles /\ CallOK /\ FsOK /\ call.fn # None
      /\ hnd[Reading].position < hnd[Reading].length /\ (call.dir \in Dirs \/ Searching)
  BY DEF Record, Typed, ReadingOK, Looping, CallOK, Searching, SearchCalls
<1>2. PICK e \in Files \cup {Junk, End} :
        /\ ReaddirRecord(Reading, e)
        /\ CASE e = End -> Goto("closedir") /\ UNCHANGED dta
             [] e # End /\ ~Matches(e, call.name, call.fn) -> Goto("refill") /\ UNCHANGED dta
             [] e # End /\ Matches(e, call.name, call.fn) ->
                  CASE call.fn \in {"find_first", "find_next"} -> Found(e)
                    [] call.fn \in {"delete_files", "rename_files"} ->
                         call' = [call EXCEPT !.phase = "act", !.entry = e] /\ UNCHANGED dta
                    [] OTHER ->
                         call' = [call EXCEPT !.phase = "closedir", !.entry = e] /\ UNCHANGED dta
  BY DEF Record
<1>3. CASE Searching
  <2>1. CASE Goto("closedir") \/ Goto("refill") \/ Return
    BY <1>1, <1>3, <2>1, GotoSets, ReturnSets, SearchLookUp
  <2>2. CASE \E phase : call' = [call EXCEPT !.phase = phase, !.entry = e]
    <3>1. call'.fn = call.fn
      BY <1>1, <2>2 DEF CallOK, CallFields
    <3> QED BY <1>3, <3>1, SearchLookUp
  <2> QED BY <1>2, <2>1, <2>2 DEF Found
<1>4. CASE ~Searching
  <2> PICK h \in Handles, d \in Dirs : h = Reading /\ d = call.dir
    BY <1>1, <1>4
  <2> PICK L : L = tree[d]
    OBVIOUS
  <2>1. call.entry = End /\ h = call.handle
    BY <1>1, <1>4 DEF LookUpInv, Reading
  <2>2. PICK k \in Nat : Listed(call.handle, call.dir, tree[call.dir], k)
                         /\ NotAmong(tree[call.dir], k, call.name)
    BY <1>1, <1>4 DEF LookUpInv
  <2>3. Listed(h, d, L, k) /\ NotAmong(L, k, call.name)
    BY <2>1, <2>2
  <2>4. tree' = tree
    BY <1>1, <1>2, RecordEffect
  <2>5. k + 1 \in 1..Len(L) /\ e = <<d, L[k + 1]>> /\ Listed(h, d, L, k + 1)'
    BY <1>1, <1>2, <2>3, RecordListed
  <2>6. e # End /\ e # Junk
    BY <2>5, EntryIsSomething
  <2>7. CASE ~Matches(e, call.name, call.fn)
    <3>1. Goto("refill")
      BY <1>2, <2>6, <2>7
    <3>2. /\ call'.phase = "refill" /\ call'.entry = End
          /\ call'.fn = call.fn /\ call'.dir = call.dir /\ call'.name = call.name
          /\ call'.handle = call.handle
      BY <1>1, <2>1, <3>1, GotoSets
    <3>3. L[k + 1] # call.name
      <4>1. e[2] = L[k + 1] /\ call.fn \notin {"delete_files", "rename_files"}
        BY <1>4, <2>5 DEF Searching, SearchCalls
      <4> QED BY <2>6, <2>7, <4>1 DEF Matches
    <3>4. NotAmong(L, k + 1, call.name)
      <4> SUFFICES ASSUME NEW i \in 1..k + 1 PROVE L[i] # call.name
        BY DEF NotAmong
      <4>1. i \in 1..k \/ i = k + 1
        OBVIOUS
      <4> QED BY <2>3, <3>3, <4>1 DEF NotAmong
    <3>5. NotAmong(tree[call.dir], k + 1, call.name)'
      BY <2>4, <3>2, <3>4 DEF NotAmong
    <3>6. Listed(call.handle, call.dir, tree[call.dir], k + 1)'
      BY <2>1, <2>4, <2>5, <3>2
    <3> QED BY <3>2, <3>5, <3>6 DEF LookUpInv
  <2>8. CASE Matches(e, call.name, call.fn)
    <3>1. call' = [call EXCEPT !.phase = "closedir", !.entry = e]
      BY <1>2, <1>4, <2>6, <2>8 DEF Searching, SearchCalls
    <3>2. call'.phase = "closedir" /\ call'.entry = e
      BY <1>1, <3>1 DEF CallOK, CallFields
    <3> QED BY <2>6, <3>2 DEF LookUpInv
  <2> QED BY <2>7, <2>8
<1> QED BY <1>3, <1>4

LEMMA ClosedirLookUp ==
  ASSUME Typed, LookUpInv, Closedir
  PROVE  LookUpInv'
<1>1. CallOK /\ call.fn # None
  BY DEF Closedir, Typed, CallOK
<1>2. CASE Searching
  <2>1. Return
    BY <1>2 DEF Closedir
  <2> QED BY <1>2, <2>1, ReturnSets, SearchLookUp
<1>3. CASE ~Searching
  <2>1. call' = [call EXCEPT !.phase = "act", !.handle = NoHandle]
    BY <1>3 DEF Closedir
  <2>2. call'.phase = "act"
    BY <1>1, <2>1 DEF CallOK, CallFields
  <2> QED BY <2>2 DEF LookUpInv
<1> QED BY <1>2, <1>3

\* The calls that begin a look-up, those that end one, and what DOS does without any.
LEMMA OtherLookUp ==
  ASSUME Typed, LookUpInv,
         \/ \E fn, d, n, who, how : Begin(fn, "opendir", d, n, who, how)
         \/ \E fn \in SearchCalls : \E phase, d, n, who, how : Begin(fn, phase, d, n, who, how)
         \/ Return \/ Delete
         \/ Idle /\ UNCHANGED call
         \/ UNCHANGED vars
  PROVE  LookUpInv'
<1>1. ASSUME NEW fn, NEW d, NEW n, NEW who, NEW how, Begin(fn, "opendir", d, n, who, how)
      PROVE  LookUpInv'
  <2>1. call'.phase = "opendir" /\ call'.entry = End
    BY <1>1 DEF Begin, NoCall
  <2> QED BY <2>1 DEF LookUpInv
<1>2. ASSUME NEW fn \in SearchCalls, NEW phase, NEW d, NEW n, NEW who, NEW how,
             Begin(fn, phase, d, n, who, how)
      PROVE  LookUpInv'
  BY <1>2, BeginSets DEF LookUpInv, Searching
<1>3. CASE Return
  BY <1>3, ReturnSets DEF LookUpInv
<1>4. CASE Delete
  <2>1. (Goto("refill") \/ Return) /\ Searching /\ CallOK
    BY <1>4 DEF Delete, Searching, SearchCalls, Typed
  <2> QED BY <2>1, GotoSets, ReturnSets, SearchLookUp
<1>5. CASE Idle /\ UNCHANGED call
  BY <1>5 DEF Idle, LookUpInv
<1>6. CASE UNCHANGED vars
  BY <1>6 DEF vars, LookUpInv, Searching, Listed, Unread, CellOf, NotAmong, Exists
<1> QED BY <1>1, <1>2, <1>3, <1>4, <1>5, <1>6

LEMMA StepLookUp ==
  ASSUME Typed, LookUpInv, [Next]_vars
  PROVE  LookUpInv'
<1>1. CASE Step \/ UNCHANGED vars
  <2>1. CASE Opendir \/ Refill \/ Record \/ Closedir
    BY <2>1, OpendirLookUp, RefillLookUp, RecordLookUp, ClosedirLookUp
  <2>2. CASE Delete \/ Rename \/ Answer \/ Mkdir \/ Rmdir \/ Open \/ UNCHANGED vars
    BY <2>2, OtherLookUp DEF Rename, Answer, Mkdir, Rmdir, Open
  <2> QED BY <1>1, <2>1, <2>2 DEF Step
<1>2. CASE Dos
  <2>1. CASE \E p \in Progs : FindNext(p)
    BY <2>1, OtherLookUp DEF FindNext, SearchCalls
  <2>2. CASE \/ \E p \in Progs, d \in Dirs, n \in Patterns : FindFirst(p, d, n)
             \/ \E d \in Dirs, n \in Patterns : DeleteFiles(d, n) \/ RenameFiles(d, n)
    BY <2>2, OtherLookUp DEF FindFirst, DeleteFiles, RenameFiles, Files1
  <2>3. CASE \E d \in Dirs : \/ \E n \in Lookups : Query(d, n) \/ RemoveDir(d, n)
                             \/ \E n \in DirNames : MakeDir(d, n)
                             \/ \E s \in Sfts, n \in FileNames, how \in HowToOpen :
                                  OpenExtended(s, d, n, how)
    BY <2>3, OtherLookUp DEF Query, RemoveDir, MakeDir, OpenExtended, LookUp
  <2>4. CASE \/ \E p \in Progs : Abandon(p)
             \/ \E s \in Sfts :
                  \/ \E pos \in 0..MaxSize : DosSeek(s, pos)
                  \/ \E asked \in 1..MaxSize : ReadFile(s, asked)
                  \/ WriteFile(s) \/ CloseFile(s)
    BY <2>4, OtherLookUp DEF Abandon, DosSeek, ReadFile, WriteFile, CloseFile
  <2> QED BY <1>2, <2>1, <2>2, <2>3, <2>4 DEF Dos
<1> QED BY <1>1, <1>2 DEF Next, Finished

\* A look-up that has read its directory to the end has not missed its name (fujifs_stat),
\* whatever the listing and however the buffer cuts it up.
THEOREM LookUpFindsHolds == Spec => []LookUpFinds
<1>1. Init => Typed /\ LookUpInv
  BY InitTyped DEF Init, NoCall, LookUpInv
<1>2. Typed /\ LookUpInv /\ [Next]_vars => (Typed /\ LookUpInv)'
  BY StepTyped, StepLookUp
<1>3. Typed /\ LookUpInv => LookUpFinds
  <2> SUFFICES ASSUME Typed, LookUpInv, call.phase = "closedir", ~Searching, call.entry = End
               PROVE  ~Exists(<<call.dir, call.name>>)
    BY DEF LookUpFinds
  <2>1. call.fn # None
    BY DEF Typed, CallOK
  <2> QED BY <2>1 DEF LookUpInv
<1> QED BY <1>1, <1>2, <1>3, PTL DEF Spec

-----------------------------------------------------------------------------
(* Searching: what a search should find, and that it finds it.             *)

\* Prefixes.
LEMMA PrefixOfItself ==
  ASSUME NEW S, NEW s \in Seq(S)
  PROVE  IsPrefix(s, s)
  BY LenProperties DEF IsPrefix

LEMMA PrefixOfMore ==
  ASSUME NEW S, NEW s \in Seq(S), NEW t \in Seq(S), NEW e \in S, IsPrefix(s, t)
  PROVE  IsPrefix(s, Append(t, e))
<1> DEFINE n == Len(s)
           u == Append(t, e)
<1>1. n \in Nat /\ Len(t) \in Nat /\ n <= Len(t) /\ SubSeq(s, 1, n) = SubSeq(t, 1, n)
  BY LenProperties DEF IsPrefix
<1>2. u \in Seq(S) /\ Len(u) = Len(t) + 1 /\ \A i \in 1..Len(t) : u[i] = t[i]
  BY AppendType
<1> HIDE DEF u, n
<1>3. /\ \A i \in 1..n : t[i] \in S
      /\ \A i \in 1..n : u[i] \in S
  BY <1>1, <1>2, ElementOfSeq
<1>4. /\ SubSeq(t, 1, n) \in Seq(S) /\ Len(SubSeq(t, 1, n)) = n
      /\ \A i \in 1..n - 1 + 1 : SubSeq(t, 1, n)[i] = t[1 + i - 1]
  BY <1>1, <1>3, SubSeqProperties
<1>5. /\ SubSeq(u, 1, n) \in Seq(S) /\ Len(SubSeq(u, 1, n)) = n
      /\ \A i \in 1..n - 1 + 1 : SubSeq(u, 1, n)[i] = u[1 + i - 1]
  BY <1>1, <1>2, <1>3, SubSeqProperties
<1>6. ASSUME NEW i \in 1..n PROVE SubSeq(t, 1, n)[i] = SubSeq(u, 1, n)[i]
  <2>1. i \in 1..n - 1 + 1 /\ 1 + i - 1 = i /\ i \in 1..Len(t)
    BY <1>1
  <2> QED BY <1>2, <1>4, <1>5, <2>1
<1>7. SubSeq(t, 1, n) = SubSeq(u, 1, n)
  BY <1>4, <1>5, <1>6, SeqEqual
<1> QED BY <1>1, <1>2, <1>7 DEF IsPrefix, u, n

\* One more name.
OneMore(d, L, pattern, k, found) ==
  IF Matches(<<d, L[k]>>, pattern, "find_first") THEN Append(found, <<d, L[k]>>) ELSE found

\* The recursion is well-founded, so that there is a function it defines.
LEMMA WantedIs ==
  ASSUME NEW d, NEW L, Len(L) \in Nat, NEW pattern
  PROVE  LET w == Wanted(d, L, pattern)
         IN  /\ w[0] = <<>>
             /\ \A k \in 1..Len(L) : w[k] = OneMore(d, L, pattern, k, w[k - 1])
<1> DEFINE n == Len(L)
           Rule(f, k) == IF k = 0 THEN <<>> ELSE OneMore(d, L, pattern, k, f[k - 1])
           Obeys(f, m) == f = [k \in 0..m |-> Rule(f, k)]
           T == {m \in 0..n : ~\E f : Obeys(f, m)}
<1>1. \E f : Obeys(f, n)
  <2> SUFFICES ASSUME T # {} PROVE FALSE
    OBVIOUS
  <2>0. T \in SUBSET Nat
    OBVIOUS
  <2>1. PICK x \in T : \A y \in T : x <= y
    <3> HIDE DEF T
    <3> QED BY <2>0, LeastOf
  <2>2. CASE x = 0
    <3> DEFINE f == [k \in 0..0 |-> <<>>]
    <3>1. \A k \in 0..0 : k = 0
      OBVIOUS
    <3>2. f = [k \in 0..0 |-> Rule(f, k)]
      BY <3>1
    <3> QED BY <2>1, <2>2, <3>2
  <2>3. CASE x # 0
    <3>1. x - 1 \in 0..n /\ x - 1 \notin T /\ x \in Nat
      BY <2>1, <2>3
    <3>2. PICK f : Obeys(f, x - 1)
      BY <3>1
    <3> DEFINE g == [k \in 0..x |-> IF k = x THEN Rule(f, x) ELSE f[k]]
    <3>3. ASSUME NEW k \in 0..x PROVE g[k] = Rule(g, k)
      <4>1. k = 0 \/ (k - 1 \in 0..x - 1 /\ k - 1 # x /\ k - 1 \in 0..x)
        BY <3>1
      <4>2. k # 0 => g[k - 1] = f[k - 1]
        BY <4>1
      <4>3. Rule(g, k) = Rule(f, k)
        BY <4>2
      <4>4. CASE k = x
        BY <4>3, <4>4
      <4>5. CASE k # x
        <5>1. k \in 0..x - 1
          BY <3>1, <4>5
        <5>2. f[k] = Rule(f, k)
          BY <3>2, <5>1
        <5>3. g[k] = f[k]
          BY <4>5
        <5> QED BY <4>3, <5>2, <5>3
      <4> QED BY <4>4, <4>5
    <3>4. Obeys(g, x)
      BY <3>3
    <3> QED BY <2>1, <3>4
  <2> QED BY <2>2, <2>3
<1> DEFINE w == Wanted(d, L, pattern)
<1>2. w = [k \in 0..n |-> Rule(w, k)]
  <2>1. w = CHOOSE f : f = [k \in 0..n |->
                              IF k = 0 THEN <<>>
                              ELSE IF Matches(<<d, L[k]>>, pattern, "find_first")
                                   THEN Append(f[k - 1], <<d, L[k]>>) ELSE f[k - 1]]
    BY DEF Wanted
  <2>2. w = CHOOSE f : Obeys(f, n)
    BY <2>1 DEF OneMore
  <2> HIDE DEF w
  <2> QED BY <1>1, <2>2
<1> HIDE DEF w
<1>3. w[0] = <<>>
  BY <1>2
<1>4. \A k \in 1..n : w[k] = OneMore(d, L, pattern, k, w[k - 1])
  <2> SUFFICES ASSUME NEW k \in 1..n PROVE w[k] = OneMore(d, L, pattern, k, w[k - 1])
    OBVIOUS
  <2>1. k \in 0..n /\ k # 0
    OBVIOUS
  <2>2. w[k] = Rule(w, k)
    BY <1>2, <2>1
  <2> QED BY <2>1, <2>2
<1> QED BY <1>3, <1>4 DEF w

\* It finds entries of the directory.
LEMMA WantedType ==
  ASSUME NEW d \in Dirs, NEW L \in Seq(Names), NEW pattern, NEW k \in 0..Len(L)
  PROVE  Wanted(d, L, pattern)[k] \in Seq(Files)
<1> DEFINE w == Wanted(d, L, pattern)
           T == {m \in 0..Len(L) : w[m] \notin Seq(Files)}
<1>1. Len(L) \in Nat /\ \A m \in 1..Len(L) : L[m] \in Names
  BY LenProperties, ElementOfSeq
<1>2. w[0] = <<>> /\ \A m \in 1..Len(L) : w[m] = OneMore(d, L, pattern, m, w[m - 1])
  BY <1>1, WantedIs
<1> HIDE DEF w
<1>3. T = {}
  <2> SUFFICES ASSUME T # {} PROVE FALSE
    OBVIOUS
  <2>0. T \in SUBSET Nat
    BY <1>1
  <2>1. PICK x \in T : \A y \in T : x <= y
    <3> HIDE DEF T
    <3> QED BY <2>0, LeastOf
  <2>2. x # 0
    <3>1. <<>> \in Seq(Files)
      OBVIOUS
    <3> QED BY <1>2, <2>1, <3>1
  <2>3. x \in 1..Len(L) /\ x - 1 \in 0..Len(L) /\ x - 1 \notin T
    BY <1>1, <2>1, <2>2
  <2>4. w[x - 1] \in Seq(Files) /\ <<d, L[x]>> \in Files
    BY <1>1, <2>3 DEF Files
  <2>5. Append(w[x - 1], <<d, L[x]>>) \in Seq(Files)
    BY <2>4, AppendType
  <2>6. w[x] = OneMore(d, L, pattern, x, w[x - 1])
    BY <1>2, <2>3
  <2>7. w[x] \in Seq(Files)
    BY <2>4, <2>5, <2>6 DEF OneMore
  <2> QED BY <2>1, <2>7
<1> QED BY <1>3 DEF w

\* What is found among the first names is the beginning of what is found among all.
LEMMA WantedPrefix ==
  ASSUME NEW d \in Dirs, NEW L \in Seq(Names), NEW pattern, NEW k \in 0..Len(L)
  PROVE  IsPrefix(Wanted(d, L, pattern)[k], Wanted(d, L, pattern)[Len(L)])
<1> DEFINE w == Wanted(d, L, pattern)
           T == {m \in k..Len(L) : ~IsPrefix(w[k], w[m])}
<1>1. Len(L) \in Nat /\ k \in Nat /\ \A m \in 1..Len(L) : L[m] \in Names
  BY LenProperties, ElementOfSeq
<1>2. \A m \in 1..Len(L) : w[m] = OneMore(d, L, pattern, m, w[m - 1])
  BY <1>1, WantedIs
<1>3. \A m \in 0..Len(L) : w[m] \in Seq(Files)
  BY WantedType
<1> HIDE DEF w
<1>4. T = {}
  <2> SUFFICES ASSUME T # {} PROVE FALSE
    OBVIOUS
  <2>0. T \in SUBSET Nat
    BY <1>1
  <2>1. PICK x \in T : \A y \in T : x <= y
    <3> HIDE DEF T
    <3> QED BY <2>0, LeastOf
  <2>2. x # k
    BY <1>3, <2>1, PrefixOfItself
  <2>3. x \in 1..Len(L) /\ x - 1 \in k..Len(L) /\ x - 1 \in 0..Len(L) /\ x - 1 \notin T
    BY <1>1, <2>1, <2>2
  <2>4. IsPrefix(w[k], w[x - 1])
    BY <2>3
  <2>5. w[x - 1] \in Seq(Files) /\ w[k] \in Seq(Files) /\ <<d, L[x]>> \in Files
    BY <1>1, <1>3, <2>3 DEF Files
  <2>6. IsPrefix(w[k], w[x])
    BY <1>2, <2>3, <2>4, <2>5, PrefixOfMore DEF OneMore
  <2> QED BY <2>1, <2>6
<1>5. Len(L) \in k..Len(L)
  BY <1>1
<1>6. IsPrefix(w[k], w[Len(L)])
  BY <1>4, <1>5
<1> QED BY <1>6 DEF w

\* Where a search is: what it has found is what it should find among the names that have been
\* read through its handle, and what it should find in all is what is among all the names.
Placed(p) ==
  \E d \in Dirs, L \in Seq(Names), k \in Nat :
    /\ Listed(sda.dir_handle, d, L, k)
    /\ dta[p].want = Wanted(d, L, sda.pattern)[Len(L)]
    /\ dta[p].got = Wanted(d, L, sda.pattern)[k]

Finding == call.fn \in {"find_first", "find_next"}
FindsFor(p) == Finding /\ call.who = p

\* A search that nothing has disturbed: between calls its handle is at its place; while
\* find_first or find_next runs, it is that function's.
Undisturbed(p) ==
  /\ InOrder(p)
  /\ Live(p) => IF Idle THEN Placed(p) ELSE call.fn = "find_next" /\ call.who = p
  /\ FindsFor(p) =>
       /\ call.phase = "opendir" => dta[p].state = "none" /\ dta[p].got = <<>>
       /\ call.phase \in {"refill", "record"} => Placed(p)
       /\ call.phase = "closedir" => dta[p].got = dta[p].want

SearchInv ==
  /\ Finding => call.name = sda.pattern
  /\ call.fn \in {"delete_files", "rename_files"} => call.who = None
  /\ \A p \in Progs : ~dta[p].disturbed => Undisturbed(p)

LEMMA InitSearch == Init => SearchInv
  BY DEF Init, SearchInv, Undisturbed, InOrder, Live, NoDta, NoCall, Finding, FindsFor, None

\* A search that is not live and that no function runs for cannot get out of order.
LEMMA NotConcerned ==
  ASSUME NEW p, InOrder(p), ~Live(p), dta'[p] = dta[p], ~FindsFor(p)'
  PROVE  Undisturbed(p)'
<1>1. ~Live(p)'
  BY DEF Live
<1>2. InOrder(p)'
  BY DEF InOrder, Live
<1> QED BY <1>1, <1>2 DEF Undisturbed

\* Nothing that the search reads has moved.
LEMMA PlacedStays ==
  ASSUME NEW p, Placed(p), dta'[p] = dta[p], sda' = sda, buf' = buf,
         hnd'[sda.dir_handle] = hnd[sda.dir_handle],
         chan'[sda.dir_handle] = chan[sda.dir_handle]
  PROVE  Placed(p)'
<1> PICK d \in Dirs, L \in Seq(Names), k \in Nat :
        /\ Listed(sda.dir_handle, d, L, k)
        /\ dta[p].want = Wanted(d, L, sda.pattern)[Len(L)]
        /\ dta[p].got = Wanted(d, L, sda.pattern)[k]
  BY DEF Placed
<1>1. Listed(sda.dir_handle, d, L, k)'
  BY DEF Listed, Unread, CellOf
<1>2. Wanted(d, L, sda.pattern)' = Wanted(d, L, sda.pattern)
  BY DEF Wanted, Matches
<1>3. dta'[p].want = Wanted(d, L, sda'.pattern)[Len(L)]
      /\ dta'[p].got = Wanted(d, L, sda'.pattern)[k]
  OBVIOUS
<1> QED BY <1>1, <1>3 DEF Placed

\* A mark on every live search leaves as they are those it does not mark.
LEMMA Marked ==
  ASSUME DtaOK, NEW but, NEW q \in Progs, ~Disturb(but)[q].disturbed
  PROVE  Disturb(but)[q] = dta[q] /\ (q \notin but => ~Live(q))
<1>1. Disturb(but)[q] = IF Live(q) /\ q \notin but THEN [dta[q] EXCEPT !.disturbed = TRUE]
                        ELSE dta[q]
  BY DEF Disturb
<1>2. [dta[q] EXCEPT !.disturbed = TRUE].disturbed = TRUE
  BY DEF DtaOK, DtaFields
<1> QED BY <1>1, <1>2

LEMMA FindFirstSearch ==
  ASSUME Typed, SearchInv, NEW p \in Progs, NEW d \in Dirs, NEW n \in Patterns, FindFirst(p, d, n)
  PROVE  SearchInv'
<1>1. /\ dta' = [Disturb({}) EXCEPT ![p] = NoDta] /\ NewSearch(n)
      /\ Begin("find_first", "opendir", d, n, p, None)
  BY DEF FindFirst
<1>2. /\ call'.fn = "find_first" /\ call'.name = n /\ call'.who = p /\ call'.phase = "opendir"
      /\ sda'.pattern = n
  BY <1>1, BeginSets DEF NewSearch
<1>3. DtaOK /\ DOMAIN Disturb({}) = Progs
  BY DisturbType DEF Typed
<1>4. dta'[p] = NoDta
  BY <1>1, <1>3
<1>5. Undisturbed(p)'
  BY <1>2, <1>4 DEF Undisturbed, InOrder, Live, NoDta
<1>6. ASSUME NEW q \in Progs, q # p, ~dta'[q].disturbed PROVE Undisturbed(q)'
  <2>1. dta'[q] = Disturb({})[q]
    BY <1>1, <1>3, <1>6
  <2>2. dta'[q] = dta[q] /\ ~Live(q)
    BY <1>3, <1>6, <2>1, Marked
  <2>3. InOrder(q)
    BY <1>6, <2>2 DEF SearchInv, Undisturbed
  <2>4. ~FindsFor(q)'
    BY <1>2, <1>6 DEF FindsFor
  <2> QED BY <2>2, <2>3, <2>4, NotConcerned
<1>7. \A q \in Progs : ~dta'[q].disturbed => Undisturbed(q)'
  BY <1>5, <1>6
<1> QED BY <1>2, <1>7 DEF SearchInv, Finding

LEMMA FindNextSearch ==
  ASSUME Typed, OneSearch, SearchInv, NEW p \in Progs, FindNext(p)
  PROVE  SearchInv'
<1>1. /\ Idle /\ Live(p) /\ sda' = dta[p].rec /\ dta' = Disturb({p})
      /\ Begin("find_next", "refill", None, dta[p].rec.pattern, p, None)
      /\ UNCHANGED <<tree, size, chan, hnd, buf>>
  BY DEF FindNext
<1>2. sda' = sda /\ \A q \in Progs : Live(q) => q = p
  BY <1>1 DEF OneSearch
<1>3. /\ call'.fn = "find_next" /\ call'.name = sda.pattern /\ call'.who = p
      /\ call'.phase = "refill"
  BY <1>1, <1>2, BeginSets
<1>4. DtaOK
  BY DEF Typed
<1>5. ASSUME NEW q \in Progs, ~dta'[q].disturbed PROVE Undisturbed(q)'
  <2>1. dta'[q] = dta[q]
    BY <1>1, <1>4, <1>5, Marked
  <2>2. Undisturbed(q)
    BY <1>5, <2>1 DEF SearchInv
  <2>3. CASE q # p
    <3>1. ~Live(q) /\ ~FindsFor(q)'
      BY <1>2, <1>3, <2>3 DEF FindsFor
    <3> QED BY <2>1, <2>2, <3>1, NotConcerned DEF Undisturbed
  <2>4. CASE q = p
    <3>1. Placed(p)
      BY <1>1, <2>2, <2>4 DEF Undisturbed
    <3>2. Placed(p)'
      BY <1>1, <1>2, <2>1, <2>4, <3>1, PlacedStays
    <3>3. InOrder(p)'
      BY <2>1, <2>2, <2>4 DEF Undisturbed, InOrder, Live
    <3> QED BY <1>3, <2>4, <3>2, <3>3 DEF Undisturbed, Idle, None
  <2> QED BY <2>3, <2>4
<1> QED BY <1>2, <1>3, <1>5 DEF SearchInv, Finding

\* The other functions that read a directory.
LEMMA DisturbingSearch ==
  ASSUME Typed, SearchInv, dta' = Disturb({}),
         NEW fn, fn \notin {"find_first", "find_next"}, NEW phase, NEW d, NEW n, NEW who, NEW how,
         Begin(fn, phase, d, n, who, how),
         fn \in {"delete_files", "rename_files"} => who = None
  PROVE  SearchInv'
<1>1. call'.fn = fn /\ call'.who = who
  BY BeginSets
<1>2. ~Finding'
  BY <1>1 DEF Finding
<1>3. ASSUME NEW q \in Progs, ~dta'[q].disturbed PROVE Undisturbed(q)'
  <2>1. dta'[q] = dta[q] /\ ~Live(q)
    BY <1>3, Marked DEF Typed
  <2>2. InOrder(q)
    BY <1>3, <2>1 DEF SearchInv, Undisturbed
  <2> QED BY <1>2, <2>1, <2>2, NotConcerned DEF FindsFor
<1> QED BY <1>1, <1>2, <1>3 DEF SearchInv

LEMMA AbandonSearch ==
  ASSUME Typed, OneSearch, SearchInv, NEW p \in Progs, Abandon(p)
  PROVE  SearchInv'
<1>1. Idle /\ Live(p) /\ dta' = [dta EXCEPT ![p] = NoDta] /\ UNCHANGED <<sda, call>>
  BY DEF Abandon
<1>2. DOMAIN dta = Progs /\ \A q \in Progs : Live(q) => q = p
  BY <1>1 DEF OneSearch, Typed, DtaOK
<1>3. call'.fn = None
  BY <1>1 DEF Idle
<1>4. ASSUME NEW q \in Progs, ~dta'[q].disturbed PROVE Undisturbed(q)'
  <2>1. ~FindsFor(q)'
    BY <1>3 DEF FindsFor, Finding, None
  <2>2. CASE q = p
    <3>1. dta'[q] = NoDta
      BY <1>1, <1>2, <2>2
    <3> QED BY <2>1, <3>1 DEF Undisturbed, InOrder, Live, NoDta
  <2>3. CASE q # p
    <3>1. dta'[q] = dta[q] /\ ~Live(q)
      BY <1>1, <1>2, <2>3
    <3> QED BY <1>4, <2>1, <3>1, NotConcerned DEF SearchInv, Undisturbed
  <2> QED BY <2>2, <2>3
<1> QED BY <1>3, <1>4 DEF SearchInv, Finding, None

\* A step of a function that does not run for a search.
LEMMA ElsewhereSearch ==
  ASSUME SearchInv, ~Idle, ~Finding, UNCHANGED dta,
         call'.fn = None \/ (call'.fn = call.fn /\ call'.who = call.who)
  PROVE  SearchInv'
<1>1. ~Finding'
  BY DEF Finding, None
<1>2. ASSUME NEW q \in Progs, ~dta'[q].disturbed PROVE Undisturbed(q)'
  <2>1. Undisturbed(q)
    BY <1>2 DEF SearchInv
  <2>2. ~Live(q)
    BY <2>1 DEF Undisturbed, Finding
  <2> QED BY <1>1, <2>1, <2>2, NotConcerned DEF FindsFor, Undisturbed
<1> QED BY <1>1, <1>2 DEF SearchInv, None

\* Between calls, a step that leaves the handle of the search and the buffer alone.
LEMMA BetweenSearch ==
  ASSUME SearchInv, Idle, UNCHANGED <<buf, sda, dta, call>>,
         \A p \in Progs : Live(p) => /\ hnd'[sda.dir_handle] = hnd[sda.dir_handle]
                                     /\ chan'[sda.dir_handle] = chan[sda.dir_handle]
  PROVE  SearchInv'
<1>1. call.fn = None
  BY DEF Idle
<1>2. ASSUME NEW q \in Progs, ~dta'[q].disturbed PROVE Undisturbed(q)'
  <2>1. Undisturbed(q)
    BY <1>2 DEF SearchInv
  <2>2. ~FindsFor(q)'
    BY <1>1 DEF FindsFor, Finding, None
  <2>3. CASE Live(q)
    <3>1. Placed(q)
      BY <2>1, <2>3 DEF Undisturbed
    <3>2. Placed(q)'
      BY <2>3, <3>1, PlacedStays
    <3>3. InOrder(q)'
      BY <2>1 DEF Undisturbed, InOrder, Live
    <3> QED BY <2>2, <3>2, <3>3 DEF Undisturbed, Idle
  <2>4. CASE ~Live(q)
    BY <2>1, <2>2, <2>4, NotConcerned DEF Undisturbed
  <2> QED BY <2>3, <2>4
<1> QED BY <1>1, <1>2 DEF SearchInv, Finding, None

\* A step of a search function that does not return: the function goes on for the same
\* program, and no other search is live.
LEMMA RunningSearch ==
  ASSUME SearchInv, ~Idle, Finding, call'.fn = call.fn, call'.name = call.name,
         call'.who = call.who, sda'.pattern = sda.pattern,
         NEW p \in Progs, p = call.who, \A q \in Progs \ {p} : dta'[q] = dta[q],
         ~dta'[p].disturbed => Undisturbed(p)'
  PROVE  SearchInv'
<1>1. ASSUME NEW q \in Progs, ~dta'[q].disturbed PROVE Undisturbed(q)'
  <2>1. CASE q = p
    BY <1>1, <2>1
  <2>2. CASE q # p
    <3>1. dta'[q] = dta[q] /\ Undisturbed(q) /\ ~FindsFor(q)'
      BY <1>1, <2>2 DEF SearchInv, FindsFor
    <3>2. ~Live(q)
      BY <2>2, <3>1 DEF Undisturbed
    <3> QED BY <3>1, <3>2, NotConcerned DEF Undisturbed
  <2> QED BY <2>1, <2>2
<1>2. (Finding => call.name = sda.pattern)'
  BY DEF SearchInv
<1>3. (call.fn \in {"delete_files", "rename_files"} => call.who = None)'
  BY DEF SearchInv
<1> QED BY <1>1, <1>2, <1>3 DEF SearchInv

\* One that returns.
LEMMA ReturningSearch ==
  ASSUME SearchInv, ~Idle, Finding, Return,
         NEW p \in Progs, p = call.who, \A q \in Progs \ {p} : dta'[q] = dta[q],
         ~dta'[p].disturbed => Undisturbed(p)'
  PROVE  SearchInv'
<1>1. call'.fn = None
  BY ReturnSets
<1>2. ASSUME NEW q \in Progs, ~dta'[q].disturbed PROVE Undisturbed(q)'
  <2>1. CASE q = p
    BY <1>2, <2>1
  <2>2. CASE q # p
    <3>1. dta'[q] = dta[q] /\ Undisturbed(q) /\ ~FindsFor(q)'
      BY <1>1, <1>2, <2>2 DEF SearchInv, FindsFor, Finding, None
    <3>2. ~Live(q)
      BY <2>2, <3>1 DEF Undisturbed
    <3> QED BY <3>1, <3>2, NotConcerned DEF Undisturbed
  <2> QED BY <2>1, <2>2
<1> QED BY <1>1, <1>2 DEF SearchInv, Finding, None

LEMMA OpendirSearch ==
  ASSUME Typed, SearchInv, Opendir
  PROVE  SearchInv'
<1> USE HandlesAreNumbers
<1> DEFINE w == Wanted(call.dir, tree[call.dir], call.name)[Len(tree[call.dir])]
<1>1. /\ call.phase = "opendir" /\ call.fn # "find_next" /\ CallOK /\ FsOK /\ DtaOK
      /\ dta' = IF call.fn = "find_first" THEN [dta EXCEPT ![call.who].want = w] ELSE dta
      /\ sda \in SearchRec /\ ~Idle
  BY DEF Opendir, Typed, CallOK, Idle
<1> HIDE DEF w
<1>2. PICK h \in Handles \cup {NoHandle} :
        /\ fujifs_opendir(call.dir, h)
        /\ IF Searching
           THEN /\ IF h = NoHandle THEN Return ELSE Goto("refill")
                /\ sda' = [sda EXCEPT !.dir_handle = h]
           ELSE /\ call' = [call EXCEPT !.handle = h,
                                        !.phase = IF h = NoHandle THEN "act" ELSE "refill"]
                /\ UNCHANGED sda
  BY DEF Opendir
<1>3. CASE call.fn # "find_first"
  <2>1. \/ Return \/ Goto("refill")
        \/ call' = [call EXCEPT !.handle = h, !.phase = IF h = NoHandle THEN "act" ELSE "refill"]
    BY <1>2
  <2>2. call'.fn = None \/ (call'.fn = call.fn /\ call'.who = call.who)
    BY <1>1, <2>1, ReturnSets, GotoSets DEF CallOK, CallFields
  <2> QED BY <1>1, <1>3, <2>2, ElsewhereSearch DEF Finding
<1>4. CASE call.fn = "find_first"
  <2>1. /\ call.who \in Progs /\ call.dir \in Dirs /\ Finding
        /\ IF h = NoHandle THEN Return ELSE Goto("refill")
        /\ sda' = [sda EXCEPT !.dir_handle = h] /\ dta' = [dta EXCEPT ![call.who].want = w]
    BY <1>1, <1>2, <1>4 DEF CallOK, Calls, Searching, SearchCalls, Finding
  <2> PICK p \in Progs : p = call.who
    BY <2>1
  <2>2. /\ \A q \in Progs \ {p} : dta'[q] = dta[q]
        /\ dta'[p].want = w /\ dta'[p].got = dta[p].got /\ dta'[p].state = dta[p].state
        /\ dta'[p].disturbed = dta[p].disturbed
    BY <1>1, <2>1 DEF DtaOK, DtaFields
  <2>3. sda'.pattern = sda.pattern /\ sda'.dir_handle = h
    BY <1>1, <2>1 DEF SearchRec
  <2>4. ~dta'[p].disturbed => dta[p].state = "none" /\ dta[p].got = <<>>
    BY <1>1, <2>1, <2>2 DEF SearchInv, Undisturbed, FindsFor
  <2>5. ~dta'[p].disturbed => InOrder(p)' /\ ~Live(p)'
    BY <2>2, <2>4 DEF InOrder, Live
  <2>6. CASE h = NoHandle
    <3>1. Return
      BY <2>1, <2>6
    <3>2. ~dta'[p].disturbed => Undisturbed(p)'
      BY <2>5, <3>1, ReturnSets DEF Undisturbed, FindsFor, Finding, None
    <3> QED BY <1>1, <2>1, <2>2, <3>1, <3>2, ReturningSearch
  <2>7. CASE h # NoHandle
    <3>1. Goto("refill") /\ h \in Handles
      BY <2>1, <2>7
    <3>2. /\ call'.phase = "refill" /\ call'.fn = call.fn /\ call'.name = call.name
          /\ call'.who = call.who
      BY <1>1, <3>1, GotoSets
    <3> PICK d \in Dirs : d = call.dir
      BY <2>1
    <3>3. PICK L : L = tree[d] /\ Listed(h, d, L, 0)'
      BY <1>1, <1>2, <3>1, OpendirListed
    <3>4. L \in Seq(Names) /\ Len(L) \in Nat
      BY <1>1, <3>3, FsTypes, LenProperties DEF FsOK
    <3>5. call.name = sda.pattern
      BY <2>1 DEF SearchInv
    <3>6. w = Wanted(d, L, sda.pattern)[Len(L)]
      BY <3>3, <3>5 DEF w
    <3>7. Wanted(d, L, sda.pattern)[0] = <<>>
      BY <3>4, WantedIs
    <3>8. ASSUME ~dta'[p].disturbed PROVE Undisturbed(p)'
      <4>1. /\ Listed(sda.dir_handle, d, L, 0)'
            /\ dta'[p].want = Wanted(d, L, sda'.pattern)[Len(L)]
            /\ dta'[p].got = Wanted(d, L, sda'.pattern)[0]
        BY <2>2, <2>3, <2>4, <3>3, <3>6, <3>7, <3>8
      <4>2. Placed(p)'
        BY <3>4, <4>1 DEF Placed
      <4> QED BY <2>5, <3>2, <3>8, <4>2 DEF Undisturbed
    <3> QED BY <1>1, <2>1, <2>2, <2>3, <3>2, <3>8, RunningSearch
  <2> QED BY <2>6, <2>7
<1> QED BY <1>3, <1>4

LEMMA RefillSearch ==
  ASSUME Typed, SearchInv, Refill
  PROVE  SearchInv'
<1>1. /\ call.phase = "refill" /\ Reading \in Handles /\ CallOK /\ FsOK /\ ~Idle
      /\ UNCHANGED <<sda, dta>>
  BY DEF Refill, Typed, ReadingOK, Looping, CallOK, Idle
<1>2. PICK more \in BOOLEAN :
        ReaddirRefill(Reading, more) /\ Goto(IF more THEN "record" ELSE "closedir")
  BY DEF Refill
<1>3. /\ call'.phase = (IF more THEN "record" ELSE "closedir")
      /\ call'.fn = call.fn /\ call'.name = call.name /\ call'.who = call.who
  <2> DEFINE phase == IF more THEN "record" ELSE "closedir"
  <2>1. Goto(phase)
    BY <1>2
  <2> HIDE DEF phase
  <2>2. /\ call'.phase = phase
        /\ call'.fn = call.fn /\ call'.name = call.name /\ call'.who = call.who
    BY <1>1, <2>1, GotoSets
  <2> QED BY <2>2 DEF phase
<1>4. CASE ~Finding
  BY <1>1, <1>3, <1>4, ElsewhereSearch
<1>5. CASE Finding
  <2> PICK p \in Progs : p = call.who
    BY <1>1, <1>5 DEF CallOK, Finding
  <2>1. ASSUME ~dta'[p].disturbed PROVE Undisturbed(p)'
    <3>1. Undisturbed(p) /\ FindsFor(p) /\ Reading = sda.dir_handle
      BY <1>1, <1>5, <2>1 DEF SearchInv, FindsFor, Finding, Reading, Searching, SearchCalls
    <3>2. Placed(p)
      BY <1>1, <3>1 DEF Undisturbed
    <3> PICK h \in Handles : h = Reading
      BY <1>1
    <3> PICK d \in Dirs, L \in Seq(Names), k \in Nat :
            /\ Listed(sda.dir_handle, d, L, k)
            /\ dta[p].want = Wanted(d, L, sda.pattern)[Len(L)]
            /\ dta[p].got = Wanted(d, L, sda.pattern)[k]
      BY <3>2 DEF Placed
    <3>3. IF more THEN Listed(h, d, L, k)' ELSE k = Len(L)
      BY <1>1, <1>2, <3>1, RefillListed
    <3>4. InOrder(p)' /\ (Live(p)' => Live(p))
      BY <1>1, <3>1 DEF Undisturbed, InOrder, Live
    <3>5. call'.phase = "closedir" => dta'[p].got = dta'[p].want
      BY <1>1, <1>3, <3>3
    <3>6. call'.phase = "record" => Placed(p)'
      <4> SUFFICES ASSUME more PROVE Placed(p)'
        BY <1>3
      <4>1. Listed(sda.dir_handle, d, L, k)'
        BY <1>1, <3>1, <3>3
      <4>2. /\ dta'[p].want = Wanted(d, L, sda'.pattern)[Len(L)]
            /\ dta'[p].got = Wanted(d, L, sda'.pattern)[k]
        BY <1>1
      <4> QED BY <4>1, <4>2 DEF Placed
    <3>7. Live(p)' => ~Idle' /\ call'.fn = "find_next" /\ call'.who = p
      BY <1>1, <1>3, <3>1, <3>4 DEF Undisturbed, Idle
    <3>8. call'.phase \in {"record", "closedir"}
      BY <1>3
    <3> QED BY <3>4, <3>5, <3>6, <3>7, <3>8 DEF Undisturbed
  <2> QED BY <1>1, <1>3, <1>5, <2>1, RunningSearch
<1> QED BY <1>4, <1>5

\* One record further.
LEMMA WantedStep ==
  ASSUME NEW d, NEW L \in Seq(Names), NEW pattern, NEW k \in Nat, k + 1 \in 1..Len(L)
  PROVE  LET w == Wanted(d, L, pattern)
         IN  w[k + 1] = OneMore(d, L, pattern, k + 1, w[k])
<1> DEFINE w == Wanted(d, L, pattern)
<1>1. Len(L) \in Nat /\ k + 1 - 1 = k
  BY LenProperties
<1>2. \A m \in 1..Len(L) : w[m] = OneMore(d, L, pattern, m, w[m - 1])
  BY <1>1, WantedIs
<1> HIDE DEF w
<1>3. w[k + 1] = OneMore(d, L, pattern, k + 1, w[k])
  BY <1>1, <1>2
<1> QED BY <1>3 DEF w

LEMMA RecordSearch ==
  ASSUME Typed, SearchInv, Record
  PROVE  SearchInv'
<1>1. /\ call.phase = "record" /\ Reading \in Handles /\ CallOK /\ FsOK /\ DtaOK /\ ~Idle
      /\ UNCHANGED sda /\ hnd[Reading].position < hnd[Reading].length
  BY DEF Record, Typed, ReadingOK, Looping, CallOK, Idle
<1>2. PICK e \in Files \cup {Junk, End} :
        /\ ReaddirRecord(Reading, e)
        /\ CASE e = End -> Goto("closedir") /\ UNCHANGED dta
             [] e # End /\ ~Matches(e, call.name, call.fn) -> Goto("refill") /\ UNCHANGED dta
             [] e # End /\ Matches(e, call.name, call.fn) ->
                  CASE call.fn \in {"find_first", "find_next"} -> Found(e)
                    [] call.fn \in {"delete_files", "rename_files"} ->
                         call' = [call EXCEPT !.phase = "act", !.entry = e] /\ UNCHANGED dta
                    [] OTHER ->
                         call' = [call EXCEPT !.phase = "closedir", !.entry = e] /\ UNCHANGED dta
  BY DEF Record
<1>3. CASE ~Finding
  <2>1. /\ UNCHANGED dta
        /\ \/ Goto("closedir") \/ Goto("refill")
           \/ call' = [call EXCEPT !.phase = "act", !.entry = e]
           \/ call' = [call EXCEPT !.phase = "closedir", !.entry = e]
    BY <1>2, <1>3 DEF Finding
  <2>2. call'.fn = call.fn /\ call'.who = call.who
    BY <1>1, <2>1, GotoSets DEF CallOK, CallFields
  <2> QED BY <1>1, <1>3, <2>1, <2>2, ElsewhereSearch
<1>4. CASE Finding
  <2> PICK p \in Progs : p = call.who
    BY <1>1, <1>4 DEF CallOK, Finding
  <2>1. /\ FindsFor(p) /\ Reading = sda.dir_handle /\ call.name = sda.pattern
        /\ call.fn \in {"find_first", "find_next"}
    BY <1>1, <1>4 DEF SearchInv, FindsFor, Finding, Reading, Searching, SearchCalls
  <2>2. \/ e = End /\ Goto("closedir") /\ UNCHANGED dta
        \/ e # End /\ ~Matches(e, call.name, call.fn) /\ Goto("refill") /\ UNCHANGED dta
        \/ e # End /\ Matches(e, call.name, call.fn) /\ Found(e)
    BY <1>2, <2>1
  <2> PICK h \in Handles : h = Reading
    BY <1>1
  <2>3. ASSUME ~dta[p].disturbed
        PROVE  \E d \in Dirs, L \in Seq(Names), k \in Nat :
                 /\ Listed(h, d, L, k + 1)' /\ k + 1 \in 1..Len(L) /\ e = <<d, L[k + 1]>>
                 /\ dta[p].want = Wanted(d, L, sda.pattern)[Len(L)]
                 /\ dta[p].got = Wanted(d, L, sda.pattern)[k]
    <3>1. Placed(p)
      BY <1>1, <2>1, <2>3 DEF SearchInv, Undisturbed
    <3> PICK d \in Dirs, L \in Seq(Names), k \in Nat :
            /\ Listed(sda.dir_handle, d, L, k)
            /\ dta[p].want = Wanted(d, L, sda.pattern)[Len(L)]
            /\ dta[p].got = Wanted(d, L, sda.pattern)[k]
      BY <3>1 DEF Placed
    <3>2. Listed(h, d, L, k)
      BY <2>1
    <3>3. k + 1 \in 1..Len(L) /\ e = <<d, L[k + 1]>> /\ Listed(h, d, L, k + 1)'
      BY <1>1, <1>2, <3>2, RecordListed
    <3> QED BY <3>3
  <2>4. Matches(e, call.name, call.fn) <=> Matches(e, call.name, "find_first")
    BY <2>1 DEF Matches
  <2>5. CASE UNCHANGED dta /\ (Goto("closedir") \/ Goto("refill"))
    <3>1. /\ call'.fn = call.fn /\ call'.name = call.name /\ call'.who = call.who
          /\ Goto("refill") => call'.phase = "refill"
      BY <1>1, <2>5, GotoSets
    <3>2. ASSUME ~dta'[p].disturbed PROVE Undisturbed(p)'
      <4>1. ~dta[p].disturbed /\ Undisturbed(p)
        BY <2>5, <3>2 DEF SearchInv
      <4> PICK d \in Dirs, L \in Seq(Names), k \in Nat :
                 /\ Listed(h, d, L, k + 1)' /\ k + 1 \in 1..Len(L) /\ e = <<d, L[k + 1]>>
                 /\ dta[p].want = Wanted(d, L, sda.pattern)[Len(L)]
                 /\ dta[p].got = Wanted(d, L, sda.pattern)[k]
        BY <2>3, <4>1
      <4>2. e # End /\ ~Matches(e, call.name, "find_first") /\ call'.phase = "refill"
        <5>1. e # End
          BY EntryIsSomething
        <5>2. ~Matches(e, call.name, call.fn) /\ Goto("refill")
          <6>1. ~Found(e)
            <7>1. Found(e) => call'.fn = None
              BY ReturnSets DEF Found
            <7> QED BY <2>1, <3>1, <7>1 DEF None
          <6> QED BY <2>2, <5>1, <6>1
        <5> QED BY <2>4, <3>1, <5>1, <5>2
      <4>3. Wanted(d, L, sda.pattern)[k + 1] = Wanted(d, L, sda.pattern)[k]
        <5>2. Wanted(d, L, sda.pattern)[k + 1]
                = OneMore(d, L, sda.pattern, k + 1, Wanted(d, L, sda.pattern)[k])
          BY WantedStep
        <5> QED BY <2>1, <4>2, <5>2 DEF OneMore
      <4>4. /\ Listed(sda.dir_handle, d, L, k + 1)' /\ k + 1 \in Nat
            /\ dta'[p].want = Wanted(d, L, sda'.pattern)[Len(L)]
            /\ dta'[p].got = Wanted(d, L, sda'.pattern)[k + 1]
        BY <1>1, <2>1, <2>5, <4>3
      <4>5. Placed(p)'
        BY <4>4 DEF Placed
      <4>6. InOrder(p)' /\ (Live(p)' => Live(p))
        BY <2>5, <4>1 DEF Undisturbed, InOrder, Live
      <4>7. Live(p)' => ~Idle' /\ call'.fn = "find_next" /\ call'.who = p
        BY <1>1, <3>1, <4>1, <4>6 DEF Undisturbed, Idle
      <4> QED BY <4>2, <4>5, <4>6, <4>7 DEF Undisturbed
    <3> QED BY <1>1, <1>4, <2>5, <3>1, <3>2, RunningSearch
  <2>6. CASE e # End /\ Matches(e, call.name, call.fn) /\ Found(e)
    <3>1. /\ dta' = [dta EXCEPT ![p].state = "live", ![p].rec = sda, ![p].got = Append(@, e)]
          /\ Return
      BY <2>6 DEF Found
    <3>2. /\ \A q \in Progs \ {p} : dta'[q] = dta[q]
          /\ dta'[p].state = "live" /\ dta'[p].rec = sda /\ dta'[p].got = Append(dta[p].got, e)
          /\ dta'[p].want = dta[p].want /\ dta'[p].disturbed = dta[p].disturbed
      BY <1>1, <3>1 DEF DtaOK, DtaFields
    <3>3. ASSUME ~dta'[p].disturbed PROVE Undisturbed(p)'
      <4> PICK d \in Dirs, L \in Seq(Names), k \in Nat :
                 /\ Listed(h, d, L, k + 1)' /\ k + 1 \in 1..Len(L) /\ e = <<d, L[k + 1]>>
                 /\ dta[p].want = Wanted(d, L, sda.pattern)[Len(L)]
                 /\ dta[p].got = Wanted(d, L, sda.pattern)[k]
        BY <2>3, <3>2, <3>3
      <4>1. Len(L) \in Nat /\ k + 1 - 1 = k /\ k + 1 \in 0..Len(L)
        BY LenProperties
      <4>2. Wanted(d, L, sda.pattern)[k + 1] = dta'[p].got
        <5>1. Wanted(d, L, sda.pattern)[k + 1]
                = OneMore(d, L, sda.pattern, k + 1, Wanted(d, L, sda.pattern)[k])
          BY WantedStep
        <5>2. Matches(<<d, L[k + 1]>>, sda.pattern, "find_first")
          BY <2>1, <2>4, <2>6
        <5> QED BY <3>2, <5>1, <5>2 DEF OneMore
      <4>3. IsPrefix(Wanted(d, L, sda.pattern)[k + 1], Wanted(d, L, sda.pattern)[Len(L)])
        BY <4>1, WantedPrefix
      <4>4. IsPrefix(dta'[p].got, dta'[p].want)
        BY <3>2, <4>2, <4>3
      <4>5. InOrder(p)'
        BY <3>2, <4>4 DEF InOrder
      <4>6. /\ Listed(sda.dir_handle, d, L, k + 1)' /\ k + 1 \in Nat
            /\ dta'[p].want = Wanted(d, L, sda'.pattern)[Len(L)]
            /\ dta'[p].got = Wanted(d, L, sda'.pattern)[k + 1]
        BY <1>1, <2>1, <3>2, <4>2
      <4>7. Placed(p)'
        BY <4>6 DEF Placed
      <4>8. Idle' /\ ~FindsFor(p)'
        BY <3>1, ReturnSets DEF Idle, FindsFor, Finding, None
      <4> QED BY <4>5, <4>7, <4>8 DEF Undisturbed
    <3> QED BY <1>1, <1>4, <3>1, <3>2, <3>3, ReturningSearch
  <2>7. ASSUME e = End, Goto("closedir"), UNCHANGED dta PROVE SearchInv'
    BY <2>5, <2>7
  <2> QED BY <2>2, <2>5, <2>6
<1> QED BY <1>3, <1>4

LEMMA ClosedirSearch ==
  ASSUME Typed, SearchInv, Closedir
  PROVE  SearchInv'
<1>1. /\ call.phase = "closedir" /\ CallOK /\ DtaOK /\ ~Idle
      /\ IF Searching
         THEN /\ dta' = IF call.who \in Progs THEN [dta EXCEPT ![call.who].state = "done"] ELSE dta
              /\ Return
         ELSE call' = [call EXCEPT !.phase = "act", !.handle = NoHandle] /\ UNCHANGED dta
  BY DEF Closedir, Typed, CallOK, Idle
<1>2. CASE ~Finding
  <2>1. UNCHANGED dta
    <3>1. Searching => call.who = None
      BY <1>2 DEF Searching, SearchCalls, Finding, SearchInv
    <3> QED BY <1>1, <3>1, ProgsAssumption
  <2>2. call'.fn = None \/ (call'.fn = call.fn /\ call'.who = call.who)
    BY <1>1, ReturnSets DEF CallOK, CallFields
  <2> QED BY <1>1, <1>2, <2>1, <2>2, ElsewhereSearch
<1>3. CASE Finding
  <2> PICK p \in Progs : p = call.who
    BY <1>1, <1>3 DEF CallOK, Finding
  <2>1. Return /\ dta' = [dta EXCEPT ![p].state = "done"]
    BY <1>1, <1>3 DEF Finding, Searching, SearchCalls
  <2>2. /\ \A q \in Progs \ {p} : dta'[q] = dta[q]
        /\ dta'[p].state = "done" /\ dta'[p].got = dta[p].got
        /\ dta'[p].want = dta[p].want /\ dta'[p].disturbed = dta[p].disturbed
    BY <1>1, <2>1 DEF DtaOK, DtaFields
  <2>3. ASSUME ~dta'[p].disturbed PROVE Undisturbed(p)'
    <3>1. dta[p].got = dta[p].want
      BY <1>1, <1>3, <2>2, <2>3 DEF SearchInv, Undisturbed, FindsFor
    <3>2. InOrder(p)' /\ ~Live(p)'
      BY <2>2, <3>1 DEF InOrder, Live
    <3>3. ~FindsFor(p)'
      BY <2>1, ReturnSets DEF FindsFor, Finding, None
    <3> QED BY <3>2, <3>3 DEF Undisturbed
  <2> QED BY <1>1, <1>3, <2>1, <2>2, <2>3, ReturningSearch
<1> QED BY <1>2, <1>3

\* What a function does with an entry.
LEMMA ActSearch ==
  ASSUME Typed, SearchInv, Delete \/ Rename \/ Answer \/ Mkdir \/ Rmdir \/ Open
  PROVE  SearchInv'
<1>1. call.phase = "act" /\ UNCHANGED dta /\ (Return \/ Goto("refill")) /\ CallOK
  BY DEF Delete, Rename, Answer, Mkdir, Rmdir, Open, Typed
<1>2. ~Idle /\ ~Finding
  BY <1>1 DEF CallOK, Idle, Finding
<1>3. call'.fn = None \/ (call'.fn = call.fn /\ call'.who = call.who)
  BY <1>1, ReturnSets, GotoSets
<1> QED BY <1>1, <1>2, <1>3, ElsewhereSearch

\* The handle of an open file is not the search's.
LEMMA FileSearch ==
  ASSUME Typed, OneSearch, Owned, SearchInv, NEW s \in Sfts, sft[s].open, Idle,
         UNCHANGED <<buf, sda, dta, call>>,
         \A g \in Handles \ {sft[s].handle} : hnd'[g] = hnd[g] /\ chan'[g] = chan[g]
  PROVE  SearchInv'
<1>1. ASSUME NEW p \in Progs, Live(p)
      PROVE  sda.dir_handle \in Handles \ {sft[s].handle}
  <2>1. sda.dir_handle \in Handles
    BY <1>1 DEF OneSearch, Typed, DtaOK
  <2> QED BY <2>1, FileHandles
<1> QED BY <1>1, BetweenSearch

LEMMA TransferSearch ==
  ASSUME Typed, OneSearch, Owned, SearchInv, NEW s \in Sfts,
         \/ \E pos \in 0..MaxSize : DosSeek(s, pos)
         \/ \E asked \in 1..MaxSize : ReadFile(s, asked)
         \/ WriteFile(s) \/ CloseFile(s)
  PROVE  SearchInv'
<1>1. /\ Idle /\ sft[s].open /\ UNCHANGED <<buf, sda, dta, call>>
  BY ReadFileSets DEF DosSeek, WriteFile, CloseFile
<1> DEFINE h == sft[s].handle
<1>2. h \in Handles /\ chan \in [Handles -> Channel] /\ hnd \in [Handles -> HandleRec]
  BY <1>1, FileHandles, FsTypes DEF Typed, FsOK
<1>3. CASE \E pos \in 0..MaxSize : DosSeek(s, pos)
  <2>1. UNCHANGED <<hnd, chan>>
    BY <1>3 DEF DosSeek
  <2> QED BY <1>1, <2>1, FileSearch
<1>4. CASE (\E asked \in 1..MaxSize : ReadFile(s, asked)) \/ WriteFile(s)
  <2>1. UNCHANGED hnd /\ \E c : chan' = [chan EXCEPT ![h] = c]
    <3>1. ASSUME NEW asked, ReadFile(s, asked)
          PROVE  UNCHANGED hnd /\ \E c : chan' = [chan EXCEPT ![h] = c]
      BY <3>1, ReadFileSets
    <3>2. WriteFile(s) => UNCHANGED hnd /\ \E c : chan' = [chan EXCEPT ![h] = c]
      BY DEF WriteFile
    <3> QED BY <1>4, <3>1, <3>2
  <2>2. \A g \in Handles \ {h} : hnd'[g] = hnd[g] /\ chan'[g] = chan[g]
    BY <1>2, <2>1
  <2> QED BY <1>1, <2>2, FileSearch
<1>5. CASE CloseFile(s)
  <2>1. UNCHANGED <<chan, hnd>> \/ fujifs_close(h)
    BY <1>5 DEF CloseFile
  <2>2. \A g \in Handles \ {h} : hnd'[g] = hnd[g] /\ chan'[g] = chan[g]
    BY <1>2, <2>1 DEF fujifs_close
  <2> QED BY <1>1, <2>2, FileSearch
<1> QED BY <1>3, <1>4, <1>5

LEMMA StepSearch ==
  ASSUME Typed, OneSearch, Owned, SearchInv, [Next]_vars
  PROVE  SearchInv'
<1>1. CASE Step
  BY <1>1, OpendirSearch, RefillSearch, RecordSearch, ClosedirSearch, ActSearch DEF Step
<1>2. CASE Dos
  <2>1. CASE \/ \E p \in Progs, d \in Dirs, n \in Patterns : FindFirst(p, d, n)
             \/ \E p \in Progs : FindNext(p) \/ Abandon(p)
    BY <2>1, FindFirstSearch, FindNextSearch, AbandonSearch
  <2>2. CASE \E d \in Dirs, n \in Patterns : DeleteFiles(d, n) \/ RenameFiles(d, n)
    BY <2>2, DisturbingSearch DEF DeleteFiles, RenameFiles, Files1
  <2>3. CASE \E d \in Dirs : \/ \E n \in Lookups : Query(d, n) \/ RemoveDir(d, n)
                             \/ \E n \in DirNames : MakeDir(d, n)
                             \/ \E s \in Sfts, n \in FileNames, how \in HowToOpen :
                                  OpenExtended(s, d, n, how)
    <3>1. \E fn \in {"query", "remove_dir", "make_dir", "open_extended"} :
            \E d, n, who, how : dta' = Disturb({}) /\ Begin(fn, "opendir", d, n, who, how)
      BY <2>3 DEF Query, RemoveDir, MakeDir, OpenExtended, LookUp
    <3> QED BY <3>1, DisturbingSearch
  <2>4. CASE \E s \in Sfts :
               \/ \E pos \in 0..MaxSize : DosSeek(s, pos)
               \/ \E asked \in 1..MaxSize : ReadFile(s, asked)
               \/ WriteFile(s) \/ CloseFile(s)
    BY <2>4, TransferSearch
  <2> QED BY <1>2, <2>1, <2>2, <2>3, <2>4 DEF Dos
<1>3. CASE UNCHANGED vars
  <2>1. /\ UNCHANGED <<buf, sda, dta, call, hnd, chan>>
    BY <1>3 DEF vars
  <2>2. ASSUME NEW p \in Progs, ~dta[p].disturbed PROVE Undisturbed(p)'
    <3>1. Undisturbed(p)
      BY <2>2 DEF SearchInv
    <3>2. Placed(p) => Placed(p)'
      BY <2>1, PlacedStays
    <3>3. (InOrder(p)' <=> InOrder(p)) /\ (Live(p)' <=> Live(p)) /\ (Idle' <=> Idle)
          /\ (FindsFor(p)' <=> FindsFor(p))
      BY <2>1 DEF InOrder, Live, Idle, FindsFor, Finding
    <3> QED BY <2>1, <3>1, <3>2, <3>3 DEF Undisturbed
  <2> QED BY <2>1, <2>2 DEF SearchInv, Finding
<1> QED BY <1>1, <1>2, <1>3 DEF Next, Finished

\* A search (find_first, find_next) that no other use of fujifs_buf comes in between of returns
\* the entries that match its pattern, each once and in the order of the directory it was
\* started in, and ends after the last of them: no record is lost, read twice or cut in two
\* where the buffer ends (fujifs_readdir), and no transfer on an open file moves its place.
\* Searches do not overlap.
THEOREM SearchInOrderHolds ==
  ASSUME ~Nested
  PROVE  Spec => []SearchInOrder
<1> DEFINE I == Typed /\ OneSearch /\ Owned /\ SearchInv
<1>1. Init => I
  BY InitTyped, InitOneSearch, InitOwned, InitSearch
<1>2. I /\ [Next]_vars => I'
  BY StepTyped, StepOneSearch, StepOwned, StepSearch
<1>3. I => SearchInOrder
  BY DEF SearchInv, Undisturbed, SearchInOrder
<1> QED BY <1>1, <1>2, <1>3, PTL DEF Spec

=============================================================================
