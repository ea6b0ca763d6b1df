------------------------------- MODULE Fujifs -------------------------------
(***************************************************************************)
(* The file system client ncopy/fujifs.c as the redirector uses it: a      *)
(* table of handles, one for each of the FujiNet's network devices, and    *)
(* one buffer that every path and every directory listing goes through.    *)
(* Each function is an action here, readdir is two; a module that extends  *)
(* this one calls them.  Paths are fully qualified and there is one host,  *)
(* so no prefix is copied between devices (fujifs.c:173-207).  The line is *)
(* reliable: Fujicom says what happens when it is not.                     *)
(***************************************************************************)
EXTENDS Integers, Sequences, FiniteSets, SequencesExt

CONSTANTS
  NETDEV_TOTAL,  \* network devices, 8 in the code (fujifs.c:19)
  Dirs,          \* the directories of the share
  FileNames, DirNames,  \* names of files and of subdirectories in them
  Share,         \* Share[d]: the files in directory d at first
  RecLen,        \* cells of a record of a listing, the last holds its end
  BufLen,        \* cells of fujifs_buf
  PathLen,       \* cells a path overwrites
  MaxSize,       \* bound: size of a file
  Refuse         \* what the server may refuse: "dir", "file", "write", "path"

Handles == 1..NETDEV_TOTAL
Names == FileNames \cup DirNames
Files == Dirs \X Names

ASSUME HandlesAssumption == NETDEV_TOTAL \in Nat \ {0}
ASSUME BufferAssumption ==
  /\ RecLen \in Nat \ {0} /\ BufLen \in Nat /\ RecLen < BufLen /\ PathLen \in 0..BufLen
ASSUME NamesAssumption == FileNames \cap DirNames = {}
ASSUME ShareAssumption ==
  Share \in [Dirs -> Seq(FileNames)] /\ \A d \in Dirs : IsInjective(Share[d])
ASSUME SizeAssumption == MaxSize \in Nat \ {0}

NoHandle == 0     \* what find_handle returns when the table is full
Junk == <<>>      \* a cell that is no part of a record; an entry made of such
End == <<"NULL">>     \* what readdir returns at the end
Cells == (Dirs \X Names \X (1..RecLen)) \cup {Junk}

VARIABLES
  tree,   \* tree[d]: the names in directory d, in the server's order
  size,   \* size[f]: how long file f is
  chan,   \* chan[h]: what network device h has open
  hnd,    \* fujifs_open_handles
  buf     \* fujifs_buf

fsVars == <<tree, size, chan, hnd, buf>>

----------------------------------------------------------------------------
(* The FujiNet's end.                                                      *)

NoChan == [kind |-> "none", file |-> Junk, at |-> 0, left |-> <<>>]
FileChan(f) == [NoChan EXCEPT !.kind = "file", !.file = f]
DirChan(cells) == [NoChan EXCEPT !.kind = "dir", !.left = cells]

\* The listing of d, one record after the other.
Listing(d) ==
  [i \in 1..Len(tree[d]) * RecLen |->
     <<d, tree[d][(i - 1) \div RecLen + 1], ((i - 1) % RecLen) + 1>>]

Exists(f) == \E i \in DOMAIN tree[f[1]] : tree[f[1]][i] = f[2]
Created(f) == IF Exists(f) THEN tree ELSE [tree EXCEPT ![f[1]] = Append(@, f[2])]
Removed(f) == [tree EXCEPT ![f[1]] = RemoveFirst(@, f[2])]

\* What CMD_STATUS says can be read: the rest of a listing or of a file.
Waiting(c) ==
  CASE c.kind = "dir"  -> Len(c.left)
    [] c.kind = "file" -> IF c.at < size[c.file] THEN size[c.file] - c.at ELSE 0
    [] OTHER           -> 0

\* The cells a read of n returns, and the channel after it.  The bytes of a file
\* are no records.
Taken(c, n) == IF c.kind = "dir" THEN SubSeq(c.left, 1, n) ELSE [i \in 1..n |-> Junk]
After(c, n) == IF c.kind = "dir" THEN [c EXCEPT !.left = SubSeq(@, n + 1, Len(@))]
               ELSE [c EXCEPT !.at = @ + n]

----------------------------------------------------------------------------
(* The handle table and the buffer.                                        *)

FreeHandle == [is_open |-> FALSE, position |-> 0, length |-> 0]

\* A variant: when the table is full it hands out the last handle again.
find_handle_last == IF \A h \in Handles : hnd[h].is_open THEN NETDEV_TOTAL
                    ELSE CHOOSE h \in Handles :
                           ~hnd[h].is_open /\ \A g \in Handles : g < h => hnd[g].is_open

fujifs_find_handle ==
  IF \A h \in Handles : hnd[h].is_open THEN NoHandle
  ELSE CHOOSE h \in Handles :
         ~hnd[h].is_open /\ \A g \in Handles : g < h => hnd[g].is_open

\* ennify copies a path to the front of the buffer.
Ennified == [i \in 1..BufLen |-> IF i <= PathLen THEN Junk ELSE buf[i]]

\* fujifs_closedir, and what fujifs_close does to an open handle.
fujifs_close(h) ==
  IF h \in Handles /\ hnd[h].is_open
  THEN /\ hnd' = [hnd EXCEPT ![h].is_open = FALSE]
       /\ chan' = [chan EXCEPT ![h] = NoChan]
  ELSE UNCHANGED <<hnd, chan>>

\* The table is full: find_handle found nothing, nothing else happens.
NoDevice(h) == fujifs_find_handle = NoHandle /\ h = NoHandle /\ UNCHANGED fsVars

\* fujifs_opendir: h is the handle, or NoHandle and an error.
fujifs_opendir(d, h) ==
  \/ NoDevice(h)
  \/ LET free == fujifs_find_handle
         slot == [FreeHandle EXCEPT !.is_open = (h # NoHandle)]
     IN  /\ free # NoHandle
         /\ h \in {free} \cup (IF "dir" \in Refuse THEN {NoHandle} ELSE {})
         /\ hnd' = [hnd EXCEPT ![free] = slot]
         /\ chan' = [chan EXCEPT ![free] = IF h = NoHandle THEN NoChan
                                           ELSE DirChan(Listing(d))]
         /\ buf' = Ennified
         /\ UNCHANGED <<tree, size>>

\* fujifs_open of a file.  In write mode the status is not looked at: the handle is
\* given out although the device may have opened nothing (fujifs.c:228).
fujifs_open(f, mode, h) ==
  \/ NoDevice(h)
  \/ LET free == fujifs_find_handle
     IN  \E opened \in (IF "file" \in Refuse THEN BOOLEAN ELSE {TRUE}) :
         /\ free # NoHandle
         /\ h = IF opened \/ mode = "write" THEN free ELSE NoHandle
         /\ hnd' = [hnd EXCEPT ![free].is_open = (h # NoHandle)]
         /\ chan' = [chan EXCEPT ![free] = IF opened THEN FileChan(f) ELSE NoChan]
         /\ buf' = Ennified
         /\ tree' = IF opened THEN Created(f) ELSE tree
         /\ size' = IF opened /\ mode = "write" THEN [size EXCEPT ![f] = 0] ELSE size

\* fujifs_path_operation on the host's device; done says what it reports.
fujifs_mkdir(f, done) ==
  /\ done \in {TRUE} \cup (IF "path" \in Refuse THEN {FALSE} ELSE {})
  /\ tree' = IF done THEN Created(f) ELSE tree
  /\ buf' = Ennified /\ UNCHANGED <<size, chan, hnd>>

\* The server removes f if it is there and of the right kind.
TakeAway(f, kind, done) ==
  /\ LET can == f[2] \in kind /\ Exists(f)
     IN  done \in {can} \cup (IF "path" \in Refuse THEN {FALSE} ELSE {})
  /\ tree' = IF done THEN Removed(f) ELSE tree
  /\ size' = IF done THEN [size EXCEPT ![f] = 0] ELSE size
  /\ buf' = Ennified /\ UNCHANGED <<chan, hnd>>

fujifs_unlink(f, done) == TakeAway(f, FileNames, done)
fujifs_rmdir(f, done) == TakeAway(f, DirNames, done)

----------------------------------------------------------------------------
(* fujifs_readdir.  position and length of the handle are offsets into the *)
(* buffer all handles share.                                               *)

\* fujifs_read: as much as there is and as fits, nothing on a closed handle.
ReadLength(h, room) ==
  IF ~hnd[h].is_open THEN 0
  ELSE IF Waiting(chan[h]) < room THEN Waiting(chan[h]) ELSE room

\* b with the next n cells of device h stored from offset `from' on.
Stored(b, from, h, n) ==
  [i \in 1..BufLen |-> IF i \in from + 1..from + n THEN Taken(chan[h], n)[i - from]
                       ELSE b[i]]

\* Lines 398-405; more is FALSE when readdir returns NULL here.
ReaddirRefill(h, more) ==
  LET n == ReadLength(h, BufLen)
  IN  IF hnd[h].position < hnd[h].length
      THEN more = TRUE /\ UNCHANGED fsVars
      ELSE /\ more = (n > 0)
           /\ hnd' = [hnd EXCEPT ![h].length = n,
                                 ![h].position = IF n > 0 THEN 0 ELSE @]
           /\ buf' = Stored(buf, 0, h, n)
           /\ chan' = [chan EXCEPT ![h] = After(@, n)]
           /\ UNCHANGED <<tree, size>>

\* A variant: the record is taken to be complete.
EndOfRecordAssumed(c) == TRUE

EndOfRecord(c) == c # Junk /\ c[3] = RecLen

\* The entry at offset p of b: what the calls of fujifs_strtok make of it.
EntryAt(b, p) ==
  IF /\ p + RecLen <= BufLen
     /\ \A i \in 1..RecLen : b[p + i] # Junk /\ b[p + i] = <<b[p + 1][1], b[p + 1][2], i>>
  THEN <<b[p + 1][1], b[p + 1][2]>> ELSE Junk

\* Lines 431-483, with the record at offset p of b and len bytes in the buffer.
\* fujifs_strtok cuts up what it reads; where it stops in something that is no record
\* is anyone's guess, but it is further on.
Parse(h, b, p, len, e) ==
  /\ e = EntryAt(b, p)
  /\ \E q \in (IF e = Junk THEN p + 1..BufLen ELSE {p + RecLen}) :
       /\ buf' = [i \in 1..BufLen |-> IF i \in p + 1..q THEN Junk ELSE b[i]]
       /\ hnd' = [hnd EXCEPT ![h].position = q, ![h].length = len]

\* A variant: the part of the record that is there is left where it is.
MovedNot(p, part) == buf

\* Where a record that is cut off goes, and what there is room for behind it.
Room(part) == BufLen - part
Moved(p, part) == [i \in 1..BufLen |-> IF i <= part THEN buf[p + i] ELSE buf[i]]

\* Lines 407-483; e is the entry, or End for NULL.
ReaddirRecord(h, e) ==
  LET p == hnd[h].position
      len == hnd[h].length
      part == len - p
      n == ReadLength(h, Room(part))
  IN  /\ IF \E i \in p + 1..len : EndOfRecord(buf[i])
         THEN Parse(h, buf, p, len, e) /\ UNCHANGED chan
         ELSE /\ chan' = [chan EXCEPT ![h] = After(@, n)]
              /\ IF n = 0 THEN e = End /\ buf' = Moved(p, part) /\ UNCHANGED hnd
                 ELSE Parse(h, Stored(Moved(p, part), part, h, n), 0, part + n, e)
      /\ UNCHANGED <<tree, size>>

----------------------------------------------------------------------------
FsTypeOK ==
  /\ tree \in [Dirs -> Seq(Names)]
  /\ size \in [Files -> 0..MaxSize]
  /\ chan \in [Handles -> [kind : {"none", "file", "dir"}, file : Files \cup {Junk},
                           at : Nat, left : Seq(Cells)]]
  /\ hnd \in [Handles -> [is_open : BOOLEAN, position : 0..BufLen, length : 0..BufLen]]
  /\ buf \in [1..BufLen -> Cells]

\* After FNSHARE has tried the URL and closed it again (fnshare.c:472-491): nothing
\* is open, and every file is of one unit.
FsInit ==
  /\ tree = Share
  /\ size = [f \in Files |-> IF Exists(f) THEN 1 ELSE 0]
  /\ chan = [h \in Handles |-> NoChan]
  /\ hnd = [h \in Handles |-> FreeHandle]
  /\ buf = [i \in 1..BufLen |-> Junk]
=============================================================================
