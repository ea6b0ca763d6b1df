----------------------------- MODULE Redirector -----------------------------
(***************************************************************************)
(* FNSHARE's network redirector, fnshare/redir.c: the INT 2F functions DOS *)
(* calls for the mapped drive.  DOS runs one of them at a time.  The       *)
(* redirector keeps nothing itself: a search lives in the search record of *)
(* DOS's swappable data area, which DOS copies to the program's DTA after  *)
(* a search call and back before the next one; a file lives in its entry   *)
(* of DOS's system file table.                                             *)
(*                                                                         *)
(* A function that reads a directory is a loop over fujifs_readdir, and    *)
(* its steps are actions; call says which function runs and where it is.   *)
(***************************************************************************)
EXTENDS Fujifs

CONSTANTS
  Progs,     \* programs (DTAs) that search
  FILES, \* entries of the system file table
  HowToOpen, \* the opens tried: see OpenRequests
  Patterns,  \* the patterns searched for
  Lookups,   \* the names looked up without opening a file
  MaxCalls,  \* bound: calls of functions that read a directory, find_next aside
  Nested     \* TRUE: a search or deletion may begin while another search runs

Wild == "*"
None == "none"
Sfts == 1..FILES
W == 65536   \* cx is a 16-bit register

\* mode is the local open_mode, sft_mode what sft->open_mode holds afterwards, exists
\* and missing the two nibbles of action.
OpenRequests ==
  LET Modes == {"read", "write", "readwrite"}
      Extended == [mode : Modes, exists : {"fail", "open", "replace"},
                   missing : {"fail", "create"}]
      Create == [mode : {"write"}, exists : {"replace", "fail"}, missing : {"fail", "create"}]
  IN  {[mode |-> r.mode, sft_mode |-> r.mode, exists |-> r.exists,
        missing |-> r.missing] : r \in Extended} \cup
      {[mode |-> r.mode, sft_mode |-> "readwrite", exists |-> r.exists,
        missing |-> r.missing] : r \in {c \in Create : (c.exists = "fail") = (c.missing = "create")}}

ASSUME HowAssumption == HowToOpen \subseteq OpenRequests
ASSUME ArgumentsAssumption == Patterns \subseteq Names \cup {Wild} /\ Lookups \subseteq Names
ASSUME ProgsAssumption == None \notin Progs
ASSUME NestedAssumption == Nested \in BOOLEAN
ASSUME CallsAssumption == MaxCalls \in Nat /\ FILES \in Nat

VARIABLES
  sda,   \* the search record in the SDA (srchrec_ptr1)
  dta,   \* dta[p]: program p's copy of it; the rest is not in the code: what the
         \* search should return (want), what it has returned (got), and whether a
         \* call that uses fujifs_buf came in between (disturbed)
  sft,   \* sft[s]; failed is not in the code: a write to the file has failed
  call,  \* the function DOS is waiting for
  calls, \* not in the code: counts up to MaxCalls
  lost   \* not in the code: handles whose file was closed after reading only

vars == <<tree, size, chan, hnd, buf, sda, dta, sft, call, calls, lost>>

NoSearch == [dir_handle |-> NoHandle, pattern |-> Wild]
NoDta == [state |-> "none", rec |-> NoSearch, want |-> <<>>, got |-> <<>>,
          disturbed |-> FALSE]
NoFile == [open |-> FALSE, mode |-> "read", handle |-> NoHandle, file |-> Junk,
           pos |-> 0, last_pos |-> 0, size |-> 0, failed |-> FALSE]
NoCall == [fn |-> None, phase |-> "idle", dir |-> None, name |-> Wild, who |-> None,
           handle |-> NoHandle, entry |-> End, how |-> None]

Init ==
  /\ FsInit
  /\ sda = NoSearch /\ dta = [p \in Progs |-> NoDta]
  /\ sft = [s \in Sfts |-> NoFile]
  /\ call = NoCall /\ calls = 0 /\ lost = {}

Idle == call.fn = None

\* DOS may call a function that starts to read a directory.
Called == Idle /\ calls < MaxCalls /\ calls' = calls + 1
Live(p) == dta[p].state = "live"

\* The functions that read a directory through the search record; the others read
\* one, through a handle of their own, to look a single name up (fujifs_stat).
SearchCalls == {"find_first", "find_next", "delete_files", "rename_files"}
Searching == call.fn \in SearchCalls
Reading == IF Searching THEN sda.dir_handle ELSE call.handle

Begin(fn, phase, d, n, who, how) ==
  call' = [NoCall EXCEPT !.fn = fn, !.phase = phase, !.dir = d, !.name = n, !.who = who,
                         !.how = how]
Goto(phase) == call' = [call EXCEPT !.phase = phase]
Return == call' = NoCall

\* Every search that runs, except those of `but', loses its place in fujifs_buf.
Disturb(but) ==
  [p \in Progs |-> IF Live(p) /\ p \notin but THEN [dta[p] EXCEPT !.disturbed = TRUE]
                   ELSE dta[p]]

\* Does DOS get to see an entry?  Junk is a plain file with some name; the search
\* for files only is the one of delete_files and rename_files.
Matches(e, pattern, fn) ==
  \/ e = Junk /\ pattern = Wild
  \/ /\ e # Junk /\ pattern \in {Wild, e[2]}
     /\ fn \in {"delete_files", "rename_files"} => e[2] \in FileNames

----------------------------------------------------------------------------
(* Searches.                                                               *)

\* A variant: the search that was left in the record is not closed.
NewSearchLeavesOld(n) ==
  /\ sda' = [dir_handle |-> NoHandle, pattern |-> n]
  /\ UNCHANGED fsVars

\* redir.c:292-300, what find_first does before it calls find_next.
NewSearch(n) ==
  /\ fujifs_close(sda.dir_handle)
  /\ sda' = [dir_handle |-> NoHandle, pattern |-> n]
  /\ UNCHANGED <<tree, size, buf>>

FindFirst(p, d, n) ==
  /\ Called /\ (Nested \/ \A q \in Progs : ~Live(q))
  /\ NewSearch(n)
  /\ dta' = [Disturb({}) EXCEPT ![p] = NoDta]
  /\ Begin("find_first", "opendir", d, n, p, None)
  /\ UNCHANGED <<sft, lost>>

\* DOS has copied the record back.  Its dir_handle is not -1: a program does not ask
\* on after an error.
FindNext(p) ==
  /\ Idle /\ Live(p)
  /\ sda' = dta[p].rec
  /\ dta' = Disturb({p})
  /\ Begin("find_next", "refill", None, dta[p].rec.pattern, p, None)
  /\ UNCHANGED <<tree, size, chan, hnd, buf, sft, calls, lost>>

\* A program that has found what it was looking for.
Abandon(p) ==
  /\ Idle /\ Live(p)
  /\ dta' = [dta EXCEPT ![p] = NoDta]
  /\ UNCHANGED <<tree, size, chan, hnd, buf, sda, sft, call, calls, lost>>

Files1(fn, d, n) ==
  /\ Called /\ (Nested \/ \A q \in Progs : ~Live(q))
  /\ NewSearch(n)
  /\ dta' = Disturb({})
  /\ Begin(fn, "opendir", d, n, None, None)
  /\ UNCHANGED <<sft, lost>>

DeleteFiles(d, n) == Files1("delete_files", d, n)
RenameFiles(d, n) == Files1("rename_files", d, n)

----------------------------------------------------------------------------
(* Functions that look a name up first.                                    *)

LookUp(fn, d, n, who, how) ==
  /\ Called
  /\ dta' = Disturb({})
  /\ Begin(fn, "opendir", d, n, who, how)
  /\ UNCHANGED <<tree, size, chan, hnd, buf, sda, sft, lost>>

\* get_attr, set_attr and chdir change nothing that is modelled here.
Query(d, n) == LookUp("query", d, n, None, None)
MakeDir(d, n) == LookUp("make_dir", d, n, None, None)
RemoveDir(d, n) == LookUp("remove_dir", d, n, None, None)

\* DOS takes the first entry that is free.  An open of a directory is refused after
\* the look-up and so is a Query: Dos opens files only.
OpenExtended(s, d, n, how) ==
  /\ ~sft[s].open /\ \A t \in 1..s - 1 : sft[t].open
  /\ LookUp("open_extended", d, n, s, how)

----------------------------------------------------------------------------
(* The directory loop of find_next and of fujifs_stat.                     *)

\* Not in the code: the entries that a search of directory d for pattern should find among
\* the first k of its names L.
Wanted(d, L, pattern) ==
  LET among[k \in 0..Len(L)] ==
        IF k = 0 THEN <<>>
        ELSE LET e == <<d, L[k]>>
             IN  IF Matches(e, pattern, "find_first") THEN Append(among[k - 1], e)
                 ELSE among[k - 1]
  IN  among

Opendir ==
  /\ call.phase = "opendir"
  /\ \E h \in Handles \cup {NoHandle} :
       /\ fujifs_opendir(call.dir, h)
       /\ IF Searching
          THEN /\ IF h = NoHandle THEN Return ELSE Goto("refill")
               /\ sda' = [sda EXCEPT !.dir_handle = h]
          ELSE /\ call' = [call EXCEPT !.handle = h,
                                       !.phase = IF h = NoHandle THEN "act" ELSE "refill"]
               /\ UNCHANGED sda
  /\ dta' = IF call.fn = "find_first"
            THEN [dta EXCEPT ![call.who].want =
                    Wanted(call.dir, tree[call.dir], call.name)[Len(tree[call.dir])]]
            ELSE dta
  /\ UNCHANGED <<sft, lost>>

Refill ==
  /\ call.phase = "refill"
  /\ \E more \in BOOLEAN :
       ReaddirRefill(Reading, more) /\ Goto(IF more THEN "record" ELSE "closedir")
  /\ UNCHANGED <<sda, dta, sft, lost>>

\* An entry that find_first or find_next returns to the program.
Found(e) ==
  /\ dta' = [dta EXCEPT ![call.who].state = "live", ![call.who].rec = sda,
                        ![call.who].got = Append(@, e)]
  /\ Return

\* One entry: the wanted one, the last one, or one to skip.
Record ==
  /\ call.phase = "record"
  /\ \E e \in Files \cup {Junk, End} :
       /\ ReaddirRecord(Reading, e)
       /\ CASE e = End -> Goto("closedir") /\ UNCHANGED dta
            [] e # End /\ ~Matches(e, call.name, call.fn) -> Goto("refill") /\ UNCHANGED dta
            [] e # End /\ Matches(e, call.name, call.fn) ->
                 CASE call.fn \in {"find_first", "find_next"} -> Found(e)
                   [] call.fn \in {"delete_files", "rename_files"} ->
                        call' = [call EXCEPT !.phase = "act", !.entry = e] /\ UNCHANGED dta
                   [] OTHER ->
                        call' = [call EXCEPT !.phase = "closedir", !.entry = e] /\ UNCHANGED dta
  /\ UNCHANGED <<sda, sft, lost>>

\* The end of the loop.  A search is over; a look-up goes on to what it is for.
Closedir ==
  /\ call.phase = "closedir"
  /\ fujifs_close(Reading)
  /\ IF Searching
     THEN /\ sda' = [sda EXCEPT !.dir_handle = NoHandle]
          /\ dta' = IF call.who \in Progs THEN [dta EXCEPT ![call.who].state = "done"] ELSE dta
          /\ Return
     ELSE /\ call' = [call EXCEPT !.phase = "act", !.handle = NoHandle]
          /\ UNCHANGED <<sda, dta>>
  /\ UNCHANGED <<tree, size, buf, sft, lost>>

----------------------------------------------------------------------------
(* What the functions do with the entry.                                   *)

\* A variant of Delete: when the server refuses, the search is started over.
DeleteStartsOver ==
  /\ call.phase = "act" /\ call.fn = "delete_files"
  /\ \/ /\ call.entry # Junk /\ fujifs_unlink(<<call.dir, call.entry[2]>>, TRUE)
        /\ Goto("refill") /\ UNCHANGED sda
     \/ NewSearch(call.name) /\ Goto("opendir")
  /\ UNCHANGED <<dta, sft, lost>>

\* One round of the loop in delete_files: the name found is put in the place of the
\* pattern in the path.  A failure returns at once and leaves the search open.
Delete ==
  /\ call.phase = "act" /\ call.fn = "delete_files"
  /\ \E done \in BOOLEAN :
       /\ IF call.entry = Junk
          THEN done = FALSE /\ buf' = Ennified /\ UNCHANGED <<tree, size, chan, hnd>>
          ELSE fujifs_unlink(<<call.dir, call.entry[2]>>, done)
       /\ IF done THEN Goto("refill") ELSE Return
  /\ UNCHANGED <<sda, dta, sft, lost>>

\* fujifs_rename is not implemented: the first name found is the last.
Rename ==
  /\ call.phase = "act" /\ call.fn = "rename_files"
  /\ Return
  /\ UNCHANGED <<tree, size, chan, hnd, buf, sda, dta, sft, lost>>

Answer ==
  /\ call.phase = "act" /\ call.fn = "query"
  /\ Return
  /\ UNCHANGED <<tree, size, chan, hnd, buf, sda, dta, sft, lost>>

Mkdir ==
  /\ call.phase = "act" /\ call.fn = "make_dir"
  /\ IF call.entry # End THEN UNCHANGED fsVars
     ELSE \E done \in BOOLEAN : fujifs_mkdir(<<call.dir, call.name>>, done)
  /\ Return
  /\ UNCHANGED <<sda, dta, sft, lost>>

\* The attribute tested is in dirrec_ptr2, which nothing here has filled in.
Rmdir ==
  /\ call.phase = "act" /\ call.fn = "remove_dir"
  /\ \/ UNCHANGED fsVars
     \/ /\ call.entry # End
        /\ \E done \in BOOLEAN : fujifs_rmdir(<<call.dir, call.name>>, done)
  /\ Return
  /\ UNCHANGED <<sda, dta, sft, lost>>

Permitted(how, e) ==
  IF e # End THEN e[2] \in FileNames /\ how.exists # "fail"
  ELSE how.missing = "create" /\ how.mode # "read"

Opened(h, f) ==
  [NoFile EXCEPT !.open = TRUE, !.mode = call.how.sft_mode, !.handle = h, !.file = f,
                 !.size = IF call.entry # End /\ call.how.exists # "replace"
                          THEN size[f] ELSE 0]

Open ==
  /\ call.phase = "act" /\ call.fn = "open_extended"
  /\ LET f == <<call.dir, call.name>>
     IN  IF ~Permitted(call.how, call.entry) THEN UNCHANGED <<fsVars, sft>>
         ELSE \E h \in Handles \cup {NoHandle} :
                /\ fujifs_open(f, call.how.mode, h)
                /\ sft' = IF h = NoHandle THEN sft
                          ELSE [sft EXCEPT ![call.who] = Opened(h, f)]
  /\ Return
  /\ UNCHANGED <<sda, dta, lost>>

----------------------------------------------------------------------------
(* Open files.                                                             *)

\* A variant: only a position further back is sought.
SoughtBack(s) ==
  LET c == chan[sft[s].handle]
  IN  IF sft[s].pos < sft[s].last_pos /\ c.kind = "file" THEN [c EXCEPT !.at = sft[s].pos]
      ELSE c

\* fujifs_seek, if DOS has moved the position since the last transfer.
Sought(s) ==
  LET c == chan[sft[s].handle]
  IN  IF sft[s].pos # sft[s].last_pos /\ hnd[sft[s].handle].is_open /\ c.kind = "file"
      THEN [c EXCEPT !.at = sft[s].pos] ELSE c

\* DOS moves the position itself and tells nobody (redir.c:813).
DosSeek(s, pos) ==
  /\ Idle /\ sft[s].open
  /\ sft' = [sft EXCEPT ![s].pos = pos]
  /\ UNCHANGED <<tree, size, chan, hnd, buf, sda, dta, call, calls, lost>>

ReadFile(s, asked) ==
  LET f == sft[s]
      cx == IF f.pos + asked > f.size THEN (f.size - f.pos) % W ELSE asked
      c == Sought(s)
      n == IF ~hnd[f.handle].is_open THEN 0
           ELSE IF Waiting(c) < cx THEN Waiting(c) ELSE cx
  IN  /\ Idle /\ f.open /\ f.mode # "write" /\ cx > 0
      /\ chan' = [chan EXCEPT ![f.handle] = After(c, n)]
      /\ sft' = [sft EXCEPT ![s].pos = f.pos + n, ![s].last_pos = f.pos + n]
      /\ UNCHANGED <<tree, size, hnd, buf, sda, dta, call, calls, lost>>

\* fujifs_write is stricter than the other functions: the last handle will not do
\* (fujifs.c:302), while one that is not open will.
Writable(h, c) == h < NETDEV_TOTAL /\ c.kind = "file"

WriteFile(s) ==
  LET f == sft[s]
      c == Sought(s)
  IN  /\ Idle /\ f.open /\ f.mode # "read"
      /\ \/ /\ Writable(f.handle, c) /\ c.at < MaxSize
            /\ chan' = [chan EXCEPT ![f.handle] = After(c, 1)]
            /\ size' = [size EXCEPT ![c.file] = IF @ > c.at THEN @ ELSE c.at + 1]
            /\ sft' = [sft EXCEPT ![s].pos = f.pos + 1, ![s].last_pos = f.pos + 1,
                                  ![s].size = IF f.pos + 1 > @ THEN f.pos + 1 ELSE @]
         \/ /\ ~Writable(f.handle, c) \/ "write" \in Refuse
            /\ chan' = [chan EXCEPT ![f.handle] = c]
            /\ sft' = [sft EXCEPT ![s].failed = TRUE]
            /\ UNCHANGED size
      /\ UNCHANGED <<tree, hnd, buf, sda, dta, call, calls, lost>>

\* A file that was open for reading only is left to itself (redir.c:445).
CloseFile(s) ==
  LET f == sft[s]
  IN  /\ Idle /\ f.open
      /\ IF f.mode = "read"
         THEN lost' = lost \cup {f.handle} /\ UNCHANGED <<chan, hnd>>
         ELSE fujifs_close(f.handle) /\ UNCHANGED lost
      /\ sft' = [sft EXCEPT ![s] = NoFile]
      /\ UNCHANGED <<tree, size, buf, sda, dta, call, calls>>

----------------------------------------------------------------------------
Step ==
  /\ \/ Opendir \/ Refill \/ Record \/ Closedir
     \/ Delete \/ Rename \/ Answer \/ Mkdir \/ Rmdir \/ Open
  /\ UNCHANGED calls

Finished == Idle /\ calls = MaxCalls /\ UNCHANGED vars

Dos ==
  \/ \E p \in Progs, d \in Dirs, n \in Patterns : FindFirst(p, d, n)
  \/ \E p \in Progs : FindNext(p) \/ Abandon(p)
  \/ \E d \in Dirs, n \in Patterns : DeleteFiles(d, n) \/ RenameFiles(d, n)
  \/ \E d \in Dirs, n \in Lookups : Query(d, n)
  \/ \E d \in Dirs, n \in DirNames : MakeDir(d, n)
  \/ \E d \in Dirs, n \in Lookups : RemoveDir(d, n)
  \/ \E s \in Sfts, d \in Dirs, n \in FileNames, how \in HowToOpen : OpenExtended(s, d, n, how)
  \/ \E s \in Sfts :
       \/ \E pos \in 0..MaxSize : DosSeek(s, pos)
       \/ \E asked \in 1..MaxSize : ReadFile(s, asked)
       \/ WriteFile(s) \/ CloseFile(s)

Next == Dos \/ Step \/ Finished

Spec == Init /\ [][Next]_vars

\* A function runs on until it returns; whether DOS calls again is up to DOS.
FairSpec == Spec /\ WF_vars(Step)

----------------------------------------------------------------------------
(* Properties.                                                             *)

Owners == {sft[s].handle : s \in {t \in Sfts : sft[t].open}} \cup {sda.dir_handle, call.handle}

\* The types of everything the redirector and fujifs keep.
TypeOK ==
  /\ FsTypeOK
  /\ sda \in [dir_handle : Handles \cup {NoHandle}, pattern : Names \cup {Wild}]
  /\ \A p \in Progs : dta[p].state \in {"none", "live", "done"}
                      /\ dta[p].rec.dir_handle \in Handles \cup {NoHandle}
  /\ sft \in [Sfts -> [open : BOOLEAN, mode : {"read", "write", "readwrite"},
                       handle : Handles \cup {NoHandle}, file : Files \cup {Junk},
                       pos : Nat, last_pos : Nat, size : Nat, failed : BOOLEAN]]
  /\ call.phase \in {"idle", "opendir", "refill", "record", "closedir", "act"}
  /\ call.handle \in Handles \cup {NoHandle}
  /\ lost \subseteq Handles

\* An open file has a handle that is open, that no other file, search or look-up
\* uses, and whose device has that file open or, after a write-mode open that the
\* server refused, nothing.
HandlesApart ==
  \A s \in Sfts : sft[s].open =>
    LET h == sft[s].handle
    IN  /\ h \in Handles /\ hnd[h].is_open /\ h \notin {sda.dir_handle, call.handle} \cup lost
        /\ \A t \in Sfts \ {s} : sft[t].open => sft[t].handle # h
        /\ \/ chan[h].kind = "file" /\ chan[h].file = sft[s].file
           \/ chan[h].kind = "none" /\ "file" \in Refuse

\* Every open handle is some file's, the search's or the look-up's, but for those
\* that close_file left open.
HandlesAccounted == \A h \in Handles : hnd[h].is_open => h \in Owners \cup lost

\* Every open handle is somebody's: what is closed can be opened again (redir.c:436).
NoHandleLost == \A h \in Handles : hnd[h].is_open => h \in Owners

\* The device is where last_pos says, so that a transfer without a seek happens at
\* the position DOS means, as long as no write to the file has failed.
OffsetsAgree ==
  \A s \in Sfts : LET c == chan[sft[s].handle]
                  IN  sft[s].open /\ ~sft[s].failed /\ c.kind = "file" => c.at = sft[s].last_pos

InOrder(p) ==
  /\ Live(p) => IsPrefix(dta[p].got, dta[p].want)
  /\ dta[p].state = "done" => dta[p].got = dta[p].want

\* A search returns the matching entries of the directory it was started in, each
\* once and in order, and ends after the last, if nothing else uses the buffer.
SearchInOrder == \A p \in Progs : ~dta[p].disturbed => InOrder(p)

\* So it does whatever else the program does in between: "find_first has to locate the
\* directory in which find_next is to iterate" (redir.c:263).  The code does not keep to
\* it: a search begun while another one runs closes that one's handle, or takes its
\* place in the buffer.
SearchKeepsItsPlace == \A p \in Progs : InOrder(p)

\* A look-up that has read its directory to the end has not missed its name, wherever the
\* buffer cut a record in two: then a file that open_extended takes for missing is missing.
LookUpFinds ==
  call.phase = "closedir" /\ ~Searching /\ call.entry = End
    => ~Exists(<<call.dir, call.name>>)

\* When delete_files has gone through the directory, no file it was to delete is left:
\* "We have to loop through all the entries in a directory" (redir.c:686).  The code
\* does not keep to it: the path of an unlink, when it is longer than the records read,
\* overwrites the next ones (fujifs.c:551).
DeleteIsThorough ==
  call.fn = "delete_files" /\ call.phase = "closedir" =>
    \A n \in FileNames : call.name \in {n, Wild} => ~Exists(<<call.dir, n>>)

\* An open that may create a file "if not exist" (redir.c:838) and must not touch one
\* that exists does not touch it.  The code does not keep to it: a look-up that fails
\* passes for a file that is missing (redir.c:886).
ExistingFileSpared ==
  [][call.fn = "open_extended" /\ call.how.exists = "fail" /\ Exists(<<call.dir, call.name>>)
       => UNCHANGED <<tree, size>>]_vars

\* Every function returns to DOS: the loops over readdir come to an end.
CallReturns == ~Idle ~> Idle

=============================================================================
