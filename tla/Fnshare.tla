------------------------------ MODULE Fnshare -------------------------------
(***************************************************************************)
(* FNSHARE as DOS sees it: copies of the program that are loaded, each for *)
(* a drive (fnshare/fnshare.c), hang in the chain of INT 2F with programs  *)
(* of other makers, and decide which calls of DOS are for them             *)
(* (is_call_for_us of fnshare/redir.c).  What a copy does with a call is   *)
(* Redirector's; here it is which copy takes it, and by which name the     *)
(* server hears of the file.                                               *)
(*                                                                         *)
(* DOS runs one program at a time, so that loading is not interleaved with *)
(* calls, but the user can break it off.  Handlers are numbers: 0 is DOS,  *)
(* 1..MaxCopies are the copies in the order of their loading, and those    *)
(* above are the other programs.                                           *)
(***************************************************************************)
EXTENDS Names

CONSTANTS
  MaxCopies,  \* bound: copies loaded
  MaxOthers,  \* other programs that hook INT 2F
  last_drive, \* drives that DOS has room for
  LocalDrives,\* drives that have a disk of their own
  UserInts,   \* interrupts free for users, 0x60..0x66 in the code
  Shares,     \* what may be mapped: the names of servers' directories
  FILES,      \* entries of the system file table
  DosPaths,   \* what DOS calls a file by, the root included
  Listing,    \* a server's directory: names, and their dates
  Dates

DOS == 0
Stranger == -1  \* a program that uses a user interrupt and leaves INT 2F alone
Copies == 1..MaxCopies
Others == (MaxCopies + 1)..(MaxCopies + MaxOthers)
Drives == 0..(last_drive - 1)
Sfts == 1..FILES

ASSUME FnshareAssumption ==
  /\ MaxCopies \in Nat /\ MaxOthers \in Nat /\ last_drive \in 1..32 /\ FILES \in Nat
  /\ LocalDrives \subseteq Drives /\ UserInts \subseteq 96..102

\* The volume is the URL without the slash at its end.
Volume(url) == IF Last(url) = "/" THEN Front(url) ELSE url

\* What a path names below the root, and the directory part of that.
Below(path) == From(path, Position(path, "\\") + 1)
Directory(path) == SubSeq(Below(path), 1, LastPosition(Below(path), "\\"))

IsText(s) == s \in Seq(ToSet(s))

\* DOS's paths have a root, and behind a volume they fit temp_path, with any name of a record
\* in the place of their last part; fujifs_strtok leaves no blanks in the names of a listing.
ASSUME PathsAssumption ==
  /\ \A url \in Shares : IsText(url) /\ url # <<>>
  /\ \A path \in DosPaths :
       /\ IsText(path) /\ Position(path, "\\") # 0
       /\ \A url \in Shares, n \in {Len(Below(path)), Len(Directory(path)) + FcbLen + 1} :
            Len(Volume(url)) + 1 + n <= PATHLEN
ASSUME ListingAssumption ==
  /\ \A e \in Listing : IsText(e) /\ " " \notin ToSet(e)
  /\ Dates \subseteq [mm : 1..12, dd : 1..31, yy : 0..99, hh : 1..12, min : 0..59, pm : BOOLEAN]

VARIABLES
  vect2f,  \* the handler INT 2F calls
  prev,    \* prev[h]: prev_int2f_vector, the handler h chains on to
  memory,  \* memory[h]: "none", "loading", "loaded" or "gone"
  copy,    \* copy[n]: fn_drive_num and fn_volume
  user,    \* user[i]: whose signature record user interrupt i points to, or DOS
  cds,     \* cds[d]: "invalid", "local" or "network"
  sft,     \* sft[s]: drive bits of the entry; by is not in the code, the copy that made it
  srch,    \* drive_num of the search record in the SDA; by as above
  answer,  \* not in the code: who took the last call, and what the server heard or DOS saw
  broken   \* not in the code: drives whose loading the user broke off

vars == <<vect2f, prev, memory, copy, user, cds, sft, srch, answer, broken>>
chainVars == <<vect2f, prev, memory, copy, user>>

NoCopy == [drive |-> last_drive, volume |-> <<>>]
NoAnswer == [fn |-> 0, due |-> DOS, by |-> DOS, asked |-> <<>>, sent |-> <<>>, seen |-> <<>>]
Free == [drive |-> last_drive, by |-> DOS]
NoSearch == [drive_num |-> 0, by |-> DOS]

Init ==
  /\ vect2f = DOS /\ prev = [h \in Copies \cup Others |-> DOS]
  /\ memory = [h \in Copies \cup Others |-> "none"]
  /\ copy = [n \in Copies |-> NoCopy]
  /\ user = [i \in UserInts |-> DOS]
  /\ cds = [d \in Drives |-> IF d \in LocalDrives THEN "local" ELSE "invalid"]
  /\ sft = [s \in Sfts |-> Free] /\ srch = NoSearch
  /\ answer = NoAnswer /\ broken = {}

Loaded == {h \in Copies \cup Others : memory[h] = "loaded"}
Loading == {n \in Copies : memory[n] = "loading"}
AtPrompt == Loading = {} /\ answer = NoAnswer

\* The handlers that a call meets, DOS not among them.
Chain ==
  LET from[h \in {DOS} \cup Copies \cup Others] == IF h = DOS THEN <<>> ELSE <<h>> \o from[prev[h]]
  IN from[vect2f]

----------------------------------------------------------------------------
(* Loading.                                                                *)

\* A variant: only the physical bit of the drive is looked at.
DriveFreeUnlessLocal(d) == d < last_drive /\ cds[d] # "local"
DriveFree(d) == d < last_drive /\ cds[d] = "invalid"

\* main, up to the message: the share can be opened, no redirector forbids another (inquiry),
\* and the drive is free.  Otherwise the program ends and leaves nothing behind.
set_up_cds(d, url) ==
  /\ AtPrompt /\ DriveFree(d)
  /\ \E n \in Copies :
       /\ memory[n] = "none" /\ \A m \in 1..(n - 1) : memory[m] # "none"
       /\ memory' = [memory EXCEPT ![n] = "loading"]
       /\ copy' = [copy EXCEPT ![n] = [drive |-> d, volume |-> Volume(url)]]
  /\ cds' = [cds EXCEPT ![d] = "network"]
  /\ UNCHANGED <<vect2f, prev, user, sft, srch, answer, broken>>

\* Control-C at the message, which DOS prints, ends the program; nothing takes the flags of the
\* drive back.
Break(n) ==
  /\ n \in Loading
  /\ memory' = [memory EXCEPT ![n] = "gone"]
  /\ broken' = broken \cup {copy[n].drive}
  /\ UNCHANGED <<vect2f, prev, copy, user, cds, sft, srch, answer>>

\* The lowest user interrupt whose vector is null gets the signature record.  Without one the
\* copy stays all the same, and cannot be unloaded.
FreeInts == {i \in UserInts : user[i] = DOS}
Lowest(S) == CHOOSE i \in S : \A j \in S : i <= j
Highest(S) == CHOOSE i \in S : \A j \in S : j <= i

\* A variant: the handler that was there is not kept.
prepare_forgets_prev(n) ==
  UNCHANGED prev /\ user' = IF FreeInts = {} THEN user ELSE [user EXCEPT ![Lowest(FreeInts)] = n]

prepare_for_tsr(n) ==
  /\ prev' = [prev EXCEPT ![n] = vect2f]
  /\ user' = IF FreeInts = {} THEN user ELSE [user EXCEPT ![Lowest(FreeInts)] = n]

tsr(n) ==
  /\ n \in Loading /\ prepare_for_tsr(n)
  /\ vect2f' = n /\ memory' = [memory EXCEPT ![n] = "loaded"]
  /\ UNCHANGED <<copy, cds, sft, srch, answer, broken>>

----------------------------------------------------------------------------
(* Unloading.  main has no option for it yet; the routine is complete.     *)

Signed == {i \in UserInts : user[i] \in Copies}

\* A variant: that somebody hooked INT 2F later is not looked for.
NotSuperseded(n) == TRUE
OnTop(n) == vect2f = n

unload_latest ==
  /\ AtPrompt /\ Signed # {}
  /\ LET i == Highest(Signed)
         n == user[i]
     IN /\ OnTop(n)
        /\ vect2f' = prev[n]
        /\ memory' = [memory EXCEPT ![n] = "gone"]
        /\ cds' = [cds EXCEPT ![copy[n].drive] = "invalid"]
        /\ user' = [user EXCEPT ![i] = DOS]
  /\ UNCHANGED <<prev, copy, sft, srch, answer, broken>>

\* Another program hooks INT 2F; one that goes leaves the chain only from its top.
HookOther(o) ==
  /\ AtPrompt /\ memory[o] = "none"
  /\ prev' = [prev EXCEPT ![o] = vect2f] /\ vect2f' = o
  /\ memory' = [memory EXCEPT ![o] = "loaded"]
  /\ UNCHANGED <<copy, user, cds, sft, srch, answer, broken>>

UnhookOther(o) ==
  /\ AtPrompt /\ memory[o] = "loaded" /\ vect2f = o
  /\ vect2f' = prev[o] /\ memory' = [memory EXCEPT ![o] = "gone"]
  /\ UNCHANGED <<prev, copy, user, cds, sft, srch, answer, broken>>

\* Another program takes a user interrupt or gives it back.
UserIntOfOther(i) ==
  /\ AtPrompt /\ user[i] \in {DOS, Stranger}
  /\ user' = [user EXCEPT ![i] = IF @ = DOS THEN Stranger ELSE DOS]
  /\ UNCHANGED <<vect2f, prev, memory, copy, cds, sft, srch, answer, broken>>

----------------------------------------------------------------------------
(* Calls.  DOS calls INT 2F with AH = 11h and the function in AL, and each *)
(* handler takes the call or passes it on.                                 *)

SUBF == [INQUIRY |-> 0, CHDIR |-> 5, CLOSE |-> 6, READ |-> 8, UNLOCK |-> 11, GETDISKSPACE |-> 12,
         DELETE |-> 19, FINDFIRST |-> 27, FINDNEXT |-> 28, SEEK |-> 33, EXTENDATTR |-> 45,
         OPENEXTENDED |-> 46]
ByFile == SUBF.CLOSE..SUBF.UNLOCK \cup {SUBF.SEEK, SUBF.EXTENDATTR}

\* The functions that have an entry in dispatch_table.  47, behind its end, passes the test
\* of redirector() too; DOS does not call it.
Supported ==
  {0, 1, 3, 14, 15, 17, 19, 22, 23, 27, 28, 46} \cup {SUBF.CHDIR, SUBF.GETDISKSPACE} \cup ByFile

\* A variant: any record will do.
AnySearch(x) == TRUE

\* A record of a search that goes on has 0x40 in its drive_num.
SearchGoesOn(x) == (x \div 64) % 2 = 1

is_call_for_us(n, fn, d, s) ==
  CASE fn \in ByFile -> sft[s].drive % 64 = copy[n].drive
    [] fn = SUBF.INQUIRY -> TRUE
    [] fn = SUBF.FINDNEXT -> SearchGoesOn(srch.drive_num) /\ srch.drive_num % 32 = copy[n].drive
    [] OTHER -> d = copy[n].drive

\* The first handler in the chain that is a copy and takes the call.
redirector(fn, d, s) ==
  LET i == SelectInSeq(Chain, LAMBDA h : h \in Copies /\ fn \in Supported /\ is_call_for_us(h, fn, d, s))
  IN IF i = 0 THEN DOS ELSE Chain[i]

\* Who should: not in the code.  Of a copy that has been unloaded nothing is said.
Anybody == -2
Still(n) == IF n = DOS \/ memory[n] = "loaded" THEN n ELSE Anybody
Serving(d) == {n \in Copies : memory[n] = "loaded" /\ copy[n].drive = d}
ForDrive(d) == IF Serving(d) = {} THEN DOS ELSE CHOOSE n \in Serving(d) : TRUE

Answer(fn, due, by, asked, sent, seen) ==
  answer' = [fn |-> fn, due |-> due, by |-> by, asked |-> asked, sent |-> sent, seen |-> seen]
Calls == AtPrompt /\ UNCHANGED <<chainVars, cds, broken>>

Remote(n, path) == IF n = DOS THEN <<>> ELSE path_with_volume(copy[n].volume, <<>>, undosify_path(path))

\* DOS has what the call came to.
Return ==
  /\ answer # NoAnswer /\ answer' = NoAnswer
  /\ UNCHANGED <<chainVars, cds, sft, srch, broken>>

\* inquiry: a loader is told that it may go on, by whatever copy was loaded last.
Inquiry ==
  /\ Calls /\ UNCHANGED <<sft, srch>>
  /\ LET n == redirector(SUBF.INQUIRY, 0, 0)
     IN Answer(SUBF.INQUIRY, IF Loaded \cap Copies = {} THEN DOS ELSE Anybody, n, <<>>, <<>>, <<>>)

\* A function for a path, which the copy sends to the server under the name made of it, or for
\* the drive alone.  Only for a drive that is flagged does DOS call.
ByPath(fn, d, path) ==
  /\ Calls /\ cds[d] = "network" /\ UNCHANGED <<sft, srch>>
  /\ LET n == redirector(fn, d, 0)
     IN IF fn = SUBF.CHDIR THEN Answer(fn, ForDrive(d), n, path, Remote(n, path), <<>>)
        ELSE Answer(fn, IF fn \in Supported THEN ForDrive(d) ELSE DOS, n, <<>>, <<>>, <<>>)

Open(s, d, path) ==
  /\ Calls /\ cds[d] = "network" /\ sft[s] = Free /\ UNCHANGED srch
  /\ LET n == redirector(SUBF.OPENEXTENDED, d, 0)
     IN /\ sft' = IF n = DOS THEN sft ELSE [sft EXCEPT ![s] = [drive |-> 64 + copy[n].drive, by |-> n]]
        /\ Answer(SUBF.OPENEXTENDED, ForDrive(d), n, path, Remote(n, path), <<>>)

ByHandle(fn, s) ==
  /\ Calls /\ sft[s] # Free /\ UNCHANGED srch
  /\ LET n == redirector(fn, 0, s)
     IN /\ sft' = IF fn = SUBF.CLOSE THEN [sft EXCEPT ![s] = Free] ELSE sft
        /\ Answer(fn, Still(sft[s].by), n, <<>>, <<>>, <<>>)

\* A search for the label of the volume is answered without the server and leaves a record
\* that no find_next is taken for; any other finds some entry of the directory.
FindFirst(d, path, label) ==
  /\ Calls /\ cds[d] = "network" /\ UNCHANGED sft
  /\ LET n == redirector(SUBF.FINDFIRST, d, 0)
         mask == generate_fcbname(path)
     IN /\ srch' = IF n = DOS THEN srch
                   ELSE IF label THEN [drive_num |-> copy[n].drive + 1 + 128, by |-> DOS]
                   ELSE [drive_num |-> copy[n].drive + 192, by |-> n]
        /\ IF label \/ n = DOS
           THEN Answer(SUBF.FINDFIRST, ForDrive(d), n, <<>>, <<>>, <<>>)
           ELSE \E e \in Listing, t \in Dates :
                  /\ match_to_mask(mask, fcbitize(e))
                  /\ Answer(SUBF.FINDFIRST, ForDrive(d), n, <<e, t>>,
                            Remote(n, SubSeq(path, 1, LastPosition(path, "\\") - 1)),
                            fndirent_to_dirrec(e, t))

\* DOS hands on a find_next whose record has 0x80 in its drive_num.
FindNext ==
  /\ Calls /\ srch.drive_num >= 128 /\ UNCHANGED <<sft, srch>>
  /\ Answer(SUBF.FINDNEXT, Still(srch.by), redirector(SUBF.FINDNEXT, 0, 0), <<>>, <<>>, <<>>)

\* delete_files goes by the name of each entry that it finds.
Delete(d, path) ==
  /\ Calls /\ cds[d] = "network" /\ UNCHANGED <<sft, srch>>
  /\ LET n == redirector(SUBF.DELETE, d, 0)
     IN IF n = DOS THEN Answer(SUBF.DELETE, ForDrive(d), n, <<>>, <<>>, <<>>)
        ELSE \E e \in Listing :
               /\ match_to_mask(generate_fcbname(path), fcbitize(e))
               /\ Answer(SUBF.DELETE, ForDrive(d), n, <<e, path>>,
                         Remote(n, fcb_to_path(path, fcbitize(e))), <<>>)

----------------------------------------------------------------------------
FileCalls == {SUBF.CLOSE, SUBF.READ, SUBF.SEEK, SUBF.EXTENDATTR}
PathCalls == {SUBF.CHDIR, SUBF.GETDISKSPACE, 34}  \* 34 is one of the unsupported ones

Step ==
  \/ \E d \in 0..last_drive, url \in Shares : set_up_cds(d, url)
  \/ \E n \in Copies : Break(n) \/ tsr(n)
  \/ unload_latest
  \/ \E o \in Others : HookOther(o) \/ UnhookOther(o)
  \/ \E i \in UserInts : UserIntOfOther(i)

Call ==
  \/ Inquiry \/ FindNext
  \/ \E d \in Drives, path \in DosPaths :
       \/ \E fn \in PathCalls : ByPath(fn, d, path)
       \/ \E s \in Sfts : Open(s, d, path)
       \/ \E label \in BOOLEAN : FindFirst(d, path, label)
       \/ Delete(d, path)
  \/ \E fn \in FileCalls, s \in Sfts : ByHandle(fn, s)

Next == Step \/ Call \/ Return
Spec == Init /\ [][Next]_vars

----------------------------------------------------------------------------
TypeOK ==
  /\ vect2f \in {DOS} \cup Copies \cup Others
  /\ prev \in [Copies \cup Others -> {DOS} \cup Copies \cup Others]
  /\ memory \in [Copies \cup Others -> {"none", "loading", "loaded", "gone"}]
  /\ \A n \in Copies : copy[n].drive \in 0..last_drive
  /\ user \in [UserInts -> {DOS, Stranger} \cup Copies]
  /\ cds \in [Drives -> {"invalid", "local", "network"}]
  /\ \A s \in Sfts : sft[s].by \in {DOS} \cup Copies
  /\ srch.drive_num \in 0..255 /\ broken \subseteq Drives /\ Cardinality(Loading) <= 1

\* The chain of INT 2F meets every handler that is resident once and no other, however the
\* copies and other programs came and went: unload_latest looks whether its copy is on top
\* (fnshare.c:269), and so it is right that it may pick a copy that is not the latest.
ChainIntact ==
  /\ ToSet(Chain) = Loaded
  /\ Len(Chain) = Cardinality(Loaded)

\* More than that, the handlers are a stack: a program comes in above all the others, goes only
\* from the top, and no other step, be it a loading that the user breaks off or a change of
\* the user interrupts by which unload_latest finds its copy, moves one of them.
Stack == INSTANCE Hooks WITH Programs <- Copies \cup Others, chain <- Chain, resident <- Loaded
HandlersAreStack == Stack!Spec

\* A drive is flagged as a network drive exactly when one resident copy has it, unless the
\* user broke the loading off after set_up_cds, and no copy takes a drive of the PC
\* (fnshare.c:195-203).
DrivesServed ==
  AtPrompt =>
    \A d \in Drives :
      /\ Cardinality(Serving(d)) <= 1
      /\ Serving(d) # {} => cds[d] = "network"
      /\ cds[d] = "network" /\ d \notin broken => Serving(d) # {}
      /\ d \in LocalDrives => cds[d] = "local"

\* Whichever copies are loaded and in whatever order they hang in the chain, a call for a path
\* is taken by the copy that has the drive, one for a file by the copy that opened it, and a
\* find_next by the copy whose find_first it goes on with, and by none after a search for a
\* label (redir.c:1061-1096).
RightCopyAnswers ==
  answer.due # Anybody => answer.by = answer.due

\* What the server hears is the directory that was mapped and, behind a slash, the path of DOS
\* below the root in small letters with slashes, and a file that delete_files finds by its
\* name in DOS's records is deleted by its own name, provided it has an extension and no second dot
\* and fits the record (redir.c:98-176, 621-645).
Slashed(path) ==
  [i \in DOMAIN path |-> IF path[i] = "\\" THEN "/" ELSE IF path[i] \in DOMAIN Small THEN Small[path[i]] ELSE path[i]]
FitsRecord(e) ==
  /\ Position(e, ".") \in 2..(NameLen + 1) /\ Position(e, ".") = LastPosition(e, ".")
  /\ Len(e) - Position(e, ".") \in 1..ExtLen
UrlOf(n) == CHOOSE v \in {Volume(url) : url \in Shares} : v = copy[n].volume

PathGoesToShare ==
  /\ answer.fn \in {SUBF.OPENEXTENDED, SUBF.CHDIR} /\ answer.by # DOS =>
       answer.sent = UrlOf(answer.by) \o <<"/">> \o Slashed(Below(answer.asked))
  /\ answer.fn = SUBF.DELETE /\ answer.by # DOS =>
       LET e == answer.asked[1]
       IN FitsRecord(e) =>
            answer.sent = UrlOf(answer.by) \o <<"/">> \o Slashed(Directory(answer.asked[2]) \o e)

\* DOS sees the name and the date that the server's listing gives, in the record of find_first,
\* for the years 1980 to 2074 (fujifs.c:462-478, redir.c:186-200).
Year(yy) == IF yy < 75 THEN 2000 + yy ELSE 1900 + yy
Hour(hh, pm) == CASE hh = 12 -> IF pm THEN 12 ELSE 0
                  [] OTHER -> IF pm THEN hh + 12 ELSE hh

ListedAsStored ==
  answer.fn = SUBF.FINDFIRST /\ answer.by # DOS /\ answer.asked # <<>> =>
    LET e == answer.asked[1]
        t == answer.asked[2]
        r == answer.seen
    IN /\ FitsRecord(e) => r.fcb_name = get_fcbname_from_path(e)
       /\ Year(t.yy) >= 1980 => 1980 + r.year = Year(t.yy)
       /\ r.month = t.mm /\ r.day = t.dd /\ r.hour = Hour(t.hh, t.pm) /\ r.minute = t.min
=============================================================================
