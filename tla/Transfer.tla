------------------------------ MODULE Transfer ------------------------------
(***************************************************************************)
(* The programs that copy files, Ncopy and Nget, run one after the other   *)
(* on one PC and leave the FujiNet's network devices to each other as they *)
(* are.                                                                    *)
(***************************************************************************)
EXTENDS Ncopy, Nget

CONSTANT MaxRuns  \* bound: programs started

ASSUME RunsAssumption == MaxRuns \in Nat

VARIABLE runs     \* not in the code: programs started

vars == <<netVars, ncopyVars, ngetVars, runs>>

Init == NetInit /\ NcopyInit /\ NgetInit /\ runs = 0

\* DOS runs one program at a time.
NoProgram == pc = "off" /\ npc = "off"
Launch == NoProgram /\ runs < MaxRuns /\ runs' = runs + 1

LaunchNcopy ==
  /\ Launch /\ pc' = "start"
  /\ UNCHANGED <<netVars, job, buf, hnd, host, handle, message, typed, where, ngetVars>>

LaunchNget(d) == Launch /\ StartNget(d) /\ UNCHANGED ncopyVars
LaunchNput == Launch /\ StartNput /\ UNCHANGED ncopyVars

\* The user switches the PC off and on when a program does not come back.
Reset == npc = "spin" /\ NgetGone /\ UNCHANGED <<ncopyVars, runs>>

\* Nobody runs or types anything more.
Finished == NoProgram /\ runs = MaxRuns /\ UNCHANGED vars

Programs ==
  \/ (NcopyStep \/ Command) /\ UNCHANGED <<ngetVars, runs>>
  \/ NgetStep /\ UNCHANGED <<ncopyVars, runs>>

Next ==
  \/ Programs \/ Reset \/ Finished
  \/ LaunchNcopy \/ LaunchNput
  \/ \E d \in Dirs : LaunchNget(d)

Spec == Init /\ [][Next]_vars

\* A program that runs goes on: each of its calls of INT F5 comes back, because the waits
\* of fujicom do (CallReturns of Fujicom).
FairSpec ==
  /\ Spec
  /\ WF_vars(NcopyStep /\ UNCHANGED <<ngetVars, runs>>)
  /\ WF_vars(NgetStep /\ UNCHANGED <<ncopyVars, runs>>)

----------------------------------------------------------------------------
TypeOK == NetTypeOK /\ NcopyTypeOK /\ NgetTypeOK /\ runs \in 0..MaxRuns

\* Every way through a command, and out of fujifs_open_url, gives back the handle that it
\* has taken (fujifs.c:94-97), so that the next file is opened on the host's own device and
\* its working directory need not be copied.
HandlesBack ==
  /\ pc \in {"off", "prompt"} => \A h \in Devices : ~hnd[h].is_open
  /\ pc \in {"ask", "fetch", "send"} => handle = host

\* What a command of ncopy, or nget, has stored so far is nothing or the beginning of a file
\* that the server has, whatever calls failed and however stale or damaged the status was
\* that it went by (fujifs.c:279-292, nget.c:97-132).  Not, though, if the open itself was
\* lost, a read carried out twice or the local disk full.
Fetching == (pc \in {"ask", "fetch", "close"} /\ job = "get") \/ npc \in {"loop", "next", "spin"}
FetchedIsPrefix ==
  Fetching /\ opened /\ "twice" \notin missed /\ ~full /\ local # <<>> =>
    \E d \in Dirs : remote[d] # Absent /\ IsPrefix(local, remote[d])

\* A fetch that ends without an error message has stored all of the file.  ncopy: if no
\* call failed and the server had something to give whenever it was asked (fujifs_read
\* returns 0 for both, and get_file takes it for the end).  nget: whatever calls were lost,
\* but for the open, if no answer came damaged, no read was carried out twice and the local
\* disk had room, none of which nget notices.
SilentFetchIsWhole ==
  [][/\ pc # "prompt" /\ pc' = "prompt" /\ job = "get" /\ ~message' /\ missed' = {} =>
          local' = remote'[dev'[host].cwd]
     /\ npc # "exit" /\ npc' = "exit" /\ prog = "nget" /\ code' = "zero" /\ ~full
          /\ opened /\ missed \subseteq {"lost", "idle"} => local' = remote'[src]]_vars

\* "The exit error code 0 = success" (nget.c:32): then all of the file is there.  The code
\* does not keep to it: nget goes by a status whose bytes may have come damaged (nget.c:132).
ExitZeroIsSuccess ==
  [][npc # "exit" /\ npc' = "exit" /\ prog = "nget" /\ code' = "zero" =>
       local' = remote'[src]]_vars

\* The end of a put of a file that is not empty without an error message.
SilentPut == pc # "prompt" /\ pc' = "prompt" /\ job = "put" /\ ~message' /\ local # <<>>

EndsWith(t, s) == Len(s) <= Len(t) /\ SubSeq(t, Len(t) - Len(s) + 1, Len(t)) = s

\* Such a put has sent all of the file, for every write is answered (ncopy.c:202-210): some
\* file of the server ends with it, and when its open was carried out it is the one it was
\* to be, and nothing else.
SilentPutIsWhole ==
  [][SilentPut =>
       /\ \E d \in Dirs : remote'[d] # Absent /\ EndsWith(remote'[d], local)
       /\ opened => local' = remote'[dev'[host].cwd]]_vars

\* It does no harm that "the error returned when opening in write mode should be ignored"
\* (fujifs.c:228).  The code does not keep to it: a put whose open was lost after a close
\* that was lost adds its file to the one before.
SilentPutIsStored == [][SilentPut => local' = remote'[dev'[host].cwd]]_vars

\* A file is opened in the directory that the user has been told he is in, "Tell FujiNet to
\* remember it" (fujifs.c:137).  The code does not keep to it: whether the FujiNet did is
\* not asked after the URL, and a status that is stale or damaged can answer it after cd.
OpensWhereTold ==
  [][pc = "open" /\ pc' = "opened" /\ job # "url" /\ opened' =>
       dev'[handle].dir \in {where, NoDir}]_vars

\* Every command of ncopy comes back to the prompt, and nget and nput end, or nget spins on
\* a status without bytes that it never asks for again (nget.c:98-102).
ProgramsEnd ==
  /\ pc \notin {"off", "prompt"} ~> pc \in {"off", "prompt"}
  /\ npc # "off" ~> npc \in {"off", "spin"}
=============================================================================
