------------------------------- MODULE Ncopy -------------------------------
(***************************************************************************)
(* NCOPY, ncopy/ncopy.c, with the file system client it is linked to,      *)
(* ncopy/fujifs.c.  Each action is a call of INT F5 with what the program  *)
(* does before the next one.                                               *)
(*                                                                         *)
(* ncopy closes the device of its host before it shows the prompt and      *)
(* never has two files open, so every file is opened on the host's own     *)
(* device (HandlesBack) and fujifs_open copies no working directory.      *)
(***************************************************************************)
EXTENDS NetDevice

CONSTANTS
  BUF,          \* cells of buf
  Url,          \* the directory that the URL on the command line names
  MaxCommands   \* bound: commands typed

ASSUME BufAssumption == BUF \in Nat \ {0} /\ MaxCommands \in Nat /\ Url \in Dirs

VARIABLES
  pc,       \* what ncopy does next; "off" when it does not run
  job,      \* the command it carries out, "url" at the start
  buf,      \* the argument of cd, or what is still to be sent of the local file
  hnd,      \* fujifs_open_handles
  host,     \* the handle of the host
  handle,   \* the handle of the file or directory
  message,  \* whether the command has reported an error
  typed,    \* not in the code: counts commands
  where     \* not in the code: the directory the user has been told he is in

ncopyVars == <<pc, job, buf, hnd, host, handle, message, typed, where>>

NoHandle == 0
FreeHandle == [is_open |-> FALSE, did_auth |-> FALSE, user |-> FALSE, parent |-> NoHandle]

NcopyInit ==
  /\ pc = "off" /\ job = "url" /\ buf = <<>> /\ message = FALSE /\ typed = 0
  /\ hnd = [h \in Devices |-> FreeHandle] /\ host = NoHandle /\ handle = NoHandle
  /\ where = Url

----------------------------------------------------------------------------
(* The handle table.                                                       *)

\* A variant: the handle is not given back.
ReleasedNot(h) == hnd

Released(h) == [hnd EXCEPT ![h].is_open = FALSE]

\* A failed open gives its handle back itself; the device is not closed.
Forgotten(h) == Released(h)

fujifs_find_handle ==
  CHOOSE h \in Devices : ~hnd[h].is_open /\ \A g \in Devices : g < h => hnd[g].is_open

\* Invalidate all other network drives that have us as parent.
Orphaned(h) ==
  [g \in Devices |-> CASE g = h               -> [hnd[g] EXCEPT !.parent = h]
                       [] hnd[g].parent = h /\ g # h -> [hnd[g] EXCEPT !.parent = NoHandle]
                       [] OTHER               -> hnd[g]]

----------------------------------------------------------------------------
(* The start: fujifs_open_url without and then with a password.            *)

\* The user name and the password are sent whatever they are.  The handle is marked
\* free after that, and fujifs_open finds it again.
OpenUrl(user, o) ==
  LET h == fujifs_find_handle
  IN  /\ LoginCall(h, user, o)
      /\ hnd' = [hnd EXCEPT ![h].user = user, ![h].is_open = TRUE]
      /\ handle' = h /\ pc' = "open"
      /\ UNCHANGED <<remote, local, room, status, missed, opened, job, buf, host, typed, where>>

Start(o) ==
  /\ pc = "start" /\ OpenUrl(FALSE, o) /\ UNCHANGED message

AskPassword(o) ==
  /\ pc = "password" /\ OpenUrl(TRUE, o) /\ message' = TRUE

----------------------------------------------------------------------------
(* The prompt.                                                             *)

Begin(cmd, next) ==
  /\ pc = "prompt" /\ typed < MaxCommands /\ typed' = typed + 1
  /\ job' = cmd /\ pc' = next
  /\ missed' = {} /\ opened' = FALSE /\ message' = FALSE
  /\ UNCHANGED <<remote, room, dev, status, faults, hnd, host, handle, where>>

Dir == Begin("dir", "find") /\ buf' = <<>> /\ UNCHANGED local

\* fopen creates the local file, or empties it, before the remote one is looked for.
Get == Begin("get", "find") /\ buf' = <<>> /\ local' = <<>>

PutFile == Begin("put", "find") /\ buf' = local /\ UNCHANGED local

Cd(d) == Begin("cd", "chdir") /\ buf' = <<d>> /\ UNCHANGED local

\* The process is gone and its table with it; what the devices know stays.
Leave ==
  /\ pc' = "off"
  /\ job' = "url" /\ buf' = <<>> /\ message' = FALSE
  /\ hnd' = [h \in Devices |-> FreeHandle] /\ host' = NoHandle /\ handle' = NoHandle
  /\ where' = Url
  /\ ProcessGone /\ UNCHANGED typed

Exit == pc = "prompt" /\ Leave

\* The second attempt has failed too.
GiveUp == pc = "give_up" /\ Leave

----------------------------------------------------------------------------
(* fujifs_open.                                                            *)

Mode == CASE job \in {"url", "dir"} -> "dir" [] job = "get" -> "read" [] job = "put" -> "write"

\* There is a free handle (HandlesBack).  The host's password goes to the device unless it has had it from this host.
FindHandle(o) ==
  /\ pc = "find"
  /\ LET h == fujifs_find_handle
         ask == hnd[host].user /\ (~hnd[h].did_auth \/ host # hnd[h].parent)
     IN  /\ IF ask THEN LoginCall(h, TRUE, o) ELSE o = "done" /\ UNCHANGED <<dev, faults>>
         /\ hnd' = [hnd EXCEPT ![h].is_open = TRUE, ![h].parent = host,
                               ![h].did_auth = @ \/ ask]
         /\ handle' = h
  /\ pc' = "open"
  /\ UNCHANGED <<remote, local, room, status, missed, opened, job, buf, host, message, typed, where>>

Open(o) ==
  /\ pc = "open"
  /\ OpenCall(handle, Mode, IF job = "url" THEN Url ELSE dev[handle].cwd, o)
  /\ pc' = "opened"
  /\ UNCHANGED <<local, room, status, job, buf, hnd, host, handle, message, typed, where>>

\* What fujifs_open takes for an error, and so not when the file is to be written.
Refused(s) == Mode # "write" /\ s.errcode = "fail" /\ s.length = 0

Opened(o) ==
  /\ pc = "opened" /\ StatusCall(handle, o)
  /\ IF Refused(status')
     THEN /\ hnd' = Forgotten(handle)
          /\ pc' = CASE job # "url"            -> "prompt"
                     [] job = "url" /\ message  -> "give_up"
                     [] job = "url" /\ ~message -> "password"
          /\ message' = (job # "url" \/ message)
          /\ UNCHANGED host
     ELSE /\ pc' = CASE job = "url" -> "chdir" [] job = "put" -> "send" [] OTHER -> "ask"
          /\ host' = IF job = "url" THEN handle ELSE host
          /\ UNCHANGED <<hnd, message>>
  /\ UNCHANGED <<remote, local, room, opened, job, buf, handle, typed, where>>

\* fujifs_close.
Close(o) ==
  /\ pc = "close" /\ CloseCall(handle, o)
  /\ hnd' = Released(handle)
  /\ pc' = "prompt"
  /\ UNCHANGED <<remote, local, room, status, opened, job, buf, host, handle, message, typed, where>>

----------------------------------------------------------------------------
(* fujifs_chdir, for cd and at the end of fujifs_open_url.                 *)

Target == IF job = "cd" THEN buf[1] ELSE Url

Chdir(o, there) ==
  /\ pc = "chdir" /\ ChdirCall(host, Target, there, o)
  /\ pc' = "changed"
  /\ UNCHANGED <<remote, local, room, status, opened, job, buf, hnd, host, handle, message, typed,
                 where>>

PathDone(s) == s.errcode = "ok" \/ (s.errcode = "eof" /\ s.length = 0)

\* Only the status counts; consolef prints it if it is an error.  fujifs_open_url does
\* not look at the outcome (fujifs.c:138), and the user goes by the URL.
Changed(o) ==
  /\ pc = "changed" /\ StatusCall(host, o)
  /\ LET ok == PathDone(status')
     IN  /\ message' = IF job = "cd" THEN ~ok ELSE message
         /\ where' = IF job = "cd" /\ ~ok THEN where ELSE Target
  /\ hnd' = Orphaned(host)
  /\ pc' = IF job = "url" THEN "close" ELSE "prompt"
  /\ UNCHANGED <<remote, local, room, opened, job, buf, host, handle, typed>>

----------------------------------------------------------------------------
(* The loops of print_dir, get_file and put_file.                          *)

\* fujifs_read: what has arrived, as far as it fits.
ReadLength == IF status.length < BUF THEN status.length ELSE BUF

Ask(o) ==
  /\ pc = "ask" /\ StatusCall(handle, o)
  /\ pc' = IF status'.errcode \in {"eof", "fail"} /\ status'.length = 0 THEN "close"
           ELSE "fetch"
  /\ UNCHANGED <<remote, local, room, opened, job, buf, hnd, host, handle, message, typed, where>>

\* A variant: cells that the local disk has no room for are not missed.
FullUnnoticed(data) == FALSE

\* fwrite has stored less than it was given.
Full(data) == job = "get" /\ Stored(data) # data

\* A variant: only a failed read ends the loop.
EndIfBad(data, o) == data = <<>> /\ o # "done"

\* No cells, for whatever reason, end the loop.
Ended(data, o) == data = <<>>

Fetch(o) ==
  LET data == Delivered(handle, ReadLength, o)
  IN  /\ pc = "fetch" /\ ReadCall(handle, ReadLength, o)
      /\ local' = IF job = "get" THEN local \o Stored(data) ELSE local
      /\ message' = Full(data)
      /\ pc' = IF Ended(data, o) \/ Full(data) THEN "close" ELSE "ask"
      /\ UNCHANGED <<remote, room, status, opened, job, buf, hnd, host, handle, typed, where>>

\* A variant: a write that fails has written nothing, and the loop goes on.
NeverShort(n, o) == FALSE

\* fujifs_write returns -1, which is not the length that was asked for.
Short(n, o) == ~Written(n, o)

Send(o) ==
  LET n == IF Len(buf) < BUF THEN Len(buf) ELSE BUF
  IN  /\ pc = "send" /\ n > 0 /\ WriteCall(handle, SubSeq(buf, 1, n), o)
      /\ message' = Short(handle, o)
      /\ pc' = IF message' THEN "close" ELSE "send"
      /\ buf' = SubSeq(buf, n + 1, Len(buf))
      /\ UNCHANGED <<local, room, dev, status, opened, job, hnd, host, handle, typed, where>>

Sent ==
  /\ pc = "send" /\ buf = <<>> /\ pc' = "close"
  /\ UNCHANGED <<netVars, job, buf, hnd, host, handle, message, typed, where>>

----------------------------------------------------------------------------
Command == Dir \/ Get \/ PutFile \/ Exit \/ \E d \in Dirs : Cd(d)

\* What ncopy does without being asked.
NcopyStep ==
  \/ GiveUp \/ Sent
  \/ \E o \in {"done"} \cup Faults :
       \/ Start(o) \/ AskPassword(o) \/ FindHandle(o) \/ Open(o) \/ Opened(o) \/ Close(o)
       \/ Changed(o) \/ Ask(o) \/ Fetch(o) \/ Send(o)
       \/ \E there \in BOOLEAN : Chdir(o, there)

Running == pc \notin {"off", "prompt"}

Handle == [is_open : BOOLEAN, did_auth : BOOLEAN, user : BOOLEAN,
           parent : Devices \cup {NoHandle}]

NcopyTypeOK ==
  /\ pc \in {"off", "start", "password", "give_up", "prompt", "find", "open", "opened",
             "chdir", "changed", "ask", "fetch", "send", "close"}
  /\ job \in {"url", "dir", "get", "put", "cd"}
  /\ buf \in Seq(Cells) \cup {<<d>> : d \in Dirs}
  /\ hnd \in [Devices -> Handle]
  /\ {host, handle} \subseteq Devices \cup {NoHandle}
  /\ message \in BOOLEAN /\ typed \in 0..MaxCommands /\ where \in Dirs
=============================================================================
