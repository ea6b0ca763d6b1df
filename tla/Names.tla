------------------------------- MODULE Names --------------------------------
(***************************************************************************)
(* How FNSHARE's redirector turns names and dates of DOS into those of the *)
(* server and back (fnshare/redir.c).  A path is a sequence of characters, *)
(* each a string of its own; a name in DOS's records has a fixed length    *)
(* and is filled up with blanks.                                           *)
(***************************************************************************)
EXTENDS Integers, Sequences, FiniteSets, SequencesExt

CONSTANTS
  NameLen,   \* characters before the dot, 8 in the code
  ExtLen,    \* and behind it, 3
  PATHLEN,   \* characters of temp_path, 256
  Small      \* Small[c]: tolower of the capitals; nothing else changes

ASSUME NamesAssumption ==
  /\ NameLen \in Nat \ {0} /\ ExtLen \in Nat \ {0} /\ PATHLEN \in Nat \ {0}
  /\ \A c \in DOMAIN Small : c \notin {"\\", "/", ".", "?", " "}

FcbLen == NameLen + ExtLen
Spaces == [i \in 1..FcbLen |-> " "]
Position(s, c) == SelectInSeq(s, LAMBDA x : x = c)
LastPosition(s, c) == SelectLastInSeq(s, LAMBDA x : x = c)
From(s, i) == SubSeq(s, i, Len(s))
Shorter(s, n) == SubSeq(s, 1, IF Len(s) < n THEN Len(s) ELSE n)
UpTo(s, c) == IF Position(s, c) = 0 THEN s ELSE SubSeq(s, 1, Position(s, c) - 1)
Padded(s, n) == [i \in 1..n |-> IF i <= Len(s) THEN s[i] ELSE " "]

contains_wildcards(fcb) == Contains(fcb, "?")

\* The server's name, split at its first dot and cut to length.
fcbitize(name) ==
  LET dot == Position(name, ".")
  IN IF dot = 0 THEN Padded(name, NameLen) \o Padded(<<>>, ExtLen)
     ELSE Padded(SubSeq(name, 1, dot - 1), NameLen) \o Padded(From(name, dot + 1), ExtLen)

\* Each character is put behind the last one and a dot goes on at the extension; nothing
\* stops at the end of the field, to which the names DOS passes keep.
get_fcbname_from_path(name) ==
  LET put[k \in 0..Len(name)] ==
        IF k = 0 THEN [at |-> 0, fcb |-> Spaces]
        ELSE IF name[k] = "." THEN [put[k - 1] EXCEPT !.at = NameLen]
        ELSE LET f == put[k - 1].fcb
                 at == put[k - 1].at + 1
             IN [at |-> at, fcb |-> [i \in DOMAIN f \cup {at} |-> IF i = at THEN name[k] ELSE f[i]]]
  IN put[Len(name)].fcb

generate_fcbname(path) == get_fcbname_from_path(From(path, LastPosition(path, "\\") + 1))

\* The name takes the place of what is behind the last backslash.  A name that is not empty
\* gets its dot even if nothing follows it.
fcb_to_path(path, fcb) ==
  LET dir == SubSeq(path, 1, LastPosition(path, "\\"))
      name == UpTo(SubSeq(fcb, 1, NameLen), " ")
      ext == UpTo(From(fcb, NameLen + 1), " ")
  IN dir \o IF fcb[1] = " " THEN SubSeq(fcb, 1, NameLen) ELSE name \o <<".">> \o ext

\* What is in front of the first backslash goes.
undosify_path(path) ==
  LET Fixed(c) == IF c = "\\" THEN "/" ELSE IF c \in DOMAIN Small THEN Small[c] ELSE c
      root == Position(path, "\\")
  IN IF root = 0 THEN <<>>
     ELSE [i \in 1..(Len(path) - root + 1) |-> Fixed(path[root + i - 1])]

\* A variant: the slash of the path is kept beside the one put behind the volume.
path_with_volume_slashes(volume, cwd, path) == volume \o <<"/">> \o path

\* The path may be in temp_path already: it is moved to its place before the volume is put in
\* front of it, and cut off where temp_path ends.  The volume alone is shorter than that.
path_with_volume(volume, cwd, path) ==
  LET absolute == path # <<>> /\ path[1] = "/"
      prefix == volume \o <<"/">> \o IF absolute \/ cwd = <<>> THEN <<>> ELSE cwd \o <<"/">>
      tail == IF absolute THEN Tail(path) ELSE path
  IN prefix \o Shorter(tail, PATHLEN - Len(prefix))

\* Does DOS's pattern take in a name?
match_to_mask(mask, fcb) == \A i \in 1..FcbLen : mask[i] \in {fcb[i], "?"}

----------------------------------------------------------------------------
(* The date and time of an entry of the listing, "mm-dd-yy hh:mmp", kept   *)
(* as a struct tm and given to DOS in its fields of 7, 4, 5, 5, 6 and 5    *)
(* bits.                                                                   *)

\* Two digits of the year stand for 1975 to 2074.
tm_year(yy) == (IF yy + 1900 < 1975 THEN yy + 2000 ELSE yy + 1900) - 1900

\* A variant: 12 o'clock is not taken for 0.
tm_hour_plain(hh, pm) == hh + (IF pm THEN 12 ELSE 0)
tm_hour(hh, pm) == (hh % 12) + (IF pm THEN 12 ELSE 0)

mtime(t) == [year |-> tm_year(t.yy), mon |-> t.mm - 1, mday |-> t.dd,
             hour |-> tm_hour(t.hh, t.pm), min |-> t.min]

fndirent_to_dirrec(name, t) ==
  [fcb_name |-> fcbitize(name),
   year |-> (mtime(t).year - 80) % 128, month |-> (mtime(t).mon + 1) % 16,
   day |-> mtime(t).mday % 32, hour |-> mtime(t).hour % 32, minute |-> mtime(t).min % 64]
=============================================================================
