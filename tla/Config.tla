------------------------------- MODULE Config -------------------------------
(***************************************************************************)
(* The command line of a driver in CONFIG.SYS becomes its environment      *)
(* (parse_config of sys/init.c, which printer/init.c repeats).             *)
(*                                                                         *)
(* A line is a sequence of tokens, a blank, an end of line and "=" among   *)
(* them, and each takes one byte here.                                     *)
(***************************************************************************)
EXTENDS Integers, Sequences, SequencesExt, TLC

CONSTANT ENV_SIZE  \* bytes of config_env, 256 in the code

ASSUME EnvAssumption == ENV_SIZE \in Nat \ {0}

Blank == " "
Eol == {"CR", "LF"}
Pointer == 2  \* bytes of an entry of environ

\* The driver's own file name is left out, and the blanks behind it.
Arguments(line) ==
  LET name == SelectInSeq(line, LAMBDA c : c \in Eol \cup {Blank})
      end == SelectInSeq(line, LAMBDA c : c \in Eol)
      first == SelectInSubSeq(line, name, end, LAMBDA c : c # Blank)
  IN IF line[name] # Blank THEN <<>> ELSE SubSeq(line, first, end - 1)

\* A blank ends an option, the blanks behind it are skipped.
Scan(words, c) ==
  IF c # Blank THEN Append(Front(words), Append(Last(words), c))
  ELSE IF Last(words) = <<>> THEN words
  ELSE Append(words, <<>>)

\* The options as they are counted: blanks at the end of the line make one more, without
\* anything in it.
Options(line) ==
  LET a == Arguments(line)
      scanned[n \in 0..Len(a)] == IF n = 0 THEN << <<>> >> ELSE Scan(scanned[n - 1], a[n])
  IN IF a = <<>> THEN <<>> ELSE scanned[Len(a)]

\* A variant: an option is taken as it is.
SettingBare(word) == word

Setting(word) == IF Contains(word, "=") THEN word ELSE Append(word, "=")

\* An option goes in with its zero byte, or fills up config_env and is dropped.
Fits(at, text) == at + Len(text) < ENV_SIZE

\* The strings start behind the table of pointers and its NULL.
Table(words) == IF words = <<>> THEN Pointer ELSE Pointer * (Len(words) + 1)

Store(e, text) ==
  IF e.at >= ENV_SIZE THEN e
  ELSE IF Fits(e.at, text)
  THEN [at |-> e.at + Len(text) + 1, environ |-> Append(e.environ, text)]
  ELSE [e EXCEPT !.at = ENV_SIZE]

parse_config(line) ==
  LET words == Options(line)
      stored[n \in 0..Len(words)] ==
        IF n = 0 THEN [at |-> Table(words), environ |-> <<>>]
        ELSE Store(stored[n - 1], Setting(words[n]))
  IN stored[Len(words)]

NotSet == "not set"

\* The first entry of that name; NOTIME= is set, though to nothing.
getenv(environ, name) ==
  LET i == SelectInSeq(environ, LAMBDA e : IsPrefix(<<name, "=">>, e))
  IN IF i = 0 THEN NotSet ELSE IF Len(environ[i]) = 2 THEN "" ELSE environ[i][3]
=============================================================================
