----------------------------- MODULE MCFnshare ------------------------------
(***************************************************************************)
(* TLC instances of Fnshare.                                               *)
(***************************************************************************)
EXTENDS Fnshare

MCSmall == [A |-> "a", B |-> "b", C |-> "c", T |-> "t"]

\* Two servers' directories, one with a slash at its end.
MCShares == {<<"n", ":", "x">>, <<"n", ":", "y", "/">>}

\* X:\A.T, X:\B\A.T and, for searches and deletions, X:\B\??.?
MCPaths == {<<"X", ":", "\\", "A", ".", "T">>,
            <<"X", ":", "\\", "B", "\\", "A", ".", "T">>,
            <<"X", ":", "\\", "B", "\\", "?", "?", ".", "?">>}

\* Names that fill the record, that have no extension and that do not fit.
MCListing == {<<"A", ".", "T">>, <<"B", "C", ".", "T">>, <<"C">>, <<"A", "B", "C", ".", "T", "T">>}

MCDates ==
  {[mm |-> 1, dd |-> 31, yy |-> 80, hh |-> 12, min |-> 59, pm |-> FALSE],
   [mm |-> 12, dd |-> 1, yy |-> 74, hh |-> 12, min |-> 0, pm |-> TRUE],
   [mm |-> 6, dd |-> 15, yy |-> 99, hh |-> 11, min |-> 30, pm |-> TRUE]}
=============================================================================
