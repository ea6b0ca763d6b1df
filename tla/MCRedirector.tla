---------------------------- MODULE MCRedirector ----------------------------
(***************************************************************************)
(* TLC instances of Redirector.                                            *)
(***************************************************************************)
EXTENDS Redirector

CONSTANTS d1, d2, fa, fb, fc, sub, p1, p2

\* Opening for reading, for update, and creating: what programs mostly do.
MCHow ==
  {[mode |-> "read", sft_mode |-> "read", exists |-> "open", missing |-> "fail"],
   [mode |-> "readwrite", sft_mode |-> "readwrite", exists |-> "open", missing |-> "create"],
   [mode |-> "write", sft_mode |-> "readwrite", exists |-> "fail", missing |-> "create"]}

MCPatterns == {fa, Wild}
MCShare == (d1 :> <<fa, fb>>) @@ (d2 :> <<fb, fc>>)
MCOne == d1 :> <<fa, fb>>
=============================================================================
