----------------------------- MODULE MCStartup ------------------------------
(***************************************************************************)
(* TLC instances of Startup.                                               *)
(***************************************************************************)
EXTENDS Startup

MCOrders == {<<"sys", "prn">>, <<"prn", "sys">>, <<"sys">>}

\* Lines without options, with options between and before blanks, with more than
\* config_env has room for, with no name before the "=", and with a value that is no number.
MCLines ==
  [sys |-> { <<"sys", "CR">>,
             <<"sys", " ", "FUJI_PORT", "=", "2", "LF">>,
             <<"sys", " ", " ", "NOTIME", " ", "FUJI_BPS", "=", "9600", " ", "CR">>,
             <<"sys", " ", "FUJI_BPS", "=", "9600", " ", "FUJI_PORT", "=", "2", " ", "NOTIME", "CR">> },
   prn |-> { <<"prn", " ", "CR">>,
             <<"prn", " ", "FUJI_PORT", "=", "2", "CR">>,
             <<"prn", " ", "=", " ", "FUJI_BPS", "=", "9600", "CR">>,
             <<"prn", " ", "FUJI_BPS", "=", "fast", "CR">> }]

MCNumber == ("2" :> 2) @@ ("9600" :> 9600)
MCText == <<"a", "b", "b">>
=============================================================================
