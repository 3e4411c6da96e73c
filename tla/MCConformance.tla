--------------------------- MODULE MCConformance ---------------------------
(* The suite with its real table and profiles, on the stacks it knows.     *)
EXTENDS SuiteProperties, Catalogue

Stacks       == {<<"Roadshow", "4.364">>, <<"UAE", "7.1.1">>,
                 <<"UAE", "8.0.0">>, <<"UAE", "6.0.2">>}
Roadshow     == {<<"Roadshow", "4.364">>}
AllOrSignals == {"none", "signals"}
=============================================================================
