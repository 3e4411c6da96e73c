------------------------------ MODULE MCHelper ------------------------------
(* Two runs, after each other on one Amiga or at the same time on two.      *)
EXTENDS HelperProperties

TwoRuns   == {"first", "second"}
OneAmiga  == {"A1200"}
TwoAmigas == {"A1200", "A4000"}
=============================================================================
