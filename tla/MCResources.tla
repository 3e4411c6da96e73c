---------------------------- MODULE MCResources ----------------------------
(* Every category of ResourceTests, with six descriptors and a profile     *)
(* that lists the crashes of Amiberry 7.1.1 or none.                       *)
EXTENDS Diary

AllCategories == DOMAIN Files
SixSockets    == 0..5
Amiberry711   == {{}, {70, 87} \union 79..85}
Uninitialized == {0, 64}
=============================================================================
