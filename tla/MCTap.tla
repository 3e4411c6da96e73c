------------------------------- MODULE MCTap -------------------------------
(* A small reporter: two profiles, so that a test can be unknown, a known  *)
(* failure or a known crash, and displays that four tests can overflow.    *)
EXTENDS TapProperties

MCProfiles == <<[match |-> <<"UAE", "7.1.1">>, failures |-> {2}, crashes |-> {3}],
                [match |-> <<"UAE">>, failures |-> {1, 3}, crashes |-> {}]>>
MCVersions == {<<"UAE", "7.1.1">>, <<"Other">>}
=============================================================================
