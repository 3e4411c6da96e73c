--------------------------- MODULE KnownFailures ---------------------------
(***************************************************************************)
(* The known-failures table (known_failures.c): known_init() selects the   *)
(* profile of the detected stack once, and known_check()/known_crash()     *)
(* answer from it for the rest of the run.                                 *)
(*                                                                         *)
(* A version string is a sequence of tokens, so that "is a prefix of" is   *)
(* the prefix relation on sequences; NULL is the empty sequence.  A        *)
(* profile is the record of the two kinds of its entries' test numbers.    *)
(***************************************************************************)
EXTENDS Naturals, Sequences, SequencesExt

CONSTANT Profiles          \* profiles[]: [match, failures, crashes] records

VARIABLE active_profile    \* index into Profiles, 0 when it is NULL

ASSUME ProfilesAssumption ==
    Profiles \in Seq([match : Seq(STRING) \ {<<>>},
                      failures : SUBSET Nat, crashes : SUBSET Nat])

(***************************************************************************)
(* known_init's loop: the first profile whose match_version is a prefix of *)
(* the version string (strncmp over strlen(match_version) characters).     *)
(***************************************************************************)
Matching(version) == {i \in 1..Len(Profiles) : IsPrefix(Profiles[i].match, version)}

FirstMatch(version) ==
    IF Matching(version) = {} THEN 0
    ELSE CHOOSE i \in Matching(version) : \A j \in Matching(version) : i <= j

KnownStart == active_profile = 0

KnownInit(version) == active_profile' = FirstMatch(version)

(***************************************************************************)
(* lookup() with filter_type -1 and with filter_type KNOWN_CRASH.          *)
(***************************************************************************)
\* slip: the known crashes are not looked up
KnownFailuresOnly(n) ==
    /\ active_profile # 0
    /\ n \in Profiles[active_profile].failures

KnownCheck(n) ==
    /\ active_profile # 0
    /\ n \in Profiles[active_profile].failures \union Profiles[active_profile].crashes

KnownCrash(n) ==
    /\ active_profile # 0
    /\ n \in Profiles[active_profile].crashes
=============================================================================
