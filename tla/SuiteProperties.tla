-------------------------- MODULE SuiteProperties --------------------------
(***************************************************************************)
(* What must be true of a run of the program.                              *)
(***************************************************************************)
EXTENDS Suite

Resources == Timer \union {"rdargs", "library", "ctrl_fd"}

SuiteTypeOK ==
    /\ TypeOK
    /\ held \in SUBSET Resources
    /\ cat_filter \in Filters
    /\ tier_filter \in {{}, {"loopback"}, {"network"}}
    /\ host \in BOOLEAN /\ connected \in BOOLEAN
    /\ failed_at \in {"none", "library", "timer", "helper"}
    /\ ran_any \in BOOLEAN /\ unknown \in BOOLEAN
    /\ pos \in 1..(Len(Table) + 1)
    /\ pc \in {"test", "check"} => next \in 1..Table[pos].size
    /\ code \in {-1, RETURN_OK, RETURN_WARN, RETURN_FAIL}

(***************************************************************************)
(* Every exit of main() has released what the run acquired: arguments,     *)
(* library, timer port, request and device, the control socket, the log.   *)
(* The failure exits each release their own list (main.c:255-296).         *)
(***************************************************************************)
CleanExit == pc = "done" => held = {} /\ ~logfp

(***************************************************************************)
(* main() keeps the reporter's calling contract: tests only inside a       *)
(* category, one plan, nothing but plan and finish after a bail-out.       *)
(***************************************************************************)
KeepsContract == TapSpec

(***************************************************************************)
(* What a finished run leaves behind is a valid TAP stream, and the return *)
(* code is that of README.md:167-173: 20 for a bail-out, else 5 exactly    *)
(* when the log states a failure that is not a known one, else 0.  A       *)
(* failed startup step bails out.  So does a failed control connection     *)
(* (main.c:286), although host/README.md:119 has the network tests skipped *)
(* then.                                                                   *)
(***************************************************************************)
UnexpectedFailure == \E i \in DOMAIN log : ~log[i].ok /\ log[i].tag # "KNOWN"

ExitDocumented ==
    (pc = "done" /\ stage = "finished") =>
      /\ plan = Len(log)
      /\ failed_at # "none" => bailed_out /\ log = <<>>
      /\ code = IF bailed_out THEN RETURN_FAIL
                ELSE IF UnexpectedFailure THEN RETURN_WARN ELSE RETURN_OK

(***************************************************************************)
(* A run that is not cut short reports each test of each selected category *)
(* exactly once and in the table's order, and no test of any other; one    *)
(* that is, reports a prefix of that.  Categories are selected as a whole, *)
(* as should_run() does: a category of both tiers runs with all its tests  *)
(* under LOOPBACK as under NETWORK, although README.md:83-84 and           *)
(* main.c:100-101 say "only".  LOOPBACK with HOST runs tests 39 to 42.     *)
(***************************************************************************)
Selected == UNION {NumbersOf(c) : c \in {d \in 1..Len(Table) : ShouldRun(d)}}

Reported == {log[i].desc : i \in DOMAIN log}

RunsExactlySelected ==
    /\ \A i, j \in DOMAIN log : i < j => log[i].desc < log[j].desc
    /\ Reported \subseteq Selected
    /\ \A d \in Selected \ Reported : \A e \in Reported : e < d
    /\ (pc = "done" /\ stage = "finished" /\ ~bailed_out) => Reported = Selected

(***************************************************************************)
(* Test numbers are stable: whatever happens in the tests, the number in   *)
(* the log is the documented one (docs/TESTS.md:35), as long as every      *)
(* category is selected.                                                   *)
(***************************************************************************)
AllSelected == \A c \in 1..Len(Table) : ShouldRun(c)

StableNumbers == AllSelected => \A i \in DOMAIN log : log[i].num = log[i].desc

(***************************************************************************)
(* A failure is annotated KNOWN exactly when the profile lists that test,  *)
(* so that real failures are neither masked nor known ones counted         *)
(* (README.md:162-165).                                                    *)
(***************************************************************************)
Listed(d) == active_profile # 0 /\ d \in Profiles[active_profile].failures
                                           \union Profiles[active_profile].crashes

KnownMeansListed ==
    \A i \in DOMAIN log : ~log[i].ok => (log[i].tag = "KNOWN" <=> Listed(log[i].desc))

KnownMeansListedWhenAllRun == AllSelected => KnownMeansListed

(***************************************************************************)
(* "Unknown category" (main.c:322) is a diagnosis of the CATEGORY argument *)
(* and of nothing else that keeps a run from reporting: no run that was    *)
(* not interrupted gives it for a category of the table, and every run     *)
(* that came to its end without a startup failure gives it for any other.  *)
(* An interrupted run may give it for a category that it never came to.    *)
(***************************************************************************)
Named == {c \in 1..Len(Table) : Table[c].name = cat_filter}

UnknownDiagnosed ==
    /\ unknown => cat_filter # NoFilter /\ (Named = {} \/ bailed_out)
    /\ pc = "done" /\ stage = "finished" /\ failed_at = "none"
         /\ cat_filter # NoFilter /\ Named = {} => unknown

(***************************************************************************)
(* A run always comes to its end, whatever fails on the way.               *)
(***************************************************************************)
Terminates == <>(pc = "done")

(***************************************************************************)
(* A Ctrl-C typed while the program will still look for one, between two   *)
(* tests or at the top of the loop, ends the run with a bail-out.          *)
(***************************************************************************)
ChecksRemain ==
    \/ stage = "open" /\ pc \in {"timer_port", "timer_request", "timer_device", "known", "host"}
    \/ pc \in {"loop", "test", "check", "return"} /\ pos < Len(Table)
    \/ pc = "loop" /\ pos <= Len(Table)
    \/ pc = "test" /\ next < Table[pos].size
    \/ pc = "check"

BreakHonoured == (brk /\ ~bailed_out /\ ChecksRemain) ~> bailed_out
=============================================================================
