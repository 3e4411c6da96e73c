------------------------------- MODULE Report -------------------------------
(***************************************************************************)
(* What a run of the suite promises its user, whatever the screen shows on *)
(* the way: every verdict is kept, nothing is added once the run has been  *)
(* aborted or published, and the published totals and the return code are  *)
(* those of the verdicts recorded (README.md, "Exit codes").               *)
(***************************************************************************)
EXTENDS Naturals, Sequences, FiniteSets

CONSTANT NoReport

VARIABLES
    verdicts,  \* the verdict of each test, in order
    status,    \* "running", "aborted" or "published"
    report     \* the totals and the code published

reportVars == <<verdicts, status, report>>

Verdicts == {"passed", "failed", "known", "skipped"}

Tally(vs, v) == Cardinality({i \in DOMAIN vs : vs[i] = v})

ReportInit ==
    /\ verdicts = <<>>
    /\ status = "running"
    /\ report = NoReport

Record(v) ==
    /\ status = "running"
    /\ verdicts' = Append(verdicts, v)
    /\ UNCHANGED <<status, report>>

Abort ==
    /\ status = "running"
    /\ status' = "aborted"
    /\ UNCHANGED <<verdicts, report>>

ReturnCode ==
    IF status = "aborted" THEN 20
    ELSE IF Tally(verdicts, "failed") > 0 THEN 5
    ELSE 0

(***************************************************************************)
(* An aborted run's count of passes is not promised: only that the other   *)
(* totals are right.  A completed run's totals add up to the tests run.    *)
(***************************************************************************)
Publish(passed) ==
    /\ status \in {"running", "aborted"}
    /\ status = "running" => passed = Tally(verdicts, "passed")
    /\ status' = "published"
    /\ report' = [passed |-> passed,
                  failed |-> Tally(verdicts, "failed"),
                  known |-> Tally(verdicts, "known"),
                  skipped |-> Tally(verdicts, "skipped"),
                  total |-> Len(verdicts),
                  code |-> ReturnCode]
    /\ UNCHANGED verdicts

ReportNext ==
    \/ \E v \in Verdicts : Record(v)
    \/ Abort
    \/ \E passed \in 0..Len(verdicts) : Publish(passed)

ReportSpec == ReportInit /\ [][ReportNext]_reportVars
=============================================================================
