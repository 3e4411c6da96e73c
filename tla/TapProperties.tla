--------------------------- MODULE TapProperties ---------------------------
(***************************************************************************)
(* What must be true of the reporter under its calling contract.           *)
(***************************************************************************)
EXTENDS Tap

\* The verdict a line of the log states
VerdictOf(line) ==
    IF line.tag = "SKIP" THEN "skipped"
    ELSE IF line.ok THEN "passed"
    ELSE IF line.tag = "KNOWN" THEN "known"
    ELSE "failed"

LinesWith(v) == {i \in DOMAIN log : VerdictOf(log[i]) = v}
Logged(v)    == Cardinality(LinesWith(v))

\* Before tap_init nothing has been logged and no category is open
UnusedIsFresh == stage = "unused" => log = <<>> /\ ~in_cat

LogLines == [num : Nat, desc : Tests, ok : BOOLEAN, tag : {"none", "KNOWN", "SKIP"}]
Tallies  == [Verdicts -> Nat]
Failures == [test_num : Nat, description : Tests]
Totals   == [passed : Nat, failed : Nat, known : Nat, skipped : Nat, total : Nat]

(***************************************************************************)
(* The types of the reporter's state; the two fixed arrays of the current  *)
(* category are never written past their ends.                             *)
(***************************************************************************)
TapTypeOK ==
    /\ stage \in {"unused", "open", "finished"}
    /\ test_number \in Nat /\ count \in Tallies /\ log \in Seq(LogLines)
    /\ bailed_out \in BOOLEAN /\ verbose \in BOOLEAN /\ logfp \in BOOLEAN
    /\ current_category \in Categories \union {NoCategory}
    /\ cat \in Tallies /\ cat_total \in Nat /\ screen \in Tallies
    /\ cat_failures \in Seq(Failures) /\ Len(cat_failures) <= MAX_FAILURES_DISPLAY
    /\ cat_note_count \in 0..MAX_NOTES
    /\ plan \in Nat \union {-1}
    /\ results \in Totals \union {NoResults}
    /\ exit_code \in {-1, RETURN_OK, RETURN_WARN, RETURN_FAIL}

PagerTypeOK ==
    /\ page_mode \in BOOLEAN /\ brk \in BOOLEAN
    /\ lines_printed \in Nat /\ unseen \in Nat
    /\ out \in Seq(Lines)
    /\ ~page_mode => out = <<>>

ProfileTypeOK == active_profile \in 0..Len(Profiles)

TypeOK == TapTypeOK /\ PagerTypeOK /\ ProfileTypeOK

(***************************************************************************)
(* The TAP stream is well formed and the global counters are those of its  *)
(* lines: numbered 1, 2, ... with no gap, and one of the four verdicts     *)
(* each, a skip counting as a pass besides (tap_ok, tap_skip).             *)
(***************************************************************************)
CountersMatchLog ==
    /\ test_number = Len(log)
    /\ \A i \in DOMAIN log : log[i].num = i
    /\ \A v \in {"failed", "known", "skipped"} : count[v] = Logged(v)
    /\ count["passed"] = Logged("passed") + Logged("skipped")

(***************************************************************************)
(* No verdict is lost or counted twice between the log and the screen: the *)
(* totals of the finished categories, and of the category that is still    *)
(* open (also when a bail-out left it open), are those of the log.         *)
(***************************************************************************)
OpenTally(v) == IF in_cat THEN cat[v] ELSE 0

ScreenMatchesLog == \A v \in Verdicts : screen[v] + OpenTally(v) = Logged(v)

(***************************************************************************)
(* The failures expanded under a category are its first unexpected ones,   *)
(* in order and under the numbers the log gives them, and the "... and N   *)
(* more" line accounts for exactly the others (tap_ok, tap_end_category).  *)
(***************************************************************************)
CategoryFailures ==
    {i \in DOMAIN log : i > Len(log) - cat_total /\ VerdictOf(log[i]) = "failed"}

FailureListExact ==
    in_cat =>
      LET kept == {cat_failures[k].test_num : k \in DOMAIN cat_failures}
      IN  /\ kept \subseteq CategoryFailures
          /\ \A k \in DOMAIN cat_failures :
               /\ cat_failures[k].description = log[cat_failures[k].test_num].desc
               /\ \A j \in 1..(k - 1) : cat_failures[j].test_num < cat_failures[k].test_num
          /\ \A i \in CategoryFailures \ kept :
               Len(cat_failures) = MAX_FAILURES_DISPLAY /\ \A k \in kept : k < i
          /\ cat["failed"] - Len(cat_failures) = Cardinality(CategoryFailures \ kept)

(***************************************************************************)
(* The reporter implements the promise of module Report: totals and return *)
(* code agree with the verdicts in the log, bailed out or not, and nothing *)
(* is recorded after a bail-out or after the results.                      *)
(***************************************************************************)
PublishedReport ==
    IF stage # "finished" THEN "none"
    ELSE [passed |-> results.passed, failed |-> results.failed, known |-> results.known,
          skipped |-> results.skipped, total |-> results.total, code |-> exit_code]

Promise == INSTANCE Report WITH
    NoReport <- "none",
    verdicts <- [i \in DOMAIN log |-> VerdictOf(log[i])],
    status   <- IF stage = "finished" THEN "published"
                ELSE IF bailed_out THEN "aborted" ELSE "running",
    report   <- PublishedReport

KeepsPromise == Promise!ReportSpec
=============================================================================
