-------------------------------- MODULE Tap --------------------------------
(***************************************************************************)
(* The reporter (tap.c): the counters behind the TAP log, the per-category *)
(* screen summary and the final result, with the pager they print through  *)
(* and the known-failures table they consult.                              *)
(*                                                                         *)
(* Each action is one API call.  A call's lines are printed by the pager   *)
(* before the next call starts.  `stage` and the guards on it are the      *)
(* calling contract: the order in which main.c and the tests call the API, *)
(* which module Suite is checked to keep.                                  *)
(*                                                                         *)
(* In this and the other modules a definition marked "slip" is a plausible *)
(* bug of the next one, which the runs must catch; nothing uses it.        *)
(***************************************************************************)
EXTENDS Integers, FiniteSets, KnownFailures, Pager

CONSTANTS
    Tests,                 \* test descriptions
    Categories,            \* category names
    NoCategory,            \* current_category[0] == '\0'
    Versions,              \* version strings a library may report, <<>> for NULL
    MAX_FAILURES_DISPLAY,  \* capacity of cat_failures
    MAX_NOTES,             \* capacity of cat_notes
    MaxTests               \* bound: tests of one run

VARIABLES
    stage,             \* "unused", "open" or "finished"
    test_number,
    count,             \* passed_count, failed_count, known_count, skipped_count
    bailed_out,
    verbose,
    current_category,
    cat,               \* cat_passed, cat_failed, cat_known, cat_skipped
    cat_total,
    cat_failures,      \* the failures to expand: test_num and description
    cat_note_count,
    screen,            \* screen_passed, screen_failed, screen_known, screen_skipped
    logfp,             \* the log file is open
    log,               \* history: the test lines handed to log_printf
    plan,              \* history: the count of the plan line, -1 before it
    results,           \* history: the summary printed, NoResults before it
    exit_code          \* what tap_finish returned, -1 before

tallyVars == <<test_number, count, log>>
catVars   == <<current_category, cat, cat_total, cat_failures, cat_note_count>>
endVars   == <<plan, results, exit_code>>
tapVars   == <<stage, bailed_out, verbose, screen, logfp, tallyVars, catVars, endVars>>
vars      == <<tapVars, pagerVars, active_profile>>

ASSUME TapAssumption ==
    /\ NoCategory \notin Categories
    /\ MAX_FAILURES_DISPLAY \in Nat /\ MAX_NOTES \in Nat /\ MaxTests \in Nat

RETURN_OK   == 0
RETURN_WARN == 5
RETURN_FAIL == 20

NoResults == [passed |-> -1, failed |-> -1, known |-> -1, skipped |-> -1, total |-> -1]

Verdicts == {"passed", "failed", "known", "skipped"}
Zero     == [v \in Verdicts |-> 0]

in_cat == current_category # NoCategory

TapStart ==
    /\ stage = "unused"
    /\ test_number = 0 /\ count = Zero /\ log = <<>>
    /\ bailed_out = FALSE /\ verbose = FALSE
    /\ current_category = NoCategory
    /\ cat = Zero /\ cat_total = 0 /\ cat_failures = <<>> /\ cat_note_count = 0
    /\ screen = Zero
    /\ logfp = FALSE
    /\ plan = -1 /\ results = NoResults /\ exit_code = -1

(***************************************************************************)
(* Options, before the run starts                                          *)
(***************************************************************************)
tap_set_verbose ==
    /\ stage = "unused" /\ ~verbose
    /\ verbose' = TRUE
    /\ UNCHANGED <<stage, bailed_out, screen, logfp, tallyVars, catVars, endVars, pagerVars>>

\* Paging is refused when either stream is not a console of known size
tap_set_page ==
    /\ stage = "unused" /\ ~page_mode
    /\ page_mode' \in BOOLEAN
    /\ UNCHANGED <<lines_printed, unseen, out, brk, tapVars>>

(***************************************************************************)
(* tap_init: reset, open the log ("NIL:" and a failed open both leave      *)
(* logfp NULL, the latter with a warning), print the header.               *)
(***************************************************************************)
tap_init ==
    /\ stage = "unused" /\ CallReturned
    /\ stage' = "open"
    /\ test_number' = 0 /\ count' = Zero
    /\ bailed_out' = FALSE
    /\ current_category' = NoCategory
    /\ screen' = Zero
    /\ \/ /\ logfp' = TRUE
          /\ Show(<<"checked", "checked", "blank">>)
       \/ /\ logfp' = FALSE
          /\ \/ Show(<<"checked", "blank">>)
             \/ Show(<<"uncounted", "checked", "blank">>)
    /\ UNCHANGED <<verbose, cat, cat_total, cat_failures, cat_note_count, log, endVars,
                   page_mode, lines_printed, unseen, brk>>
-----------------------------------------------------------------------------
(***************************************************************************)
(* Results of one test                                                     *)
(***************************************************************************)
Bump(tally, v) == [tally EXCEPT ![v] = @ + 1]

\* Verbose mode shows each test's line, wrapped at the screen width
ShowVerbose == IF verbose THEN Show(<<"wrapped">>) ELSE UNCHANGED out

Verdict(passed, n) ==
    IF passed THEN "passed" ELSE IF KnownCheck(n) THEN "known" ELSE "failed"

\* slip: the number before it is incremented
LogLineBefore(n, desc, passed) ==
    [num |-> test_number, desc |-> desc, ok |-> passed,
     tag |-> IF KnownCheck(n) THEN "KNOWN" ELSE "none"]

LogLine(n, desc, passed) ==
    [num |-> n, desc |-> desc, ok |-> passed,
     tag |-> IF KnownCheck(n) THEN "KNOWN" ELSE "none"]

\* slip: the last place of the list is never used
RoomForFailureShort == Len(cat_failures) < MAX_FAILURES_DISPLAY - 1

RoomForFailure == Len(cat_failures) < MAX_FAILURES_DISPLAY

tap_ok(passed, desc) ==
    LET n == test_number + 1
        v == Verdict(passed, n)
    IN  /\ test_number' = n
        /\ count' = Bump(count, v)
        /\ log' = Append(log, LogLine(n, desc, passed))
        /\ cat_total' = IF in_cat THEN cat_total + 1 ELSE cat_total
        /\ cat' = IF in_cat THEN Bump(cat, v) ELSE cat
        /\ cat_failures' =
             IF in_cat /\ v = "failed" /\ RoomForFailure
             THEN Append(cat_failures, [test_num |-> n, description |-> desc])
             ELSE cat_failures
        /\ ShowVerbose
        /\ UNCHANGED <<stage, bailed_out, verbose, current_category, cat_note_count, screen,
                       logfp, endVars, page_mode, lines_printed, unseen, brk>>

tap_skip(desc) ==
    /\ test_number' = test_number + 1
    /\ count' = Bump(Bump(count, "passed"), "skipped")
    /\ log' = Append(log, [num |-> test_number + 1, desc |-> desc, ok |-> TRUE, tag |-> "SKIP"])
    /\ cat_total' = IF in_cat THEN cat_total + 1 ELSE cat_total
    /\ cat' = IF in_cat THEN Bump(cat, "skipped") ELSE cat
    /\ ShowVerbose
    /\ UNCHANGED <<stage, bailed_out, verbose, current_category, cat_failures, cat_note_count,
                   screen, logfp, endVars, page_mode, lines_printed, unseen, brk>>

\* slip: one note too many
RoomForNoteOver == cat_note_count <= MAX_NOTES

RoomForNote == cat_note_count < MAX_NOTES

\* A note is kept for the category's summary while there is room for it
tap_note ==
    /\ cat_note_count' =
         IF in_cat /\ RoomForNote THEN cat_note_count + 1 ELSE cat_note_count
    /\ UNCHANGED <<stage, bailed_out, verbose, screen, logfp, tallyVars, endVars, pagerVars,
                   current_category, cat, cat_total, cat_failures>>
-----------------------------------------------------------------------------
(***************************************************************************)
(* Categories                                                              *)
(***************************************************************************)
tap_begin_category(name) ==
    /\ current_category' = name
    /\ cat' = Zero /\ cat_total' = 0 /\ cat_failures' = <<>> /\ cat_note_count' = 0
    /\ UNCHANGED <<stage, bailed_out, verbose, screen, logfp, tallyVars, endVars, pagerVars>>

Times(n, line) == [i \in 1..n |-> line]

\* The summary line, the failures kept, the count of the rest, the notes
SummaryLines ==
    <<"checked">> \o Times(Len(cat_failures), "wrapped")
                  \o (IF cat["failed"] > Len(cat_failures) THEN <<"checked">> ELSE <<>>)
                  \o Times(cat_note_count, "wrapped")

\* slip: the known failures are left out
WithoutKnown == [v \in Verdicts |-> IF v = "known" THEN screen[v] ELSE screen[v] + cat[v]]

WithCategory == [v \in Verdicts |-> screen[v] + cat[v]]

tap_end_category ==
    /\ screen' = WithCategory
    /\ Show(SummaryLines)
    /\ current_category' = NoCategory
    /\ UNCHANGED <<stage, bailed_out, verbose, logfp, tallyVars, endVars,
                   cat, cat_total, cat_failures, cat_note_count,
                   page_mode, lines_printed, unseen, brk>>
-----------------------------------------------------------------------------
(***************************************************************************)
(* The end of a run                                                        *)
(***************************************************************************)
\* brk is the caller's: it may have cleared the Ctrl-C it bails out for
tap_bail ==
    /\ bailed_out' = TRUE
    /\ Show(<<"checked">>)
    /\ UNCHANGED <<stage, verbose, screen, logfp, tallyVars, catVars, endVars,
                   page_mode, lines_printed, unseen>>

tap_plan(n) ==
    /\ plan' = n
    /\ UNCHANGED <<stage, bailed_out, verbose, screen, logfp, tallyVars, catVars,
                   results, exit_code, pagerVars>>

\* slip: the category a bail-out interrupted is forgotten
SummedScreen == screen

\* The totals summed up: a bail-out interrupts a category before its counts
\* reach the screen counters, so then it is the global counters
Summed == IF bailed_out THEN count ELSE screen

\* slip: an unexpected failure hides the bail-out
FailuresFirst ==
    IF count["failed"] > 0 THEN RETURN_WARN ELSE IF bailed_out THEN RETURN_FAIL ELSE RETURN_OK

ReturnCode ==
    IF bailed_out THEN RETURN_FAIL ELSE IF count["failed"] > 0 THEN RETURN_WARN ELSE RETURN_OK

tap_finish ==
    /\ stage' = "finished"
    /\ results' = [passed |-> Summed["passed"], failed |-> Summed["failed"],
                   known |-> Summed["known"], skipped |-> Summed["skipped"],
                   total |-> test_number]
    /\ logfp' = FALSE
    /\ exit_code' = ReturnCode
    /\ Show(<<"blank", "checked">>)
    /\ UNCHANGED <<bailed_out, verbose, screen, tallyVars, catVars, plan,
                   page_mode, lines_printed, unseen, brk>>
-----------------------------------------------------------------------------
(***************************************************************************)
(* The calling contract.  main.c opens the reporter, selects the known-    *)
(* failures profile before any category, brackets each category's tests    *)
(* between begin and end, stops at a bail-out, prints the plan once and    *)
(* finishes after it.  A bail-out may come after the plan only in a run    *)
(* that never got to its first category.                                   *)
(***************************************************************************)
Open == stage = "open" /\ CallReturned

UseOptions == tap_set_verbose \/ tap_set_page

UseProfile ==
    /\ Open /\ test_number = 0 /\ ~in_cat /\ ~bailed_out /\ plan = -1
    /\ \E version \in Versions : KnownInit(version)
    /\ UNCHANGED <<tapVars, pagerVars>>

UseTest ==
    /\ Open /\ in_cat /\ ~bailed_out /\ plan = -1
    /\ test_number < MaxTests
    /\ \E desc \in Tests :
         \/ \E passed \in BOOLEAN : tap_ok(passed, desc)
         \/ tap_skip(desc)

UseNote == Open /\ in_cat /\ ~bailed_out /\ plan = -1 /\ tap_note

UseBegin ==
    /\ Open /\ ~in_cat /\ ~bailed_out /\ plan = -1
    /\ \E name \in Categories : tap_begin_category(name)

UseEnd == Open /\ in_cat /\ ~bailed_out /\ plan = -1 /\ tap_end_category

UseBail ==
    /\ Open /\ ~bailed_out
    /\ plan # -1 => plan = 0
    /\ tap_bail
    /\ brk' \in {brk, FALSE}

UsePlan == Open /\ plan = -1 /\ (in_cat => bailed_out) /\ tap_plan(test_number)

UseFinish == Open /\ plan # -1 /\ tap_finish

\* The screen and the user, and the stutter of a run that is over
UsePager ==
    /\ PageAdvance \/ (\E key \in Keys : PageKey(key)) \/ UserBreak
    /\ UNCHANGED tapVars

Over == stage = "finished" /\ CallReturned /\ UNCHANGED vars

TapInit == TapStart /\ PagerInit /\ KnownStart

TapCall ==
    \/ UseOptions \/ (stage = "unused" /\ tap_init)
    \/ UseTest \/ UseNote \/ UseBegin \/ UseEnd
    \/ UseBail \/ UsePlan \/ UseFinish \/ UsePager

TapNext ==
    \/ TapCall /\ UNCHANGED active_profile
    \/ UseProfile
    \/ Over

TapSpec == TapInit /\ [][TapNext]_vars
=============================================================================
