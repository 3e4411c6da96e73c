------------------------------- MODULE Suite -------------------------------
(***************************************************************************)
(* One run of the program (main.c): startup with its failure exits, the    *)
(* dispatch of the categories the options select, the tests' use of the    *)
(* reporter with the Ctrl-C check between them, and the shutdown.  It uses *)
(* the reporter of module Tap; every step here that changes the reporter   *)
(* is one of its calls.                                                    *)
(*                                                                         *)
(* A test is named by its documented number (docs/TESTS.md).  What it does *)
(* to the library under test is not modelled: its verdict is any it may    *)
(* report.                                                                 *)
(***************************************************************************)
EXTENDS TapProperties

CONSTANTS
    Table,      \* categories[]: records [name, tier, size], in table order
    Network,    \* tests that need the host helper
    Guarded,    \* tests that ask known_crash() before they run
    Fallible,   \* bound: tests that need not simply pass in this instance
    Filters,    \* CATEGORY arguments given, NoFilter for none
    NoFilter,
    PageModes,  \* outcomes of the console detection
    Verboses    \* whether VERBOSE is given

VARIABLES
    pc,           \* where main() is
    held,         \* resources acquired and not yet released
    cat_filter,
    tier_filter,  \* {} when it is 0
    host,         \* HOST was given
    failed_at,    \* the startup step that failed, "none" so far
    connected,    \* the helper client's flag
    ran_any,
    unknown,      \* history: "Unknown category" was logged
    pos,          \* the category in hand, an index into Table
    next,         \* the test in hand, within that category
    code          \* main's return value, -1 while it runs

optionVars == <<cat_filter, tier_filter, host>>
loopVars   == <<ran_any, unknown, pos, next>>
mainVars   == <<pc, held, optionVars, failed_at, connected, loopVars, code>>
suiteVars  == <<vars, mainVars>>

ASSUME SuiteAssumption ==
    /\ Table \in Seq([name : Categories, tier : SUBSET {"loopback", "network"}, size : Nat \ {0}])
    /\ NoFilter \in Filters

\* Documented numbers run on from one category of the table to the next
Base[c \in 1..(Len(Table) + 1)] == IF c = 1 THEN 0 ELSE Base[c - 1] + Table[c - 1].size

Number(c, k)  == Base[c] + k
NumbersOf(c)  == {Number(c, k) : k \in 1..Table[c].size}

\* The bounds leave room for every test of the table
ASSUME BoundsAssumption ==
    /\ \A c \in 1..Len(Table) : NumbersOf(c) \subseteq Tests
    /\ Base[Len(Table) + 1] <= MaxTests

\* should_run: a category filter beats a tier filter
ShouldRun(c) ==
    IF cat_filter # NoFilter THEN Table[c].name = cat_filter
    ELSE tier_filter = {} \/ Table[c].tier \intersect tier_filter # {}

SuiteInit ==
    /\ TapInit
    /\ pc = "args" /\ held = {} /\ code = -1
    /\ cat_filter = NoFilter /\ tier_filter = {} /\ host = FALSE
    /\ failed_at = "none" /\ connected = FALSE
    /\ ran_any = FALSE /\ unknown = FALSE /\ pos = 1 /\ next = 1

\* main() goes from one place to the next once the last call has returned
Go(from, to) == pc = from /\ CallReturned /\ pc' = to

\* The reporter and its table are left alone, or the table only
Quiet       == UNCHANGED vars
SameProfile == UNCHANGED active_profile
-----------------------------------------------------------------------------
(***************************************************************************)
(* Startup                                                                 *)
(***************************************************************************)
Usage ==
    /\ Go("args", "done")
    /\ code' = RETURN_FAIL
    /\ Quiet /\ UNCHANGED <<held, optionVars, failed_at, connected, loopVars>>

ListCategories ==
    /\ Go("args", "done")
    /\ code' = RETURN_OK
    /\ Quiet /\ UNCHANGED <<held, optionVars, failed_at, connected, loopVars>>

\* ReadArgs succeeds; LOOPBACK beats NETWORK
ParseOptions ==
    /\ Go("args", "verbose")
    /\ held' = held \union {"rdargs"}
    /\ cat_filter' \in Filters
    /\ tier_filter' \in {{}, {"loopback"}, {"network"}}
    /\ host' \in BOOLEAN
    /\ Quiet /\ UNCHANGED <<failed_at, connected, loopVars, code>>

SetVerbose ==
    /\ Go("verbose", "page")
    /\ \E flag \in Verboses : IF flag THEN tap_set_verbose ELSE UNCHANGED <<tapVars, pagerVars>>
    /\ SameProfile
    /\ UNCHANGED <<held, optionVars, failed_at, connected, loopVars, code>>

\* Unless NOPAGE is given
SetPage ==
    /\ Go("page", "library")
    /\ tap_set_page \/ UNCHANGED <<tapVars, pagerVars>>
    /\ page_mode' \in PageModes
    /\ SameProfile
    /\ UNCHANGED <<held, optionVars, failed_at, connected, loopVars, code>>

OpenLibrary ==
    /\ Go("library", "init")
    /\ \/ held' = held \union {"library"} /\ UNCHANGED failed_at
       \/ failed_at' = "library" /\ UNCHANGED held
    /\ Quiet /\ UNCHANGED <<optionVars, connected, loopVars, code>>

OpenReport ==
    /\ Go("init", IF failed_at = "none" THEN "timer_port" ELSE "plan0")
    /\ tap_init /\ SameProfile
    /\ UNCHANGED <<held, optionVars, failed_at, connected, loopVars, code>>

(***************************************************************************)
(* timer_init: each step's failure releases what the earlier ones took.    *)
(***************************************************************************)
TimerStep(from, to, resource, undo) ==
    /\ \/ /\ Go(from, to)
          /\ held' = held \union {resource}
          /\ UNCHANGED failed_at
       \/ /\ Go(from, "plan0")
          /\ held' = held \ undo
          /\ failed_at' = "timer"
    /\ Quiet /\ UNCHANGED <<optionVars, connected, loopVars, code>>

CreateTimerPort    == TimerStep("timer_port", "timer_request", "timer_port", {})
CreateTimerRequest == TimerStep("timer_request", "timer_device", "timer_request", {"timer_port"})
OpenTimerDevice    == TimerStep("timer_device", "known", "timer_device",
                                {"timer_request", "timer_port"})

SelectProfile ==
    /\ Go("known", "host")
    /\ \E version \in Versions : KnownInit(version)
    /\ UNCHANGED <<tapVars, pagerVars, held, optionVars, failed_at, connected, loopVars, code>>

\* helper_connect, which closes its socket itself when it fails
ConnectHelper ==
    /\ \/ Go("host", "loop") /\ ~host /\ UNCHANGED <<held, failed_at, connected>>
       \/ /\ Go("host", "loop") /\ host
          /\ connected' = TRUE
          /\ held' = held \union {"ctrl_fd"}
          /\ UNCHANGED failed_at
       \/ /\ Go("host", "plan0") /\ host
          /\ failed_at' = "helper"
          /\ UNCHANGED <<held, connected>>
    /\ Quiet /\ UNCHANGED <<optionVars, loopVars, code>>
-----------------------------------------------------------------------------
(***************************************************************************)
(* The dispatch loop.  Ctrl-C is looked for, and cleared, at the top of    *)
(* each iteration, whether or not the category is to run.                  *)
(***************************************************************************)
\* slip: the signal is consumed without a bail-out
LoopBreakSilently ==
    /\ Go("loop", "quit")
    /\ pos <= Len(Table) /\ brk
    /\ brk' = FALSE /\ SameProfile
    /\ UNCHANGED <<tapVars, page_mode, lines_printed, unseen, out,
                   held, optionVars, failed_at, connected, loopVars, code>>

LoopBreak ==
    /\ Go("loop", "quit")
    /\ pos <= Len(Table) /\ brk
    /\ tap_bail /\ brk' = FALSE /\ SameProfile
    /\ UNCHANGED <<held, optionVars, failed_at, connected, loopVars, code>>

\* slip: the category passed over is looked at again
LoopAgain ==
    /\ Go("loop", "loop")
    /\ pos <= Len(Table) /\ ~brk /\ ~ShouldRun(pos)
    /\ Quiet /\ UNCHANGED <<held, optionVars, failed_at, connected, loopVars, code>>

LoopContinue ==
    /\ Go("loop", "loop")
    /\ pos <= Len(Table) /\ ~brk /\ ~ShouldRun(pos)
    /\ pos' = pos + 1
    /\ Quiet /\ UNCHANGED <<held, optionVars, failed_at, connected, ran_any, unknown, next,
                            code>>

\* slip: a category that runs leaves no mark
LoopBeginUnmarked ==
    /\ Go("loop", "test")
    /\ pos <= Len(Table) /\ ~brk /\ ShouldRun(pos)
    /\ tap_begin_category(Table[pos].name) /\ SameProfile
    /\ next' = 1
    /\ UNCHANGED <<held, optionVars, failed_at, connected, ran_any, unknown, pos, code>>

LoopBegin ==
    /\ Go("loop", "test")
    /\ pos <= Len(Table) /\ ~brk /\ ShouldRun(pos)
    /\ tap_begin_category(Table[pos].name) /\ SameProfile
    /\ ran_any' = TRUE /\ next' = 1
    /\ UNCHANGED <<held, optionVars, failed_at, connected, unknown, pos, code>>

LoopEnd ==
    /\ Go("loop", "quit")
    /\ pos > Len(Table)
    /\ Quiet /\ UNCHANGED <<held, optionVars, failed_at, connected, loopVars, code>>

(***************************************************************************)
(* A test reports exactly once, on every path through it: a known crash is *)
(* reported as a failure, a network test is skipped without the helper,    *)
(* and any other may pass, fail, or skip for want of a resource.  What a   *)
(* test still calls on the path of a known crash is in module Resources.   *)
(* CHECK_CTRLC stands between two tests, not after the last.               *)
(***************************************************************************)
\* slips: one test too many, and one too few
AfterTestLate  == IF next > Table[pos].size THEN "return" ELSE "check"
AfterTestEarly == IF next + 1 >= Table[pos].size THEN "return" ELSE "check"

AfterTest == IF next = Table[pos].size THEN "return" ELSE "check"

Offline(d) == d \in Network /\ ~connected
Spared(d)  == d \in Guarded /\ KnownCrash(d)

\* slip: the test spared is not reported
SpareSilently(d) == UNCHANGED <<tapVars, pagerVars>>

SpareTest(d) == tap_ok(FALSE, d)

RunTest ==
    LET d == Number(pos, next)
    IN  /\ Go("test", AfterTest)
        /\ \/ Spared(d) /\ SpareTest(d)
           \/ ~Spared(d) /\ Offline(d) /\ tap_skip(d)
           \/ /\ ~Spared(d) /\ ~Offline(d)
              /\ \/ tap_ok(TRUE, d)
                 \/ d \in Fallible /\ (tap_ok(FALSE, d) \/ tap_skip(d))
        /\ SameProfile
        /\ UNCHANGED <<held, optionVars, failed_at, connected, ran_any, unknown, pos, next, code>>

\* A benchmark that has reported adds a note to the category's summary
TestNote ==
    /\ pc \in {"check", "return"} /\ Go(pc, pc) /\ ~bailed_out
    /\ RoomForNote /\ Number(pos, next) \in Fallible
    /\ tap_note /\ SameProfile
    /\ UNCHANGED <<held, optionVars, failed_at, connected, loopVars, code>>

CheckBreak ==
    /\ Go("check", "return")
    /\ brk /\ tap_bail /\ brk' = FALSE /\ SameProfile
    /\ UNCHANGED <<held, optionVars, failed_at, connected, loopVars, code>>

CheckPassed ==
    /\ Go("check", "test")
    /\ ~brk /\ next' = next + 1
    /\ Quiet /\ UNCHANGED <<held, optionVars, failed_at, connected, ran_any, unknown, pos,
                            code>>

\* cat->run() has returned: break on a bail-out, else close the category
CategoryBailed ==
    /\ Go("return", "quit")
    /\ bailed_out
    /\ Quiet /\ UNCHANGED <<held, optionVars, failed_at, connected, loopVars, code>>

\* slip: the category a bail-out interrupted is closed too
CategoryEndAlways ==
    /\ Go("return", "loop")
    /\ tap_end_category /\ SameProfile
    /\ pos' = pos + 1
    /\ UNCHANGED <<held, optionVars, failed_at, connected, ran_any, unknown, next, code>>

CategoryEnd ==
    /\ Go("return", "loop")
    /\ ~bailed_out
    /\ tap_end_category /\ SameProfile
    /\ pos' = pos + 1
    /\ UNCHANGED <<held, optionVars, failed_at, connected, ran_any, unknown, next, code>>
-----------------------------------------------------------------------------
(***************************************************************************)
(* Shutdown, after the loop and from each failed startup step              *)
(***************************************************************************)
\* The unknown-category diagnostic, then helper_quit
Quit ==
    /\ Go("quit", "plan")
    /\ unknown' = (~ran_any /\ cat_filter # NoFilter)
    /\ connected' = FALSE
    /\ held' = IF connected THEN held \ {"ctrl_fd"} ELSE held
    /\ Quiet /\ UNCHANGED <<optionVars, failed_at, ran_any, pos, next, code>>

Plan ==
    /\ Go("plan", "finish")
    /\ tap_plan(test_number) /\ SameProfile
    /\ UNCHANGED <<held, optionVars, failed_at, connected, loopVars, code>>

PlanNothing ==
    /\ Go("plan0", "bail0")
    /\ tap_plan(0) /\ SameProfile
    /\ UNCHANGED <<held, optionVars, failed_at, connected, loopVars, code>>

BailStartup ==
    /\ Go("bail0", "finish")
    /\ tap_bail /\ UNCHANGED brk /\ SameProfile
    /\ UNCHANGED <<held, optionVars, failed_at, connected, loopVars, code>>

Finish ==
    /\ Go("finish", "cleanup")
    /\ tap_finish /\ SameProfile
    /\ UNCHANGED <<held, optionVars, failed_at, connected, loopVars, code>>

\* What each exit of main() releases
Timer == {"timer_device", "timer_request", "timer_port"}

\* slip: a failed timer_init is taken for a failed open_bsdsocket
ReleasedLess ==
    CASE failed_at \in {"library", "timer"} -> {"rdargs"}
      [] OTHER -> Timer \union {"library", "rdargs"}

Released ==
    CASE failed_at = "library" -> {"rdargs"}
      [] failed_at = "timer"   -> {"library", "rdargs"}
      [] OTHER                 -> Timer \union {"library", "rdargs"}

Cleanup ==
    /\ Go("cleanup", "done")
    /\ held' = held \ Released
    /\ code' = exit_code
    /\ Quiet /\ UNCHANGED <<optionVars, failed_at, connected, loopVars>>
-----------------------------------------------------------------------------
Screen == PageAdvance /\ UNCHANGED <<tapVars, active_profile, mainVars>>
Key    == (\E key \in Keys : PageKey(key)) /\ UNCHANGED <<tapVars, active_profile, mainVars>>
CtrlC  == pc # "done" /\ UserBreak /\ UNCHANGED <<tapVars, active_profile, mainVars>>

Exited == pc = "done" /\ CallReturned /\ UNCHANGED suiteVars

Startup ==
    \/ Usage \/ ListCategories \/ ParseOptions \/ SetVerbose \/ SetPage
    \/ OpenLibrary \/ OpenReport
    \/ CreateTimerPort \/ CreateTimerRequest \/ OpenTimerDevice
    \/ SelectProfile \/ ConnectHelper

Dispatch ==
    \/ LoopBreak \/ LoopContinue \/ LoopBegin \/ LoopEnd
    \/ RunTest \/ TestNote \/ CheckBreak \/ CheckPassed
    \/ CategoryBailed \/ CategoryEnd

Shutdown == Quit \/ Plan \/ PlanNothing \/ BailStartup \/ Finish \/ Cleanup

SuiteNext == Startup \/ Dispatch \/ Shutdown \/ Screen \/ Key \/ CtrlC \/ Exited

SuiteSpec == SuiteInit /\ [][SuiteNext]_suiteVars

(***************************************************************************)
(* main() runs on: nothing else competes for its thread, a test in hand    *)
(* reports in the end, and the user answers a prompt.  Nobody has to type  *)
(* Ctrl-C.                                                                 *)
(***************************************************************************)
FairSuiteSpec ==
    SuiteSpec /\ WF_suiteVars(Startup \/ Dispatch \/ Shutdown \/ Screen \/ Key)
=============================================================================
