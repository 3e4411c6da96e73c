---------------------------- MODULE SuiteProofs ----------------------------
(***************************************************************************)
(* Proofs about one run of the program, for any table of categories, any   *)
(* options, any known-failures profiles and any verdicts of the tests.     *)
(***************************************************************************)
EXTENDS SuiteProperties, TapCounterProofs

-----------------------------------------------------------------------------
(***************************************************************************)
(* The documented numbers.  Base is defined by recursion over the table:   *)
(* what holds of it is proved at the least category where it would fail.   *)
(***************************************************************************)
\* Base up to one category of the table
IsBase(f, n) ==
    f = [c \in 1..n |-> IF c = 1 THEN 0 ELSE f[c - 1] + Table[c - 1].size]

LEMMA TableTypes ==
  /\ Len(Table) \in Nat /\ DOMAIN Table = 1..Len(Table)
  /\ \A c \in 1..Len(Table) : /\ Table[c].size \in Nat \ {0} /\ Table[c].name \in Categories
                              /\ Table[c].tier \in SUBSET {"loopback", "network"}
<1>1. Table \in Seq([name : Categories, tier : SUBSET {"loopback", "network"}, size : Nat \ {0}])
  BY SuiteAssumption
<1>2. Len(Table) \in Nat /\ DOMAIN Table = 1..Len(Table)
  BY <1>1, LenProperties
<1>3. ASSUME NEW c \in 1..Len(Table)
      PROVE  Table[c] \in [name : Categories, tier : SUBSET {"loopback", "network"},
                           size : Nat \ {0}]
  BY <1>1, <1>3, ElementOfSeq
<1> QED BY <1>2, <1>3

LEMMA BaseExists ==
  ASSUME NEW n \in 1..(Len(Table) + 1)
  PROVE  \E f : IsBase(f, n)
<1> DEFINE Without == {m \in 1..(Len(Table) + 1) : ~ \E f : IsBase(f, m)}
<1> SUFFICES ASSUME Without # {} PROVE FALSE
  OBVIOUS
<1>0. Len(Table) \in Nat
  BY TableTypes
<1>1. \E m \in Without : \A j \in Without : m <= j
  <2>1. Without \subseteq Nat
    BY <1>0
  <2> HIDE DEF Without
  <2> QED BY <2>1, LeastElement
<1>2. PICK m \in Without : \A j \in Without : m <= j
  BY <1>1
<1>3. m \in 1..(Len(Table) + 1) /\ ~ \E f : IsBase(f, m)
  OBVIOUS
<1>4. CASE m = 1
  <2>1. IsBase([c \in 1..1 |-> 0], 1)
    BY DEF IsBase
  <2> QED BY <1>3, <1>4, <2>1
<1>5. CASE m # 1
  <2>1. m - 1 \in 1..(Len(Table) + 1) /\ m - 1 \notin Without /\ m - 1 \in Nat \ {0}
    BY <1>0, <1>2, <1>3, <1>5
  <2>2. PICK f : IsBase(f, m - 1)
    BY <2>1
  <2>3. PICK g : g = [c \in 1..m |-> IF c = m THEN f[m - 1] + Table[m - 1].size ELSE f[c]]
    OBVIOUS
  <2>4. \A c \in 1..m :
          g[c] = IF c = 1 THEN 0 ELSE g[c - 1] + Table[c - 1].size
    <3> SUFFICES ASSUME NEW c \in 1..m
                 PROVE  g[c] = IF c = 1 THEN 0 ELSE g[c - 1] + Table[c - 1].size
      OBVIOUS
    <3>1. CASE c = m
      <4>1. c - 1 \in 1..m /\ c - 1 # m /\ c # 1
        BY <1>0, <1>3, <1>5, <3>1
      <4>2. g[c - 1] = f[m - 1]
        BY <2>3, <3>1, <4>1
      <4> QED BY <2>3, <3>1, <4>1, <4>2
    <3>2. CASE c # m
      <4>1. c \in 1..(m - 1) /\ g[c] = f[c]
        BY <1>0, <1>3, <2>3, <3>2
      <4>2. f[c] = IF c = 1 THEN 0 ELSE f[c - 1] + Table[c - 1].size
        BY <2>2, <4>1 DEF IsBase
      <4>3. c # 1 => c - 1 \in 1..m /\ c - 1 # m /\ g[c - 1] = f[c - 1]
        BY <1>0, <1>3, <2>3, <4>1
      <4> QED BY <4>1, <4>2, <4>3
    <3> QED BY <3>1, <3>2
  <2>5. IsBase(g, m)
    BY <2>3, <2>4 DEF IsBase
  <2> QED BY <1>3, <2>5
<1> QED BY <1>4, <1>5

LEMMA BaseSteps ==
  /\ Base[1] = 0
  /\ \A c \in 1..Len(Table) : Base[c + 1] = Base[c] + Table[c].size
<1>1. Len(Table) \in Nat
  BY TableTypes
<1>2. \E f : f = [c \in 1..(Len(Table) + 1) |->
                   IF c = 1 THEN 0 ELSE f[c - 1] + Table[c - 1].size]
  BY <1>1, BaseExists DEF IsBase
<1>3. Base = [c \in 1..(Len(Table) + 1) |->
                IF c = 1 THEN 0 ELSE Base[c - 1] + Table[c - 1].size]
  BY <1>2 DEF Base
<1>4. Base[1] = 0
  BY <1>1, <1>3
<1>5. ASSUME NEW c \in 1..Len(Table)
      PROVE  Base[c + 1] = Base[c] + Table[c].size
  <2>1. c + 1 \in 1..(Len(Table) + 1) /\ c + 1 # 1 /\ (c + 1) - 1 = c
    BY <1>1
  <2> QED BY <1>3, <2>1
<1> QED BY <1>4, <1>5

\* No category's numbers begin before the earlier ones' end
LEMMA BaseGrows ==
  ASSUME NEW c \in 1..Len(Table)
  PROVE  \A d \in (c + 1)..(Len(Table) + 1) :
           /\ Base[c] \in Nat /\ Base[d] \in Nat
           /\ Base[c] + Table[c].size <= Base[d]
<1>0. Len(Table) \in Nat
  BY TableTypes
<1> DEFINE Untyped == {d \in 1..(Len(Table) + 1) : Base[d] \notin Nat}
           Below == {d \in (c + 1)..(Len(Table) + 1) : ~(Base[c] + Table[c].size <= Base[d])}
<1>1. Untyped = {}
  <2> SUFFICES ASSUME Untyped # {} PROVE FALSE
    OBVIOUS
  <2>1. \E m \in Untyped : \A j \in Untyped : m <= j
    <3>1. Untyped \subseteq Nat
      BY <1>0
    <3> HIDE DEF Untyped
    <3> QED BY <3>1, LeastElement
  <2>2. PICK m \in Untyped : \A j \in Untyped : m <= j
    BY <2>1
  <2>3. m # 1
    BY BaseSteps
  <2>4. m - 1 \in 1..Len(Table) /\ m - 1 \notin Untyped /\ (m - 1) + 1 = m
    BY <1>0, <2>2, <2>3
  <2>5. Base[m] = Base[m - 1] + Table[m - 1].size /\ Base[m - 1] \in Nat
    BY <2>4, BaseSteps
  <2>6. Base[m] \in Nat
    BY <2>4, <2>5, TableTypes
  <2> QED BY <2>2, <2>6
<1>2. \A d \in 1..(Len(Table) + 1) : Base[d] \in Nat
  BY <1>1
<1>3. Below = {}
  <2> SUFFICES ASSUME Below # {} PROVE FALSE
    OBVIOUS
  <2>1. \E m \in Below : \A j \in Below : m <= j
    <3>1. Below \subseteq Nat
      BY <1>0
    <3> HIDE DEF Below
    <3> QED BY <3>1, LeastElement
  <2>2. PICK m \in Below : \A j \in Below : m <= j
    BY <2>1
  <2>3. CASE m = c + 1
    <3>1. Base[m] = Base[c] + Table[c].size /\ Base[m] \in Nat
      BY <1>0, <1>2, <2>2, <2>3, BaseSteps
    <3> QED BY <2>2, <3>1
  <2>4. CASE m # c + 1
    <3>1. m - 1 \in (c + 1)..(Len(Table) + 1) /\ m - 1 \notin Below
          /\ m - 1 \in 1..Len(Table) /\ (m - 1) + 1 = m
      BY <1>0, <2>2, <2>4
    <3>2. Base[m] = Base[m - 1] + Table[m - 1].size /\ Base[c] + Table[c].size <= Base[m - 1]
      BY <3>1, BaseSteps
    <3>3. Base[c] + Table[c].size <= Base[m]
      <4>1. PICK b \in Nat : b = Base[c]
        BY <1>0, <1>2
      <4>2. PICK k \in Nat : k = Table[c].size
        BY TableTypes
      <4>3. PICK e \in Nat : e = Base[m - 1]
        BY <1>0, <1>2, <3>1
      <4>4. PICK l \in Nat : l = Table[m - 1].size
        BY <3>1, TableTypes
      <4>5. Base[m] = e + l /\ b + k <= e
        BY <3>2, <4>1, <4>2, <4>3, <4>4
      <4>6. b + k <= e + l
        BY <4>5
      <4> QED BY <4>1, <4>2, <4>5, <4>6
    <3> QED BY <2>2, <3>3
  <2> QED BY <2>3, <2>4
<1> QED BY <1>0, <1>2, <1>3
-----------------------------------------------------------------------------
(***************************************************************************)
(* The inductive invariant                                                 *)
(***************************************************************************)
Before     == {"args", "verbose", "page", "library", "init"}
Starting   == {"timer_port", "timer_request", "timer_device", "known", "host"}
InCategory == {"test", "check", "return"}
Failing    == {"plan0", "bail0"}
Ending     == {"quit", "plan"}
Places     == Before \union Starting \union Failing \union {"loop"} \union InCategory
              \union Ending \union {"finish", "cleanup", "done"}

\* The reporter has been opened and the tests, if any, are over
Reporting == pc \in Ending \union {"finish", "cleanup"} \/ (pc = "done" /\ stage = "finished")

\* What main() has asked of the reporter when it is at each place
CallsInv ==
    /\ pc \in Places
    /\ pc \in Before => stage = "unused"
    /\ pc \notin Before \union {"cleanup", "done"} => stage = "open"
    /\ pc = "cleanup" => stage = "finished"
    /\ pc = "done" => stage \in {"unused", "finished"}
    /\ pc \in Before \union Starting \union Failing \union {"loop", "test", "check"} => ~bailed_out
    /\ pc \in Before \union Starting \union Failing \union {"loop"} => ~in_cat
    /\ pc \in InCategory => in_cat
    /\ pc \in Ending => (in_cat => bailed_out)
    /\ pc \in Starting \union {"plan0", "loop", "quit", "plan"} \union InCategory => plan = -1
    /\ pc \in Before => plan = -1
    /\ pc \in {"bail0", "finish", "cleanup"} => plan = Len(log)
    /\ pc = "done" /\ stage = "finished" => plan = Len(log)
    /\ pc \in Before \union Starting \union Failing => log = <<>>

\* What main() returns
CodeInv ==
    /\ pc \in Failing => failed_at # "none"
    /\ failed_at # "none" =>
         /\ log = <<>>
         /\ pc \in {"init", "finish", "cleanup", "done"} \union Failing
         /\ pc \in {"finish", "cleanup", "done"} => bailed_out
    /\ stage = "finished" => exit_code = ReturnCode
    /\ pc = "done" /\ stage = "finished" => code = exit_code
    /\ stage # "open" => ~logfp

\* Where main() is in the table
PlaceInv ==
    /\ pos \in 1..(Len(Table) + 1)
    /\ in_cat => pos \in 1..Len(Table) /\ ShouldRun(pos) /\ next \in 1..Table[pos].size
    /\ pc = "check" => next < Table[pos].size
    /\ pc = "return" /\ ~bailed_out => next = Table[pos].size
    /\ pc \in Before \union Starting \union Failing => pos = 1
    /\ Reporting /\ ~bailed_out => pos = Len(Table) + 1

\* What main() holds, and what it has only while it is connected
Opened    == {"rdargs", "library"}
Connected == IF connected THEN {"ctrl_fd"} ELSE {}

HeldInv ==
    /\ pc \in {"args", "done"} => held = {}
    /\ pc \in {"verbose", "page", "library"} => held = {"rdargs"}
    /\ pc = "init" => held = IF failed_at = "none" THEN Opened ELSE {"rdargs"}
    /\ pc = "init" => failed_at \in {"none", "library"}
    /\ pc = "timer_port" => held = Opened
    /\ pc = "timer_request" => held = Opened \union {"timer_port"}
    /\ pc = "timer_device" => held = Opened \union {"timer_port", "timer_request"}
    /\ pc \in {"known", "host", "loop", "quit"} \union InCategory =>
         held = Timer \union Opened \union Connected
    /\ pc \in {"plan", "plan0", "bail0", "finish", "cleanup"} => held = Released
    /\ pc \notin {"loop", "quit"} \union InCategory => ~connected

\* The last number reached
InHand == IF ~in_cat THEN 0 ELSE IF pc = "test" THEN next - 1 ELSE next
Reach  == Base[pos] + InHand

\* The log, as far as main() has come in the table
LogInv ==
    /\ Reported = {d \in Selected : d <= Reach}
    /\ \A i, j \in DOMAIN log : i < j => log[i].desc < log[j].desc
    /\ Len(log) <= Reach
    /\ AllSelected => Reach = Len(log) /\ \A i \in DOMAIN log : log[i].desc = i
    /\ AllSelected => KnownMeansListed
    /\ \A i \in DOMAIN log : log[i].tag = "SKIP" => log[i].ok

SuiteInv == SuiteTypeOK /\ CallsInv /\ CodeInv /\ PlaceInv /\ HeldInv /\ LogInv
TapInv   == TypeOK /\ Accounts /\ OrderInv
-----------------------------------------------------------------------------
(***************************************************************************)
(* The control of main(), one action after the other                       *)
(***************************************************************************)
\* Nothing but the screen and the break signal changes
Idle == UNCHANGED <<tapVars, active_profile, mainVars>>

LEMMA SuiteSteps ==
  [SuiteNext]_suiteVars =>
    \/ Usage \/ ListCategories \/ ParseOptions \/ SetVerbose \/ SetPage
    \/ OpenLibrary \/ OpenReport
    \/ CreateTimerPort \/ CreateTimerRequest \/ OpenTimerDevice
    \/ SelectProfile \/ ConnectHelper
    \/ LoopBreak \/ LoopContinue \/ LoopBegin \/ LoopEnd
    \/ RunTest \/ TestNote \/ CheckBreak \/ CheckPassed
    \/ CategoryBailed \/ CategoryEnd
    \/ Quit \/ Plan \/ PlanNothing \/ BailStartup \/ Finish \/ Cleanup
    \/ Idle
  BY DEF SuiteNext, Startup, Dispatch, Shutdown, Screen, Key, CtrlC, Exited, Idle,
         suiteVars, vars

LEMMA Numbered == TapInv => test_number = Len(log)
  BY DEF TapInv, Accounts, CountersMatchLog

LEMMA CategoryNamed ==
  ASSUME PlaceInv, LoopBegin
  PROVE  /\ pos \in 1..Len(Table) /\ Table[pos].name \in Categories
         /\ Table[pos].name # NoCategory /\ Table[pos].size \in Nat \ {0}
<1>1. pos \in 1..Len(Table)
  BY TableTypes DEF PlaceInv, LoopBegin
<1> QED BY <1>1, TableTypes, TapAssumption

\* A test makes one call, which touches the log and the category's counts
LEMMA TestSteps ==
  ASSUME RunTest
  PROVE  /\ pc = "test" /\ CallReturned /\ pc' = AfterTest /\ pc' \in {"check", "return"}
         /\ \/ \E passed \in BOOLEAN : tap_ok(passed, Number(pos, next))
            \/ tap_skip(Number(pos, next))
         /\ UNCHANGED <<stage, bailed_out, current_category, logfp, plan, results, exit_code>>
         /\ UNCHANGED <<active_profile, held, cat_filter, tier_filter, host, failed_at,
                        connected, ran_any, unknown, pos, next, code>>
<1>1. /\ pc = "test" /\ CallReturned /\ pc' = AfterTest /\ pc' \in {"check", "return"}
      /\ UNCHANGED <<active_profile, held, cat_filter, tier_filter, host, failed_at,
                     connected, ran_any, unknown, pos, next, code>>
  BY DEF RunTest, Go, AfterTest, SameProfile, optionVars
<1>2. \/ \E passed \in BOOLEAN : tap_ok(passed, Number(pos, next))
      \/ tap_skip(Number(pos, next))
  BY DEF RunTest, SpareTest
<1>3. UNCHANGED <<stage, bailed_out, current_category, logfp, plan, results, exit_code>>
  BY <1>2 DEF tap_ok, tap_skip, endVars
<1> QED BY <1>1, <1>2, <1>3

\* What main() has asked for, one step further
LEMMA CallsStep ==
  TapInv /\ CallsInv /\ PlaceInv /\ [SuiteNext]_suiteVars => CallsInv'
<1> SUFFICES ASSUME TapInv, CallsInv, PlaceInv, [SuiteNext]_suiteVars PROVE CallsInv'
  OBVIOUS
<1> USE DEF CallsInv, Places, Before, Starting, InCategory, Failing, Ending, in_cat,
            Go, Quiet, SameProfile, vars, tapVars, tallyVars, catVars, endVars, mainVars,
            optionVars, loopVars
<1>1. CASE Usage
  BY <1>1 DEF Usage
<1>2. CASE ListCategories
  BY <1>2 DEF ListCategories
<1>3. CASE ParseOptions
  BY <1>3 DEF ParseOptions
<1>4. CASE SetVerbose
  BY <1>4 DEF SetVerbose, tap_set_verbose
<1>5. CASE SetPage
  BY <1>5 DEF SetPage, tap_set_page
<1>6. CASE OpenLibrary
  BY <1>6 DEF OpenLibrary
<1>7. CASE OpenReport
  BY <1>7 DEF OpenReport, tap_init
<1>8. CASE CreateTimerPort
  BY <1>8 DEF CreateTimerPort, TimerStep
<1>9. CASE CreateTimerRequest
  BY <1>9 DEF CreateTimerRequest, TimerStep
<1>10. CASE OpenTimerDevice
  BY <1>10 DEF OpenTimerDevice, TimerStep
<1>11. CASE SelectProfile
  BY <1>11 DEF SelectProfile
<1>12. CASE ConnectHelper
  BY <1>12 DEF ConnectHelper
<1>13. CASE LoopBreak
  BY <1>13 DEF LoopBreak, tap_bail
<1>14. CASE LoopContinue
  BY <1>14 DEF LoopContinue
<1>15. CASE LoopBegin
  BY <1>15, CategoryNamed DEF LoopBegin, tap_begin_category
<1>16. CASE LoopEnd
  BY <1>16 DEF LoopEnd
<1>17. CASE RunTest
  BY <1>17, TestSteps
<1>18. CASE TestNote
  BY <1>18 DEF TestNote, tap_note
<1>19. CASE CheckBreak
  BY <1>19 DEF CheckBreak, tap_bail
<1>20. CASE CheckPassed
  BY <1>20 DEF CheckPassed
<1>21. CASE CategoryBailed
  BY <1>21 DEF CategoryBailed
<1>22. CASE CategoryEnd
  BY <1>22 DEF CategoryEnd, tap_end_category
<1>23. CASE Quit
  BY <1>23 DEF Quit
<1>24. CASE Plan
  BY <1>24, Numbered DEF Plan, tap_plan
<1>25. CASE PlanNothing
  BY <1>25 DEF PlanNothing, tap_plan
<1>26. CASE BailStartup
  BY <1>26 DEF BailStartup, tap_bail
<1>27. CASE Finish
  BY <1>27 DEF Finish, tap_finish
<1>28. CASE Cleanup
  BY <1>28 DEF Cleanup
<1>29. CASE Idle
  BY <1>29 DEF Idle
<1> QED BY <1>1, <1>2, <1>3, <1>4, <1>5, <1>6, <1>7, <1>8, <1>9, <1>10, <1>11, <1>12, <1>13, <1>14, <1>15, <1>16, <1>17, <1>18, <1>19, <1>20, <1>21, <1>22, <1>23, <1>24, <1>25, <1>26, <1>27, <1>28, <1>29, SuiteSteps

\* What main() will return, one step further
LEMMA CodeStep ==
  CallsInv /\ CodeInv /\ [SuiteNext]_suiteVars => CodeInv'
<1> SUFFICES ASSUME CallsInv, CodeInv, [SuiteNext]_suiteVars PROVE CodeInv'
  OBVIOUS
<1> USE DEF CallsInv, CodeInv, ReturnCode, Before, Starting, InCategory, Failing, Ending,
            Go, Quiet, SameProfile, vars, tapVars, tallyVars, catVars, endVars, mainVars,
            optionVars, loopVars
<1>1. CASE Usage
  BY <1>1 DEF Usage
<1>2. CASE ListCategories
  BY <1>2 DEF ListCategories
<1>3. CASE ParseOptions
  BY <1>3 DEF ParseOptions
<1>4. CASE SetVerbose
  BY <1>4 DEF SetVerbose, tap_set_verbose
<1>5. CASE SetPage
  BY <1>5 DEF SetPage, tap_set_page
<1>6. CASE OpenLibrary
  BY <1>6 DEF OpenLibrary
<1>7. CASE OpenReport
  BY <1>7 DEF OpenReport, tap_init
<1>8. CASE CreateTimerPort
  BY <1>8 DEF CreateTimerPort, TimerStep
<1>9. CASE CreateTimerRequest
  BY <1>9 DEF CreateTimerRequest, TimerStep
<1>10. CASE OpenTimerDevice
  BY <1>10 DEF OpenTimerDevice, TimerStep
<1>11. CASE SelectProfile
  BY <1>11 DEF SelectProfile
<1>12. CASE ConnectHelper
  BY <1>12 DEF ConnectHelper
<1>13. CASE LoopBreak
  BY <1>13 DEF LoopBreak, tap_bail
<1>14. CASE LoopContinue
  BY <1>14 DEF LoopContinue
<1>15. CASE LoopBegin
  BY <1>15 DEF LoopBegin, tap_begin_category
<1>16. CASE LoopEnd
  BY <1>16 DEF LoopEnd
<1>17. CASE RunTest
  BY <1>17, TestSteps
<1>18. CASE TestNote
  BY <1>18 DEF TestNote, tap_note
<1>19. CASE CheckBreak
  BY <1>19 DEF CheckBreak, tap_bail
<1>20. CASE CheckPassed
  BY <1>20 DEF CheckPassed
<1>21. CASE CategoryBailed
  BY <1>21 DEF CategoryBailed
<1>22. CASE CategoryEnd
  BY <1>22 DEF CategoryEnd, tap_end_category
<1>23. CASE Quit
  BY <1>23 DEF Quit
<1>24. CASE Plan
  BY <1>24 DEF Plan, tap_plan
<1>25. CASE PlanNothing
  BY <1>25 DEF PlanNothing, tap_plan
<1>26. CASE BailStartup
  BY <1>26 DEF BailStartup, tap_bail
<1>27. CASE Finish
  BY <1>27 DEF Finish, tap_finish
<1>28. CASE Cleanup
  BY <1>28 DEF Cleanup
<1>29. CASE Idle
  BY <1>29 DEF Idle
<1> QED BY <1>1, <1>2, <1>3, <1>4, <1>5, <1>6, <1>7, <1>8, <1>9, <1>10, <1>11, <1>12, <1>13, <1>14, <1>15, <1>16, <1>17, <1>18, <1>19, <1>20, <1>21, <1>22, <1>23, <1>24, <1>25, <1>26, <1>27, <1>28, <1>29, SuiteSteps

\* Where main() is in the table, one step further
LEMMA PlaceStep ==
  CallsInv /\ PlaceInv /\ [SuiteNext]_suiteVars => PlaceInv'
<1> SUFFICES ASSUME CallsInv, PlaceInv, [SuiteNext]_suiteVars PROVE PlaceInv'
  OBVIOUS
<1> USE DEF CallsInv, PlaceInv, Reporting, ShouldRun, Before, Starting, InCategory, Failing, Ending, in_cat,
            Go, Quiet, SameProfile, vars, tapVars, tallyVars, catVars, endVars, mainVars,
            optionVars, loopVars
<1>1. CASE Usage
  BY <1>1 DEF Usage
<1>2. CASE ListCategories
  BY <1>2 DEF ListCategories
<1>3. CASE ParseOptions
  BY <1>3 DEF ParseOptions
<1>4. CASE SetVerbose
  BY <1>4 DEF SetVerbose, tap_set_verbose
<1>5. CASE SetPage
  BY <1>5 DEF SetPage, tap_set_page
<1>6. CASE OpenLibrary
  BY <1>6 DEF OpenLibrary
<1>7. CASE OpenReport
  BY <1>7 DEF OpenReport, tap_init
<1>8. CASE CreateTimerPort
  BY <1>8 DEF CreateTimerPort, TimerStep
<1>9. CASE CreateTimerRequest
  BY <1>9 DEF CreateTimerRequest, TimerStep
<1>10. CASE OpenTimerDevice
  BY <1>10 DEF OpenTimerDevice, TimerStep
<1>11. CASE SelectProfile
  BY <1>11 DEF SelectProfile
<1>12. CASE ConnectHelper
  BY <1>12 DEF ConnectHelper
<1>13. CASE LoopBreak
  BY <1>13 DEF LoopBreak, tap_bail
<1>14. CASE LoopContinue
  BY <1>14, TableTypes DEF LoopContinue
<1>15. CASE LoopBegin
  BY <1>15, CategoryNamed DEF LoopBegin, tap_begin_category
<1>16. CASE LoopEnd
  BY <1>16, TableTypes DEF LoopEnd
<1>17. CASE RunTest
  <2>1. /\ pc = "test" /\ pc' = AfterTest /\ in_cat
        /\ UNCHANGED <<pos, next, cat_filter, tier_filter, current_category, bailed_out>>
    BY <1>17, TestSteps
  <2>2. pos \in 1..Len(Table) /\ next \in 1..Table[pos].size /\ Table[pos].size \in Nat
    BY <2>1, TableTypes
  <2>3. pc' = "check" => next < Table[pos].size
    BY <2>1, <2>2 DEF AfterTest
  <2>4. pc' = "return" => next = Table[pos].size
    BY <2>1 DEF AfterTest
  <2>5. pc' \in {"check", "return"}
    BY <2>1 DEF AfterTest
  <2> QED BY <2>1, <2>2, <2>3, <2>4, <2>5
<1>18. CASE TestNote
  BY <1>18 DEF TestNote, tap_note
<1>19. CASE CheckBreak
  BY <1>19 DEF CheckBreak, tap_bail
<1>20. CASE CheckPassed
  BY <1>20, TableTypes DEF CheckPassed
<1>21. CASE CategoryBailed
  BY <1>21 DEF CategoryBailed
<1>22. CASE CategoryEnd
  BY <1>22, TableTypes DEF CategoryEnd, tap_end_category
<1>23. CASE Quit
  BY <1>23 DEF Quit
<1>24. CASE Plan
  BY <1>24 DEF Plan, tap_plan
<1>25. CASE PlanNothing
  BY <1>25 DEF PlanNothing, tap_plan
<1>26. CASE BailStartup
  BY <1>26 DEF BailStartup, tap_bail
<1>27. CASE Finish
  BY <1>27 DEF Finish, tap_finish
<1>28. CASE Cleanup
  BY <1>28 DEF Cleanup
<1>29. CASE Idle
  BY <1>29 DEF Idle
<1> QED BY <1>1, <1>2, <1>3, <1>4, <1>5, <1>6, <1>7, <1>8, <1>9, <1>10, <1>11, <1>12, <1>13, <1>14, <1>15, <1>16, <1>17, <1>18, <1>19, <1>20, <1>21, <1>22, <1>23, <1>24, <1>25, <1>26, <1>27, <1>28, <1>29, SuiteSteps

\* What main() holds, one step further
LEMMA HeldStep ==
  CallsInv /\ CodeInv /\ HeldInv /\ [SuiteNext]_suiteVars => HeldInv'
<1> SUFFICES ASSUME CallsInv, CodeInv, HeldInv, [SuiteNext]_suiteVars PROVE HeldInv'
  OBVIOUS
<1> USE DEF CallsInv, CodeInv, HeldInv, Released, Timer, Opened, Connected,
            Before, Starting, InCategory, Failing, Ending, in_cat,
            Go, Quiet, SameProfile, vars, tapVars, tallyVars, catVars, endVars, mainVars,
            optionVars, loopVars
<1>1. CASE Usage
  BY <1>1 DEF Usage
<1>2. CASE ListCategories
  BY <1>2 DEF ListCategories
<1>3. CASE ParseOptions
  BY <1>3 DEF ParseOptions
<1>4. CASE SetVerbose
  BY <1>4 DEF SetVerbose, tap_set_verbose
<1>5. CASE SetPage
  BY <1>5 DEF SetPage, tap_set_page
<1>6. CASE OpenLibrary
  BY <1>6 DEF OpenLibrary
<1>7. CASE OpenReport
  BY <1>7 DEF OpenReport, tap_init
<1>8. CASE CreateTimerPort
  BY <1>8 DEF CreateTimerPort, TimerStep
<1>9. CASE CreateTimerRequest
  BY <1>9 DEF CreateTimerRequest, TimerStep
<1>10. CASE OpenTimerDevice
  BY <1>10 DEF OpenTimerDevice, TimerStep
<1>11. CASE SelectProfile
  BY <1>11 DEF SelectProfile
<1>12. CASE ConnectHelper
  BY <1>12 DEF ConnectHelper
<1>13. CASE LoopBreak
  BY <1>13 DEF LoopBreak, tap_bail
<1>14. CASE LoopContinue
  BY <1>14 DEF LoopContinue
<1>15. CASE LoopBegin
  BY <1>15 DEF LoopBegin, tap_begin_category
<1>16. CASE LoopEnd
  BY <1>16 DEF LoopEnd
<1>17. CASE RunTest
  BY <1>17, TestSteps
<1>18. CASE TestNote
  BY <1>18 DEF TestNote, tap_note
<1>19. CASE CheckBreak
  BY <1>19 DEF CheckBreak, tap_bail
<1>20. CASE CheckPassed
  BY <1>20 DEF CheckPassed
<1>21. CASE CategoryBailed
  BY <1>21 DEF CategoryBailed
<1>22. CASE CategoryEnd
  BY <1>22 DEF CategoryEnd, tap_end_category
<1>23. CASE Quit
  BY <1>23 DEF Quit
<1>24. CASE Plan
  BY <1>24 DEF Plan, tap_plan
<1>25. CASE PlanNothing
  BY <1>25 DEF PlanNothing, tap_plan
<1>26. CASE BailStartup
  BY <1>26 DEF BailStartup, tap_bail
<1>27. CASE Finish
  BY <1>27 DEF Finish, tap_finish
<1>28. CASE Cleanup
  BY <1>28 DEF Cleanup
<1>29. CASE Idle
  BY <1>29 DEF Idle
<1> QED BY <1>1, <1>2, <1>3, <1>4, <1>5, <1>6, <1>7, <1>8, <1>9, <1>10, <1>11, <1>12, <1>13, <1>14, <1>15, <1>16, <1>17, <1>18, <1>19, <1>20, <1>21, <1>22, <1>23, <1>24, <1>25, <1>26, <1>27, <1>28, <1>29, SuiteSteps

-----------------------------------------------------------------------------
(***************************************************************************)
(* Every step is a call the reporter's contract allows, or none            *)
(***************************************************************************)
\* The test in hand is one of the table's, and there is room for it
LEMMA TestNumber ==
  ASSUME PlaceInv, in_cat, pc = "test"
  PROVE  /\ Number(pos, next) \in Tests /\ Number(pos, next) \in NumbersOf(pos)
         /\ Number(pos, next) = Reach + 1 /\ Reach \in Nat
         /\ Reach + 1 <= MaxTests
<1>1. Len(Table) \in Nat
  BY TableTypes
<1>2. pos \in 1..Len(Table) /\ next \in 1..Table[pos].size /\ Table[pos].size \in Nat
  BY TableTypes DEF PlaceInv
<1>3. Number(pos, next) \in NumbersOf(pos)
  BY <1>2 DEF NumbersOf
<1>4. Number(pos, next) \in Tests
  BY <1>2, <1>3, BoundsAssumption
<1>5. Len(Table) + 1 \in (pos + 1)..(Len(Table) + 1)
  BY <1>1, <1>2
<1>6. /\ Base[pos] \in Nat /\ Base[Len(Table) + 1] \in Nat
      /\ Base[pos] + Table[pos].size <= Base[Len(Table) + 1]
  BY <1>2, <1>5, BaseGrows
<1>7. MaxTests \in Nat /\ Base[Len(Table) + 1] <= MaxTests
  BY TapAssumption, BoundsAssumption
<1>8. Number(pos, next) = Reach + 1 /\ Reach \in Nat /\ Reach = Base[pos] + (next - 1)
  BY <1>2, <1>6 DEF Number, Reach, InHand
<1>9. Base[pos] + next <= Base[pos] + Table[pos].size
  BY <1>2, <1>6
<1>10. Reach + 1 <= MaxTests
  <2>1. next \in Nat /\ Table[pos].size \in Nat
    BY <1>2
  <2>2. Reach + 1 = Base[pos] + next
    BY <1>6, <1>8, <2>1
  <2> QED BY <1>6, <1>7, <1>9, <2>1, <2>2
<1> QED BY <1>3, <1>4, <1>8, <1>10

LEMMA ContractStep ==
  TapInv /\ CallsInv /\ PlaceInv /\ LogInv /\ [SuiteNext]_suiteVars => [TapNext]_vars
<1> SUFFICES ASSUME TapInv, CallsInv, PlaceInv, LogInv, [SuiteNext]_suiteVars
             PROVE  TapNext \/ UNCHANGED vars
  OBVIOUS
<1> USE DEF CallsInv, Before, Starting, InCategory, Failing, Ending, Go, Open, Quiet, SameProfile,
            TapNext, TapCall
<1>1. CASE Usage \/ ListCategories \/ ParseOptions \/ OpenLibrary \/ ConnectHelper
  BY <1>1 DEF Usage, ListCategories, ParseOptions, OpenLibrary, ConnectHelper
<1>2. CASE CreateTimerPort \/ CreateTimerRequest \/ OpenTimerDevice
  BY <1>2 DEF CreateTimerPort, CreateTimerRequest, OpenTimerDevice, TimerStep
<1>3. CASE LoopContinue \/ LoopEnd \/ CheckPassed \/ CategoryBailed \/ Quit \/ Cleanup
  BY <1>3 DEF LoopContinue, LoopEnd, CheckPassed, CategoryBailed, Quit, Cleanup
<1>4. CASE SetVerbose
  BY <1>4 DEF SetVerbose, UseOptions, vars
<1>5. CASE SetPage
  BY <1>5 DEF SetPage, UseOptions, vars
<1>6. CASE OpenReport
  BY <1>6 DEF OpenReport, tap_init
<1>7. CASE SelectProfile
  <2>1. test_number = 0
    BY <1>7, Numbered DEF SelectProfile
  <2> QED BY <1>7, <2>1 DEF SelectProfile, UseProfile
<1>8. CASE LoopBreak \/ CheckBreak
  BY <1>8 DEF LoopBreak, CheckBreak, UseBail
<1>9. CASE LoopBegin
  BY <1>9, CategoryNamed DEF LoopBegin, UseBegin
<1>10. CASE RunTest
  <2>1. /\ pc = "test" /\ CallReturned /\ UNCHANGED active_profile
        /\ \/ \E passed \in BOOLEAN : tap_ok(passed, Number(pos, next))
           \/ tap_skip(Number(pos, next))
    BY <1>10, TestSteps
  <2>2. Number(pos, next) \in Tests /\ Reach \in Nat /\ Reach + 1 <= MaxTests
    BY <2>1, TestNumber
  <2>3. test_number < MaxTests
    <3>1. test_number = Len(log) /\ test_number \in Nat /\ Len(log) <= Reach /\ MaxTests \in Nat
      BY Numbered, TapAssumption DEF TapInv, TypeOK, TapTypeOK, LogInv
    <3> QED BY <2>2, <3>1
  <2>4. UseTest
    BY <2>1, <2>2, <2>3 DEF UseTest
  <2> QED BY <2>1, <2>4
<1>11. CASE TestNote
  BY <1>11 DEF TestNote, UseNote
<1>12. CASE CategoryEnd
  BY <1>12 DEF CategoryEnd, UseEnd
<1>13. CASE Plan
  BY <1>13 DEF Plan, UsePlan
<1>14. CASE PlanNothing
  <2>1. test_number = 0
    BY <1>14, Numbered DEF PlanNothing
  <2> QED BY <1>14, <2>1 DEF PlanNothing, UsePlan
<1>15. CASE BailStartup
  <2>1. plan = 0
    BY <1>15 DEF BailStartup
  <2> QED BY <1>15, <2>1 DEF BailStartup, UseBail
<1>16. CASE Finish
  <2>1. plan # -1
    <3>1. plan = Len(log) /\ Len(log) \in Nat
      BY <1>16, LenProperties DEF Finish, TapInv, TypeOK, TapTypeOK
    <3> QED BY <3>1
  <2> QED BY <1>16, <2>1 DEF Finish, UseFinish
<1>17. CASE Screen \/ Key \/ CtrlC
  BY <1>17 DEF Screen, Key, CtrlC, UsePager
<1>18. CASE Exited \/ UNCHANGED suiteVars
  BY <1>18 DEF Exited, suiteVars
<1> QED BY <1>1, <1>2, <1>3, <1>4, <1>5, <1>6, <1>7, <1>8, <1>9, <1>10, <1>11, <1>12, <1>13,
           <1>14, <1>15, <1>16, <1>17, <1>18 DEF SuiteNext, Startup, Dispatch, Shutdown

-----------------------------------------------------------------------------
(***************************************************************************)
(* The log is the selected part of the table, as far as main() has come    *)
(***************************************************************************)
LEMMA NumbersBetween ==
  ASSUME NEW c \in 1..Len(Table), NEW d \in NumbersOf(c)
  PROVE  /\ d \in Nat /\ Base[c] \in Nat /\ Base[c + 1] \in Nat
         /\ Base[c] < d /\ d <= Base[c + 1]
<1>1. Len(Table) \in Nat /\ Table[c].size \in Nat
  BY TableTypes
<1>2. PICK k \in 1..Table[c].size : d = Base[c] + k
  BY DEF NumbersOf, Number
<1>3. c + 1 \in (c + 1)..(Len(Table) + 1)
  BY <1>1
<1>4. Base[c] \in Nat /\ Base[c + 1] \in Nat /\ Base[c + 1] = Base[c] + Table[c].size
  BY <1>3, BaseGrows, BaseSteps
<1>5. k \in Nat /\ 1 <= k /\ k <= Table[c].size
  BY <1>1, <1>2
<1>6. d \in Nat /\ Base[c] < d
  BY <1>2, <1>4, <1>5
<1>7. d <= Base[c + 1]
  BY <1>1, <1>2, <1>4, <1>5
<1> QED BY <1>4, <1>6, <1>7

LEMMA SelectedNumbers == Selected \subseteq Nat \ {0}
<1> SUFFICES ASSUME NEW d \in Selected PROVE d \in Nat \ {0}
  OBVIOUS
<1>1. PICK c \in 1..Len(Table) : d \in NumbersOf(c)
  BY DEF Selected
<1> QED BY <1>1, NumbersBetween

\* A category passed over leaves no selected number behind
LEMMA PassedOver ==
  ASSUME NEW c \in 1..Len(Table), ~ShouldRun(c), NEW d \in Selected
  PROVE  d <= Base[c + 1] <=> d <= Base[c]
<1>1. PICK b \in 1..Len(Table) : d \in NumbersOf(b) /\ ShouldRun(b)
  BY DEF Selected
<1>2. Len(Table) \in Nat /\ b # c /\ Table[b].size \in Nat /\ Table[c].size \in Nat
  BY <1>1, TableTypes
<1>3. d \in Nat /\ Base[b] \in Nat /\ Base[b + 1] \in Nat /\ Base[b] < d /\ d <= Base[b + 1]
  BY <1>1, NumbersBetween
<1>4. c + 1 \in (c + 1)..(Len(Table) + 1)
  BY <1>2
<1>5. /\ Base[c] \in Nat /\ Base[c + 1] \in Nat
      /\ Base[c + 1] = Base[c] + Table[c].size /\ Base[b + 1] = Base[b] + Table[b].size
  BY <1>4, BaseGrows, BaseSteps
<1>6. Base[c] <= Base[c + 1]
  BY <1>2, <1>5
<1>7. CASE b < c
  <2>1. c \in (b + 1)..(Len(Table) + 1)
    BY <1>2, <1>7
  <2>2. Base[b] + Table[b].size <= Base[c]
    BY <2>1, BaseGrows
  <2>3. Base[b + 1] <= Base[c]
    BY <1>5, <2>2
  <2>4. d <= Base[c]
    BY <1>3, <1>5, <2>3
  <2> QED BY <1>3, <1>5, <1>6, <2>4
<1>8. CASE c < b
  <2>1. b \in (c + 1)..(Len(Table) + 1)
    BY <1>2, <1>8
  <2>2. Base[c] + Table[c].size <= Base[b]
    BY <2>1, BaseGrows
  <2>3. Base[c + 1] <= Base[b]
    BY <1>5, <2>2
  <2>4. ~(d <= Base[c + 1])
    BY <1>3, <1>5, <2>3
  <2> QED BY <1>3, <1>5, <1>6, <2>4
<1> QED BY <1>2, <1>7, <1>8

\* Nothing is logged before the first category
LEMMA LogEmpty ==
  ASSUME log' = <<>>, pos' = 1, ~in_cat'
  PROVE  LogInv'
<1>1. Reach' = 0
  BY BaseSteps DEF Reach, InHand
<1>2. \A d \in Selected' : d \in Nat \ {0}
  <2> SUFFICES ASSUME NEW d \in Selected' PROVE d \in Nat \ {0}
    OBVIOUS
  <2>1. PICK c \in 1..Len(Table) : d \in NumbersOf(c)
    BY DEF Selected, NumbersOf, Number
  <2> QED BY <2>1, NumbersBetween
<1>3. Reported' = {} /\ DOMAIN log' = {} /\ Len(log') = 0
  BY DEF Reported
<1>4. {d \in Selected' : d <= Reach'} = {}
  BY <1>1, <1>2
<1> QED BY <1>1, <1>3, <1>4 DEF LogInv, KnownMeansListed

\* Steps that log nothing and select nothing else
LEMMA SameSelection ==
  ASSUME UNCHANGED <<cat_filter, tier_filter>>
  PROVE  Selected' = Selected /\ AllSelected' = AllSelected
<1>1. \A c : ShouldRun(c)' = ShouldRun(c)
  BY DEF ShouldRun
<1> QED BY <1>1 DEF Selected, AllSelected, NumbersOf, Number

LEMMA LogKept ==
  ASSUME LogInv, UNCHANGED <<log, cat_filter, tier_filter, active_profile>>, Reach' = Reach
  PROVE  LogInv'
<1>1. Selected' = Selected /\ AllSelected' = AllSelected /\ Reported' = Reported
  BY SameSelection DEF Reported
<1>2. KnownMeansListed' = KnownMeansListed
  BY DEF KnownMeansListed, Listed
<1> QED BY <1>1, <1>2 DEF LogInv

LEMMA LogPassedOver ==
  ASSUME CallsInv, PlaceInv, LogInv, log \in Seq(LogLines), LoopContinue
  PROVE  LogInv'
<1>1. /\ pos \in 1..Len(Table) /\ pos' = pos + 1 /\ ~ShouldRun(pos) /\ ~in_cat /\ ~in_cat'
      /\ UNCHANGED <<log, cat_filter, tier_filter, active_profile>>
  BY TableTypes DEF CallsInv, PlaceInv, LoopContinue, Go, Quiet, vars, tapVars, tallyVars, catVars,
                    optionVars, in_cat
<1>2. Len(Table) \in Nat /\ pos + 1 \in (pos + 1)..(Len(Table) + 1) /\ Table[pos].size \in Nat
  BY <1>1, TableTypes
<1>3. /\ Base[pos] \in Nat /\ Base[pos + 1] \in Nat /\ Base[pos] <= Base[pos + 1]
      /\ Reach = Base[pos] /\ Reach' = Base[pos + 1]
  <2>1. /\ Base[pos] \in Nat /\ Base[pos + 1] \in Nat
        /\ Base[pos] + Table[pos].size <= Base[pos + 1]
    BY <1>1, <1>2, BaseGrows
  <2> QED BY <1>1, <1>2, <2>1 DEF Reach, InHand
<1>4. Selected' = Selected /\ ~AllSelected' /\ Reported' = Reported
  BY <1>1, SameSelection DEF Reported, AllSelected
<1>5. {d \in Selected : d <= Reach'} = {d \in Selected : d <= Reach}
  BY <1>1, <1>3, PassedOver
<1>6. Len(log) <= Reach'
  BY <1>3, LenProperties DEF LogInv
<1> QED BY <1>1, <1>4, <1>5, <1>6 DEF LogInv

\* The line a test logs
LEMMA TestLine ==
  ASSUME TapInv, PlaceInv, in_cat, RunTest
  PROVE  \E line \in LogLines :
           /\ log' = Append(log, line) /\ line.desc = Number(pos, next)
           /\ line.tag = "SKIP" => line.ok
           /\ ~line.ok => (line.tag = "KNOWN" <=> KnownCheck(Len(log) + 1))
<1>1. PICK d \in Tests : d = Number(pos, next)
  BY TestNumber, TestSteps
<1>2. PICK n \in Nat : n = test_number + 1 /\ n = Len(log) + 1
  BY Numbered DEF TapInv, TypeOK, TapTypeOK
<1>3. CASE \E passed \in BOOLEAN : tap_ok(passed, d)
  <2>1. PICK passed \in BOOLEAN : tap_ok(passed, d)
    BY <1>3
  <2>2. PICK line \in LogLines : line = LogLine(n, d, passed)
    BY <1>2, LogLineType
  <2>3. log' = Append(log, line)
    BY <1>2, <2>1, <2>2 DEF tap_ok
  <2>4. /\ line.desc = d /\ line.tag # "SKIP"
        /\ line.tag = "KNOWN" <=> KnownCheck(n)
    BY <2>2 DEF LogLine
  <2> QED BY <1>1, <1>2, <2>3, <2>4
<1>4. CASE tap_skip(d)
  <2>1. PICK line : line = [num |-> n, desc |-> d, ok |-> TRUE, tag |-> "SKIP"]
    OBVIOUS
  <2>2. line \in LogLines /\ line.desc = d /\ line.ok
    BY <2>1 DEF LogLines
  <2>3. log' = Append(log, line)
    BY <1>2, <1>4, <2>1 DEF tap_skip
  <2> QED BY <1>1, <2>2, <2>3
<1> QED BY <1>1, <1>3, <1>4, TestSteps

LEMMA LogTest ==
  ASSUME TapInv, CallsInv, PlaceInv, LogInv, RunTest
  PROVE  LogInv'
<1>1. /\ pc = "test" /\ in_cat /\ in_cat' /\ pc' # "test"
      /\ UNCHANGED <<pos, next, cat_filter, tier_filter, active_profile>>
  BY TestSteps DEF CallsInv, InCategory, in_cat
<1>2. PICK line \in LogLines :
        /\ log' = Append(log, line) /\ line.desc = Number(pos, next)
        /\ line.tag = "SKIP" => line.ok
        /\ ~line.ok => (line.tag = "KNOWN" <=> KnownCheck(Len(log) + 1))
  BY <1>1, TestLine
<1>3. PICK r \in Nat : r = Reach
  BY <1>1, TestNumber
<1>4. Number(pos, next) = r + 1 /\ r + 1 \in Selected /\ Selected \subseteq Nat
  <2>1. Number(pos, next) = r + 1 /\ Number(pos, next) \in NumbersOf(pos)
    BY <1>1, <1>3, TestNumber
  <2>2. pos \in 1..Len(Table) /\ ShouldRun(pos)
    BY <1>1 DEF PlaceInv
  <2> QED BY <2>1, <2>2, SelectedNumbers DEF Selected
<1>5. Reach' = r + 1
  <2>1. Reach' = Base[pos] + next
    BY <1>1 DEF Reach, InHand
  <2> QED BY <1>4, <2>1 DEF Number
<1>6. Selected' = Selected /\ AllSelected' = AllSelected
  BY <1>1, SameSelection
<1>7. log \in Seq(LogLines)
  BY DEF TapInv, TypeOK, TapTypeOK
<1>8. PICK n \in Nat : n = Len(log)
  BY <1>7, LenProperties
<1>9. /\ DOMAIN log = 1..n /\ DOMAIN log' = 1..(n + 1) /\ Len(log') = n + 1
      /\ log'[n + 1] = line /\ \A i \in 1..n : log'[i] = log[i]
  BY <1>2, <1>7, <1>8
<1>10. \A i \in 1..(n + 1) : i # n + 1 => i \in 1..n
  OBVIOUS
<1>11. Reported = {d \in Selected : d <= r} /\ \A i \in 1..n : log[i].desc \in Reported
  BY <1>3, <1>9 DEF LogInv, Reported
<1>12. Reported' = {d \in Selected : d <= r + 1}
  <2>1. Reported' = Reported \union {r + 1}
    <3>1. ASSUME NEW d \in Reported' PROVE d \in Reported \union {r + 1}
      <4>1. PICK i \in 1..(n + 1) : d = log'[i].desc
        BY <1>9 DEF Reported
      <4> QED BY <1>2, <1>4, <1>9, <1>10, <1>11, <4>1
    <3>2. ASSUME NEW d \in Reported PROVE d \in Reported'
      <4>1. PICK i \in 1..n : d = log[i].desc
        BY <1>9 DEF Reported
      <4>2. i \in 1..(n + 1) /\ d = log'[i].desc
        BY <1>9, <4>1
      <4> QED BY <1>9, <4>2 DEF Reported
    <3>3. r + 1 \in Reported'
      <4>1. n + 1 \in 1..(n + 1) /\ log'[n + 1].desc = r + 1
        BY <1>2, <1>4, <1>9
      <4> QED BY <1>9, <4>1 DEF Reported
    <3> QED BY <3>1, <3>2, <3>3
  <2>2. \A d \in Selected : d <= r + 1 <=> (d <= r \/ d = r + 1)
    BY <1>4
  <2> QED BY <1>4, <1>11, <2>1, <2>2
<1>13. ASSUME NEW i \in 1..(n + 1), NEW j \in 1..(n + 1), i < j
       PROVE  log'[i].desc < log'[j].desc
  <2>1. i \in 1..n /\ log'[i] = log[i]
    BY <1>9, <1>13
  <2>2. CASE j = n + 1
    <3>1. log[i].desc \in Selected /\ log[i].desc <= r
      BY <1>11, <2>1
    <3>2. log[i].desc \in Nat
      BY <1>4, <3>1
    <3> QED BY <1>2, <1>4, <1>9, <2>1, <2>2, <3>1, <3>2
  <2>3. CASE j \in 1..n
    BY <1>9, <1>13, <2>1, <2>3 DEF LogInv
  <2> QED BY <1>10, <2>2, <2>3
<1>14. Len(log') <= Reach'
  BY <1>3, <1>5, <1>8, <1>9 DEF LogInv
<1>15. ASSUME AllSelected
       PROVE  /\ Reach' = Len(log') /\ \A i \in 1..(n + 1) : log'[i].desc = i
              /\ KnownMeansListed'
  <2>1. r = n /\ (\A i \in 1..n : log[i].desc = i) /\ KnownMeansListed
    BY <1>3, <1>8, <1>9, <1>15 DEF LogInv
  <2>2. \A i \in 1..(n + 1) : log'[i].desc = i
    BY <1>2, <1>4, <1>9, <1>10, <2>1
  <2>3. ~line.ok => (line.tag = "KNOWN" <=> Listed(n + 1))
    BY <1>1, <1>2, <1>8 DEF KnownCheck, Listed
  <2>4. \A i \in 1..n : ~log[i].ok => (log[i].tag = "KNOWN" <=> Listed(log[i].desc))
    BY <1>1, <1>9, <2>1 DEF KnownMeansListed, Listed
  <2>5. ASSUME NEW i \in 1..(n + 1), ~log'[i].ok
        PROVE  log'[i].tag = "KNOWN" <=> Listed(log'[i].desc)
    <3>1. CASE i = n + 1
      <4>1. log'[i] = line /\ log'[i].desc = n + 1
        BY <1>9, <2>2, <3>1
      <4> QED BY <2>3, <2>5, <4>1
    <3>2. CASE i \in 1..n
      <4>1. log'[i] = log[i]
        BY <1>9, <3>2
      <4> QED BY <2>4, <2>5, <3>2, <4>1
    <3> QED BY <1>10, <3>1, <3>2
  <2>6. KnownMeansListed'
    BY <1>1, <1>9, <2>5 DEF KnownMeansListed, Listed
  <2> QED BY <1>5, <1>9, <2>1, <2>2, <2>6
<1>16. \A i \in 1..(n + 1) : log'[i].tag = "SKIP" => log'[i].ok
  BY <1>2, <1>9, <1>10 DEF LogInv
<1> QED BY <1>5, <1>6, <1>9, <1>12, <1>13, <1>14, <1>15, <1>16 DEF LogInv

\* Steps of main() that keep the reach
LEMMA ReachKept ==
  ASSUME CallsInv, PlaceInv, [SuiteNext]_suiteVars, ~RunTest, ~LoopContinue
  PROVE  Reach' = Reach
<1> USE DEF CallsInv, PlaceInv, Reach, InHand, Before, Starting, InCategory, Failing, Ending, in_cat,
            Go, Quiet, vars, tapVars, tallyVars, catVars, mainVars, optionVars, loopVars
<1>1. CASE Usage \/ ListCategories \/ ParseOptions \/ SetVerbose \/ SetPage \/ OpenLibrary
  BY <1>1 DEF Usage, ListCategories, ParseOptions, SetVerbose, SetPage, OpenLibrary,
              tap_set_verbose, tap_set_page
<1>2. CASE OpenReport \/ CreateTimerPort \/ CreateTimerRequest \/ OpenTimerDevice
           \/ SelectProfile \/ ConnectHelper
  BY <1>2 DEF OpenReport, CreateTimerPort, CreateTimerRequest, OpenTimerDevice, TimerStep,
              SelectProfile, ConnectHelper, tap_init
<1>3. CASE LoopBreak \/ LoopEnd \/ TestNote \/ CheckBreak \/ CategoryBailed
  BY <1>3 DEF LoopBreak, LoopEnd, TestNote, CheckBreak, CategoryBailed, tap_bail, tap_note
<1>4. CASE LoopBegin
  BY <1>4, CategoryNamed DEF LoopBegin, tap_begin_category
<1>5. CASE CheckPassed
  <2>1. in_cat /\ in_cat' /\ pc = "check" /\ pc' = "test" /\ next' = next + 1 /\ pos' = pos
    BY <1>5 DEF CheckPassed
  <2>2. next \in Nat
    BY <2>1, TableTypes
  <2> QED BY <2>1, <2>2
<1>6. CASE CategoryEnd
  <2>1. /\ in_cat /\ ~in_cat' /\ pc = "return" /\ pos' = pos + 1 /\ next = Table[pos].size
        /\ pos \in 1..Len(Table)
    BY <1>6 DEF CategoryEnd, tap_end_category
  <2>2. Base[pos + 1] = Base[pos] + next /\ Base[pos + 1] \in Nat
    <3>1. pos + 1 \in (pos + 1)..(Len(Table) + 1)
      BY <2>1, TableTypes
    <3> QED BY <2>1, <3>1, BaseSteps, BaseGrows
  <2>3. Reach = Base[pos] + next /\ Reach' = Base[pos + 1] + 0
    BY <2>1
  <2> QED BY <2>2, <2>3
<1>7. CASE Quit \/ Plan \/ PlanNothing \/ BailStartup \/ Finish \/ Cleanup
  BY <1>7 DEF Quit, Plan, PlanNothing, BailStartup, Finish, Cleanup,
              tap_plan, tap_bail, tap_finish
<1>8. CASE Idle
  BY <1>8 DEF Idle
<1> QED BY <1>1, <1>2, <1>3, <1>4, <1>5, <1>6, <1>7, <1>8, SuiteSteps

LEMMA LogStep ==
  TapInv /\ CallsInv /\ PlaceInv /\ LogInv /\ [SuiteNext]_suiteVars => LogInv'
<1> SUFFICES ASSUME TapInv, CallsInv, PlaceInv, LogInv, [SuiteNext]_suiteVars PROVE LogInv'
  OBVIOUS
<1>1. CASE RunTest
  BY <1>1, LogTest
<1>2. CASE LoopContinue
  BY <1>2, LogPassedOver DEF TapInv, TypeOK, TapTypeOK
<1>3. CASE ParseOptions \/ SelectProfile
  BY <1>3, LogEmpty
     DEF ParseOptions, SelectProfile, Go, Quiet, vars, tapVars, tallyVars, catVars, loopVars,
         CallsInv, PlaceInv, Before, Starting, in_cat
<1>4. ASSUME ~RunTest, ~LoopContinue, ~ParseOptions, ~SelectProfile
      PROVE  UNCHANGED <<log, cat_filter, tier_filter, active_profile>>
  <2> USE DEF Quiet, SameProfile, vars, tapVars, tallyVars, mainVars, optionVars
  <2>1. CASE \/ Usage \/ ListCategories \/ SetVerbose \/ SetPage \/ OpenLibrary \/ OpenReport
             \/ CreateTimerPort \/ CreateTimerRequest \/ OpenTimerDevice \/ ConnectHelper
    BY <2>1 DEF Usage, ListCategories, SetVerbose, SetPage, OpenLibrary, OpenReport,
                CreateTimerPort, CreateTimerRequest, OpenTimerDevice, TimerStep, ConnectHelper,
                tap_set_verbose, tap_set_page, tap_init
  <2>2. CASE \/ LoopBreak \/ LoopBegin \/ LoopEnd \/ TestNote \/ CheckBreak \/ CheckPassed
             \/ CategoryBailed \/ CategoryEnd
    BY <2>2 DEF LoopBreak, LoopBegin, LoopEnd, TestNote, CheckBreak, CheckPassed,
                CategoryBailed, CategoryEnd,
                tap_bail, tap_begin_category, tap_note, tap_end_category
  <2>3. CASE Quit \/ Plan \/ PlanNothing \/ BailStartup \/ Finish \/ Cleanup \/ Idle
    BY <2>3 DEF Quit, Plan, PlanNothing, BailStartup, Finish, Cleanup, Idle,
                tap_plan, tap_bail, tap_finish
  <2> QED BY <1>4, <2>1, <2>2, <2>3, SuiteSteps
<1>5. CASE ~RunTest /\ ~LoopContinue /\ ~ParseOptions /\ ~SelectProfile
  BY <1>4, <1>5, ReachKept, LogKept
<1> QED BY <1>1, <1>2, <1>3, <1>5
-----------------------------------------------------------------------------
(***************************************************************************)
(* The invariant is inductive                                              *)
(***************************************************************************)
LEMMA TypesStep ==
  TapInv /\ CallsInv /\ PlaceInv /\ SuiteTypeOK /\ TypeOK' /\ CallsInv' /\ PlaceInv'
  /\ [SuiteNext]_suiteVars => SuiteTypeOK'
<1> SUFFICES ASSUME TapInv, CallsInv, PlaceInv, SuiteTypeOK, TypeOK', CallsInv', PlaceInv',
                    [SuiteNext]_suiteVars
             PROVE  SuiteTypeOK'
  OBVIOUS
<1>1. pos' \in 1..(Len(Table) + 1) /\ (pc' \in {"test", "check"} => next' \in 1..Table[pos'].size)
  BY DEF CallsInv, PlaceInv, InCategory
<1> DEFINE Typed ==
             /\ held' \in SUBSET Resources /\ cat_filter' \in Filters
             /\ tier_filter' \in {{}, {"loopback"}, {"network"}}
             /\ host' \in BOOLEAN /\ connected' \in BOOLEAN
             /\ failed_at' \in {"none", "library", "timer", "helper"}
             /\ ran_any' \in BOOLEAN /\ unknown' \in BOOLEAN
             /\ code' \in {-1, RETURN_OK, RETURN_WARN, RETURN_FAIL}
<1>2. Typed
  <2> USE DEF SuiteTypeOK, mainVars, optionVars, loopVars
  <2>1. CASE \/ Usage \/ ListCategories \/ ParseOptions \/ SetVerbose \/ SetPage
             \/ OpenLibrary \/ OpenReport
    BY <2>1 DEF Usage, ListCategories, ParseOptions, SetVerbose, SetPage, OpenLibrary,
                OpenReport, Resources
  <2>2. CASE CreateTimerPort \/ CreateTimerRequest \/ OpenTimerDevice
    <3>1. \/ held' = held \union {"timer_port"} \/ held' = held \union {"timer_request"}
          \/ held' = held \union {"timer_device"} \/ \E undo : held' = held \ undo
      BY <2>2 DEF CreateTimerPort, CreateTimerRequest, OpenTimerDevice, TimerStep
    <3>2. held' \in SUBSET Resources
      BY <3>1 DEF Resources, Timer
    <3>3. /\ failed_at' \in {"none", "library", "timer", "helper"}
          /\ UNCHANGED <<optionVars, connected, loopVars, code>>
      BY <2>2 DEF CreateTimerPort, CreateTimerRequest, OpenTimerDevice, TimerStep
    <3> QED BY <3>2, <3>3
  <2>3. CASE SelectProfile \/ ConnectHelper
    BY <2>3 DEF SelectProfile, ConnectHelper, Resources
  <2>4. CASE LoopBreak \/ LoopContinue \/ LoopEnd \/ TestNote
    BY <2>4 DEF LoopBreak, LoopContinue, LoopEnd, TestNote
  <2>5. CASE CheckBreak \/ CheckPassed \/ CategoryBailed
    BY <2>5 DEF CheckBreak, CheckPassed, CategoryBailed
  <2>6. CASE CategoryEnd
    BY <2>6 DEF CategoryEnd
  <2>7. CASE LoopBegin
    BY <2>7 DEF LoopBegin
  <2>8. CASE RunTest
    BY <2>8, TestSteps
  <2>9. CASE Plan \/ PlanNothing \/ BailStartup
    BY <2>9 DEF Plan, PlanNothing, BailStartup
  <2>10. CASE Finish \/ Idle
    BY <2>10 DEF Finish, Idle
  <2>11. CASE Quit
    BY <2>11 DEF Quit
  <2>12. CASE Cleanup
    BY <2>12 DEF Cleanup, TypeOK, TapTypeOK
  <2> QED BY <2>1, <2>2, <2>3, <2>4, <2>5, <2>8, <2>9, <2>12, <2>6, <2>7, <2>10, <2>11, SuiteSteps
<1> QED BY <1>1, <1>2 DEF SuiteTypeOK

LEMMA SuiteStart == SuiteInit => TapInv /\ SuiteInv
<1> SUFFICES ASSUME SuiteInit PROVE TapInv /\ SuiteInv
  OBVIOUS
<1>1. TapInit /\ TapInv
  BY StartType, AccountsStart, OrderStart DEF SuiteInit, TapInv
<1>2. /\ pc = "args" /\ stage = "unused" /\ log = <<>> /\ plan = -1 /\ ~bailed_out /\ ~in_cat
      /\ ~logfp
  BY <1>1 DEF SuiteInit, TapInit, TapStart, in_cat
<1>3. Len(Table) \in Nat
  BY TableTypes
<1>4. SuiteTypeOK
  <2>1. TypeOK /\ pos = 1 /\ pos \in 1..(Len(Table) + 1)
    BY <1>1, <1>3 DEF SuiteInit, TapInv
  <2> QED BY <1>2, <2>1, SuiteAssumption DEF SuiteInit, SuiteTypeOK
<1>5. CallsInv
  BY <1>2 DEF CallsInv, Places, Before, Starting, InCategory, Failing, Ending
<1>6. CodeInv
  BY <1>2 DEF SuiteInit, CodeInv, Failing
<1>7. PlaceInv
  BY <1>2, <1>3 DEF SuiteInit, PlaceInv, Reporting, Ending
<1>8. HeldInv
  BY <1>2 DEF SuiteInit, HeldInv, InCategory
<1>9. LogInv
  <2>1. Reach = 0
    BY <1>2, BaseSteps DEF SuiteInit, Reach, InHand
  <2>2. {d \in Selected : d <= Reach} = {} /\ Reported = {} /\ DOMAIN log = {} /\ Len(log) = 0
    <3>1. {d \in Selected : d <= Reach} = {}
      <4> SUFFICES ASSUME NEW d \in Selected PROVE ~(d <= Reach)
        OBVIOUS
      <4>1. d \in Nat \ {0}
        BY SelectedNumbers
      <4> QED BY <2>1, <4>1
    <3> QED BY <1>2, <3>1 DEF Reported
  <2> QED BY <1>2, <2>1, <2>2 DEF LogInv, KnownMeansListed
<1> QED BY <1>1, <1>4, <1>5, <1>6, <1>7, <1>8, <1>9 DEF SuiteInv

LEMMA SuiteStep == TapInv /\ SuiteInv /\ [SuiteNext]_suiteVars => TapInv' /\ SuiteInv'
<1> SUFFICES ASSUME TapInv, SuiteInv, [SuiteNext]_suiteVars PROVE TapInv' /\ SuiteInv'
  OBVIOUS
<1>1. [TapNext]_vars
  BY ContractStep DEF SuiteInv
<1>2. TapInv'
  BY <1>1, TypeStep, AccountsStep, OrderStep DEF TapInv, AccountsInv
<1>3. CallsInv' /\ CodeInv' /\ PlaceInv' /\ HeldInv' /\ LogInv'
  BY CallsStep, CodeStep, PlaceStep, HeldStep, LogStep DEF SuiteInv
<1>4. SuiteTypeOK'
  BY <1>2, <1>3, TypesStep DEF SuiteInv, TapInv
<1> QED BY <1>2, <1>3, <1>4 DEF SuiteInv

LEMMA SuiteAlways == SuiteSpec => [](TapInv /\ SuiteInv)
  BY SuiteStart, SuiteStep, PTL DEF SuiteSpec
-----------------------------------------------------------------------------
(***************************************************************************)
(* Every variable of main() keeps its type, for any table and options; the *)
(* test in hand is always one of its category.                             *)
(***************************************************************************)
THEOREM SuiteTypes == SuiteSpec => []SuiteTypeOK
<1>1. SuiteInv => SuiteTypeOK
  BY DEF SuiteInv
<1> QED BY <1>1, SuiteAlways, PTL

(***************************************************************************)
(* main() keeps the reporter's calling contract, whatever fails, is typed  *)
(* or is selected: so all that is proved of the reporter under TapSpec     *)
(* holds in a run of the program.                                          *)
(***************************************************************************)
THEOREM ContractKept == SuiteSpec => KeepsContract
<1>1. SuiteInit => TapInit
  BY DEF SuiteInit
<1>2. TapInv /\ SuiteInv /\ [SuiteNext]_suiteVars => [TapNext]_vars
  BY ContractStep DEF SuiteInv
<1> QED BY <1>1, <1>2, SuiteAlways, PTL DEF SuiteSpec, KeepsContract, TapSpec

(***************************************************************************)
(* A run of the program keeps the promise of module Report: its results    *)
(* and its return code are those of the verdicts it logged.                *)
(***************************************************************************)
THEOREM SuiteReportKept == SuiteSpec => KeepsPromise
  BY ContractKept, ReportKept, PTL DEF KeepsContract

(***************************************************************************)
(* Every exit of main() has released all that the run acquired: what is    *)
(* held at each place is known exactly, and each failure exit releases     *)
(* exactly what its place holds.                                           *)
(***************************************************************************)
THEOREM ExitAlwaysClean == SuiteSpec => []CleanExit
<1>1. SuiteInv => CleanExit
  BY DEF SuiteInv, CallsInv, CodeInv, HeldInv, CleanExit
<1> QED BY <1>1, SuiteAlways, PTL

(***************************************************************************)
(* A line states an unexpected failure exactly when the counter of failed  *)
(* tests is not 0.                                                         *)
(***************************************************************************)
LEMMA FailuresCounted ==
  TapInv /\ LogInv => (UnexpectedFailure <=> count["failed"] > 0)
<1> SUFFICES ASSUME TapInv, LogInv
             PROVE  UnexpectedFailure <=> count["failed"] > 0
  OBVIOUS
<1>1. log \in Seq(LogLines)
  BY DEF TapInv, TypeOK, TapTypeOK
<1>2. count["failed"] = Cardinality(LinesWith("failed"))
  BY DEF TapInv, Accounts, CountersMatchLog, Logged
<1>3. IsFiniteSet(LinesWith("failed"))
  BY <1>1, LinesFinite
<1>4. Cardinality(LinesWith("failed")) \in Nat
      /\ (Cardinality(LinesWith("failed")) = 0 <=> LinesWith("failed") = {})
  BY <1>3, FS_CardinalityType, FS_EmptySet
<1>5. \A i \in DOMAIN log : log[i].tag = "SKIP" => log[i].ok
  BY DEF LogInv
<1>6. ASSUME NEW i \in DOMAIN log
      PROVE  VerdictOf(log[i]) = "failed" <=> (~log[i].ok /\ log[i].tag # "KNOWN")
  BY <1>5 DEF VerdictOf
<1>7. UnexpectedFailure <=> LinesWith("failed") # {}
  BY <1>6 DEF UnexpectedFailure, LinesWith
<1> QED BY <1>2, <1>4, <1>7

(***************************************************************************)
(* The plan of every finished run counts the lines of the log, and its     *)
(* return code is the documented one: 20 exactly for a bail-out, 5 exactly *)
(* when there was none and a line states an unexpected failure, else 0.    *)
(***************************************************************************)
THEOREM ExitAlwaysDocumented == SuiteSpec => []ExitDocumented
<1>1. TapInv /\ SuiteInv => ExitDocumented
  <2> SUFFICES ASSUME TapInv, SuiteInv, pc = "done", stage = "finished"
               PROVE  /\ plan = Len(log)
                      /\ failed_at # "none" => bailed_out /\ log = <<>>
                      /\ code = IF bailed_out THEN RETURN_FAIL
                                ELSE IF UnexpectedFailure THEN RETURN_WARN ELSE RETURN_OK
    BY DEF ExitDocumented
  <2>1. /\ plan = Len(log) /\ code = ReturnCode
        /\ failed_at # "none" => bailed_out /\ log = <<>>
    BY DEF SuiteInv, CallsInv, CodeInv
  <2>2. UnexpectedFailure <=> count["failed"] > 0
    BY FailuresCounted DEF SuiteInv
  <2> QED BY <2>1, <2>2 DEF ReturnCode
<1> QED BY <1>1, SuiteAlways, PTL

(***************************************************************************)
(* Every run reports the tests of the selected categories, each once and   *)
(* in the table's order, up to the one it has come to, and all of them     *)
(* unless it bails out.                                                    *)
(***************************************************************************)
THEOREM SelectedAlwaysRun == SuiteSpec => []RunsExactlySelected
<1>1. TapInv /\ SuiteInv => RunsExactlySelected
  <2> SUFFICES ASSUME TapInv, SuiteInv PROVE RunsExactlySelected
    OBVIOUS
  <2>1. /\ Reported = {d \in Selected : d <= Reach}
        /\ \A i, j \in DOMAIN log : i < j => log[i].desc < log[j].desc
    BY DEF SuiteInv, LogInv
  <2>2. PICK b \in Nat : b = Base[pos]
    <3>1. Len(Table) \in Nat /\ pos \in 1..(Len(Table) + 1)
      BY TableTypes DEF SuiteInv, PlaceInv
    <3>2. CASE pos = 1
      BY <3>2, BaseSteps
    <3>3. CASE pos # 1
      <4>1. pos - 1 \in 1..Len(Table) /\ pos \in ((pos - 1) + 1)..(Len(Table) + 1)
        BY <3>1, <3>3
      <4> QED BY <4>1, BaseGrows
    <3> QED BY <3>2, <3>3
  <2>3. Reach \in Int
    <3>1. in_cat => next \in Nat
      BY TableTypes DEF SuiteInv, PlaceInv
    <3> QED BY <2>2, <3>1 DEF Reach, InHand
  <2>4. \A d \in Selected \ Reported : \A e \in Reported : e < d
    BY <2>1, <2>3, SelectedNumbers
  <2>5. ASSUME pc = "done", stage = "finished", ~bailed_out, NEW d \in Selected
        PROVE  d <= Reach
    <3>1. pos = Len(Table) + 1 /\ ~in_cat /\ Len(Table) \in Nat
      BY <2>5, TableTypes DEF SuiteInv, PlaceInv, Reporting
    <3>2. Reach = Base[Len(Table) + 1]
      BY <2>2, <3>1 DEF Reach, InHand
    <3>3. PICK c \in 1..Len(Table) : d \in NumbersOf(c)
      BY DEF Selected
    <3>4. d \in Nat /\ d <= Base[c + 1] /\ Base[c + 1] = Base[c] + Table[c].size
      BY <3>3, NumbersBetween, BaseSteps
    <3>5. Len(Table) + 1 \in (c + 1)..(Len(Table) + 1)
      BY <3>1
    <3>6. Base[c] + Table[c].size <= Base[Len(Table) + 1] /\ Base[Len(Table) + 1] \in Nat
      BY <3>5, BaseGrows
    <3>7. Base[c + 1] \in Nat
      BY <3>3, NumbersBetween
    <3> QED BY <3>2, <3>4, <3>6, <3>7
  <2> QED BY <2>1, <2>4, <2>5 DEF RunsExactlySelected
<1> QED BY <1>1, SuiteAlways, PTL

(***************************************************************************)
(* When every category is selected the number in the log is the documented *)
(* one, whatever the tests do and wherever the run is cut short.           *)
(***************************************************************************)
THEOREM NumbersAlwaysStable == SuiteSpec => []StableNumbers
<1>1. TapInv /\ SuiteInv => StableNumbers
  BY DEF TapInv, Accounts, CountersMatchLog, SuiteInv, LogInv, StableNumbers
<1> QED BY <1>1, SuiteAlways, PTL

(***************************************************************************)
(* When every category is selected a failure is annotated KNOWN exactly    *)
(* when the selected profile lists that test, for any table of profiles.   *)
(***************************************************************************)
THEOREM KnownAlwaysListed == SuiteSpec => []KnownMeansListedWhenAllRun
<1>1. SuiteInv => KnownMeansListedWhenAllRun
  BY DEF SuiteInv, LogInv, KnownMeansListedWhenAllRun
<1> QED BY <1>1, SuiteAlways, PTL
-----------------------------------------------------------------------------
(***************************************************************************)
(* The unknown category                                                    *)
(***************************************************************************)
\* main() has passed the diagnosis
Diagnosed == pc \in {"plan", "finish", "cleanup"} \/ (pc = "done" /\ stage = "finished")

\* The mark says whether a category that should run has been begun
MarkInv ==
    /\ ran_any => \E c \in 1..Len(Table) : ShouldRun(c)
    /\ ~ran_any => ~in_cat /\ \A c \in 1..Len(Table) : c < pos => ~ShouldRun(c)
    /\ pc \in Before \union Starting \union Failing => ~ran_any
    /\ unknown => Diagnosed /\ ~ran_any /\ cat_filter # NoFilter
    /\ Diagnosed /\ failed_at = "none" /\ cat_filter # NoFilter /\ ~ran_any => unknown

LEMMA MarkStep ==
  CallsInv /\ CodeInv /\ PlaceInv /\ MarkInv /\ [SuiteNext]_suiteVars => MarkInv'
<1> SUFFICES ASSUME CallsInv, CodeInv, PlaceInv, MarkInv, [SuiteNext]_suiteVars
             PROVE  MarkInv'
  OBVIOUS
<1> USE DEF CallsInv, CodeInv, MarkInv, Diagnosed, ShouldRun, Before, Starting, Failing, InCategory,
            in_cat, Go, Quiet, SameProfile, vars, tapVars, tallyVars, catVars, endVars,
            mainVars, optionVars, loopVars
<1>1. CASE \/ Usage \/ ListCategories \/ ParseOptions \/ SetVerbose \/ SetPage
           \/ OpenLibrary \/ OpenReport
  BY <1>1 DEF Usage, ListCategories, ParseOptions, SetVerbose, SetPage, OpenLibrary, OpenReport,
              tap_set_verbose, tap_set_page, tap_init, PlaceInv
<1>2. CASE CreateTimerPort \/ CreateTimerRequest \/ OpenTimerDevice \/ SelectProfile
           \/ ConnectHelper
  BY <1>2 DEF CreateTimerPort, CreateTimerRequest, OpenTimerDevice, TimerStep, SelectProfile,
              ConnectHelper
<1>3. CASE LoopBreak \/ LoopEnd \/ TestNote \/ CheckBreak \/ CheckPassed \/ CategoryBailed
  BY <1>3 DEF LoopBreak, LoopEnd, TestNote, CheckBreak, CheckPassed, CategoryBailed,
              tap_bail, tap_note
<1>4. CASE LoopContinue
  <2>1. ~ran_any => \A c \in 1..Len(Table) : c < pos + 1 => ~ShouldRun(c)
    BY <1>4, TableTypes DEF LoopContinue, PlaceInv
  <2> QED BY <1>4, <2>1 DEF LoopContinue
<1>5. CASE LoopBegin
  <2>1. ran_any' /\ ~unknown' /\ pc' = "test" /\ UNCHANGED <<optionVars, failed_at>>
    BY <1>5 DEF LoopBegin
  <2>2. pos \in 1..Len(Table) /\ ShouldRun(pos)
    BY <1>5, TableTypes DEF LoopBegin, PlaceInv
  <2> QED BY <2>1, <2>2
<1>6. CASE CategoryEnd
  <2>1. ran_any
    BY <1>6 DEF CategoryEnd
  <2> QED BY <1>6, <2>1 DEF CategoryEnd, tap_end_category
<1>7. CASE RunTest
  <2>1. /\ pc = "test" /\ pc' \in {"check", "return"}
        /\ UNCHANGED <<stage, current_category, cat_filter, tier_filter, failed_at,
                       ran_any, unknown, pos>>
    BY <1>7, TestSteps
  <2> QED BY <2>1
<1>8. CASE Quit
  BY <1>8 DEF Quit
<1>9. CASE Plan \/ PlanNothing
  BY <1>9 DEF Plan, PlanNothing, tap_plan
<1>10. CASE BailStartup \/ Finish
  BY <1>10 DEF BailStartup, Finish, tap_bail, tap_finish
<1>11. CASE Cleanup \/ Idle
  BY <1>11 DEF Cleanup, Idle
<1> QED BY <1>1, <1>2, <1>3, <1>4, <1>5, <1>6, <1>7, <1>8, <1>9, <1>10, <1>11, SuiteSteps

(***************************************************************************)
(* For any table, options and failures: an uninterrupted run calls a       *)
(* category unknown exactly when the table has none of that name, because  *)
(* then and only then it has begun none.                                   *)
(***************************************************************************)
THEOREM UnknownAlwaysDiagnosed == SuiteSpec => []UnknownDiagnosed
<1>1. SuiteInit => MarkInv
  BY TableTypes DEF SuiteInit, MarkInv, TapInit, TapStart, in_cat, Diagnosed, Before, Starting,
                    Failing
<1>2. TapInv /\ SuiteInv /\ MarkInv /\ [SuiteNext]_suiteVars => MarkInv'
  BY MarkStep DEF SuiteInv
<1>3. SuiteInv /\ MarkInv => UnknownDiagnosed
  <2> SUFFICES ASSUME SuiteInv, MarkInv PROVE UnknownDiagnosed
    OBVIOUS
  <2>1. ASSUME unknown PROVE cat_filter # NoFilter /\ (Named = {} \/ bailed_out)
    <3>1. cat_filter # NoFilter /\ ~ran_any /\ Reporting
      BY <2>1 DEF MarkInv, Diagnosed, Reporting, Ending
    <3>2. ASSUME ~bailed_out PROVE Named = {}
      <4>1. pos = Len(Table) + 1 /\ Len(Table) \in Nat
        BY <3>1, <3>2, TableTypes DEF SuiteInv, PlaceInv
      <4> QED BY <3>1, <4>1 DEF MarkInv, Named, ShouldRun
    <3> QED BY <3>1, <3>2
  <2>2. ASSUME pc = "done", stage = "finished", failed_at = "none", cat_filter # NoFilter, Named = {}
        PROVE  unknown
    <3>1. ~ran_any
      BY <2>2 DEF MarkInv, Named, ShouldRun
    <3> QED BY <2>2, <3>1 DEF MarkInv, Diagnosed
  <2> QED BY <2>1, <2>2 DEF UnknownDiagnosed
<1> QED BY <1>1, <1>2, <1>3, SuiteAlways, PTL DEF SuiteSpec
-----------------------------------------------------------------------------
(***************************************************************************)
(* In the table the program is built with every test that a profile lists  *)
(* as crashing asks known_crash() before it runs.                          *)
(***************************************************************************)
Real == INSTANCE Catalogue

THEOREM RealCrashesGuarded ==
  \A p \in DOMAIN Real!RealProfiles : Real!RealProfiles[p].crashes \subseteq Real!AskKnownCrash
<1> USE DEF Real!AskKnownCrash, Real!WaitselectGuarded, Real!SignalsGuarded
<1>1. DOMAIN Real!RealProfiles = 1..4
  BY DEF Real!RealProfiles
<1>2. /\ Real!RealProfiles[1].crashes = {}
      /\ Real!RealProfiles[2].crashes = {70} \union 79..85 \union {87}
      /\ Real!RealProfiles[3].crashes = {}
      /\ Real!RealProfiles[4].crashes = 79..85 \union {87}
  BY DEF Real!RealProfiles, Real!RoadshowProfile, Real!Amiberry711Profile, Real!WinUAEProfile
<1>3. \A p \in 1..4 : p = 1 \/ p = 2 \/ p = 3 \/ p = 4
  OBVIOUS
<1> QED BY <1>1, <1>2, <1>3
=============================================================================
