-------------------------- MODULE TapCounterProofs --------------------------
(***************************************************************************)
(* The counters and the log agree in every run of the reporter.  The       *)
(* invariants CountersMatchLog and ScreenMatchesLog are inductive together *)
(* with the types and with UnusedIsFresh: tap_init resets the counters but *)
(* not the history `log`, so they agree afterwards only because nothing    *)
(* was logged before it.                                                   *)
(***************************************************************************)
EXTENDS TapProofs

Accounts    == UnusedIsFresh /\ CountersMatchLog /\ ScreenMatchesLog
AccountsInv == TypeOK /\ Accounts
-----------------------------------------------------------------------------
(***************************************************************************)
(* Counting the lines of a sequence that state a verdict                   *)
(***************************************************************************)
LEMMA LinesFinite ==
  ASSUME NEW v, log \in Seq(LogLines)
  PROVE  IsFiniteSet(LinesWith(v)) /\ LinesWith(v) \subseteq 1..Len(log) /\ Logged(v) \in Nat
<1>1. Len(log) \in Nat /\ DOMAIN log = 1..Len(log)
  BY LenProperties
<1>2. LinesWith(v) \subseteq 1..Len(log)
  BY <1>1 DEF LinesWith
<1>3. IsFiniteSet(1..Len(log))
  BY <1>1, FS_Interval
<1>4. IsFiniteSet(LinesWith(v))
  BY <1>2, <1>3, FS_Subset
<1> QED BY <1>2, <1>4, FS_CardinalityType DEF Logged

LEMMA NothingLogged ==
  ASSUME NEW v, log = <<>>
  PROVE  Logged(v) = 0
<1>1. LinesWith(v) = {}
  BY DEF LinesWith
<1> QED BY <1>1, FS_EmptySet DEF Logged

\* Logging a line counts it under its own verdict and no other
LEMMA LoggedAppend ==
  ASSUME log \in Seq(LogLines), NEW line \in LogLines, log' = Append(log, line), NEW v
  PROVE  Logged(v)' = IF VerdictOf(line) = v THEN Logged(v) + 1 ELSE Logged(v)
<1> DEFINE n == Len(log) + 1
<1>1. Len(log) \in Nat /\ DOMAIN log = 1..Len(log)
  BY LenProperties
<1>2. /\ DOMAIN log' = 1..n
      /\ log'[n] = line
      /\ \A i \in 1..Len(log) : log'[i] = log[i]
  BY <1>1
<1>3. LinesWith(v)' = {i \in 1..n : VerdictOf(log'[i]) = v}
  BY <1>2 DEF LinesWith
<1>4. LinesWith(v) = {i \in 1..Len(log) : VerdictOf(log[i]) = v}
  BY <1>1 DEF LinesWith
<1>5. n \notin LinesWith(v) /\ 1..n = (1..Len(log)) \union {n}
  BY <1>1, <1>4
<1>6. CASE VerdictOf(line) = v
  <2>1. LinesWith(v)' = LinesWith(v) \union {n}
    BY <1>2, <1>3, <1>4, <1>5, <1>6
  <2>2. Cardinality(LinesWith(v) \union {n}) = Cardinality(LinesWith(v)) + 1
    BY <1>5, LinesFinite, FS_AddElement
  <2> QED BY <1>6, <2>1, <2>2 DEF Logged
<1>7. CASE VerdictOf(line) # v
  <2>1. LinesWith(v)' = LinesWith(v)
    BY <1>2, <1>3, <1>4, <1>5, <1>7
  <2> QED BY <1>7, <2>1 DEF Logged
<1> QED BY <1>6, <1>7

LEMMA LoggedSame ==
  ASSUME NEW v, UNCHANGED log
  PROVE  Logged(v)' = Logged(v)
  BY DEF Logged, LinesWith

\* A test's line states the verdict that tap_ok counts
LEMMA LineVerdict ==
  ASSUME NEW n, NEW desc, NEW passed \in BOOLEAN
  PROVE  VerdictOf(LogLine(n, desc, passed)) = Verdict(passed, n)
  BY DEF VerdictOf, LogLine, Verdict
-----------------------------------------------------------------------------
(***************************************************************************)
(* The invariant is inductive                                              *)
(***************************************************************************)
LEMMA AccountsStart == TapInit => Accounts
<1> SUFFICES ASSUME TapInit PROVE Accounts
  OBVIOUS
<1>1. log = <<>> /\ test_number = 0 /\ count = Zero /\ screen = Zero /\ ~in_cat
  BY DEF TapInit, TapStart, in_cat
<1>2. \A v : Logged(v) = 0
  BY <1>1, NothingLogged
<1>3. CountersMatchLog
  BY <1>1, <1>2 DEF CountersMatchLog, Zero, Verdicts
<1>4. ScreenMatchesLog
  BY <1>1, <1>2 DEF ScreenMatchesLog, OpenTally, Zero
<1> QED BY <1>1, <1>3, <1>4 DEF Accounts, UnusedIsFresh

\* Calls that touch neither the counters, the log nor the open category
LEMMA AccountsKept ==
  ASSUME AccountsInv, UNCHANGED <<test_number, count, log, screen, cat, current_category>>,
         stage' = "unused" => stage = "unused"
  PROVE  Accounts'
<1>1. \A v : Logged(v)' = Logged(v)
  BY LoggedSame
<1>2. CountersMatchLog'
  BY <1>1 DEF AccountsInv, Accounts, CountersMatchLog
<1>3. ScreenMatchesLog'
  BY <1>1 DEF AccountsInv, Accounts, ScreenMatchesLog, OpenTally, in_cat
<1> QED BY <1>2, <1>3 DEF AccountsInv, Accounts, UnusedIsFresh, in_cat

LEMMA AccountsOpened ==
  ASSUME AccountsInv, tap_init
  PROVE  Accounts'
<1>1. log' = <<>> /\ test_number' = 0 /\ count' = Zero /\ screen' = Zero /\ ~in_cat'
  BY DEF AccountsInv, Accounts, UnusedIsFresh, tap_init, in_cat
<1>2. \A v : Logged(v)' = 0
  <2> SUFFICES ASSUME NEW v PROVE Logged(v)' = 0
    OBVIOUS
  <2>1. LinesWith(v)' = {}
    BY <1>1 DEF LinesWith
  <2> QED BY <2>1, FS_EmptySet DEF Logged
<1>3. CountersMatchLog'
  BY <1>1, <1>2 DEF CountersMatchLog, Zero, Verdicts
<1>4. ScreenMatchesLog'
  BY <1>1, <1>2 DEF ScreenMatchesLog, OpenTally, Zero
<1> QED BY <1>1, <1>3, <1>4 DEF Accounts, UnusedIsFresh

\* One line more in the log, numbered by the running number
LEMMA NumbersKept ==
  ASSUME log \in Seq(LogLines), test_number = Len(log),
         \A i \in DOMAIN log : log[i].num = i,
         NEW line \in LogLines, line.num = test_number + 1, log' = Append(log, line),
         test_number' = test_number + 1
  PROVE  test_number' = Len(log') /\ \A i \in DOMAIN log' : log'[i].num = i
<1>1. Len(log) \in Nat /\ DOMAIN log = 1..Len(log)
  BY LenProperties
<1>2. Len(log') = Len(log) + 1 /\ DOMAIN log' = 1..(Len(log) + 1)
  BY <1>1
<1>3. ASSUME NEW i \in 1..(Len(log) + 1)
      PROVE  log'[i].num = i
  <2>1. CASE i = Len(log) + 1
    BY <1>1, <2>1
  <2>2. CASE i \in 1..Len(log)
    <3>1. log'[i] = log[i]
      BY <1>1, <2>2
    <3> QED BY <1>1, <2>2, <3>1
  <2> QED BY <1>1, <2>1, <2>2
<1> QED BY <1>2, <1>3

LEMMA AccountsTest ==
  ASSUME AccountsInv, stage = "open", in_cat,
         NEW desc \in Tests, NEW passed \in BOOLEAN, tap_ok(passed, desc)
  PROVE  Accounts'
<1> DEFINE n    == test_number + 1
           v    == Verdict(passed, n)
           line == LogLine(n, desc, passed)
<1>1. /\ log \in Seq(LogLines) /\ count \in Tallies /\ cat \in Tallies /\ n \in Nat
      /\ screen \in Tallies
  BY DEF AccountsInv, TypeOK, TapTypeOK
<1>2. v \in Verdicts /\ line \in LogLines /\ line.num = n /\ VerdictOf(line) = v
  BY <1>1, VerdictType, LogLineType, LineVerdict DEF LogLine
<1>3. \A w : Logged(w) \in Nat /\ Logged(w)' = IF w = v THEN Logged(w) + 1 ELSE Logged(w)
  BY <1>1, <1>2, LoggedAppend, LinesFinite DEF tap_ok
<1>4. \A w \in Verdicts : /\ count'[w] = IF w = v THEN count[w] + 1 ELSE count[w]
                          /\ cat'[w] = IF w = v THEN cat[w] + 1 ELSE cat[w]
  BY <1>1, <1>2, BumpType DEF tap_ok
<1>5. test_number' = Len(log') /\ \A i \in DOMAIN log' : log'[i].num = i
  BY <1>1, <1>2, NumbersKept DEF AccountsInv, Accounts, CountersMatchLog, tap_ok
<1>6. CountersMatchLog'
  <2>1. \A w \in {"failed", "known", "skipped"} : count'[w] = Logged(w)'
    BY <1>3, <1>4 DEF AccountsInv, Accounts, CountersMatchLog, Verdicts
  <2>2. v # "skipped"
    BY DEF Verdict
  <2>3. count'["passed"] = Logged("passed")' + Logged("skipped")'
    BY <1>3, <1>4, <2>2 DEF AccountsInv, Accounts, CountersMatchLog, Verdicts
  <2> QED BY <1>5, <2>1, <2>3 DEF CountersMatchLog
<1>7. ScreenMatchesLog'
  <2>1. in_cat' /\ screen' = screen
    BY DEF tap_ok, in_cat
  <2>2. \A w \in Verdicts : screen[w] + cat[w] = Logged(w) /\ screen[w] \in Nat /\ cat[w] \in Nat
    BY <1>1 DEF AccountsInv, Accounts, ScreenMatchesLog, OpenTally, Tallies
  <2>3. \A w \in Verdicts : screen'[w] + cat'[w] = Logged(w)'
    BY <1>3, <1>4, <2>1, <2>2
  <2> QED BY <2>1, <2>3 DEF ScreenMatchesLog, OpenTally
<1> QED BY <1>6, <1>7 DEF Accounts, UnusedIsFresh, tap_ok

LEMMA AccountsSkip ==
  ASSUME AccountsInv, stage = "open", in_cat, NEW desc \in Tests, tap_skip(desc)
  PROVE  Accounts'
<1> DEFINE line == [num |-> test_number + 1, desc |-> desc, ok |-> TRUE, tag |-> "SKIP"]
<1>1. /\ log \in Seq(LogLines) /\ count \in Tallies /\ cat \in Tallies /\ test_number \in Nat
      /\ screen \in Tallies
  BY DEF AccountsInv, TypeOK, TapTypeOK
<1>2. line \in LogLines /\ line.num = test_number + 1 /\ VerdictOf(line) = "skipped"
  BY <1>1 DEF LogLines, VerdictOf
<1>3. \A w : Logged(w) \in Nat /\ Logged(w)' = IF w = "skipped" THEN Logged(w) + 1 ELSE Logged(w)
  BY <1>1, <1>2, LoggedAppend, LinesFinite DEF tap_skip
<1>4. \A w \in Verdicts :
        /\ count'[w] = IF w \in {"passed", "skipped"} THEN count[w] + 1 ELSE count[w]
        /\ cat'[w] = IF w = "skipped" THEN cat[w] + 1 ELSE cat[w]
  <2>1. "passed" \in Verdicts /\ "skipped" \in Verdicts
    BY DEF Verdicts
  <2>2. /\ Bump(count, "passed") \in Tallies
        /\ \A w \in Verdicts : Bump(count, "passed")[w] = IF w = "passed" THEN count[w] + 1 ELSE count[w]
    BY <1>1, <2>1, BumpType
  <2>3. \A w \in Verdicts : count'[w] = IF w = "skipped" THEN Bump(count, "passed")[w] + 1
                                       ELSE Bump(count, "passed")[w]
    BY <2>1, <2>2, BumpType DEF tap_skip
  <2>4. \A w \in Verdicts : cat'[w] = IF w = "skipped" THEN cat[w] + 1 ELSE cat[w]
    BY <1>1, <2>1, BumpType DEF tap_skip
  <2> QED BY <2>2, <2>3, <2>4
<1>5. test_number' = Len(log') /\ \A i \in DOMAIN log' : log'[i].num = i
  BY <1>1, <1>2, NumbersKept DEF AccountsInv, Accounts, CountersMatchLog, tap_skip
<1>6. CountersMatchLog'
  <2>1. \A w \in {"failed", "known", "skipped"} : count'[w] = Logged(w)'
    BY <1>3, <1>4 DEF AccountsInv, Accounts, CountersMatchLog, Verdicts
  <2>2. count'["passed"] = Logged("passed")' + Logged("skipped")'
    BY <1>3, <1>4 DEF AccountsInv, Accounts, CountersMatchLog, Verdicts
  <2> QED BY <1>5, <2>1, <2>2 DEF CountersMatchLog
<1>7. ScreenMatchesLog'
  <2>1. in_cat' /\ screen' = screen
    BY DEF tap_skip, in_cat
  <2>2. \A w \in Verdicts : screen[w] + cat[w] = Logged(w) /\ screen[w] \in Nat /\ cat[w] \in Nat
    BY <1>1 DEF AccountsInv, Accounts, ScreenMatchesLog, OpenTally, Tallies
  <2>3. \A w \in Verdicts : screen'[w] + cat'[w] = Logged(w)'
    BY <1>3, <1>4, <2>1, <2>2
  <2> QED BY <2>1, <2>3 DEF ScreenMatchesLog, OpenTally
<1> QED BY <1>6, <1>7 DEF Accounts, UnusedIsFresh, tap_skip

LEMMA AccountsBegin ==
  ASSUME AccountsInv, stage = "open", ~in_cat, NEW name \in Categories, tap_begin_category(name)
  PROVE  Accounts'
<1>1. \A v : Logged(v)' = Logged(v)
  BY LoggedSame DEF tap_begin_category, tallyVars
<1>2. CountersMatchLog'
  BY <1>1 DEF AccountsInv, Accounts, CountersMatchLog, tap_begin_category, tallyVars
<1>3. \A v \in Verdicts : OpenTally(v) = 0 /\ OpenTally(v)' = 0
  BY DEF OpenTally, tap_begin_category, Zero
<1>4. ScreenMatchesLog'
  BY <1>1, <1>3 DEF AccountsInv, Accounts, ScreenMatchesLog, tap_begin_category
<1> QED BY <1>2, <1>4 DEF Accounts, UnusedIsFresh, tap_begin_category

\* The counts of the category move to the screen's
LEMMA AccountsEnd ==
  ASSUME AccountsInv, stage = "open", in_cat, tap_end_category
  PROVE  Accounts'
<1>1. \A v : Logged(v)' = Logged(v)
  BY LoggedSame DEF tap_end_category, tallyVars
<1>2. CountersMatchLog'
  BY <1>1 DEF AccountsInv, Accounts, CountersMatchLog, tap_end_category, tallyVars
<1>3. ~in_cat'
  BY DEF tap_end_category, in_cat
<1>4. \A v \in Verdicts : screen'[v] = screen[v] + cat[v] /\ screen'[v] \in Nat
  BY DEF AccountsInv, TypeOK, TapTypeOK, Tallies, tap_end_category, WithCategory
<1>5. \A v \in Verdicts : screen[v] + cat[v] = Logged(v)
  BY DEF AccountsInv, Accounts, ScreenMatchesLog, OpenTally
<1>6. ScreenMatchesLog'
  BY <1>1, <1>3, <1>4, <1>5 DEF ScreenMatchesLog, OpenTally
<1> QED BY <1>2, <1>6 DEF Accounts, UnusedIsFresh, tap_end_category

\* One step per action of the calling contract
LEMMA AccountsStep == AccountsInv /\ [TapNext]_vars => Accounts'
<1> SUFFICES ASSUME AccountsInv, [TapNext]_vars PROVE Accounts'
  OBVIOUS
<1> DEFINE Kept == /\ UNCHANGED <<test_number, count, log, screen, cat, current_category>>
                   /\ stage' = "unused" => stage = "unused"
<1>1. CASE UseOptions
  <2>1. Kept
    BY <1>1 DEF UseOptions, tap_set_verbose, tap_set_page, tapVars, tallyVars, catVars
  <2> QED BY <2>1, AccountsKept
<1>2. CASE tap_init
  BY <1>2, AccountsOpened
<1>3. CASE UseTest
  <2>1. PICK desc \in Tests :
          (\E passed \in BOOLEAN : tap_ok(passed, desc)) \/ tap_skip(desc)
    BY <1>3 DEF UseTest
  <2>2. stage = "open" /\ in_cat
    BY <1>3 DEF UseTest, Open
  <2>3. CASE \E passed \in BOOLEAN : tap_ok(passed, desc)
    BY <2>2, <2>3, AccountsTest
  <2>4. CASE tap_skip(desc)
    BY <2>2, <2>4, AccountsSkip
  <2> QED BY <2>1, <2>3, <2>4
<1>4. CASE UseNote
  <2>1. Kept
    BY <1>4 DEF UseNote, tap_note, tallyVars
  <2> QED BY <2>1, AccountsKept
<1>5. CASE UseBegin
  BY <1>5, AccountsBegin DEF UseBegin, Open
<1>6. CASE UseEnd
  BY <1>6, AccountsEnd DEF UseEnd, Open
<1>7. CASE UseBail
  <2>1. Kept
    BY <1>7 DEF UseBail, tap_bail, tallyVars, catVars
  <2> QED BY <2>1, AccountsKept
<1>8. CASE UsePlan
  <2>1. Kept
    BY <1>8 DEF UsePlan, tap_plan, tallyVars, catVars
  <2> QED BY <2>1, AccountsKept
<1>9. CASE UseFinish
  <2>1. Kept
    BY <1>9 DEF UseFinish, tap_finish, tallyVars, catVars
  <2> QED BY <2>1, AccountsKept
<1>10. CASE UsePager
  <2>1. Kept
    BY <1>10 DEF UsePager, tapVars, tallyVars, catVars
  <2> QED BY <2>1, AccountsKept
<1>11. CASE UseProfile
  <2>1. Kept
    BY <1>11 DEF UseProfile, tapVars, tallyVars, catVars
  <2> QED BY <2>1, AccountsKept
<1>12. CASE UNCHANGED vars
  <2>1. Kept
    BY <1>12 DEF vars, tapVars, tallyVars, catVars
  <2> QED BY <2>1, AccountsKept
<1> QED BY <1>1, <1>2, <1>3, <1>4, <1>5, <1>6, <1>7, <1>8, <1>9, <1>10, <1>11, <1>12
        DEF TapNext, TapCall, Over

LEMMA AccountsAlways == TapSpec => []Accounts
<1>1. TapInit => Accounts
  BY AccountsStart
<1>2. TypeOK /\ Accounts /\ [TapNext]_vars => Accounts'
  BY AccountsStep DEF AccountsInv
<1> QED BY <1>1, <1>2, TapTypes, PTL DEF TapSpec

(***************************************************************************)
(* In every run, of any number of tests, categories and notes, the test    *)
(* lines of the log are numbered without a gap and the global counters of  *)
(* tap.c are the numbers of lines with each verdict.                       *)
(***************************************************************************)
THEOREM CountersExact == TapSpec => []CountersMatchLog
<1>1. Accounts => CountersMatchLog
  BY DEF Accounts
<1> QED BY <1>1, AccountsAlways, PTL

(***************************************************************************)
(* In every run the totals shown on the screen, with those of the category *)
(* that is open, are the numbers of lines with each verdict in the log:    *)
(* tap_end_category and tap_begin_category lose no verdict, bailed out or  *)
(* not.                                                                    *)
(***************************************************************************)
THEOREM ScreenExact == TapSpec => []ScreenMatchesLog
<1>1. Accounts => ScreenMatchesLog
  BY DEF Accounts
<1> QED BY <1>1, AccountsAlways, PTL
-----------------------------------------------------------------------------
(***************************************************************************)
(* The failures expanded under a category                                  *)
(***************************************************************************)
\* The tests of the open category are the last cat_total lines of the log
FailuresInv == FailureListExact /\ (in_cat => cat_total <= Len(log))

KeptNumbers == {cat_failures[k].test_num : k \in DOMAIN cat_failures}

\* Calls that touch neither the log nor the failures of the category
LEMMA FailuresKept ==
  ASSUME FailuresInv, UNCHANGED <<log, cat, cat_total, cat_failures>>, in_cat' => in_cat
  PROVE  FailuresInv'
<1>1. CategoryFailures' = CategoryFailures
  BY DEF CategoryFailures
<1> QED BY <1>1 DEF FailuresInv, FailureListExact

LEMMA FailuresBegin ==
  ASSUME TypeOK, NEW name \in Categories, tap_begin_category(name)
  PROVE  FailuresInv'
<1>1. /\ UNCHANGED log /\ cat' = Zero /\ cat_total' = 0 /\ cat_failures' = <<>>
      /\ log \in Seq(LogLines)
  BY DEF tap_begin_category, tallyVars, TypeOK, TapTypeOK
<1>2. Len(log) \in Nat /\ DOMAIN log = 1..Len(log)
  BY <1>1, LenProperties
<1>3. CategoryFailures' = {}
  BY <1>1, <1>2 DEF CategoryFailures
<1>4. cat'["failed"] = 0 /\ Len(<<>>) = 0 /\ DOMAIN <<>> = {}
  BY <1>1 DEF Zero, Verdicts
<1>5. {} \ {cat_failures'[k].test_num : k \in DOMAIN cat_failures'} = {}
  OBVIOUS
<1> QED BY <1>1, <1>2, <1>3, <1>4, <1>5, FS_EmptySet DEF FailuresInv, FailureListExact

\* The set of the category's failures grows by a failing test, and by no other
LEMMA FailuresLogged ==
  ASSUME log \in Seq(LogLines), NEW line \in LogLines, log' = Append(log, line),
         cat_total \in Nat, cat_total' = cat_total + 1, cat_total <= Len(log)
  PROVE  /\ CategoryFailures \subseteq 1..Len(log) /\ IsFiniteSet(CategoryFailures)
         /\ \A i \in 1..Len(log) : log'[i] = log[i]
         /\ Len(log') = Len(log) + 1 /\ Len(log) \in Nat /\ log'[Len(log) + 1] = line
         /\ CategoryFailures' = IF VerdictOf(line) = "failed"
                                THEN CategoryFailures \union {Len(log) + 1}
                                ELSE CategoryFailures
<1>1. PICK n \in Nat : n = Len(log)
  BY LenProperties
<1>2. /\ DOMAIN log = 1..n /\ DOMAIN log' = 1..(n + 1) /\ Len(log') = n + 1
      /\ log'[n + 1] = line /\ \A i \in 1..n : log'[i] = log[i]
  BY <1>1
<1>3. n - cat_total \in Nat
  BY <1>1
<1> PICK from \in Nat : from = n - cat_total
  BY <1>3
<1>4. CategoryFailures = {i \in 1..n : i > from /\ VerdictOf(log[i]) = "failed"}
  BY <1>1, <1>2 DEF CategoryFailures
<1>5. Len(log') - cat_total' = from
  BY <1>1, <1>2
<1>6. CategoryFailures' = {i \in 1..(n + 1) : i > from /\ VerdictOf(log'[i]) = "failed"}
  BY <1>2, <1>5 DEF CategoryFailures
<1>7. n + 1 > from /\ 1..(n + 1) = (1..n) \union {n + 1} /\ n + 1 \notin 1..n
  BY <1>1
<1>8. ASSUME NEW i \in 1..n
      PROVE  i \in CategoryFailures' <=> i \in CategoryFailures
  BY <1>2, <1>4, <1>6, <1>7, <1>8
<1>9. n + 1 \in CategoryFailures' <=> VerdictOf(line) = "failed"
  BY <1>2, <1>6, <1>7
<1>10. CategoryFailures' = IF VerdictOf(line) = "failed" THEN CategoryFailures \union {n + 1}
                           ELSE CategoryFailures
  BY <1>4, <1>6, <1>7, <1>8, <1>9
<1>11. CategoryFailures \subseteq 1..n
  BY <1>4
<1>12. IsFiniteSet(1..n)
  BY FS_Interval
<1>13. IsFiniteSet(CategoryFailures)
  BY <1>11, <1>12, FS_Subset
<1> QED BY <1>1, <1>2, <1>10, <1>11, <1>13

\* A passing, known or skipped test leaves the list as it is
LEMMA FailuresSpared ==
  ASSUME FailuresInv, TypeOK, in_cat, in_cat',
         NEW line \in LogLines, VerdictOf(line) # "failed", log' = Append(log, line),
         cat_total' = cat_total + 1, cat'["failed"] = cat["failed"], UNCHANGED cat_failures
  PROVE  FailuresInv'
<1>1. log \in Seq(LogLines) /\ cat_total \in Nat /\ cat_total <= Len(log)
  BY DEF TypeOK, TapTypeOK, FailuresInv
<1>2. /\ CategoryFailures \subseteq 1..Len(log) /\ CategoryFailures' = CategoryFailures
      /\ \A i \in 1..Len(log) : log'[i] = log[i]
      /\ Len(log') = Len(log) + 1 /\ Len(log) \in Nat
  BY <1>1, FailuresLogged
<1>3. \A k \in DOMAIN cat_failures : cat_failures[k].test_num \in 1..Len(log)
  BY <1>2 DEF FailuresInv, FailureListExact
<1>4. FailureListExact'
  BY <1>2, <1>3 DEF FailuresInv, FailureListExact
<1> QED BY <1>1, <1>2, <1>4 DEF FailuresInv

\* A failing test is kept while there is room
LEMMA FailuresAdded ==
  ASSUME FailuresInv, TypeOK, in_cat, in_cat', NEW desc \in Tests, RoomForFailure,
         NEW line \in LogLines, VerdictOf(line) = "failed", line.desc = desc,
         log' = Append(log, line),
         cat_total' = cat_total + 1, cat'["failed"] = cat["failed"] + 1,
         cat_failures' = Append(cat_failures,
                                [test_num |-> Len(log) + 1, description |-> desc])
  PROVE  FailuresInv'
<1>1. log \in Seq(LogLines) /\ cat_total \in Nat /\ cat_total <= Len(log)
  BY DEF TypeOK, TapTypeOK, FailuresInv
<1>2. PICK n \in Nat : n = Len(log)
  BY <1>1, LenProperties
<1>3. /\ CategoryFailures \subseteq 1..n
      /\ CategoryFailures' = CategoryFailures \union {n + 1}
      /\ \A i \in 1..n : log'[i] = log[i]
      /\ Len(log') = n + 1 /\ log'[n + 1] = line
  BY <1>1, <1>2, FailuresLogged
<1>4. cat_failures \in Seq(Failures) /\ cat["failed"] \in Nat
  BY DEF TypeOK, TapTypeOK, Tallies, Verdicts
<1>5. PICK m \in Nat : m = Len(cat_failures)
  BY <1>4, LenProperties
<1>6. /\ DOMAIN cat_failures = 1..m /\ DOMAIN cat_failures' = 1..(m + 1)
      /\ Len(cat_failures') = m + 1
      /\ cat_failures'[m + 1] = [test_num |-> n + 1, description |-> desc]
      /\ \A k \in 1..m : cat_failures'[k] = cat_failures[k]
  BY <1>2, <1>4, <1>5
<1>7. KeptNumbers' = KeptNumbers \union {n + 1}
  <2>1. ASSUME NEW i \in KeptNumbers' PROVE i \in KeptNumbers \union {n + 1}
    <3>1. PICK k \in 1..(m + 1) : i = cat_failures'[k].test_num
      BY <1>6 DEF KeptNumbers
    <3>2. k = m + 1 \/ k \in 1..m
      OBVIOUS
    <3> QED BY <1>6, <3>1, <3>2 DEF KeptNumbers
  <2>2. ASSUME NEW i \in KeptNumbers PROVE i \in KeptNumbers'
    <3>1. PICK k \in 1..m : i = cat_failures[k].test_num
      BY <1>6 DEF KeptNumbers
    <3>2. k \in 1..(m + 1)
      OBVIOUS
    <3> QED BY <1>6, <3>1, <3>2 DEF KeptNumbers
  <2>3. n + 1 \in KeptNumbers'
    <3>1. m + 1 \in 1..(m + 1)
      OBVIOUS
    <3> QED BY <1>6, <3>1 DEF KeptNumbers
  <2> QED BY <2>1, <2>2, <2>3
<1>8. /\ KeptNumbers \subseteq CategoryFailures
      /\ CategoryFailures \ KeptNumbers = {}
      /\ cat["failed"] - m = Cardinality({})
  <2>1. /\ KeptNumbers \subseteq CategoryFailures
        /\ \A i \in CategoryFailures \ KeptNumbers : m = MAX_FAILURES_DISPLAY
        /\ cat["failed"] - m = Cardinality(CategoryFailures \ KeptNumbers)
    BY <1>5 DEF FailuresInv, FailureListExact, KeptNumbers
  <2>2. m # MAX_FAILURES_DISPLAY
    BY <1>5, TapAssumption DEF RoomForFailure
  <2>3. CategoryFailures \ KeptNumbers = {}
    BY <2>1, <2>2
  <2> QED BY <2>1, <2>3
<1>9. KeptNumbers' \subseteq CategoryFailures' /\ CategoryFailures' \ KeptNumbers' = {}
  BY <1>3, <1>7, <1>8
<1>10. ASSUME NEW k \in 1..(m + 1)
       PROVE  /\ cat_failures'[k].description = log'[cat_failures'[k].test_num].desc
              /\ \A j \in 1..(k - 1) : cat_failures'[j].test_num < cat_failures'[k].test_num
  <2>1. CASE k = m + 1
    <3>1. cat_failures'[k].test_num = n + 1 /\ cat_failures'[k].description = desc
      BY <1>6, <2>1
    <3>2. \A j \in 1..m : cat_failures[j].test_num \in 1..n
      BY <1>3, <1>6, <1>8 DEF KeptNumbers
    <3>3. \A j \in 1..(k - 1) : j \in 1..m
      BY <2>1
    <3>4. \A j \in 1..(k - 1) : cat_failures'[j].test_num \in 1..n
      BY <1>6, <3>2, <3>3
    <3> QED BY <1>3, <3>1, <3>4
  <2>2. CASE k \in 1..m
    <3>1. cat_failures'[k] = cat_failures[k] /\ cat_failures[k].test_num \in 1..n
      BY <1>3, <1>6, <1>8, <2>2 DEF KeptNumbers
    <3>2. /\ cat_failures[k].description = log[cat_failures[k].test_num].desc
          /\ \A j \in 1..(k - 1) : cat_failures[j].test_num < cat_failures[k].test_num
      BY <1>6, <2>2 DEF FailuresInv, FailureListExact
    <3>3. \A j \in 1..(k - 1) : cat_failures'[j] = cat_failures[j]
      BY <1>6, <2>2
    <3>4. log'[cat_failures[k].test_num] = log[cat_failures[k].test_num]
      BY <1>3, <3>1
    <3>5. cat_failures'[k].description = log'[cat_failures'[k].test_num].desc
      BY <3>1, <3>2, <3>4
    <3>6. \A j \in 1..(k - 1) : cat_failures'[j].test_num < cat_failures'[k].test_num
      BY <3>1, <3>2, <3>3
    <3> QED BY <3>5, <3>6
  <2>3. k = m + 1 \/ k \in 1..m
    OBVIOUS
  <2> QED BY <2>1, <2>2, <2>3
<1>11. cat'["failed"] - (m + 1) = Cardinality({})
  BY <1>4, <1>8
<1>12. FailureListExact'
  BY <1>6, <1>9, <1>10, <1>11 DEF FailureListExact, KeptNumbers
<1> QED BY <1>1, <1>2, <1>3, <1>12 DEF FailuresInv

\* and counted among the others when there is none
LEMMA FailuresFull ==
  ASSUME FailuresInv, TypeOK, in_cat, in_cat', ~RoomForFailure,
         NEW line \in LogLines, VerdictOf(line) = "failed", log' = Append(log, line),
         cat_total' = cat_total + 1, cat'["failed"] = cat["failed"] + 1,
         UNCHANGED cat_failures
  PROVE  FailuresInv'
<1>1. log \in Seq(LogLines) /\ cat_total \in Nat /\ cat_total <= Len(log)
  BY DEF TypeOK, TapTypeOK, FailuresInv
<1>2. PICK n \in Nat : n = Len(log)
  BY <1>1, LenProperties
<1>3. /\ CategoryFailures \subseteq 1..n /\ IsFiniteSet(CategoryFailures)
      /\ CategoryFailures' = CategoryFailures \union {n + 1}
      /\ \A i \in 1..n : log'[i] = log[i]
      /\ Len(log') = n + 1
  BY <1>1, <1>2, FailuresLogged
<1>4. cat_failures \in Seq(Failures) /\ cat["failed"] \in Nat
  BY DEF TypeOK, TapTypeOK, Tallies, Verdicts
<1>5. Len(cat_failures) = MAX_FAILURES_DISPLAY /\ MAX_FAILURES_DISPLAY \in Nat
  BY <1>4, TapAssumption, LenProperties DEF TypeOK, TapTypeOK, RoomForFailure
<1>6. /\ KeptNumbers \subseteq CategoryFailures
      /\ \A i \in CategoryFailures \ KeptNumbers : \A k \in KeptNumbers : k < i
      /\ cat["failed"] - Len(cat_failures) = Cardinality(CategoryFailures \ KeptNumbers)
  BY DEF FailuresInv, FailureListExact, KeptNumbers
<1>7. KeptNumbers' = KeptNumbers
  BY DEF KeptNumbers
<1>8. /\ n + 1 \notin CategoryFailures
      /\ CategoryFailures' \ KeptNumbers = (CategoryFailures \ KeptNumbers) \union {n + 1}
  BY <1>3, <1>6
<1>9. \A i \in CategoryFailures' \ KeptNumbers : \A k \in KeptNumbers : k < i
  <2>1. \A k \in KeptNumbers : k < n + 1
    BY <1>3, <1>6
  <2> QED BY <1>6, <1>8, <2>1
<1>10. IsFiniteSet(CategoryFailures \ KeptNumbers)
  BY <1>3, FS_Subset
<1>11. /\ Cardinality(CategoryFailures' \ KeptNumbers) = Cardinality(CategoryFailures \ KeptNumbers) + 1
       /\ Cardinality(CategoryFailures \ KeptNumbers) \in Nat
  BY <1>8, <1>10, FS_AddElement, FS_CardinalityType
<1>12. cat'["failed"] - Len(cat_failures) = Cardinality(CategoryFailures' \ KeptNumbers)
  BY <1>4, <1>5, <1>6, <1>11
<1>13. \A k \in DOMAIN cat_failures :
         /\ cat_failures[k].description = log'[cat_failures[k].test_num].desc
         /\ \A j \in 1..(k - 1) : cat_failures[j].test_num < cat_failures[k].test_num
  <2>1. \A k \in DOMAIN cat_failures : cat_failures[k].test_num \in 1..n
    BY <1>3, <1>6 DEF KeptNumbers
  <2> QED BY <1>3, <2>1 DEF FailuresInv, FailureListExact
<1>14. FailureListExact'
  BY <1>3, <1>5, <1>6, <1>7, <1>9, <1>12, <1>13 DEF FailureListExact, KeptNumbers
<1> QED BY <1>1, <1>2, <1>3, <1>14 DEF FailuresInv

LEMMA FailuresTest ==
  ASSUME FailuresInv, TypeOK, test_number = Len(log), in_cat,
         NEW desc \in Tests, NEW passed \in BOOLEAN, tap_ok(passed, desc)
  PROVE  FailuresInv'
<1>1. /\ test_number \in Nat /\ cat \in Tallies /\ in_cat'
  BY DEF TypeOK, TapTypeOK, tap_ok, in_cat
<1>2. PICK n \in Nat : n = test_number + 1
  BY <1>1
<1>3. PICK v : v = Verdict(passed, n)
  OBVIOUS
<1>4. PICK line : line = LogLine(n, desc, passed)
  OBVIOUS
<1>5. line \in LogLines /\ VerdictOf(line) = v /\ v \in Verdicts /\ line.desc = desc
  BY <1>2, <1>3, <1>4, LogLineType, LineVerdict, VerdictType DEF LogLine
<1>6. /\ log' = Append(log, line) /\ cat_total' = cat_total + 1 /\ cat' = Bump(cat, v)
      /\ cat_failures' = IF v = "failed" /\ RoomForFailure
                         THEN Append(cat_failures, [test_num |-> n, description |-> desc])
                         ELSE cat_failures
  BY <1>2, <1>3, <1>4 DEF tap_ok
<1>7. cat'["failed"] = IF v = "failed" THEN cat["failed"] + 1 ELSE cat["failed"]
  BY <1>1, <1>5, <1>6, BumpType DEF Verdicts
<1>8. CASE v # "failed"
  BY <1>1, <1>5, <1>6, <1>7, <1>8, FailuresSpared
<1>9. CASE v = "failed" /\ RoomForFailure
  BY <1>1, <1>2, <1>5, <1>6, <1>7, <1>9, FailuresAdded
<1>10. CASE v = "failed" /\ ~RoomForFailure
  BY <1>1, <1>5, <1>6, <1>7, <1>10, FailuresFull
<1> QED BY <1>8, <1>9, <1>10

LEMMA FailuresSkip ==
  ASSUME FailuresInv, TypeOK, in_cat, NEW desc \in Tests, tap_skip(desc)
  PROVE  FailuresInv'
<1>1. /\ test_number \in Nat /\ cat \in Tallies /\ in_cat'
  BY DEF TypeOK, TapTypeOK, tap_skip, in_cat
<1>2. PICK line : line = [num |-> test_number + 1, desc |-> desc, ok |-> TRUE, tag |-> "SKIP"]
  OBVIOUS
<1>3. line \in LogLines /\ VerdictOf(line) = "skipped"
  BY <1>1, <1>2 DEF LogLines, VerdictOf
<1>4. /\ log' = Append(log, line) /\ cat_total' = cat_total + 1 /\ cat' = Bump(cat, "skipped")
      /\ UNCHANGED cat_failures
  BY <1>2 DEF tap_skip
<1>5. cat'["failed"] = cat["failed"]
  BY <1>1, <1>4, BumpType DEF Verdicts
<1> QED BY <1>1, <1>3, <1>4, <1>5, FailuresSpared

\* One step per action that touches the log or the category
LEMMA FailuresStep ==
  TypeOK /\ Accounts /\ FailuresInv /\ [TapNext]_vars => FailuresInv'
<1> SUFFICES ASSUME TypeOK, Accounts, FailuresInv, [TapNext]_vars PROVE FailuresInv'
  OBVIOUS
<1> DEFINE Kept == UNCHANGED <<log, cat, cat_total, cat_failures>> /\ (in_cat' => in_cat)
<1>1. CASE UseOptions
  <2>1. Kept
    BY <1>1 DEF UseOptions, tap_set_verbose, tap_set_page, tapVars, tallyVars, catVars, in_cat
  <2> QED BY <2>1, FailuresKept
<1>2. CASE tap_init
  <2>1. Kept
    BY <1>2 DEF tap_init, in_cat
  <2> QED BY <2>1, FailuresKept
<1>3. CASE UseTest
  <2>1. PICK desc \in Tests :
          (\E passed \in BOOLEAN : tap_ok(passed, desc)) \/ tap_skip(desc)
    BY <1>3 DEF UseTest
  <2>2. in_cat /\ test_number = Len(log)
    BY <1>3 DEF UseTest, Accounts, CountersMatchLog
  <2>3. CASE \E passed \in BOOLEAN : tap_ok(passed, desc)
    BY <2>2, <2>3, FailuresTest
  <2>4. CASE tap_skip(desc)
    BY <2>2, <2>4, FailuresSkip
  <2> QED BY <2>1, <2>3, <2>4
<1>4. CASE UseNote
  <2>1. Kept
    BY <1>4 DEF UseNote, tap_note, tallyVars, in_cat
  <2> QED BY <2>1, FailuresKept
<1>5. CASE UseBegin
  BY <1>5, FailuresBegin DEF UseBegin
<1>6. CASE UseEnd
  <2>1. Kept
    BY <1>6 DEF UseEnd, tap_end_category, tallyVars, in_cat
  <2> QED BY <2>1, FailuresKept
<1>7. CASE UseBail
  <2>1. Kept
    BY <1>7 DEF UseBail, tap_bail, tallyVars, catVars, in_cat
  <2> QED BY <2>1, FailuresKept
<1>8. CASE UsePlan
  <2>1. Kept
    BY <1>8 DEF UsePlan, tap_plan, tallyVars, catVars, in_cat
  <2> QED BY <2>1, FailuresKept
<1>9. CASE UseFinish
  <2>1. Kept
    BY <1>9 DEF UseFinish, tap_finish, tallyVars, catVars, in_cat
  <2> QED BY <2>1, FailuresKept
<1>10. CASE UsePager
  <2>1. Kept
    BY <1>10 DEF UsePager, tapVars, tallyVars, catVars, in_cat
  <2> QED BY <2>1, FailuresKept
<1>11. CASE UseProfile
  <2>1. Kept
    BY <1>11 DEF UseProfile, tapVars, tallyVars, catVars, in_cat
  <2> QED BY <2>1, FailuresKept
<1>12. CASE UNCHANGED vars
  <2>1. Kept
    BY <1>12 DEF vars, tapVars, tallyVars, catVars, in_cat
  <2> QED BY <2>1, FailuresKept
<1> QED BY <1>1, <1>2, <1>3, <1>4, <1>5, <1>6, <1>7, <1>8, <1>9, <1>10, <1>11, <1>12
        DEF TapNext, TapCall, Over

(***************************************************************************)
(* In every run the failures expanded under a category are its first       *)
(* unexpected ones, in order, under the numbers and descriptions of the    *)
(* log, and the "... and N more" line counts exactly the others, whatever  *)
(* the capacity of the array.                                              *)
(***************************************************************************)
THEOREM FailuresListedExactly == TapSpec => []FailureListExact
<1>1. TapInit => FailuresInv
  BY DEF TapInit, TapStart, in_cat, FailuresInv, FailureListExact
<1>2. FailuresInv => FailureListExact
  BY DEF FailuresInv
<1> QED BY <1>1, <1>2, FailuresStep, AccountsAlways, TapTypes, PTL DEF TapSpec
-----------------------------------------------------------------------------
(***************************************************************************)
(* The reporter keeps its promise: a step of the reporter is a step of     *)
(* module Report, or changes nothing of what that module shows.            *)
(***************************************************************************)
\* A run starts clean, and only a bail-out leaves a category open at the plan
OrderInv ==
    /\ stage = "unused" => ~bailed_out
    /\ plan # -1 /\ in_cat => bailed_out

\* What the reporter's state says in the words of module Report
Stated    == [i \in DOMAIN log |-> VerdictOf(log[i])]
RunStatus == IF stage = "finished" THEN "published"
             ELSE IF bailed_out THEN "aborted" ELSE "running"

LEMMA OrderStart == TapInit => OrderInv
  BY DEF TapInit, TapStart, OrderInv

LEMMA OrderStep == OrderInv /\ [TapNext]_vars => OrderInv'
<1> SUFFICES ASSUME OrderInv, [TapNext]_vars PROVE OrderInv'
  OBVIOUS
<1> USE DEF OrderInv, in_cat
<1>1. CASE UseOptions
  BY <1>1 DEF UseOptions, tap_set_verbose, tap_set_page, tapVars, tallyVars, catVars, endVars
<1>2. CASE tap_init
  BY <1>2 DEF tap_init, endVars
<1>3. CASE UseTest
  <2>1. UNCHANGED <<stage, bailed_out, plan>> /\ plan = -1 /\ stage = "open"
    BY <1>3 DEF UseTest, Open, tap_ok, tap_skip, endVars
  <2> QED BY <2>1
<1>4. CASE UseNote
  BY <1>4 DEF UseNote, tap_note, endVars
<1>5. CASE UseBegin
  BY <1>5 DEF UseBegin, tap_begin_category, endVars
<1>6. CASE UseEnd
  BY <1>6 DEF UseEnd, tap_end_category, endVars
<1>7. CASE UseBail
  BY <1>7 DEF UseBail, Open, tap_bail
<1>8. CASE UsePlan
  BY <1>8 DEF UsePlan, tap_plan, catVars
<1>9. CASE UseFinish
  BY <1>9 DEF UseFinish, tap_finish, catVars
<1>10. CASE UsePager
  BY <1>10 DEF UsePager, tapVars, catVars, endVars
<1>11. CASE UseProfile
  BY <1>11 DEF UseProfile, tapVars, catVars, endVars
<1>12. CASE UNCHANGED vars
  BY <1>12 DEF vars, tapVars, catVars, endVars
<1> QED BY <1>1, <1>2, <1>3, <1>4, <1>5, <1>6, <1>7, <1>8, <1>9, <1>10, <1>11, <1>12
        DEF TapNext, TapCall, Over

\* The instance has a name of its own for the cardinality of a set
LEMMA SameCardinality ==
  ASSUME NEW S
  PROVE  Promise!Cardinality(S) = Cardinality(S)
  BY DEF Promise!Cardinality, Cardinality

\* The totals of the verdicts stated are those of the log
LEMMA StatedTally ==
  ASSUME log \in Seq(LogLines), NEW v
  PROVE  Len(Stated) = Len(log) /\ Promise!Tally(Stated, v) = Logged(v)
<1>1. Len(log) \in Nat /\ DOMAIN log = 1..Len(log)
  BY LenProperties
<1>2. DOMAIN Stated = DOMAIN log /\ \A i \in DOMAIN log : Stated[i] = VerdictOf(log[i])
  BY DEF Stated
<1>3. Stated \in Seq({VerdictOf(log[i]) : i \in DOMAIN log})
  BY <1>1 DEF Stated
<1>4. Len(Stated) = Len(log)
  BY <1>1, <1>2, <1>3, LenProperties
<1>5. {i \in DOMAIN Stated : Stated[i] = v} = LinesWith(v)
  BY <1>2 DEF LinesWith
<1> QED BY <1>4, <1>5, SameCardinality DEF Promise!Tally, Logged

LEMMA StatedAppend ==
  ASSUME log \in Seq(LogLines), NEW line \in LogLines, log' = Append(log, line)
  PROVE  Stated' = Append(Stated, VerdictOf(line))
<1>1. PICK n \in Nat : n = Len(log)
  BY LenProperties
<1>2. /\ DOMAIN log = 1..n /\ DOMAIN log' = 1..(n + 1)
      /\ log'[n + 1] = line /\ \A i \in 1..n : log'[i] = log[i]
  BY <1>1
<1>3. PICK V : V = {VerdictOf(l) : l \in LogLines}
  OBVIOUS
<1>4. \A i \in 1..n : log[i] \in LogLines
  BY <1>2
<1>5. Stated \in Seq(V) /\ VerdictOf(line) \in V
  BY <1>2, <1>3, <1>4 DEF Stated
<1>6. PICK w : w = VerdictOf(line)
  OBVIOUS
<1>7. PICK vs : vs = Stated
  OBVIOUS
<1>8. Len(vs) = n /\ vs \in Seq(V) /\ w \in V /\ \A i \in 1..n : vs[i] = VerdictOf(log[i])
  BY <1>2, <1>5, <1>6, <1>7 DEF Stated
<1>9. Stated' = [i \in 1..(n + 1) |-> VerdictOf(log'[i])]
  BY <1>2 DEF Stated
<1>10. PICK ws : ws = Stated'
  OBVIOUS
<1>11. \A i \in 1..(n + 1) :
         VerdictOf(log'[i]) = IF i = n + 1 THEN w ELSE vs[i]
  BY <1>2, <1>6, <1>8
<1>12. \A i \in 1..(n + 1) : ws[i] \in V /\ ws[i] = IF i = n + 1 THEN w ELSE vs[i]
  <2>1. \A i \in 1..(n + 1) : ws[i] = VerdictOf(log'[i])
    BY <1>9, <1>10
  <2>2. \A i \in 1..(n + 1) : ws[i] = IF i = n + 1 THEN w ELSE vs[i]
    BY <1>11, <2>1
  <2>3. \A i \in 1..(n + 1) : i # n + 1 => i \in 1..n
    OBVIOUS
  <2>4. \A i \in 1..n : vs[i] \in V
    BY <1>8
  <2> QED BY <1>8, <2>2, <2>3, <2>4
<1>13. ws \in Seq(V) /\ Len(ws) = n + 1
  <2>1. ws \in [1..(n + 1) -> V]
    BY <1>9, <1>10, <1>12
  <2>2. n + 1 \in Nat
    OBVIOUS
  <2> QED BY <2>1, <2>2
<1>14. /\ Append(vs, w) \in Seq(V) /\ Len(Append(vs, w)) = n + 1
       /\ \A i \in 1..(n + 1) : Append(vs, w)[i] = IF i = n + 1 THEN w ELSE vs[i]
  BY <1>8, AppendProperties
<1>15. ws = Append(vs, w)
  BY <1>12, <1>13, <1>14, SeqEqual
<1> QED BY <1>6, <1>7, <1>10, <1>15

\* Passes, the skips among them, are at most all the lines
LEMMA PassesBounded ==
  ASSUME log \in Seq(LogLines), CountersMatchLog
  PROVE  count["passed"] \in 0..Len(log)
<1>1. PICK n \in Nat : n = Len(log)
  BY LenProperties
<1>2. PICK A : A = LinesWith("passed")
  OBVIOUS
<1>3. PICK B : B = LinesWith("skipped")
  OBVIOUS
<1>4. A \subseteq 1..n /\ B \subseteq 1..n /\ IsFiniteSet(A) /\ IsFiniteSet(B)
  BY <1>1, <1>2, <1>3, LinesFinite
<1>5. A \cap B = {}
  BY <1>2, <1>3 DEF LinesWith
<1>6. Cardinality(A \union B) = Cardinality(A) + Cardinality(B)
  <2>1. Cardinality(A \union B) = Cardinality(A) + Cardinality(B) - Cardinality(A \cap B)
    BY <1>4, FS_Union
  <2>2. Cardinality(A) \in Nat /\ Cardinality(B) \in Nat
    BY <1>4, FS_CardinalityType
  <2>3. Cardinality(A \cap B) = 0
    BY <1>5, FS_EmptySet
  <2> QED BY <2>1, <2>2, <2>3
<1>7. Cardinality(A \union B) <= n /\ Cardinality(A \union B) \in Nat
  <2>1. IsFiniteSet(1..n) /\ Cardinality(1..n) = n
    BY FS_Interval
  <2>2. A \union B \subseteq 1..n
    BY <1>4
  <2> QED BY <2>1, <2>2, FS_Subset, FS_CardinalityType
<1>8. count["passed"] = Cardinality(A) + Cardinality(B)
  BY <1>2, <1>3 DEF CountersMatchLog, Logged
<1> QED BY <1>1, <1>6, <1>7, <1>8

\* A test is recorded
LEMMA TestRecords ==
  ASSUME log \in Seq(LogLines), test_number \in Nat, UseTest
  PROVE  \E v \in Promise!Verdicts : Promise!Record(v)
<1>1. stage = "open" /\ ~bailed_out
  BY DEF UseTest, Open
<1>2. PICK desc \in Tests :
        (\E passed \in BOOLEAN : tap_ok(passed, desc)) \/ tap_skip(desc)
  BY DEF UseTest
<1>3. \E line \in LogLines : log' = Append(log, line)
  <2>1. CASE \E passed \in BOOLEAN : tap_ok(passed, desc)
    <3>1. PICK passed \in BOOLEAN : tap_ok(passed, desc)
      BY <2>1
    <3>2. LogLine(test_number + 1, desc, passed) \in LogLines
      BY LogLineType
    <3> QED BY <3>1, <3>2 DEF tap_ok
  <2>2. CASE tap_skip(desc)
    <3>1. [num |-> test_number + 1, desc |-> desc, ok |-> TRUE, tag |-> "SKIP"] \in LogLines
      BY DEF LogLines
    <3> QED BY <2>2, <3>1 DEF tap_skip
  <2> QED BY <1>2, <2>1, <2>2
<1>4. PICK line \in LogLines : log' = Append(log, line)
  BY <1>3
<1>5. Stated' = Append(Stated, VerdictOf(line)) /\ VerdictOf(line) \in Promise!Verdicts
  BY <1>4, StatedAppend DEF VerdictOf, Promise!Verdicts
<1>6. UNCHANGED <<stage, bailed_out, results, exit_code>>
  BY <1>2 DEF tap_ok, tap_skip, endVars
<1> QED BY <1>1, <1>5, <1>6 DEF Promise!Record, Stated, PublishedReport

\* A bail-out aborts
LEMMA BailAborts ==
  ASSUME UseBail
  PROVE  Promise!Abort
<1>1. /\ stage = "open" /\ ~bailed_out /\ bailed_out'
      /\ UNCHANGED <<stage, log, results, exit_code>>
  BY DEF UseBail, Open, tap_bail, tallyVars, endVars
<1> QED BY <1>1 DEF Promise!Abort, PublishedReport

\* The results published are those of the verdicts
LEMMA FinishPublishes ==
  ASSUME TypeOK, Accounts, OrderInv, UseFinish
  PROVE  \E passed \in 0..Len(Stated) : Promise!Publish(passed)
<1>1. /\ stage = "open" /\ stage' = "finished" /\ (in_cat => bailed_out)
      /\ UNCHANGED log /\ exit_code' = ReturnCode
      /\ results' = [passed |-> Summed["passed"], failed |-> Summed["failed"],
                     known |-> Summed["known"], skipped |-> Summed["skipped"],
                     total |-> test_number]
  BY DEF UseFinish, Open, tap_finish, tallyVars, OrderInv
<1>2. log \in Seq(LogLines) /\ screen \in Tallies /\ CountersMatchLog /\ ScreenMatchesLog
  BY DEF TypeOK, TapTypeOK, Accounts
<1>3. /\ Len(Stated) = Len(log)
      /\ \A v : Promise!Tally(Stated, v) = Logged(v) /\ Logged(v) \in Nat
  BY <1>2, StatedTally, LinesFinite
<1>4. ~in_cat => \A v \in Verdicts : screen[v] = Logged(v)
  <2>1. \A v \in Verdicts : screen[v] \in Nat
    BY <1>2 DEF Tallies
  <2> QED BY <1>2, <1>3, <2>1 DEF ScreenMatchesLog, OpenTally
<1>5. /\ Summed["failed"] = Logged("failed") /\ Summed["known"] = Logged("known")
      /\ Summed["skipped"] = Logged("skipped")
      /\ ~bailed_out => Summed["passed"] = Logged("passed")
  BY <1>1, <1>2, <1>4 DEF Summed, CountersMatchLog, Verdicts
<1>6. Summed["passed"] \in 0..Len(log)
  <2>1. CASE bailed_out
    BY <1>2, <2>1, PassesBounded DEF Summed
  <2>2. CASE ~bailed_out
    <3>1. /\ Logged("passed") <= count["passed"] /\ count["passed"] \in 0..Len(log)
      BY <1>2, <1>3, PassesBounded DEF CountersMatchLog
    <3>2. Len(log) \in Nat
      BY <1>2, LenProperties
    <3> QED BY <1>3, <1>5, <2>2, <3>1, <3>2
  <2> QED BY <2>1, <2>2
<1>7. ReturnCode = IF bailed_out THEN 20 ELSE IF Logged("failed") > 0 THEN 5 ELSE 0
  BY <1>2 DEF ReturnCode, RETURN_FAIL, RETURN_WARN, RETURN_OK, CountersMatchLog
<1>8. Stated' = Stated
  BY <1>1 DEF Stated
<1>9. PICK passed : passed = Summed["passed"]
  OBVIOUS
<1>10. PublishedReport' = [passed |-> passed, failed |-> Logged("failed"),
                           known |-> Logged("known"), skipped |-> Logged("skipped"),
                           total |-> Len(Stated), code |-> ReturnCode]
  BY <1>1, <1>2, <1>3, <1>5, <1>9 DEF PublishedReport, CountersMatchLog
<1>11. Promise!Publish(passed)
  BY <1>1, <1>3, <1>5, <1>7, <1>8, <1>9, <1>10
     DEF Promise!Publish, Promise!ReturnCode, Stated
<1> QED BY <1>3, <1>6, <1>9, <1>11

\* Calls that leave what module Report shows as it is
LEMMA ReportSpared ==
  ASSUME UNCHANGED <<log, bailed_out, results, exit_code>>,
         (stage' = "finished") = (stage = "finished")
  PROVE  UNCHANGED Promise!reportVars
  BY DEF Promise!reportVars, PublishedReport

LEMMA ReportStep ==
  TypeOK /\ Accounts /\ OrderInv /\ [TapNext]_vars
    => [Promise!ReportNext]_(Promise!reportVars)
<1> SUFFICES ASSUME TypeOK, Accounts, OrderInv, [TapNext]_vars
             PROVE  Promise!ReportNext \/ UNCHANGED Promise!reportVars
  BY DEF Promise!reportVars
<1> DEFINE Spared == /\ UNCHANGED <<log, bailed_out, results, exit_code>>
                     /\ (stage' = "finished") = (stage = "finished")
<1>1. CASE UseOptions
  <2>1. Spared
    BY <1>1 DEF UseOptions, tap_set_verbose, tap_set_page, tapVars, tallyVars, endVars
  <2> QED BY <2>1, ReportSpared
<1>2. CASE stage = "unused" /\ tap_init
  <2>1. Spared
    BY <1>2 DEF tap_init, endVars, OrderInv, TypeOK, TapTypeOK
  <2> QED BY <2>1, ReportSpared
<1>3. CASE UseTest
  BY <1>3, TestRecords DEF TypeOK, TapTypeOK, Promise!ReportNext
<1>4. CASE UseNote
  <2>1. Spared
    BY <1>4 DEF UseNote, tap_note, tallyVars, endVars
  <2> QED BY <2>1, ReportSpared
<1>5. CASE UseBegin
  <2>1. Spared
    BY <1>5 DEF UseBegin, tap_begin_category, tallyVars, endVars
  <2> QED BY <2>1, ReportSpared
<1>6. CASE UseEnd
  <2>1. Spared
    BY <1>6 DEF UseEnd, tap_end_category, tallyVars, endVars
  <2> QED BY <2>1, ReportSpared
<1>7. CASE UseBail
  BY <1>7, BailAborts DEF Promise!ReportNext
<1>8. CASE UsePlan
  <2>1. Spared
    BY <1>8 DEF UsePlan, tap_plan, tallyVars
  <2> QED BY <2>1, ReportSpared
<1>9. CASE UseFinish
  BY <1>9, FinishPublishes DEF Promise!ReportNext, Stated
<1>10. CASE UsePager
  <2>1. Spared
    BY <1>10 DEF UsePager, tapVars, tallyVars, endVars
  <2> QED BY <2>1, ReportSpared
<1>11. CASE UseProfile
  <2>1. Spared
    BY <1>11 DEF UseProfile, tapVars, tallyVars, endVars
  <2> QED BY <2>1, ReportSpared
<1>12. CASE UNCHANGED vars
  <2>1. Spared
    BY <1>12 DEF vars, tapVars, tallyVars, endVars
  <2> QED BY <2>1, ReportSpared
<1> QED BY <1>1, <1>2, <1>3, <1>4, <1>5, <1>6, <1>7, <1>8, <1>9, <1>10, <1>11, <1>12
        DEF TapNext, TapCall, Over

(***************************************************************************)
(* The reporter implements module Report: in every run, whatever the       *)
(* tests, the categories and the moment of a bail-out, the totals and the  *)
(* return code published are those of the verdicts logged, and nothing is  *)
(* recorded after a bail-out or after the results.                         *)
(***************************************************************************)
THEOREM ReportKept == TapSpec => KeepsPromise
<1>1. TapInit => Promise!ReportInit
  BY DEF TapInit, TapStart, Promise!ReportInit, PublishedReport
<1>2. TapSpec => []OrderInv
  BY OrderStart, OrderStep, PTL DEF TapSpec
<1> QED BY <1>1, <1>2, ReportStep, AccountsAlways, TapTypes, PTL
        DEF TapSpec, KeepsPromise, Promise!ReportSpec
=============================================================================
