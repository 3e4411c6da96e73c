----------------------------- MODULE TapProofs -----------------------------
(***************************************************************************)
(* Proofs about the reporter, for any tests, categories, profiles, screen  *)
(* size and display capacities.                                            *)
(***************************************************************************)
EXTENDS TapProperties, FiniteSetTheorems, SequenceTheorems, WellFoundedInduction, TLAPS

(***************************************************************************)
(* The profile selected is an index into the table, or 0: the first match  *)
(* exists whenever there is a match (known_init).                          *)
(***************************************************************************)
LessThan == {ss \in Nat \X Nat : ss[1] < ss[2]}

LEMMA LessThanWellFounded == IsWellFoundedOn(LessThan, Nat)
  BY NatLessThanWellFounded DEF OpToRel, LessThan

LEMMA LeastElement ==
  ASSUME NEW S, S \subseteq Nat, S # {}
  PROVE  \E i \in S : \A j \in S : i <= j
<1>1. PICK i \in S : \A j \in S : ~(<<j, i>> \in LessThan)
  BY LessThanWellFounded, WFMin
<1>2. ASSUME NEW j \in S
      PROVE  i <= j
  <2>1. <<j, i>> \notin LessThan
    BY <1>1
  <2>2. <<j, i>> \in Nat \X Nat /\ <<j, i>>[1] = j /\ <<j, i>>[2] = i
    OBVIOUS
  <2> QED BY <2>1, <2>2 DEF LessThan
<1> QED BY <1>2

LEMMA FirstMatchIndex ==
  ASSUME NEW version
  PROVE  FirstMatch(version) \in 0..Len(Profiles)
<1> DEFINE M == Matching(version)
<1>1. Len(Profiles) \in Nat
  BY ProfilesAssumption
<1>2. M \subseteq 1..Len(Profiles)
  BY DEF Matching
<1>3. CASE M = {}
  BY <1>1, <1>3 DEF FirstMatch
<1>4. CASE M # {}
  <2>1. \E i \in M : \A j \in M : i <= j
    BY <1>1, <1>2, <1>4, LeastElement
  <2>2. FirstMatch(version) \in M
    BY <1>4, <2>1 DEF FirstMatch
  <2> QED BY <1>1, <1>2, <2>2
<1> QED BY <1>3, <1>4
-----------------------------------------------------------------------------
(***************************************************************************)
(* Types of what the calls put together                                    *)
(***************************************************************************)
LEMMA ZeroType == Zero \in Tallies
  BY DEF Zero, Tallies

LEMMA BumpType ==
  ASSUME NEW tally \in Tallies, NEW v \in Verdicts
  PROVE  /\ Bump(tally, v) \in Tallies
         /\ \A w \in Verdicts : Bump(tally, v)[w] = IF w = v THEN tally[w] + 1 ELSE tally[w]
  BY DEF Bump, Tallies

LEMMA VerdictType ==
  ASSUME NEW passed, NEW n
  PROVE  Verdict(passed, n) \in Verdicts
  BY DEF Verdict, Verdicts

LEMMA LogLineType ==
  ASSUME NEW n \in Nat, NEW desc \in Tests, NEW passed \in BOOLEAN
  PROVE  LogLine(n, desc, passed) \in LogLines
  BY DEF LogLine, LogLines

LEMMA TimesType ==
  ASSUME NEW n \in Nat, NEW line \in Lines
  PROVE  Times(n, line) \in Seq(Lines)
  BY DEF Times

LEMMA LineSequences ==
  /\ <<>> \in Seq(Lines) /\ <<"checked">> \in Seq(Lines) /\ <<"wrapped">> \in Seq(Lines)
  /\ <<"checked", "blank">> \in Seq(Lines) /\ <<"blank", "checked">> \in Seq(Lines)
  /\ <<"checked", "checked", "blank">> \in Seq(Lines)
  /\ <<"uncounted", "checked", "blank">> \in Seq(Lines)
  BY DEF Lines

\* The rows a line takes, and those counted for it
LEMMA RowsType ==
  ASSUME NEW line, NEW rows \in RowsOf(line)
  PROVE  /\ rows \in 1..MaxRows /\ RowsCounted(line, rows) \in 0..rows
         /\ line # "uncounted" => 1 <= RowsCounted(line, rows)
  BY ScreenAssumption DEF RowsOf, RowsCounted

LEMMA SummaryLinesType ==
  ASSUME TapTypeOK
  PROVE  SummaryLines \in Seq(Lines)
<1>1. Times(Len(cat_failures), "wrapped") \in Seq(Lines)
  BY TimesType DEF TapTypeOK, Lines
<1>2. Times(cat_note_count, "wrapped") \in Seq(Lines)
  BY TimesType, TapAssumption DEF TapTypeOK, Lines
<1>3. (IF cat["failed"] > Len(cat_failures) THEN <<"checked">> ELSE <<>>) \in Seq(Lines)
  BY LineSequences
<1> QED BY <1>1, <1>2, <1>3, LineSequences, ConcatProperties DEF SummaryLines

\* A call that prints leaves the pager well typed
LEMMA ShowType ==
  ASSUME PagerTypeOK, NEW lines \in Seq(Lines), Show(lines),
         UNCHANGED <<page_mode, lines_printed, unseen>>, brk' \in BOOLEAN
  PROVE  PagerTypeOK'
  BY ConcatProperties DEF PagerTypeOK, Show

LEMMA ShowVerboseType ==
  ASSUME PagerTypeOK, ShowVerbose, UNCHANGED <<page_mode, lines_printed, unseen, brk>>
  PROVE  PagerTypeOK'
<1>1. CASE verbose
  BY <1>1, ShowType, LineSequences DEF ShowVerbose, PagerTypeOK
<1>2. CASE ~verbose
  BY <1>2 DEF ShowVerbose, PagerTypeOK
<1> QED BY <1>1, <1>2
-----------------------------------------------------------------------------
(***************************************************************************)
(* The type invariant is inductive: one lemma for each kind of call        *)
(***************************************************************************)
LEMMA StartType == TapInit => TypeOK
<1> SUFFICES ASSUME TapInit PROVE TypeOK
  OBVIOUS
<1>1. TapTypeOK
  <2>1. <<>> \in Seq(LogLines) /\ <<>> \in Seq(Failures) /\ Len(<<>>) = 0
    BY EmptySeq
  <2>2. /\ stage \in {"unused", "open", "finished"}
        /\ test_number \in Nat /\ count \in Tallies /\ log \in Seq(LogLines)
        /\ cat \in Tallies /\ cat_total \in Nat /\ screen \in Tallies
        /\ plan \in Nat \union {-1}
    BY <2>1, ZeroType DEF TapInit, TapStart
  <2>3. /\ cat_failures \in Seq(Failures) /\ Len(cat_failures) <= MAX_FAILURES_DISPLAY
        /\ cat_note_count \in 0..MAX_NOTES
    BY <2>1, TapAssumption DEF TapInit, TapStart
  <2>4. /\ bailed_out \in BOOLEAN /\ verbose \in BOOLEAN /\ logfp \in BOOLEAN
        /\ current_category \in Categories \union {NoCategory}
        /\ results \in Totals \union {NoResults}
        /\ exit_code \in {-1, RETURN_OK, RETURN_WARN, RETURN_FAIL}
    BY DEF TapInit, TapStart
  <2> QED BY <2>2, <2>3, <2>4 DEF TapTypeOK
<1>2. PagerTypeOK
  BY LineSequences DEF TapInit, PagerInit, PagerTypeOK
<1>3. ProfileTypeOK
  BY ProfilesAssumption DEF TapInit, KnownStart, ProfileTypeOK
<1> QED BY <1>1, <1>2, <1>3 DEF TypeOK

LEMMA OptionsType ==
  ASSUME TypeOK, UseOptions
  PROVE  TapTypeOK' /\ PagerTypeOK'
<1>1. CASE tap_set_verbose
  BY <1>1 DEF TypeOK, tap_set_verbose, TapTypeOK, PagerTypeOK, tallyVars, catVars, endVars, pagerVars
<1>2. CASE tap_set_page
  BY <1>2 DEF TypeOK, tap_set_page, TapTypeOK, PagerTypeOK, tapVars, tallyVars, catVars, endVars
<1> QED BY <1>1, <1>2 DEF UseOptions

LEMMA InitType ==
  ASSUME TypeOK, tap_init
  PROVE  TapTypeOK' /\ PagerTypeOK'
<1>1. TapTypeOK'
  BY ZeroType DEF TypeOK, tap_init, TapTypeOK, endVars
<1>2. PICK lines \in Seq(Lines) : Show(lines)
  BY LineSequences DEF tap_init
<1>3. PagerTypeOK'
  BY <1>2, ShowType DEF TypeOK, tap_init, PagerTypeOK
<1> QED BY <1>1, <1>3

LEMMA TestType ==
  ASSUME TypeOK, NEW desc \in Tests, NEW passed \in BOOLEAN, tap_ok(passed, desc)
  PROVE  TapTypeOK' /\ PagerTypeOK'
<1> DEFINE n == test_number + 1
           v == Verdict(passed, n)
<1>1. n \in Nat /\ v \in Verdicts /\ LogLine(n, desc, passed) \in LogLines
  BY VerdictType, LogLineType DEF TypeOK, TapTypeOK
<1>2. test_number' \in Nat /\ count' \in Tallies /\ log' \in Seq(LogLines)
  BY <1>1, BumpType DEF TypeOK, TapTypeOK, tap_ok
<1>3. cat' \in Tallies /\ cat_total' \in Nat
  BY <1>1, BumpType DEF TypeOK, TapTypeOK, tap_ok
<1>4. cat_failures' \in Seq(Failures) /\ Len(cat_failures') <= MAX_FAILURES_DISPLAY
  <2>1. [test_num |-> n, description |-> desc] \in Failures
    BY <1>1 DEF Failures
  <2> QED BY <2>1, TapAssumption DEF TypeOK, TapTypeOK, tap_ok, RoomForFailure
<1>5. TapTypeOK'
  BY <1>2, <1>3, <1>4 DEF TypeOK, TapTypeOK, tap_ok, endVars
<1>6. PagerTypeOK'
  BY ShowVerboseType DEF TypeOK, tap_ok
<1> QED BY <1>5, <1>6

LEMMA SkipType ==
  ASSUME TypeOK, NEW desc \in Tests, tap_skip(desc)
  PROVE  TapTypeOK' /\ PagerTypeOK'
<1>1. test_number' \in Nat /\ log' \in Seq(LogLines)
  <2>1. [num |-> test_number + 1, desc |-> desc, ok |-> TRUE, tag |-> "SKIP"] \in LogLines
    BY DEF TypeOK, TapTypeOK, LogLines
  <2> QED BY <2>1 DEF TypeOK, TapTypeOK, tap_skip
<1>2. count' \in Tallies
  <2>1. Bump(count, "passed") \in Tallies
    BY BumpType DEF TypeOK, TapTypeOK, Verdicts
  <2> QED BY <2>1, BumpType DEF tap_skip, Verdicts
<1>3. cat' \in Tallies /\ cat_total' \in Nat
  BY BumpType DEF TypeOK, TapTypeOK, tap_skip, Verdicts
<1>4. TapTypeOK'
  BY <1>1, <1>2, <1>3 DEF TypeOK, TapTypeOK, tap_skip, endVars
<1>5. PagerTypeOK'
  BY ShowVerboseType DEF TypeOK, tap_skip
<1> QED BY <1>4, <1>5

LEMMA NoteType ==
  ASSUME TypeOK, tap_note
  PROVE  TapTypeOK' /\ PagerTypeOK'
<1>1. cat_note_count' \in 0..MAX_NOTES
  BY TapAssumption DEF TypeOK, TapTypeOK, tap_note, RoomForNote
<1> QED
  BY <1>1 DEF TypeOK, TapTypeOK, PagerTypeOK, tap_note, tallyVars, endVars, pagerVars

LEMMA BeginType ==
  ASSUME TypeOK, NEW name \in Categories, tap_begin_category(name)
  PROVE  TapTypeOK' /\ PagerTypeOK'
  BY ZeroType, TapAssumption, EmptySeq
  DEF TypeOK, TapTypeOK, PagerTypeOK, tap_begin_category, tallyVars, endVars, pagerVars

LEMMA EndType ==
  ASSUME TypeOK, tap_end_category
  PROVE  TapTypeOK' /\ PagerTypeOK'
<1>1. screen' \in Tallies
  BY DEF TypeOK, TapTypeOK, tap_end_category, WithCategory, Tallies
<1>2. TapTypeOK'
  BY <1>1 DEF TypeOK, TapTypeOK, tap_end_category, tallyVars, endVars
<1>3. PagerTypeOK'
  BY ShowType, SummaryLinesType DEF TypeOK, tap_end_category, PagerTypeOK
<1> QED BY <1>2, <1>3

LEMMA BailType ==
  ASSUME TypeOK, UseBail
  PROVE  TapTypeOK' /\ PagerTypeOK'
<1>1. TapTypeOK'
  BY DEF TypeOK, TapTypeOK, UseBail, tap_bail, tallyVars, catVars, endVars
<1>2. PagerTypeOK'
  BY ShowType, LineSequences DEF TypeOK, UseBail, tap_bail, PagerTypeOK
<1> QED BY <1>1, <1>2

LEMMA PlanType ==
  ASSUME TypeOK, UsePlan
  PROVE  TapTypeOK' /\ PagerTypeOK'
  BY DEF TypeOK, TapTypeOK, PagerTypeOK, UsePlan, tap_plan, tallyVars, catVars, pagerVars

LEMMA FinishType ==
  ASSUME TypeOK, UseFinish
  PROVE  TapTypeOK' /\ PagerTypeOK'
<1>1. Summed \in Tallies
  BY DEF TypeOK, TapTypeOK, Summed
<1>2. results' \in Totals
  BY <1>1 DEF TypeOK, TapTypeOK, UseFinish, tap_finish, Totals, Tallies, Verdicts
<1>3. exit_code' \in {RETURN_OK, RETURN_WARN, RETURN_FAIL}
  BY DEF UseFinish, tap_finish, ReturnCode
<1>4. TapTypeOK'
  BY <1>2, <1>3 DEF TypeOK, TapTypeOK, UseFinish, tap_finish, tallyVars, catVars
<1>5. PagerTypeOK'
  BY ShowType, LineSequences DEF TypeOK, UseFinish, tap_finish, PagerTypeOK
<1> QED BY <1>4, <1>5

LEMMA PagerType ==
  ASSUME TypeOK, UsePager
  PROVE  TapTypeOK' /\ PagerTypeOK'
<1>1. TapTypeOK'
  BY DEF TypeOK, TapTypeOK, UsePager, tapVars, tallyVars, catVars, endVars
<1>2. CASE PageAdvance
  <2>1. out' \in Seq(Lines) /\ (~page_mode' => out' = <<>>)
    BY <1>2, HeadTailProperties DEF TypeOK, PagerTypeOK, PageAdvance
  <2>2. PICK rows \in RowsOf(Head(out)) :
          /\ unseen' = unseen + rows
          /\ lines_printed' = lines_printed + RowsCounted(Head(out), rows)
    BY <1>2 DEF PageAdvance
  <2>3. rows \in Nat /\ RowsCounted(Head(out), rows) \in Nat
    BY <2>2, RowsType, ScreenAssumption
  <2>4. lines_printed' \in Nat /\ unseen' \in Nat
    BY <2>2, <2>3 DEF TypeOK, PagerTypeOK
  <2>5. page_mode' \in BOOLEAN /\ brk' \in BOOLEAN
    BY <1>2 DEF TypeOK, PagerTypeOK, PageAdvance
  <2>6. PagerTypeOK'
    BY <2>1, <2>4, <2>5 DEF PagerTypeOK
  <2> QED BY <1>1, <2>6
<1>3. ASSUME NEW key \in Keys, PageKey(key)
      PROVE  PagerTypeOK'
  BY <1>3, LineSequences DEF TypeOK, PagerTypeOK, PageKey
<1>4. ASSUME UserBreak
      PROVE  PagerTypeOK'
  BY <1>4 DEF TypeOK, PagerTypeOK, UserBreak
<1> QED BY <1>1, <1>2, <1>3, <1>4 DEF UsePager

\* Every step keeps the types
LEMMA TypeStep == TypeOK /\ [TapNext]_vars => TypeOK'
<1> SUFFICES ASSUME TypeOK, [TapNext]_vars PROVE TypeOK'
  OBVIOUS
<1>1. CASE TapCall /\ UNCHANGED active_profile
  <2>1. ProfileTypeOK'
    BY <1>1 DEF TypeOK, ProfileTypeOK
  <2>2. ASSUME UseTest
        PROVE  TapTypeOK' /\ PagerTypeOK'
    BY <2>2, TestType, SkipType DEF UseTest
  <2>3. ASSUME UseBegin
        PROVE  TapTypeOK' /\ PagerTypeOK'
    BY <2>3, BeginType DEF UseBegin
  <2>4. TapTypeOK' /\ PagerTypeOK'
    BY <1>1, <2>2, <2>3, OptionsType, InitType, NoteType, EndType, BailType, PlanType,
       FinishType, PagerType
    DEF TapCall, UseNote, UseEnd
  <2> QED BY <2>1, <2>4 DEF TypeOK
<1>2. CASE UseProfile
  <2>1. ProfileTypeOK'
    BY <1>2, FirstMatchIndex DEF UseProfile, KnownInit, ProfileTypeOK
  <2>2. TapTypeOK' /\ PagerTypeOK'
    BY <1>2 DEF UseProfile, TypeOK, TapTypeOK, PagerTypeOK,
                tapVars, tallyVars, catVars, endVars, pagerVars
  <2> QED BY <2>1, <2>2 DEF TypeOK
<1>3. CASE UNCHANGED vars
  BY <1>3 DEF TypeOK, TapTypeOK, PagerTypeOK, ProfileTypeOK,
              vars, tapVars, tallyVars, catVars, endVars, pagerVars
<1> QED BY <1>1, <1>2, <1>3 DEF TapNext, Over

(***************************************************************************)
(* The reporter's state always has its type: in particular the two fixed   *)
(* arrays of a category, cat_failures and cat_notes, are never written     *)
(* past their ends (tap_ok, tap_note).                                     *)
(***************************************************************************)
THEOREM TapTypes == TapSpec => []TypeOK
  BY StartType, TypeStep, PTL DEF TapSpec
-----------------------------------------------------------------------------
(***************************************************************************)
(* Nothing scrolls off unseen                                              *)
(***************************************************************************)
\* A page passes the edge of the window by what one line can add to the last
\* count below it
MaxPage == ScreenRows - 3 + MaxRows

\* Before tap_init nothing is printed: it may print one line uncounted, and
\* only as the first of its page; where no line wraps, that is one row
PagesInv ==
    /\ lines_printed <= MaxPage
    /\ lines_printed <= unseen
    /\ MaxRows = 1 => unseen <= lines_printed + 1
    /\ \A i \in DOMAIN out : out[i] = "uncounted" => i = 1 /\ unseen <= lines_printed
    /\ stage = "unused" => unseen = 0 /\ lines_printed = 0 /\ out = <<>>

CountedLines == {"blank", "checked", "wrapped"}

LEMMA PagesStart == TapInit => PagesInv
  BY ScreenAssumption DEF TapInit, TapStart, PagerInit, PagesInv, MaxPage

\* A call of an open run prints only counted lines
LEMMA PagesShown ==
  ASSUME PagesInv, stage' # "unused", UNCHANGED <<lines_printed, unseen>>,
         out' = <<>> \/ out' \in Seq(CountedLines)
  PROVE  PagesInv'
<1>1. \A i \in DOMAIN out' : out'[i] # "uncounted"
  BY DEF CountedLines
<1> QED BY <1>1 DEF PagesInv, MaxPage

LEMMA ShowsCounted ==
  ASSUME out = <<>>, NEW lines \in Seq(CountedLines), Show(lines)
  PROVE  out' = <<>> \/ out' \in Seq(CountedLines)
<1>1. <<>> \in Seq(CountedLines) /\ <<>> \o lines \in Seq(CountedLines)
  BY EmptySeq, ConcatProperties
<1> QED BY <1>1 DEF Show

LEMMA CountedSequences ==
  /\ <<"checked">> \in Seq(CountedLines) /\ <<"wrapped">> \in Seq(CountedLines)
  /\ <<"blank", "checked">> \in Seq(CountedLines) /\ <<>> \in Seq(CountedLines)
  BY DEF CountedLines

LEMMA SummaryCounted ==
  ASSUME TapTypeOK
  PROVE  SummaryLines \in Seq(CountedLines)
<1>1. Len(cat_failures) \in Nat /\ cat_note_count \in Nat
  BY TapAssumption, LenProperties DEF TapTypeOK
<1>2. \A n \in Nat : Times(n, "wrapped") \in Seq(CountedLines)
  BY DEF Times, CountedLines
<1>3. (IF cat["failed"] > Len(cat_failures) THEN <<"checked">> ELSE <<>>) \in Seq(CountedLines)
  BY CountedSequences
<1> QED BY <1>1, <1>2, <1>3, CountedSequences, ConcatProperties DEF SummaryLines

\* tap_init may print the warning first, on a page that shows nothing yet
LEMMA PagesOpened ==
  ASSUME PagesInv, stage = "unused", tap_init
  PROVE  PagesInv'
<1>1. /\ out = <<>> /\ unseen = 0 /\ lines_printed = 0
      /\ UNCHANGED <<lines_printed, unseen>> /\ stage' = "open"
  BY DEF PagesInv, tap_init
<1>2. \/ Show(<<"checked", "checked", "blank">>)
      \/ Show(<<"checked", "blank">>)
      \/ Show(<<"uncounted", "checked", "blank">>)
  BY DEF tap_init
<1>3. \/ out' = <<>>
      \/ out' = <<"checked", "checked", "blank">>
      \/ out' = <<"checked", "blank">>
      \/ out' = <<"uncounted", "checked", "blank">>
  BY <1>1, <1>2, LineSequences, ConcatEmptySeq DEF Show
<1>4. \A i \in DOMAIN out' : out'[i] = "uncounted" => i = 1
  BY <1>3
<1> QED BY <1>1, <1>4 DEF PagesInv, MaxPage

\* The pager prints a line only while it fits below the prompt
LEMMA PagesAdvanced ==
  ASSUME PagerTypeOK, PagesInv, PageAdvance, UNCHANGED stage
  PROVE  PagesInv'
<1>1. /\ page_mode /\ out # <<>> /\ out \in Seq(Lines) /\ out' = Tail(out)
      /\ lines_printed \in Nat /\ unseen \in Nat /\ ~AtPrompt
  BY DEF PagerTypeOK, PageAdvance
<1>2. PICK rows \in RowsOf(Head(out)) :
        /\ unseen' = unseen + rows
        /\ lines_printed' = lines_printed + RowsCounted(Head(out), rows)
  BY DEF PageAdvance
<1>3. PICK counted \in 0..rows :
        /\ lines_printed' = lines_printed + counted
        /\ Head(out) # "uncounted" => 1 <= counted
        /\ rows \in 1..MaxRows /\ MaxRows \in Nat /\ ScreenRows \in Nat
  BY <1>2, RowsType, ScreenAssumption
<1>4. lines_printed + MaxRows <= MaxPage
  BY <1>1, <1>3 DEF AtPrompt, screen_height, MaxPage
<1>5. PICK n \in Nat : n = Len(out) /\ n > 0 /\ DOMAIN out = 1..n /\ Head(out) = out[1]
  BY <1>1
<1>6. DOMAIN out' = 1..(n - 1) /\ \A i \in 1..(n - 1) : out'[i] = out[i + 1]
  BY <1>1, <1>5
<1>7. \A i \in DOMAIN out' : out'[i] # "uncounted"
  <2> SUFFICES ASSUME NEW i \in 1..(n - 1) PROVE out[i + 1] # "uncounted"
    BY <1>6
  <2>1. i + 1 \in DOMAIN out /\ i + 1 # 1
    BY <1>5
  <2> QED BY <2>1 DEF PagesInv
<1>8. Head(out) = "uncounted" => unseen <= lines_printed
  BY <1>5 DEF PagesInv
<1>9. lines_printed' <= unseen' /\ (MaxRows = 1 => unseen' <= lines_printed' + 1)
  BY <1>1, <1>2, <1>3, <1>8 DEF PagesInv
<1>10. lines_printed' <= MaxPage'
  BY <1>1, <1>2, <1>3, <1>4 DEF MaxPage
<1>11. stage # "unused"
  BY <1>1 DEF PagesInv
<1> QED BY <1>7, <1>9, <1>10, <1>11 DEF PagesInv

\* A key at the prompt starts a page
LEMMA PagesTurned ==
  ASSUME PagerTypeOK, PagesInv, NEW key \in Keys, PageKey(key), UNCHANGED stage
  PROVE  PagesInv'
<1>1. /\ lines_printed' = 0 /\ unseen' = 0 /\ (out' = out \/ out' = <<>>)
      /\ lines_printed \in Nat
  BY DEF PageKey, PagerTypeOK
<1>2. 0 <= MaxPage
  BY ScreenAssumption DEF MaxPage
<1>3. \A i \in DOMAIN out' : out'[i] = "uncounted" => i = 1
  BY <1>1 DEF PagesInv
<1> QED BY <1>1, <1>2, <1>3 DEF PagesInv, MaxPage

LEMMA PagesKept ==
  ASSUME PagesInv, UNCHANGED <<lines_printed, unseen, out>>, stage' = "unused" => stage = "unused"
  PROVE  PagesInv'
  BY DEF PagesInv, MaxPage

\* One step per action of the calling contract
LEMMA PagesStep == TypeOK /\ PagesInv /\ [TapNext]_vars => PagesInv'
<1> SUFFICES ASSUME TypeOK, PagesInv, [TapNext]_vars PROVE PagesInv'
  OBVIOUS
<1> DEFINE Kept  == /\ UNCHANGED <<lines_printed, unseen, out>>
                    /\ stage' = "unused" => stage = "unused"
           Shown == /\ stage' # "unused" /\ UNCHANGED <<lines_printed, unseen>>
                    /\ out' = <<>> \/ out' \in Seq(CountedLines)
<1>0. Open => out = <<>> /\ stage = "open"
  BY DEF Open, CallReturned
<1>1. CASE UseOptions
  <2>1. Kept
    BY <1>1 DEF UseOptions, tap_set_verbose, tap_set_page, tapVars, pagerVars
  <2> QED BY <2>1, PagesKept
<1>2. CASE stage = "unused" /\ tap_init
  BY <1>2, PagesOpened
<1>3. CASE UseTest
  <2>1. /\ out = <<>> /\ stage' = "open" /\ ShowVerbose
        /\ UNCHANGED <<lines_printed, unseen>>
    BY <1>0, <1>3 DEF UseTest, tap_ok, tap_skip
  <2>2. out' = <<>> \/ out' \in Seq(CountedLines)
    BY <2>1, ShowsCounted, CountedSequences DEF ShowVerbose
  <2>3. Shown
    BY <2>1, <2>2
  <2> QED BY <2>3, PagesShown
<1>4. CASE UseNote
  <2>1. Kept
    BY <1>4 DEF UseNote, tap_note, pagerVars
  <2> QED BY <2>1, PagesKept
<1>5. CASE UseBegin
  <2>1. Kept
    BY <1>5 DEF UseBegin, tap_begin_category, pagerVars
  <2> QED BY <2>1, PagesKept
<1>6. CASE UseEnd
  <2>1. /\ out = <<>> /\ stage' = "open" /\ Show(SummaryLines)
        /\ UNCHANGED <<lines_printed, unseen>>
    BY <1>0, <1>6 DEF UseEnd, tap_end_category
  <2>2. Shown
    BY <2>1, ShowsCounted, SummaryCounted DEF TypeOK
  <2> QED BY <2>2, PagesShown
<1>7. CASE UseBail
  <2>1. /\ out = <<>> /\ stage' = "open" /\ Show(<<"checked">>)
        /\ UNCHANGED <<lines_printed, unseen>>
    BY <1>0, <1>7 DEF UseBail, tap_bail
  <2>2. Shown
    BY <2>1, ShowsCounted, CountedSequences
  <2> QED BY <2>2, PagesShown
<1>8. CASE UsePlan
  <2>1. Kept
    BY <1>8 DEF UsePlan, tap_plan, pagerVars
  <2> QED BY <2>1, PagesKept
<1>9. CASE UseFinish
  <2>1. /\ out = <<>> /\ stage' = "finished" /\ Show(<<"blank", "checked">>)
        /\ UNCHANGED <<lines_printed, unseen>>
    BY <1>0, <1>9 DEF UseFinish, tap_finish
  <2>2. Shown
    BY <2>1, ShowsCounted, CountedSequences
  <2> QED BY <2>2, PagesShown
<1>10. CASE UsePager
  <2>1. UNCHANGED stage
    BY <1>10 DEF UsePager, tapVars
  <2>2. CASE UserBreak
    BY <2>1, <2>2, PagesKept DEF UserBreak
  <2> QED BY <1>10, <2>1, <2>2, PagesAdvanced, PagesTurned DEF UsePager, TypeOK
<1>11. CASE UseProfile
  <2>1. Kept
    BY <1>11 DEF UseProfile, tapVars, pagerVars
  <2> QED BY <2>1, PagesKept
<1>12. CASE UNCHANGED vars
  <2>1. Kept
    BY <1>12 DEF vars, tapVars, pagerVars
  <2> QED BY <2>1, PagesKept
<1> QED BY <1>1, <1>2, <1>3, <1>4, <1>5, <1>6, <1>7, <1>8, <1>9, <1>10, <1>11, <1>12
        DEF TapNext, TapCall, Over

LEMMA PagesAlways == TapSpec => []PagesInv
  BY PagesStart, PagesStep, TapTypes, PTL DEF TapSpec

(***************************************************************************)
(* In a window of any height, with lines of any length, the rows that have *)
(* scrolled off unseen when the user is asked to page are at most those    *)
(* the reporter did not count, and the last line's beyond two: the height  *)
(* it pages by does reserve the prompt's row (page_advance, page_check,    *)
(* detect_screen_size).                                                    *)
(***************************************************************************)
THEOREM PageOverrunBounded == TapSpec => []OnlyOverlookedScrollsOff
<1>1. TypeOK /\ PagesInv => OnlyOverlookedScrollsOff
  BY ScreenAssumption
  DEF TypeOK, PagerTypeOK, PagesInv, OnlyOverlookedScrollsOff, ScrolledOff, Overlooked, Overhang,
      MaxPage
<1> QED BY <1>1, PagesAlways, TapTypes, PTL

NothingScrollsOff == AtPrompt => unseen + 1 <= ScreenRows

(***************************************************************************)
(* In a window as wide as every line printed, the page and the prompt      *)
(* below it fit the window, the log file warning that nobody counts        *)
(* included: there detect_screen_size() keeps all content visible, however *)
(* many lines the calls print and whenever the user answers.               *)
(***************************************************************************)
THEOREM NothingEverScrollsOff == MaxRows = 1 => (TapSpec => []NothingScrollsOff)
<1> SUFFICES ASSUME MaxRows = 1 PROVE TapSpec => []NothingScrollsOff
  OBVIOUS
<1>1. TypeOK /\ PagesInv => NothingScrollsOff
  BY ScreenAssumption DEF TypeOK, PagerTypeOK, PagesInv, NothingScrollsOff, MaxPage
<1> QED BY <1>1, PagesAlways, TapTypes, PTL
=============================================================================
