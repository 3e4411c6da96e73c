------------------------------- MODULE Pager -------------------------------
(***************************************************************************)
(* The screen pager of the reporter (tap.c, page_advance and the wrap      *)
(* arithmetic around it).  A reporter call hands the lines it prints to    *)
(* the queue `out`; PageAdvance prints them one at a time, and the call    *)
(* has returned when the queue is empty.  In between, the program may be   *)
(* blocked in Read() at a prompt, where the user's key decides.            *)
(***************************************************************************)
EXTENDS Integers, Sequences

CONSTANTS
    ScreenRows,   \* rows of the console window (cu_YMax + 1)
    MaxRows       \* most screen rows one line takes

VARIABLES
    page_mode,      \* pagination enabled
    lines_printed,  \* screen rows counted since the last page break
    unseen,         \* history: rows actually printed since that break
    out,            \* lines of the running reporter call still to print
    brk             \* SIGBREAKF_CTRL_C is pending

pagerVars == <<page_mode, lines_printed, unseen, out, brk>>

ASSUME ScreenAssumption == ScreenRows \in Nat /\ ScreenRows >= 3 /\ MaxRows \in Nat \ {0}

\* slip: cu_YMax is 0-based, so add one
screen_height_full == ScreenRows

\* detect_screen_size() takes cu_YMax as the height: one less than the rows
screen_height == ScreenRows - 1

\* A "blank" line and a "checked" one are counted as one row (page_check), a
\* "wrapped" one as the rows it takes (wrap_rows), and an "uncounted" one not
\* at all.  Only a blank line is sure to take one row.
Lines == {"blank", "checked", "wrapped", "uncounted"}

RowsOf(line) == IF line = "blank" THEN {1} ELSE 1..MaxRows

RowsCounted(line, rows) ==
    CASE line = "wrapped"   -> rows
      [] line = "uncounted" -> 0
      [] OTHER              -> 1

PagerInit ==
    /\ page_mode = FALSE
    /\ lines_printed = 0
    /\ unseen = 0
    /\ out = <<>>
    /\ brk = FALSE

\* What a reporter call prints.  With paging off, page_advance returns at once.
Show(lines) == out' = IF page_mode THEN out \o lines ELSE out

\* The screen is full: page_advance is blocked in Read() on one raw key
AtPrompt == page_mode /\ lines_printed >= screen_height - 1

\* No reporter call is running: the last one has printed all its lines
CallReturned == out = <<>> /\ ~AtPrompt

(***************************************************************************)
(* page_advance(rows) for the next line of the running call.               *)
(***************************************************************************)
PageAdvance ==
    /\ out # <<>> /\ ~AtPrompt
    /\ out' = Tail(out)
    /\ \E rows \in RowsOf(Head(out)) :
         /\ unseen' = unseen + rows
         /\ lines_printed' = lines_printed + RowsCounted(Head(out), rows)
    /\ UNCHANGED <<page_mode, brk>>

Keys == {"q", "ctrl_c", "other", "eof"}

(***************************************************************************)
(* The user's answer to the prompt.  Enter (any other key) turns the page; *)
(* the rest stop paging, so the remaining lines of the call scroll past.   *)
(***************************************************************************)
PageKey(key) ==
    /\ AtPrompt
    /\ page_mode' = (key = "other")
    /\ brk' = (brk \/ key = "ctrl_c")
    /\ out' = IF key = "other" THEN out ELSE <<>>
    /\ lines_printed' = 0
    /\ unseen' = 0

\* Ctrl-C typed while no prompt is reading the keyboard
UserBreak ==
    /\ ~AtPrompt /\ ~brk
    /\ brk' = TRUE
    /\ UNCHANGED <<page_mode, lines_printed, unseen, out>>

(***************************************************************************)
(* What has left the window when the user is asked to page, the prompt on  *)
(* the row below, is no more than the rows that were printed and not       *)
(* counted; and where a line may take more than two rows, those of the     *)
(* page's last line but two.  So detect_screen_size() reserves the row it  *)
(* means to, but its "keeping all content visible without scrolling off"   *)
(* does not hold: a header, log path, category, bail-out or result line    *)
(* that wraps counts as one row, and the log file warning as none.         *)
(***************************************************************************)
Overlooked  == unseen - lines_printed
ScrolledOff == IF unseen + 1 > ScreenRows THEN unseen + 1 - ScreenRows ELSE 0
Overhang    == IF MaxRows > 2 THEN MaxRows - 2 ELSE 0

OnlyOverlookedScrollsOff == AtPrompt => ScrolledOff <= Overlooked + Overhang
=============================================================================
