------------------------------- MODULE Ledger -------------------------------
(***************************************************************************)
(* The steps of every test followed on paper: what a test is known to      *)
(* hold before each step that can come next, whatever descriptors there    *)
(* are and whatever the stack answers.  A ledger does not know the number  *)
(* of a descriptor, only what has become of it; that is enough to tell     *)
(* whether a test gives everything back, and TLC decides it for all the    *)
(* tests by going through the ledgers they can reach (BooksBalance).  That *)
(* a ledger is right about Resources is proved in ResourceProofs.          *)
(***************************************************************************)
EXTENDS Resources

(***************************************************************************)
(* A local of the test is "none" (-1), "open" when the test has to close   *)
(* it, "used" when it still has a number that is not the test's to close,  *)
(* or "old" when an earlier test left something in it.                     *)
(***************************************************************************)
Statuses == {"none", "open", "used", "old"}
MaskTags == {"BREAKMASK", "SIGEVENTMASK"}

Books == [ fd     : [Locals -> Statuses],
           many   : BOOLEAN,          \* the sockets of open_many are open
           signal : BOOLEAN,          \* allocated
           raised : BOOLEAN,          \* it may be in the task's signals
           masks  : SUBSET MaskTags,  \* those that name the signal
           orig   : BOOLEAN,          \* the mask saved names it
           errno  : BOOLEAN,          \* errors are written to a local
           pooled : BOOLEAN,          \* a socket waits in the pool
           said   : 0..2 ]            \* reports, 2 for more

Blank == [ fd |-> [l \in Locals |-> "old"], many |-> FALSE, signal |-> FALSE, raised |-> FALSE,
           masks |-> {}, orig |-> FALSE, errno |-> FALSE, pooled |-> FALSE, said |-> 0 ]

Ledgers(steps, fair, books) == {[todo |-> steps, sound |-> fair, book |-> b] : b \in books}
-----------------------------------------------------------------------------
(***************************************************************************)
(* What a step leads to                                                    *)
(***************************************************************************)
Gets == {"socket", "listen", "connect", "accept", "refused", "dup"}

Becomes(b, l, status) == [b EXCEPT !.fd[l] = status]

MayRaise(masks) == "SIGEVENTMASK" \in masks

Released(s, b) ==
    [b EXCEPT !.fd = IF s.op = "release" THEN [@ EXCEPT ![s.x] = "used", ![s.y] = "used"]
                                         ELSE [@ EXCEPT ![s.x] = "used"],
              !.pooled = (s.op = "release")]

Masked(b, masks) == [b EXCEPT !.masks = masks, !.raised = @ \/ MayRaise(masks)]

NamesSignal(s, b) == s.y = "sigbit" \/ (s.y = "orig" /\ b.orig)

After(s, b, fair) ==
    CASE s.op \in Gets   -> {Becomes(b, s.x, "open"), Becomes(b, s.x, "none")}
      [] s.op = "close"  -> {Becomes(b, s.x, IF b.fd[s.x] = "open" THEN "used" ELSE b.fd[s.x])}
      [] s.op = "forget" -> {Becomes(b, s.x, "none")}
      [] s.op \in {"release", "release_copy"} ->
            {Released(s, b)} \union (IF fair THEN {} ELSE {Becomes(b, s.x, "none")})
      [] s.op = "obtain" ->
            {[Becomes(b, s.x, "open") EXCEPT !.pooled = FALSE]}
            \union (IF fair /\ b.pooled THEN {} ELSE {[Becomes(b, s.x, "none") EXCEPT !.pooled = FALSE]})
      [] s.op \in {"open_many", "close_many"} -> {[b EXCEPT !.many = (s.op = "open_many")]}
      [] s.op = "free"   -> {[b EXCEPT !.signal = FALSE]}
      [] s.op = "signal" -> {[b EXCEPT !.raised = TRUE]}
      [] s.op \in {"clear", "wait"} -> {[b EXCEPT !.raised = MayRaise(b.masks)]}
      [] s.op = "set_mask" ->
            {Masked(b, IF NamesSignal(s, b) THEN b.masks \union {s.x} ELSE b.masks \ {s.x})}
      [] s.op = "save_mask" -> {[b EXCEPT !.orig = (s.x \in b.masks)]}
      [] s.op = "errno_ptr" -> {[b EXCEPT !.errno = (s.x = "local")]}
      [] s.op \in {"judge", "say"} -> {[b EXCEPT !.said = IF @ = 0 THEN 1 ELSE 2]}
      [] OTHER -> {b}

Moves(c) ==
    LET s    == Head(c.todo)
        rest == Tail(c.todo)
        When(condition) == IF condition THEN {c.book} ELSE {}
    IN  CASE s.op = "if" ->
               Ledgers(s.yes \o rest, c.sound, When(\A l \in s.needs : c.book.fd[l] # "none"))
               \union Ledgers(s.no \o rest, c.sound,
                              When(\E l \in s.needs : c.book.fd[l] \notin {"open", "used"}))
          [] s.op \in {"if_size", "if_rc", "if_helper"} ->
               Ledgers(s.yes \o rest, c.sound, {c.book}) \union Ledgers(s.no \o rest, c.sound, {c.book})
          [] s.op = "if_event" ->
               Ledgers(s.yes \o rest, c.sound, {c.book}) \union Ledgers(<<>> \o rest, c.sound, {c.book})
          [] s.op = "alloc" ->
               Ledgers(rest, c.sound, {[c.book EXCEPT !.signal = TRUE]})
               \union Ledgers(Skip, c.sound, When(~c.sound))
          [] OTHER -> Ledgers(rest, c.sound, After(s, c.book, c.sound))
-----------------------------------------------------------------------------
(***************************************************************************)
(* What a step may be taken in, and what a test may end with               *)
(***************************************************************************)
Overwrites == Gets \union {"forget", "obtain", "release", "release_copy"}

\* Nothing open is overwritten, and nothing is closed that is not open
Fits(s, b) ==
    /\ s.op \in Overwrites => s.x \in Locals /\ b.fd[s.x] # "open"
    /\ s.op = "close" => s.x \in Locals /\ b.fd[s.x] \in {"open", "none"}
    /\ s.op \in {"release", "release_copy"} => s.y \in Locals /\ b.fd[s.y] = "open"
    /\ s.op \in {"connect", "accept", "connect_now", "connect_async"} => s.y \in Locals
    /\ s.op \in {"connect_now", "connect_async", "watch", "unwatch", "cause"} => s.x \in Locals
    /\ s.op = "if" => s.needs \subseteq Locals
    /\ s.op = "open_many" => ~b.many
    /\ s.op \in {"set_mask", "save_mask"} => s.x \in MaskTags
    /\ s.op \in {"get_dtable", "let", "let_sum"} => s.x \in {"dtsize", "new_dtsize"}
    \* the room that a socket leaves behind is still there when it comes back
    /\ b.pooled => s.op \in {"if", "forget", "obtain"}

Settled(b) ==
    /\ \A l \in Locals : b.fd[l] # "open"
    /\ ~b.many /\ ~b.signal /\ b.masks = {} /\ ~b.orig /\ ~b.errno /\ ~b.pooled /\ b.said = 1

Balanced(c) ==
    /\ c.book \in Books
    /\ MayRaise(c.book.masks) => c.book.raised
    /\ c.book.raised \/ c.book.masks # {} => c.book.signal
    /\ c.book.said <= 1
    /\ IF c.todo = <<>> THEN Settled(c.book) ELSE Fits(Head(c.todo), c.book)
-----------------------------------------------------------------------------
(***************************************************************************)
(* All the ledgers of all the tests, and of the known crashes              *)
(***************************************************************************)
MaxSteps == 40

Opening(script) == UNION {Ledgers(script, fair, {Blank}) : fair \in BOOLEAN}

LedgersOf(script) ==
    LET Reached[n \in 0..MaxSteps] ==
          IF n = 0 THEN Opening(script)
          ELSE LET before == Reached[n - 1]
               IN  before \union UNION {Moves(c) : c \in {d \in before : d.todo # <<>>}}
    IN  Reached[MaxSteps]

AllBalanced(script, ledgers) ==
    /\ Opening(script) \subseteq ledgers
    /\ \A c \in ledgers : Balanced(c) /\ (c.todo # <<>> => Moves(c) \subseteq ledgers)

Tests == UNION {Files[f].first..Files[f].last : f \in DOMAIN Files}

(***************************************************************************)
(* Evaluated by TLC: MaxSteps are enough, and no test is out of balance.   *)
(***************************************************************************)
ASSUME BooksBalance ==
    \A n \in Tests :
        /\ AllBalanced(Program(n), LedgersOf(Program(n)))
        /\ AllBalanced(Spared(n), LedgersOf(Spared(n)))
=============================================================================
