------------------------------- MODULE Diary -------------------------------
(***************************************************************************)
(* A ledger says what a test has taken and must give back.  On a sound     *)
(* stack that has descriptors enough, a diary says what has happened       *)
(* besides: the connections and the events there are and what the test was *)
(* told of them, by the locals they concern.  That is enough to tell what  *)
(* a test will report and that none waits for what never comes, however    *)
(* the events interleave with its steps; TLC decides it for all the tests  *)
(* by going through the diaries they can reach (DiariesBalance).  That a   *)
(* diary is right about Resources is proved in ResourceProofs.             *)
(***************************************************************************)
EXTENDS Ledger

Sizes == {"dtsize", "new_dtsize"}

Days == [ pending  : SUBSET Locals,               \* listeners with a connection
          watched  : SUBSET Locals,
          due      : SUBSET Locals,
          queue    : Seq(Locals),                 \* the events of the library
          got      : Seq(Locals \union {"nothing"}),
          raised   : BOOLEAN,
          rc       : {"none", "ok", "progress"},
          complete : BOOLEAN,
          sized    : SUBSET Sizes,                \* those that hold 64 or more
          roomy    : BOOLEAN,                     \* the table has 64 or more
          spared   : BOOLEAN ]                    \* a known crash, which is reported as failed

Dawn(roomy, spared) ==
    [ pending |-> {}, watched |-> {}, due |-> {}, queue |-> <<>>, got |-> <<>>, raised |-> FALSE,
      rc |-> "none", complete |-> FALSE, sized |-> {}, roomy |-> roomy, spared |-> spared ]

Entry(ledger, day) == [ledger |-> ledger, day |-> day]

Busy(y) == y.pending \union y.watched \union y.due \union {y.queue[i] : i \in DOMAIN y.queue}
-----------------------------------------------------------------------------
(***************************************************************************)
(* What a step leads to                                                    *)
(***************************************************************************)
Queues(y, l) == [y EXCEPT !.pending = @ \union {l}, !.due = @ \union ({l} \intersect y.watched)]

Reaches(s, y, rc, event) ==
    [Queues(y, s.y) EXCEPT !.rc = rc, !.due = @ \union ((IF event THEN {s.x} ELSE {}) \intersect y.watched)]

Gone(y, l) == [y EXCEPT !.pending = @ \ {l}, !.watched = @ \ {l}, !.due = @ \ {l}]

Told(y) ==
    [y EXCEPT !.got = Append(@, IF y.queue = <<>> THEN "nothing" ELSE Head(y.queue)),
              !.queue = IF @ = <<>> THEN @ ELSE Tail(@)]

Knows(y, x, large) == [y EXCEPT !.sized = IF large THEN @ \union {x} ELSE @ \ {x}]

\* Steps that change nothing a diary follows
Dull == {"if", "if_size", "if_rc", "if_helper", "if_event", "alloc", "socket", "listen", "refused", "dup",
         "forget", "release", "release_copy", "obtain", "open_many", "close_many", "free", "set_mask",
         "save_mask", "delay", "wait_writable", "errno_ptr", "set_dtable", "restore_dtable", "judge", "say"}

DaysAfter(s, y) ==
    LET Upon(ops, days) == IF s.op \in ops THEN days ELSE {}
    IN  Upon(Dull, {y})
        \union Upon({"connect"}, {Queues(y, s.y)})
        \union Upon({"connect_now", "connect_async"}, {Reaches(s, y, "ok", event) : event \in BOOLEAN})
        \union Upon({"connect_async"}, {Reaches(s, y, "progress", TRUE)})
        \union Upon({"accept"}, {[y EXCEPT !.pending = @ \ {s.y}]})
        \union Upon({"close"}, {Gone(y, s.x)})
        \union Upon({"signal"}, {[y EXCEPT !.raised = TRUE]})
        \union Upon({"clear", "wait"}, {[y EXCEPT !.raised = FALSE]})
        \union Upon({"watch"}, {[y EXCEPT !.watched = @ \union {s.x}]})
        \union Upon({"unwatch"}, {[y EXCEPT !.watched = @ \ {s.x}]})
        \union Upon({"cause"}, {[y EXCEPT !.due = @ \union ({s.x} \intersect y.watched)]})
        \union Upon({"get"}, {Told(y)})
        \union Upon({"complete"}, {[y EXCEPT !.complete = TRUE]})
        \union Upon({"get_dtable"}, {Knows(y, s.x, y.roomy)})
        \union Upon({"let"}, {Knows(y, s.x, s.y >= 64)})
        \union Upon({"let_sum"}, {Knows(y, s.x, s.y \in y.sized)})

\* What comes of a step when no call fails: descriptors, and the right branch
Sound(s, rest, y, ledger) ==
    /\ s.op \in Gets \ {"refused"} => ledger.book.fd[s.x] = "open"
    /\ s.op = "refused" => ledger.book.fd[s.x] = "none"
    /\ s.op = "if_event" => ledger.todo = s.yes \o rest
    /\ s.op = "if_size" /\ s.least <= 64 /\ s.x \in y.sized => ledger.todo = s.yes \o rest

Waits(s, y) ==
    \/ s.op = "wait" /\ ~y.raised /\ y.due # {}
    \/ s.op \in {"delay", "wait_writable"} /\ y.due # {}

\* The test takes a step
Turns(e) ==
    LET s == Head(e.ledger.todo)
    IN  IF e.ledger.todo = <<>> \/ Waits(s, e.day) THEN {}
        ELSE {Entry(c, y) : c \in {d \in Moves(e.ledger) : Sound(s, Tail(e.ledger.todo), e.day, d)},
                            y \in DaysAfter(s, e.day)}

\* An event comes for a socket, which is watched or not
Comes(y, l, masks) ==
    IF l \in y.watched
    THEN [y EXCEPT !.due = @ \ {l}, !.queue = Append(@, l), !.raised = @ \/ MayRaise(masks)]
    ELSE [y EXCEPT !.due = @ \ {l}]

Arrivals(e) == {Entry(e.ledger, Comes(e.day, l, e.ledger.book.masks)) : l \in e.day.due}
-----------------------------------------------------------------------------
(***************************************************************************)
(* What a step may be taken in                                             *)
(***************************************************************************)
\* The verdict will be no failure: Passed, as a diary sees it
Deserved(how, y) ==
    /\ how \in {"server", "listener"} => y.got = <<how>>
    /\ how = "consumed" => Len(y.got) = 2 /\ y.got[1] # "nothing" /\ y.got[2] = "nothing"
    /\ how = "both" => /\ Len(y.got) = 3 /\ y.got[3] = "nothing"
                       /\ y.got[1] \in {"server", "server2"} /\ y.got[2] \in {"server", "server2"}
                       /\ y.got[1] # y.got[2]
    /\ how = "none" => y.got = <<"nothing">>
    /\ how = "quiet" => y.got = <<"nothing">> /\ ~y.raised
    /\ how = "connected" => ~(y.rc = "progress" /\ y.got = <<"nothing">>)
    /\ how = "complete" => y.complete
    /\ how # "refused"

OpenLocals(b) == {l \in Locals : b.fd[l] = "open"}

\* There is a descriptor for each call, a connection for each accept() and
\* the right event for each check, and nothing fails that is judged
Suits(s, b, y) ==
    /\ s.op \in Gets => ~b.many /\ Cardinality(OpenLocals(b)) < 6
    /\ s.op \in Overwrites => s.x \notin {y.got[i] : i \in DOMAIN y.got}
    /\ s.op \in {"connect", "accept", "connect_now", "connect_async"} => b.fd[s.y] = "open"
    /\ s.op = "accept" => s.y \in y.pending
    /\ s.op \in {"watch", "unwatch", "cause", "connect_now", "connect_async"} => b.fd[s.x] = "open"
    /\ s.op \in {"release", "release_copy"} => s.y \notin Busy(y)
    /\ s.op = "close" => s.x \notin {y.queue[i] : i \in DOMAIN y.queue}
    /\ s.op = "obtain" => b.pooled
    /\ s.op = "if_event" => y.got # <<>> /\ y.got[Len(y.got)] = "server"
    /\ s.op = "if_size" => s.x \in Sizes /\ s.least \in Nat
    /\ s.op = "let" => s.y \in Nat
    /\ s.op = "set_dtable" => s.x \in Sizes /\ (y.roomy => s.x \in y.sized)
    /\ s.op = "restore_dtable" => ~y.roomy
    /\ s.op = "judge" => /\ b.said = 0 /\ Deserved(s.x, y)
                         /\ \A i \in DOMAIN y.got : y.got[i] = "nothing" \/ b.fd[y.got[i]] = "open"
    /\ s.op = "say" => b.said = 0 /\ (s.x = "fail" => y.spared)

InOrder(e) ==
    /\ Balanced(e.ledger) /\ e.ledger.sound /\ e.day \in Days
    /\ Busy(e.day) \subseteq OpenLocals(e.ledger.book)
    /\ e.ledger.todo # <<>> => Suits(Head(e.ledger.todo), e.ledger.book, e.day)
-----------------------------------------------------------------------------
(***************************************************************************)
(* All the diaries of all the tests, and of the known crashes              *)
(***************************************************************************)
MaxEntries == 60

\* No test of test_waitselect.c counts on the size of the table
Roomy(f) == f # "waitselect"

Starting(n, spared) == IF spared THEN Spared(n) ELSE Program(n)

Waking(f, n, spared) ==
    Entry([todo |-> Starting(n, spared), sound |-> TRUE, book |-> Blank], Dawn(Roomy(f), spared))

DiariesOf(f, n, spared) ==
    LET Reached[k \in 0..MaxEntries] ==
          IF k = 0 THEN {Waking(f, n, spared)}
          ELSE LET before == Reached[k - 1]
               IN  before \union UNION {Turns(e) \union Arrivals(e) : e \in before}
    IN  Reached[MaxEntries]

AllInOrder(first, diaries) ==
    /\ first \in diaries
    /\ \A e \in diaries : InOrder(e) /\ Turns(e) \union Arrivals(e) \subseteq diaries

(***************************************************************************)
(* Evaluated by TLC: MaxEntries are enough, and no diary is out of order.  *)
(***************************************************************************)
ASSUME DiariesBalance ==
    \A f \in DOMAIN Files, spared \in BOOLEAN : \A n \in Files[f].first..Files[f].last :
        AllInOrder(Waking(f, n, spared), DiariesOf(f, n, spared))
=============================================================================
