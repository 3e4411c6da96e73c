----------------------------- MODULE Resources -----------------------------
(***************************************************************************)
(* The tests of one category against what they borrow: descriptors, the    *)
(* task's signal, the masks, the errno pointer and the table size that     *)
(* bsdsocket.library keeps for its opener.  testutil.c opens and closes    *)
(* the library and wraps its calls; module ResourceTests has the tests,    *)
(* whose steps are carried out here, one library call at a time.           *)
(*                                                                         *)
(* The stack is what is being tested.  When it is sound no call fails and  *)
(* events come in time; otherwise any call that takes or asks for          *)
(* something may fail, events may come late or not at all, and the event   *)
(* signal may be raised at any time.  What gives back or sets does its     *)
(* work: CloseSocket(), FreeSignal(), the masks and the errno pointer,     *)
(* the results of which decide a verdict at most.                          *)
(***************************************************************************)
EXTENDS ResourceTests, FiniteSets

CONSTANTS
    Categories,   \* the categories run, of Files
    Descriptors,  \* 0..63 unless the table has grown
    Many,         \* the sockets tests 70 and 131 open (65, up to 256)
    CrashLists,   \* the known crashes a profile may list
    Garbage       \* what an uninitialized LONG may hold

ASSUME ResourcesAssumption ==
    /\ Categories \subseteq DOMAIN Files
    /\ Descriptors \subseteq Nat /\ IsFiniteSet(Descriptors)
    /\ Many \in Nat \ {0} /\ Garbage \subseteq Int

\* No test but 70 and 131 has more sockets open at a time; what is proved of a
\* sound stack rests on this
ASSUME EnoughDescriptors == Cardinality(Descriptors) >= 6

VARIABLES
    sound,
    crashes,     \* tests listed KNOWN_CRASH
    category,
    connected,   \* to the host helper, before the tests
    phase,       \* "closed", "reset", "between", "test" or "done"
    current,     \* the test begun last
    todo,        \* the steps it has left
    lib,         \* what the library keeps for its opener
    allocated,   \* the test's signal bit is allocated,
    raised,      \* and is set in the task's signals
    fd,          \* the locals that hold descriptors; "id" is released_id
    own,         \* the other locals
    said,        \* history: what the test has reported
    misclosed    \* history: a descriptor was closed that was not open

runVars == <<sound, crashes, category, connected>>
resVars == <<runVars, phase, current, todo, lib, allocated, raised, fd, own, said, misclosed>>

Locals == {"fd", "fd2", "listener", "client", "server", "listener2", "client2", "server2", "other", "id"}

UsesHelper == {"sendrecv", "throughput"}

ResInit ==
    /\ sound \in BOOLEAN /\ crashes \in CrashLists /\ category \in Categories
    /\ connected \in IF category \in UsesHelper THEN BOOLEAN ELSE {FALSE}
    /\ phase = "closed" /\ current = Files[category].first - 1 /\ todo = <<>>
    /\ \E leftover \in SUBSET {0}, table \in {64, 128} :
         lib = [open |-> leftover, pending |-> {}, watched |-> {}, due |-> {}, events |-> <<>>,
                masks |-> [m \in {"BREAKMASK", "SIGEVENTMASK"} |-> IF m = "BREAKMASK" THEN "ctrl_c" ELSE "none"],
                pool |-> {}, errno_ptr |-> "none", dtable |-> table]
    /\ allocated = FALSE /\ raised = FALSE
    /\ fd = [l \in Locals |-> None]
    /\ \E value \in Garbage :
         own = [dtsize |-> value, new_dtsize |-> value, orig |-> "none", many |-> {},
                got |-> <<>>, rc |-> "none", complete |-> FALSE]
    /\ said = <<>> /\ misclosed = FALSE
-----------------------------------------------------------------------------
(***************************************************************************)
(* The library, opened before the tests and closed after them              *)
(***************************************************************************)
InLibrary == UNCHANGED <<runVars, current, todo, allocated, raised, fd, own, said, misclosed>>

\* OpenLibrary may fail, and so may the registration, which is only warned of
open_bsdsocket ==
    /\ phase = "closed" /\ InLibrary
    /\ \/ phase' = "reset"
          /\ \E ptr \in {"bsd_errno"} \union (IF sound THEN {} ELSE {"none"}) :
               lib' = [lib EXCEPT !.errno_ptr = ptr]
       \/ ~sound /\ phase' = "done" /\ UNCHANGED lib

\* slip: the loop begins at 1
ResetFromOne ==
    /\ phase = "reset" /\ phase' = "between"
    /\ lib' = [lib EXCEPT !.open = @ \ (1..63)]
    /\ InLibrary

reset_socket_state ==
    /\ phase = "reset" /\ phase' = "between"
    /\ lib' = [lib EXCEPT !.open = @ \ (0..63)]
    /\ InLibrary

\* After the last test, or after any other when Ctrl-C was pressed (CHECK_CTRLC);
\* a closed library has neither sockets nor a pool
close_bsdsocket ==
    /\ phase = "between"
    /\ phase' = "done"
    /\ lib' = [lib EXCEPT !.open = {}, !.pool = {}, !.errno_ptr = "none"]
    /\ InLibrary
-----------------------------------------------------------------------------
(***************************************************************************)
(* A test begins, and takes its steps                                      *)
(***************************************************************************)
\* slip: a known crash is reported, and the test runs all the same
BeginAnyway ==
    /\ phase = "between" /\ current < Files[category].last
    /\ phase' = "test" /\ current' = current + 1
    /\ todo' = (IF current + 1 \in crashes THEN Fail ELSE <<>>) \o Program(current + 1)
    /\ own' = [own EXCEPT !.got = <<>>, !.rc = "none", !.complete = FALSE] /\ said' = <<>>
    /\ UNCHANGED <<runVars, lib, allocated, raised, fd, misclosed>>

Begin ==
    /\ phase = "between" /\ current < Files[category].last
    /\ phase' = "test" /\ current' = current + 1
    /\ todo' = IF current + 1 \in crashes THEN Spared(current + 1) ELSE Program(current + 1)
    /\ own' = [own EXCEPT !.got = <<>>, !.rc = "none", !.complete = FALSE] /\ said' = <<>>
    /\ UNCHANGED <<runVars, lib, allocated, raised, fd, misclosed>>

End ==
    /\ phase = "test" /\ todo = <<>>
    /\ phase' = "between"
    /\ UNCHANGED <<runVars, current, todo, lib, allocated, raised, fd, own, said, misclosed>>

At(op) == phase = "test" /\ todo # <<>> /\ Head(todo).op = op

Same == UNCHANGED <<runVars, phase, current>>

\* The step op is done, and may have changed what the frame leaves out
Do(op) == At(op) /\ todo' = Tail(todo) /\ Same

X == Head(todo).x
Y == Head(todo).y

KeepTask == UNCHANGED <<allocated, raised>>
KeepTest == UNCHANGED <<said, misclosed>>

Decide(op, condition) ==
    /\ At(op) /\ Same
    /\ todo' = (IF condition THEN Head(todo).yes ELSE Head(todo).no) \o Tail(todo)
    /\ UNCHANGED <<lib, fd, own>> /\ KeepTask /\ KeepTest

Branch ==
    \/ At("if") /\ Decide("if", \A l \in Head(todo).needs : fd[l] >= 0)
    \/ At("if_size") /\ Decide("if_size", own[X] >= Head(todo).least)
    \/ At("if_rc") /\ Decide("if_rc", own.rc = "ok")
    \/ At("if_helper") /\ Decide("if_helper", connected)
-----------------------------------------------------------------------------
(***************************************************************************)
(* Descriptors                                                             *)
(***************************************************************************)
May(fails) == IF sound THEN {} ELSE fails

\* What a call that makes a descriptor may return: the lowest free one, or -1
Made(open) ==
    LET free == Descriptors \ open
    IN  IF free = {} THEN {None} ELSE {CHOOSE d \in free : \A e \in free : d <= e} \union May({None})

Returned(f, d) ==
    /\ fd' = [fd EXCEPT ![f] = d]
    /\ UNCHANGED own /\ KeepTask /\ KeepTest

WithOpen(d) == [lib EXCEPT !.open = @ \union ({d} \ {None})]

Socket ==
    /\ Do("socket") \/ Do("listen")
    /\ \E d \in Made(lib.open) : Returned(X, d) /\ lib' = WithOpen(d)

\* A call that has to fail, and on a stack that is not sound may succeed
Refused ==
    /\ Do("refused")
    /\ \E d \in {None} \union May(Made(lib.open)) : Returned(X, d) /\ lib' = WithOpen(d)

\* A connection queues at the listener and may be an event for it
Queued(l) ==
    [lib EXCEPT !.pending = @ \union {fd[l]}, !.due = @ \union ({fd[l]} \intersect lib.watched)]

\* slip: the client does not connect to its listener
ConnectElsewhere ==
    /\ Do("connect")
    /\ \E d \in Made(lib.open) : Returned(X, d) /\ lib' = WithOpen(d)

Connect ==
    /\ Do("connect")
    /\ \E d \in Made(lib.open) \union (IF fd[Y] = None THEN {None} ELSE {}) :
         /\ fd[Y] = None => d = None
         /\ Returned(X, d)
         /\ lib' = IF d = None THEN lib ELSE [Queued(Y) EXCEPT !.open = @ \union {d}]

\* connect() on a socket: at once, in progress, or an error
ConnectSocket ==
    /\ Do("connect_now") \/ Do("connect_async")
    /\ \E rc \in {"ok"} \union (IF At("connect_async") THEN {"progress"} ELSE {}) \union May({"error"}),
          event \in BOOLEAN, arrives \in {TRUE} \union May({FALSE}) :
         /\ own' = [own EXCEPT !.rc = rc]
         /\ rc = "progress" => event
         /\ lib' = IF rc = "error" \/ ~arrives THEN lib
                   ELSE [Queued(Y) EXCEPT !.due = @ \union ((IF event THEN {fd[X]} ELSE {}) \intersect lib.watched)]
    /\ UNCHANGED fd /\ KeepTask /\ KeepTest

\* accept() takes a waiting connection, fails, or waits, for ever if none comes
Accept ==
    /\ Do("accept")
    /\ \/ /\ fd[Y] \in lib.pending
          /\ \E d \in Made(lib.open) : Returned(X, d) /\ lib' = [WithOpen(d) EXCEPT !.pending = @ \ {fd[Y]}]
       \/ /\ fd[Y] = None \/ ~sound
          /\ Returned(X, None) /\ UNCHANGED lib

AcceptWaits ==
    /\ At("accept") /\ fd[Y] # None /\ fd[Y] \notin lib.pending
    /\ UNCHANGED resVars

\* The first branch is the second where d has no event, in a form that can be proved about
Without(events, d) ==
    IF \A i \in DOMAIN events : events[i] # d THEN events ELSE SelectSeq(events, LAMBDA e : e # d)

\* What is known of a descriptor goes with it; the variable keeps the number
Close ==
    /\ Do("close")
    /\ LET others(S) == S \ {fd[X]}
       IN  lib' = [lib EXCEPT !.open = others(@), !.pending = others(@), !.watched = others(@),
                              !.due = others(@), !.events = Without(@, fd[X])]
    /\ misclosed' = (misclosed \/ (fd[X] # None /\ fd[X] \notin lib.open))
    /\ UNCHANGED <<fd, own, said>> /\ KeepTask

Forget == Do("forget") /\ Returned(X, None) /\ UNCHANGED lib

\* The lowest free descriptors, until there are enough or a call fails
OpenMany ==
    /\ Do("open_many")
    /\ \E S \in SUBSET (Descriptors \ lib.open) :
         /\ Cardinality(S) = Many \/ (~sound /\ Cardinality(S) < Many)
         /\ \A d \in S, e \in (Descriptors \ lib.open) \ S : d < e
         /\ own' = [own EXCEPT !.many = S] /\ lib' = [lib EXCEPT !.open = @ \union S]
    /\ UNCHANGED fd /\ KeepTask /\ KeepTest

\* close_all
CloseMany ==
    /\ Do("close_many")
    /\ own' = [own EXCEPT !.many = {}] /\ lib' = [lib EXCEPT !.open = @ \ own.many]
    /\ misclosed' = (misclosed \/ ~(own.many \subseteq lib.open))
    /\ UNCHANGED <<fd, said>> /\ KeepTask

Dup2Socket ==
    /\ Do("dup")
    /\ \E d \in Made(lib.open) : Returned(X, d) /\ lib' = WithOpen(d)

\* A released socket waits in the pool, under a number, for ObtainSocket
ReleaseSocket ==
    /\ Do("release") \/ Do("release_copy")
    /\ \E id \in {1} \union May({None}) :
         /\ Returned(X, id)
         /\ lib' = IF id = None THEN lib
                   ELSE IF At("release") THEN [lib EXCEPT !.open = @ \ {fd[Y]}, !.pool = @ \union {"socket"}]
                   ELSE [lib EXCEPT !.pool = @ \union {"copy"}]

ObtainSocket ==
    /\ Do("obtain")
    /\ \E d \in Made(lib.open) :
         /\ Returned(X, d)
         /\ lib' = IF d = None THEN lib ELSE [WithOpen(d) EXCEPT !.pool = @ \ {"socket"}]

DescriptorStep ==
    \/ Socket \/ Refused \/ Connect \/ ConnectSocket \/ Accept \/ Close \/ Forget
    \/ OpenMany \/ CloseMany \/ Dup2Socket \/ ReleaseSocket \/ ObtainSocket
-----------------------------------------------------------------------------
(***************************************************************************)
(* The signal, the masks and the events                                    *)
(***************************************************************************)
KeepOwn == UNCHANGED <<fd, own>>

\* slip: the test is skipped, and goes on
SkipAndGoOn ==
    /\ At("alloc") /\ Same
    /\ \/ allocated' = TRUE /\ todo' = Tail(todo)
       \/ ~sound /\ todo' = Skip \o Tail(todo) /\ UNCHANGED allocated
    /\ UNCHANGED <<lib, raised>> /\ KeepOwn /\ KeepTest

\* Without a signal the test is skipped
AllocSignal ==
    /\ At("alloc") /\ Same
    /\ \/ allocated' = TRUE /\ todo' = Tail(todo)
       \/ ~sound /\ todo' = Skip /\ UNCHANGED allocated
    /\ UNCHANGED <<lib, raised>> /\ KeepOwn /\ KeepTest

FreeSignal == Do("free") /\ allocated' = FALSE /\ UNCHANGED <<lib, raised>> /\ KeepOwn /\ KeepTest

SetSignal ==
    /\ \/ Do("signal") /\ raised' = TRUE
       \/ Do("clear") /\ raised' = FALSE
    /\ UNCHANGED <<lib, allocated>> /\ KeepOwn /\ KeepTest

SetMasks ==
    /\ \/ /\ Do("set_mask")
          /\ lib' = [lib EXCEPT !.masks[X] = IF Y = "orig" THEN own.orig ELSE Y]
          /\ UNCHANGED own
       \/ /\ Do("save_mask")
          /\ own' = [own EXCEPT !.orig = lib.masks[X]]
          /\ UNCHANGED lib
    /\ UNCHANGED fd /\ KeepTask /\ KeepTest

Watch ==
    /\ \/ Do("watch") /\ lib' = [lib EXCEPT !.watched = @ \union {fd[X]}]
       \/ Do("unwatch") /\ lib' = [lib EXCEPT !.watched = @ \ {fd[X]}]
    /\ KeepTask /\ KeepOwn /\ KeepTest

CauseEvent ==
    /\ Do("cause")
    /\ lib' = [lib EXCEPT !.due = @ \union ({fd[X]} \intersect lib.watched)]
    /\ KeepTask /\ KeepOwn /\ KeepTest

InTime == lib.due = {} \/ ~sound

\* slip: the timeout of WaitSelect() is zero
WaitAtOnce ==
    /\ \/ Do("wait") /\ raised' = FALSE
       \/ (Do("delay") \/ Do("wait_writable")) /\ InTime /\ UNCHANGED raised
    /\ UNCHANGED <<lib, allocated>> /\ KeepOwn /\ KeepTest

\* WaitSelect() takes the signal from the task, or times out
Wait ==
    /\ \/ Do("wait") /\ (raised \/ InTime) /\ raised' = FALSE
       \/ (Do("delay") \/ Do("wait_writable")) /\ InTime /\ UNCHANGED raised
    /\ UNCHANGED <<lib, allocated>> /\ KeepOwn /\ KeepTest

GetEvents ==
    /\ Do("get")
    /\ own' = [own EXCEPT !.got = Append(@, IF lib.events = <<>> THEN None ELSE Head(lib.events))]
    /\ lib' = [lib EXCEPT !.events = IF @ = <<>> THEN @ ELSE Tail(@)]
    /\ UNCHANGED fd /\ KeepTask /\ KeepTest

\* A round goes on after the right event; a send or a recv may also fail
RoundEnds ==
    /\ At("if_event") /\ Same
    /\ \E fine \in {own.got[Len(own.got)] = fd["server"]} \union May({FALSE}) :
         todo' = (IF fine THEN Head(todo).yes ELSE <<>>) \o Tail(todo)
    /\ UNCHANGED lib /\ KeepTask /\ KeepOwn /\ KeepTest

Complete ==
    /\ Do("complete") /\ own' = [own EXCEPT !.complete = TRUE]
    /\ UNCHANGED <<lib, fd>> /\ KeepTask /\ KeepTest

Raise == raised' = (raised \/ lib.masks["SIGEVENTMASK"] = "sigbit")

\* The stack: an event is queued for a socket that is watched by now
Arrive ==
    /\ \E d \in lib.due :
         \/ d \in lib.watched /\ Raise /\ lib' = [lib EXCEPT !.due = @ \ {d}, !.events = Append(@, d)]
         \/ d \notin lib.watched /\ UNCHANGED raised /\ lib' = [lib EXCEPT !.due = @ \ {d}]
    /\ UNCHANGED <<runVars, phase, current, todo, allocated>> /\ KeepOwn /\ KeepTest

Spurious ==
    /\ ~sound /\ ~raised /\ lib.masks["SIGEVENTMASK"] = "sigbit" /\ Raise
    /\ UNCHANGED <<runVars, phase, current, todo, lib, allocated>> /\ KeepOwn /\ KeepTest

EventStep ==
    \/ AllocSignal \/ FreeSignal \/ SetSignal \/ SetMasks \/ Watch \/ CauseEvent
    \/ Wait \/ GetEvents \/ RoundEnds \/ Complete
-----------------------------------------------------------------------------
(***************************************************************************)
(* The errno pointer and the table size                                    *)
(***************************************************************************)
SetErrnoPtr ==
    /\ Do("errno_ptr") /\ lib' = [lib EXCEPT !.errno_ptr = X]
    /\ KeepTask /\ KeepOwn /\ KeepTest

\* A table may not shrink, and on a stack that is not sound not grow
Sized(size) ==
    {[lib EXCEPT !.dtable = s] :
        s \in {size} \union (IF size < lib.dtable THEN {lib.dtable} ELSE May({lib.dtable}))}

NeedsRestoring == own.dtsize < 66 /\ own.dtsize > 0

TableStep ==
    /\ \/ /\ Do("get_dtable")
          /\ \E size \in {lib.dtable} \union May({0}) : own' = [own EXCEPT ![X] = size]
          /\ UNCHANGED lib
       \/ Do("let") /\ own' = [own EXCEPT ![X] = Y] /\ UNCHANGED lib
       \/ Do("let_sum") /\ own' = [own EXCEPT ![X] = own[Y] + 64] /\ UNCHANGED lib
       \/ Do("set_dtable") /\ lib' \in Sized(own[X]) /\ UNCHANGED own
       \/ /\ Do("restore_dtable") /\ UNCHANGED own
          /\ IF NeedsRestoring THEN lib' \in Sized(own.dtsize) ELSE UNCHANGED lib
    /\ UNCHANGED fd /\ KeepTask /\ KeepTest
-----------------------------------------------------------------------------
(***************************************************************************)
(* Verdicts                                                                *)
(***************************************************************************)
Passed(how) ==
    CASE how \in {"server", "listener"} -> own.got = <<fd[how]>>
      [] how = "consumed"  -> own.got[1] # None /\ own.got[2] = None
      [] how = "both"      -> {own.got[1], own.got[2]} = {fd["server"], fd["server2"]} /\ own.got[3] = None
      [] how = "none"      -> own.got = <<None>>
      [] how = "quiet"     -> own.got = <<None>> /\ ~raised
      [] how = "connected" -> ~(own.rc = "progress" /\ own.got = <<None>>)
      [] how = "rc"        -> own.rc # "error"
      [] how = "complete"  -> own.complete
      [] OTHER             -> TRUE

\* What the answers of the stack decide, where the model does not have them
Verdicts(how) ==
    CASE how = "optional" -> {"pass", "skip"} \union May({"fail"})
      [] how = "refused"  -> {"skip", "fail"}
      [] how = "many"     -> IF Cardinality(own.many) = Many THEN {"pass", "skip"} \union May({"fail"})
                                                             ELSE {"skip"}
      [] how = "pass"     -> {"pass"}
      [] OTHER            -> {IF Passed(how) THEN "pass" ELSE "fail"} \union May({"fail"})

Report ==
    /\ \/ Do("judge") /\ \E verdict \in Verdicts(X) : said' = Append(said, verdict)
       \/ Do("say") /\ said' = Append(said, X)
    /\ UNCHANGED <<lib, misclosed>> /\ KeepTask /\ KeepOwn
-----------------------------------------------------------------------------
Exited == phase = "done" /\ UNCHANGED resVars

Run ==
    \/ open_bsdsocket \/ reset_socket_state \/ close_bsdsocket \/ Begin \/ End
    \/ Branch \/ DescriptorStep \/ EventStep \/ SetErrnoPtr \/ TableStep \/ Report

ResNext == Run \/ Arrive \/ Spurious \/ AcceptWaits \/ Exited

ResSpec == ResInit /\ [][ResNext]_resVars

(***************************************************************************)
(* The test's thread runs on, and a sound stack delivers its events.       *)
(***************************************************************************)
FairResSpec == ResSpec /\ WF_resVars(Run) /\ WF_resVars(sound /\ Arrive)
-----------------------------------------------------------------------------
(***************************************************************************)
(* Whatever fails on its way, a test gives back what it has taken: each    *)
(* descriptor it got is closed exactly once, also where a variable still   *)
(* has the number of an earlier one, and the signal is freed.  Only a copy *)
(* that was released on purpose stays, and on a stack that is not sound a  *)
(* socket that was released and cannot be obtained (test_transfer.c:126).  *)
(***************************************************************************)
GivenBackOnce ==
    /\ phase = "between" => lib.open = {} /\ ~allocated
    /\ ~misclosed
    /\ sound /\ phase = "between" => lib.pool \subseteq {"copy"}

(***************************************************************************)
(* The library never holds on to what its owner has given back: a late     *)
(* event cannot raise a signal that is free (test_signals.c:153), nor an   *)
(* error be written to a local of a test that is over (testutil.c:86).     *)
(***************************************************************************)
NoDanglingReference ==
    /\ raised => allocated
    /\ \A m \in DOMAIN lib.masks : lib.masks[m] = "sigbit" => allocated
    /\ lib.errno_ptr = "local" => phase = "test"

(***************************************************************************)
(* Every path through every test reports exactly once: the numbers of the  *)
(* tests after it depend on that.                                          *)
(***************************************************************************)
ReportsOnce ==
    /\ Len(said) <= 1
    /\ phase = "between" /\ current >= Files[category].first => Len(said) = 1

(***************************************************************************)
(* A sound stack passes every test, however its events interleave with     *)
(* the test: no event or signal is left over that the next test would see. *)
(***************************************************************************)
SoundTestsPass == sound /\ current \notin crashes => \A i \in DOMAIN said : said[i] # "fail"

(***************************************************************************)
(* On a sound stack no test waits for ever.                                *)
(***************************************************************************)
SoundTestsEnd == sound => <>(phase = "done")

(***************************************************************************)
(* "Known crashes are skipped entirely to avoid crashing the emulator"     *)
(* (docs/COMPATIBILITY.md:14): a test listed as one calls nothing.         *)
(***************************************************************************)
CallsNothing ==
    \/ At("say")
    \/ At("restore_dtable") /\ ~NeedsRestoring

CrashesSkipped == current \in crashes /\ phase = "test" /\ todo # <<>> => CallsNothing
=============================================================================
