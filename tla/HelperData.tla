----------------------------- MODULE HelperData -----------------------------
(***************************************************************************)
(* The data services of the host helper (echo and sink, bsdsocktest_       *)
(* helper.py) and the tests that use them: 39 and 42 send everything to    *)
(* the echo service before they read (test_sendrecv.c), 138 and 142 pump   *)
(* into the sink (test_throughput.c).  The helper has one thread, and an   *)
(* echo connection blocks it in sendall() until the bytes are taken.       *)
(*                                                                         *)
(* Bytes are counted, in any unit that divides the block of 8192: each     *)
(* connection holds so many on their way up to the helper and down from    *)
(* it.  A transfer is one test's connection; transfers of different Amigas *)
(* overlap.                                                                *)
(***************************************************************************)
EXTENDS Integers, Sequences, FiniteSets

CONSTANTS
    Transfers,   \* tests that use a service, each with its connection
    Service,     \* Service[t]: "echo" or "sink"
    Size,        \* Size[t]: bytes to transfer
    Needed,      \* Needed[t]: bytes that must be transferred to pass
    Block,       \* bytes of one send() or recv() of a test
    EchoRead,    \* most bytes the helper receives at once from an echo connection
    UpRoom,      \* bytes the two stacks hold on the way to the helper
    DownRoom,    \* ... and on the way back
    Nobody       \* no connection

VARIABLES
    sound,       \* the network loses nothing and answers within the timeouts
    (* the tests *)
    at,          \* what each test is doing
    verdict,     \* "none", "passed" or "failed"
    calls,       \* calls of send() begun
    due,         \* bytes of the running send() not yet taken by the stack
    total_sent,
    total_recv,
    (* the network *)
    pending,     \* pending[s]: connections to service s not accepted yet
    up, down,    \* bytes on their way
    hung,        \* how the test's end is: "open", "closed" or "reset"
    (* the helper *)
    at_helper,   \* "select", "dispatch", "sendall" or "down"
    batch,       \* events of this select() still to be dispatched
    watched,     \* connections registered with the selector
    closed,      \* connections the helper has closed
    serving,     \* the connection sendall() writes to
    unsent,      \* bytes sendall() has not passed on yet
    sink_totals  \* entries of _sink_totals, -1 for none

testVars   == <<at, verdict, calls, due, total_sent, total_recv>>
streamVars == <<up, down, hung>>
loopVars   == <<at_helper, batch, watched, closed, serving, unsent, sink_totals>>
dataVars   == <<sound, testVars, pending, streamVars, loopVars>>

Services == {"echo", "sink"}

ASSUME DataAssumption ==
    /\ Nobody \notin Transfers /\ Services \intersect Transfers = {}
    /\ Service \in [Transfers -> Services]
    /\ Size \in [Transfers -> Nat \ {0}] /\ Needed \in [Transfers -> Nat]
    /\ \A t \in Transfers : Needed[t] <= Size[t]
    /\ {Block, EchoRead, UpRoom, DownRoom} \subseteq Nat \ {0}
    /\ \A t \in Transfers : Service[t] = "echo" => Size[t] % Block = 0

Smaller(a, b) == IF a < b THEN a ELSE b

DataInit ==
    /\ sound \in BOOLEAN
    /\ at = [t \in Transfers |-> "off"] /\ verdict = [t \in Transfers |-> "none"]
    /\ calls = [t \in Transfers |-> 0] /\ due = [t \in Transfers |-> 0]
    /\ total_sent = [t \in Transfers |-> 0] /\ total_recv = [t \in Transfers |-> 0]
    /\ pending = [s \in Services |-> <<>>]
    /\ up = [t \in Transfers |-> 0] /\ down = [t \in Transfers |-> 0]
    /\ hung = [t \in Transfers |-> "open"]
    /\ at_helper = "select" /\ batch = {} /\ watched = {} /\ closed = {}
    /\ serving = Nobody /\ unsent = 0
    /\ sink_totals = [t \in Transfers |-> -1]

Goto(t, place) == at' = [at EXCEPT ![t] = place]
-----------------------------------------------------------------------------
(***************************************************************************)
(* The tests                                                               *)
(***************************************************************************)
\* helper_connect_service: the helper's stack completes the connection
Connect(t) ==
    /\ at[t] = "off" /\ at_helper # "down"
    /\ Goto(t, "sending")
    /\ pending' = [pending EXCEPT ![Service[t]] = Append(@, t)]
    /\ UNCHANGED <<sound, verdict, calls, due, total_sent, total_recv, streamVars, loopVars>>

ConnectFails(t) ==
    /\ at[t] = "off" /\ ~sound
    /\ Goto(t, "ended")
    /\ verdict' = [verdict EXCEPT ![t] = "failed"]
    /\ UNCHANGED <<sound, calls, due, total_sent, total_recv, pending, streamVars, loopVars>>

\* slip: one block too many (i <= 8)
OneBlockMore(t) ==
    IF Service[t] = "echo" THEN calls[t] <= Size[t] \div Block ELSE total_sent[t] < Size[t]

\* Tests 39 and 42 count the calls, 138 and 142 the bytes
MoreToSend(t) ==
    IF Service[t] = "echo" THEN calls[t] < Size[t] \div Block ELSE total_sent[t] < Size[t]

\* slip: the last chunk is not cut to what is left
WholeBlock(t) == Block

Chunk(t) == IF Service[t] = "echo" THEN Block ELSE Smaller(Size[t] - total_sent[t], Block)

SendBegins(t) ==
    /\ at[t] = "sending" /\ due[t] = 0 /\ MoreToSend(t)
    /\ calls' = [calls EXCEPT ![t] = @ + 1]
    /\ due' = [due EXCEPT ![t] = Chunk(t)]
    /\ UNCHANGED <<sound, at, verdict, total_sent, total_recv, pending, streamVars, loopVars>>

\* A blocking send() passes bytes on as the stacks have room for them; a stack
\* that is not sound may return when it has taken some
SendProceeds(t) ==
    /\ due[t] > 0 /\ up[t] < UpRoom /\ t \notin closed
    /\ \E rest \in {due[t] - 1} \union (IF sound THEN {} ELSE {0}) :
         due' = [due EXCEPT ![t] = rest]
    /\ up' = [up EXCEPT ![t] = @ + 1]
    /\ total_sent' = [total_sent EXCEPT ![t] = @ + 1]
    /\ UNCHANGED <<sound, at, verdict, calls, total_recv, pending, down, hung, loopVars>>

\* tap_ok, and safe_close(fd): with bytes unread it resets the connection,
\* which may cost the helper those on their way up.  The test's locals end.
Leave(t, word) ==
    /\ Goto(t, "ended")
    /\ verdict' = [verdict EXCEPT ![t] = word]
    /\ calls' = [calls EXCEPT ![t] = 0] /\ due' = [due EXCEPT ![t] = 0]
    /\ total_sent' = [total_sent EXCEPT ![t] = 0]
    /\ total_recv' = [total_recv EXCEPT ![t] = 0]
    /\ down' = [down EXCEPT ![t] = 0]
    /\ hung' = [hung EXCEPT ![t] = IF down[t] > 0 THEN "reset" ELSE "closed"]
    /\ up' \in IF down[t] > 0 THEN {up, [up EXCEPT ![t] = 0]} ELSE {up}
    /\ UNCHANGED <<sound, pending, loopVars>>

Score(transferred, t) == IF transferred >= Needed[t] THEN "passed" ELSE "failed"

\* The loop is over, or send() returned -1 in the middle of it
SendingOver(t) ==
    /\ at[t] = "sending"
    /\ (due[t] = 0 /\ ~MoreToSend(t)) \/ (due[t] > 0 /\ t \in closed)

\* An echo test goes on to receive, a sink test reports what it sent
TurnToReceive(t) ==
    /\ SendingOver(t) /\ Service[t] = "echo"
    /\ Goto(t, "receiving")
    /\ due' = [due EXCEPT ![t] = 0]
    /\ UNCHANGED <<sound, verdict, calls, total_sent, total_recv, pending, streamVars, loopVars>>

ReportSent(t) ==
    /\ SendingOver(t) /\ Service[t] = "sink"
    /\ Leave(t, Score(total_sent[t], t))

\* recv() up to the end of the block, which is then verified
Receive(t) ==
    /\ at[t] = "receiving" /\ total_recv[t] < Size[t]
    /\ \E n \in 1..Smaller(down[t], Block - (total_recv[t] % Block)) :
         /\ total_recv' = [total_recv EXCEPT ![t] = @ + n]
         /\ down' = [down EXCEPT ![t] = @ - n]
    /\ UNCHANGED <<sound, at, verdict, calls, due, total_sent, pending, up, hung, loopVars>>

\* slip: no receive timeout is set
NoTimeout(t) == down[t] = 0 /\ t \in closed

\* Bytes of t that sendall() has not passed on yet
InHand(t) == IF serving = t THEN unsent ELSE 0

\* recv() returns end of file, a reset, or times out; on a sound network it
\* times out only if there is nothing to come
NothingComes(t) ==
    down[t] = 0 /\ (t \in closed \/ ~sound \/ up[t] + InHand(t) = 0)

\* What is not sound may also have garbled the bytes, so that they are counted
\* as received and not as verified
ReportReceived(t) ==
    /\ at[t] = "receiving"
    /\ total_recv[t] >= Size[t] \/ NothingComes(t)
    /\ \E word \in {Score(total_recv[t], t)} \union (IF sound THEN {} ELSE {"failed"}) :
         Leave(t, word)

\* The emulator goes down in the middle of a test, which never reports
Crash(t) ==
    /\ ~sound /\ at[t] \in {"sending", "receiving"}
    /\ Leave(t, "none")
-----------------------------------------------------------------------------
(***************************************************************************)
(* The helper                                                              *)
(***************************************************************************)
Ready ==
    {s \in Services : pending[s] # <<>>}
      \union {t \in watched : up[t] > 0 \/ hung[t] # "open"}

Select ==
    /\ at_helper = "select" /\ Ready # {}
    /\ batch' = Ready /\ at_helper' = "dispatch"
    /\ UNCHANGED <<sound, testVars, pending, streamVars, watched, closed, serving, unsent, sink_totals>>

BatchDone ==
    /\ at_helper = "dispatch" /\ batch = {}
    /\ at_helper' = "select"
    /\ UNCHANGED <<sound, testVars, pending, streamVars, batch, watched, closed, serving, unsent,
                   sink_totals>>

\* An event e of the batch is handled
Handling(e) == at_helper = "dispatch" /\ e \in batch /\ batch' = batch \ {e}

AcceptEcho ==
    /\ Handling("echo")
    /\ watched' = watched \union {Head(pending["echo"])}
    /\ pending' = [pending EXCEPT !["echo"] = Tail(@)]
    /\ UNCHANGED <<sound, testVars, streamVars, at_helper, closed, serving, unsent, sink_totals>>

AcceptSink ==
    /\ Handling("sink")
    /\ LET t == Head(pending["sink"])
       IN  /\ watched' = watched \union {t}
           /\ sink_totals' = [sink_totals EXCEPT ![t] = 0]
    /\ pending' = [pending EXCEPT !["sink"] = Tail(@)]
    /\ UNCHANGED <<sound, testVars, streamVars, at_helper, closed, serving, unsent>>

\* recv() has bytes to return, or it returns none or raises OSError
HasBytes(t) == up[t] > 0 /\ hung[t] # "reset"

HandleEcho(t) ==
    /\ Handling(t) /\ Service[t] = "echo" /\ HasBytes(t)
    /\ \E n \in 1..Smaller(up[t], EchoRead) :
         /\ up' = [up EXCEPT ![t] = @ - n]
         /\ unsent' = n
    /\ serving' = t /\ at_helper' = "sendall"
    /\ UNCHANGED <<sound, testVars, pending, down, hung, watched, closed, sink_totals>>

HandleSink(t) ==
    /\ Handling(t) /\ Service[t] = "sink" /\ HasBytes(t)
    /\ \E n \in 1..up[t] :
         /\ up' = [up EXCEPT ![t] = @ - n]
         /\ sink_totals' = [sink_totals EXCEPT ![t] = @ + n]
    /\ UNCHANGED <<sound, testVars, pending, down, hung, at_helper, watched, closed, serving, unsent>>

\* slip: the sink's total stays behind
DropOnly(t) ==
    /\ watched' = watched \ {t}
    /\ closed' = closed \union {t}
    /\ UNCHANGED sink_totals

\* Unregister and close connection t, and forget what a sink counted
Drop(t) ==
    /\ watched' = watched \ {t}
    /\ closed' = closed \union {t}
    /\ sink_totals' = [sink_totals EXCEPT ![t] = -1]

\* slip: an empty read is ignored
IgnoreEnd(t) ==
    /\ Handling(t) /\ ~HasBytes(t)
    /\ UNCHANGED <<sound, testVars, pending, streamVars, at_helper, watched, closed, serving, unsent,
                   sink_totals>>

HandleEnd(t) ==
    /\ Handling(t) /\ ~HasBytes(t)
    /\ Drop(t)
    /\ UNCHANGED <<sound, testVars, pending, streamVars, at_helper, serving, unsent>>

\* sendall() blocks while the stacks hold all they can
SendallProceeds ==
    /\ at_helper = "sendall" /\ unsent > 0
    /\ hung[serving] = "open" /\ down[serving] < DownRoom
    /\ unsent' = unsent - 1
    /\ down' = [down EXCEPT ![serving] = @ + 1]
    /\ UNCHANGED <<sound, testVars, pending, up, hung, at_helper, batch, watched, closed, serving,
                   sink_totals>>

\* The first bytes to a test that has closed are answered by a reset
SendallToClosed ==
    /\ at_helper = "sendall" /\ unsent > 0
    /\ hung[serving] = "closed"
    /\ hung' = [hung EXCEPT ![serving] = "reset"]
    /\ unsent' \in {0, unsent}
    /\ UNCHANGED <<sound, testVars, pending, up, down, at_helper, batch, watched, closed, serving,
                   sink_totals>>

\* slip: send() instead of sendall(), which returns when some are taken
SendReturns ==
    /\ at_helper = "sendall" /\ down[serving] > 0
    /\ serving' = Nobody /\ unsent' = 0 /\ at_helper' = "dispatch"
    /\ UNCHANGED <<sound, testVars, pending, streamVars, batch, watched, closed, sink_totals>>

SendallReturns ==
    /\ at_helper = "sendall" /\ unsent = 0
    /\ serving' = Nobody /\ unsent' = 0 /\ at_helper' = "dispatch"
    /\ UNCHANGED <<sound, testVars, pending, streamVars, batch, watched, closed, sink_totals>>

\* OSError: the connection is given up in the middle of the data
SendallRaises ==
    /\ at_helper = "sendall" /\ unsent > 0 /\ hung[serving] = "reset"
    /\ Drop(serving)
    /\ serving' = Nobody /\ unsent' = 0 /\ at_helper' = "dispatch"
    /\ UNCHANGED <<sound, testVars, pending, streamVars, batch>>

\* run() leaves its loop, and the process ends with every connection; bytes on
\* their way down may be lost
ProcessEnds ==
    /\ at_helper' = "down" /\ batch' = {} /\ serving' = Nobody /\ unsent' = 0
    /\ watched' = {} /\ closed' = {t \in Transfers : at[t] # "off"}
    /\ sink_totals' = [t \in Transfers |-> -1]
    /\ pending' = [s \in Services |-> <<>>]
    /\ \E kept \in SUBSET Transfers :
         down' = [t \in Transfers |-> IF t \in kept THEN down[t] ELSE 0]
    /\ UNCHANGED <<sound, testVars, up, hung>>

\* Ctrl-C on the host
Interrupted == ~sound /\ at_helper # "down" /\ ProcessEnds

\* accept() may raise for a connection that was given up before, and nothing
\* catches it
AcceptRaises ==
    /\ ~sound /\ at_helper = "dispatch"
    /\ \E s \in batch \intersect Services : hung[Head(pending[s])] # "open"
    /\ ProcessEnds
-----------------------------------------------------------------------------
TestStep(t) ==
    \/ SendBegins(t) \/ SendProceeds(t) \/ TurnToReceive(t) \/ ReportSent(t)
    \/ Receive(t) \/ ReportReceived(t)

HelperStep ==
    \/ Select \/ BatchDone \/ AcceptEcho \/ AcceptSink
    \/ \E t \in Transfers : HandleEcho(t) \/ HandleSink(t) \/ HandleEnd(t)
    \/ SendallProceeds \/ SendallToClosed \/ SendallReturns \/ SendallRaises

\* Every test is over, or can no longer begin, and the helper waits or is gone
AllQuiet ==
    /\ \A t \in Transfers : at[t] = "ended" \/ (at[t] = "off" /\ at_helper = "down")
    /\ at_helper = "down" \/ (at_helper = "select" /\ Ready = {})
    /\ UNCHANGED dataVars

DataNext ==
    \/ \E t \in Transfers :
         Connect(t) \/ ConnectFails(t) \/ TestStep(t) \/ Crash(t)
    \/ HelperStep \/ Interrupted \/ AcceptRaises
    \/ AllQuiet

DataSpec == DataInit /\ [][DataNext]_dataVars

(***************************************************************************)
(* The helper's thread and each test that has connected run on, as far as  *)
(* they are not blocked.  Nothing has to fail, and no test has to begin.   *)
(***************************************************************************)
FairDataSpec ==
    /\ DataSpec
    /\ WF_dataVars(HelperStep)
    /\ \A t \in Transfers : WF_dataVars(TestStep(t))
=============================================================================
