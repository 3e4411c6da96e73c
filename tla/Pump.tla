-------------------------------- MODULE Pump --------------------------------
(***************************************************************************)
(* The TCP loopback benchmarks 137 and 141 (test_throughput.c): one thread *)
(* that pumps bytes through a connection to itself with WaitSelect() over  *)
(* two non-blocking sockets.  Test 141 times ten segments on the way; 137  *)
(* is the same loop without them.                                          *)
(*                                                                         *)
(* The stack is what is being tested, so it may be sound, or stop          *)
(* delivering, or put a socket into an error state.                        *)
(***************************************************************************)
EXTENDS Integers

CONSTANTS
    Target,           \* TP_TCP_BYTES, TP_SUSTAINED
    Enough,           \* bytes that must arrive to pass
    TP_BUFSIZE,
    TP_SEGMENT_SIZE,
    TP_NUM_SEGMENTS,
    Room              \* bytes the connection holds

VARIABLES
    stack,       \* "sound", "stalling" or "failing"
    at,          \* "select", "send", "checkpoint", "shut", "recv", "report" or "done"
    total_sent,
    total_recv,
    send_done,   \* the client has been shut down
    cur_seg,     \* segments timed
    seg_ms,      \* the entries written; of a time, the bytes sent by then
    writable,    \* FD_ISSET(client, &writefds)
    readable,    \* FD_ISSET(server, &readfds)
    verdict,     \* "none", "passed" or "failed"
    transit,     \* bytes in the connection, not readable yet
    arrived,     \* bytes the server can read
    broken       \* sockets whose calls return -1

segVars   == <<cur_seg, seg_ms>>
testVars  == <<at, total_sent, total_recv, send_done, segVars, writable, readable, verdict>>
stackVars == <<stack, transit, arrived, broken>>
pumpVars  == <<testVars, stackVars>>

ASSUME PumpAssumption ==
    /\ {Target, TP_BUFSIZE, TP_SEGMENT_SIZE, Room} \subseteq Nat \ {0}
    /\ TP_NUM_SEGMENTS \in Nat /\ Enough \in Nat /\ Enough <= Target
    /\ TP_NUM_SEGMENTS * TP_SEGMENT_SIZE <= Target

Smaller(a, b) == IF a < b THEN a ELSE b

PumpInit ==
    /\ stack \in {"sound", "stalling", "failing"}
    /\ at = "select"
    /\ total_sent = 0 /\ total_recv = 0 /\ send_done = FALSE
    /\ cur_seg = 0 /\ seg_ms = [k \in {} |-> 0]
    /\ writable = FALSE /\ readable = FALSE /\ verdict = "none"
    /\ transit = 0 /\ arrived = 0 /\ broken = {}
-----------------------------------------------------------------------------
(***************************************************************************)
(* The stack                                                               *)
(***************************************************************************)
Free == Room - transit - arrived

\* What WaitSelect() finds ready; the client is asked for until it is shut down
ClientReady == ~send_done /\ (Free > 0 \/ "client" \in broken)
ServerReady == arrived > 0 \/ (send_done /\ transit = 0) \/ "server" \in broken

Deliver ==
    /\ transit > 0 /\ at # "done"
    /\ \E n \in 1..transit : transit' = transit - n /\ arrived' = arrived + n
    /\ UNCHANGED <<testVars, stack, broken>>

Break ==
    /\ stack = "failing" /\ at # "done"
    /\ \E socket \in {"client", "server"} \ broken : broken' = broken \union {socket}
    /\ UNCHANGED <<testVars, stack, transit, arrived>>
-----------------------------------------------------------------------------
(***************************************************************************)
(* The loop                                                                *)
(***************************************************************************)
\* slip: the descriptors are waited for without a timeout
WaitForEver ==
    /\ at = "select" /\ total_recv < Target
    /\ ClientReady \/ ServerReady
    /\ at' = "send" /\ writable' = ClientReady /\ readable' = ServerReady
    /\ UNCHANGED <<total_sent, total_recv, send_done, segVars, verdict, stackVars>>

\* Ready descriptors are reported at once; with none, a stack that is not
\* sound may let the ten seconds pass, which ends the loop, as an error does
WaitSelect ==
    /\ at = "select" /\ total_recv < Target
    /\ \/ /\ ClientReady \/ ServerReady
          /\ at' = "send" /\ writable' = ClientReady /\ readable' = ServerReady
       \/ /\ stack = "failing" \/ (stack = "stalling" /\ ~ClientReady /\ ~ServerReady)
          /\ at' = "report" /\ writable' = FALSE /\ readable' = FALSE
    /\ UNCHANGED <<total_sent, total_recv, send_done, segVars, verdict, stackVars>>

LoopOver ==
    /\ at = "select" /\ total_recv >= Target
    /\ at' = "report"
    /\ UNCHANGED <<total_sent, total_recv, send_done, segVars, writable, readable, verdict, stackVars>>

Chunk == Smaller(Target - total_sent, TP_BUFSIZE)

\* send(), if the client was reported writable; a call that fails sends nothing
Send ==
    /\ at = "send"
    /\ \/ /\ writable /\ "client" \notin broken
          /\ \E n \in 1..Smaller(Chunk, Free) :
               total_sent' = total_sent + n /\ transit' = transit + n
          /\ at' = "checkpoint"
       \/ /\ writable /\ "client" \in broken
          /\ at' = "shut"
          /\ UNCHANGED <<total_sent, transit>>
       \/ /\ ~writable
          /\ at' = "recv"
          /\ UNCHANGED <<total_sent, transit>>
    /\ UNCHANGED <<total_recv, send_done, segVars, writable, readable, verdict,
                   stack, arrived, broken>>

Boundary(k) == (k + 1) * TP_SEGMENT_SIZE

\* slip: a boundary that a send ends on is not passed yet
BoundaryBehind == total_sent > Boundary(cur_seg) /\ cur_seg < TP_NUM_SEGMENTS

BoundaryPassed == total_sent >= Boundary(cur_seg) /\ cur_seg < TP_NUM_SEGMENTS

\* One turn of the loop that times the boundaries a send has passed
Checkpoint ==
    /\ at = "checkpoint" /\ BoundaryPassed
    /\ seg_ms' = [k \in DOMAIN seg_ms \union {cur_seg} |->
                    IF k = cur_seg THEN total_sent ELSE seg_ms[k]]
    /\ cur_seg' = cur_seg + 1
    /\ UNCHANGED <<at, total_sent, total_recv, send_done, writable, readable, verdict, stackVars>>

\* slip: the chunk to come counts as sent
Offered == total_sent + Chunk >= Target

AllSent == total_sent >= Target

\* The client is shut down when everything is sent
ShutDown ==
    /\ at = "shut" \/ (at = "checkpoint" /\ ~BoundaryPassed)
    /\ at' = "recv"
    /\ send_done' = (send_done \/ AllSent)
    /\ UNCHANGED <<total_sent, total_recv, segVars, writable, readable, verdict, stackVars>>

\* recv(), if the server was reported readable: bytes, end of file, or an
\* error, which the loop passes over
Receive ==
    /\ at = "recv"
    /\ \/ /\ readable /\ "server" \notin broken /\ arrived > 0
          /\ \E n \in 1..Smaller(arrived, TP_BUFSIZE) :
               total_recv' = total_recv + n /\ arrived' = arrived - n
          /\ at' = "select"
       \/ /\ readable /\ "server" \notin broken /\ arrived = 0
          /\ at' = "report"
          /\ UNCHANGED <<total_recv, arrived>>
       \/ /\ ~readable \/ "server" \in broken
          /\ at' = "select"
          /\ UNCHANGED <<total_recv, arrived>>
    /\ UNCHANGED <<total_sent, send_done, segVars, writable, readable, verdict, stack, transit, broken>>

Report ==
    /\ at = "report" /\ at' = "done"
    /\ verdict' = IF total_recv >= Enough THEN "passed" ELSE "failed"
    /\ UNCHANGED <<total_sent, total_recv, send_done, segVars, writable, readable, stackVars>>

Done == at = "done" /\ UNCHANGED pumpVars

Step == WaitSelect \/ LoopOver \/ Send \/ Checkpoint \/ ShutDown \/ Receive \/ Report

PumpNext == Step \/ Deliver \/ Break \/ Done

PumpSpec == PumpInit /\ [][PumpNext]_pumpVars

(***************************************************************************)
(* The test's thread runs on; a sound stack delivers what it has taken.    *)
(***************************************************************************)
FairPumpSpec ==
    /\ PumpSpec
    /\ WF_pumpVars(Step)
    /\ WF_pumpVars(stack = "sound" /\ Deliver)
-----------------------------------------------------------------------------
PumpTypeOK ==
    /\ stack \in {"sound", "stalling", "failing"}
    /\ at \in {"select", "send", "checkpoint", "shut", "recv", "report", "done"}
    /\ total_sent \in 0..Target /\ total_recv \in 0..total_sent
    /\ send_done \in BOOLEAN /\ writable \in BOOLEAN /\ readable \in BOOLEAN
    /\ cur_seg \in 0..TP_NUM_SEGMENTS
    /\ DOMAIN seg_ms = 0..(cur_seg - 1) /\ \A k \in DOMAIN seg_ms : seg_ms[k] \in 0..Target
    /\ verdict \in {"none", "passed", "failed"}
    /\ transit \in 0..Room /\ arrived \in 0..Room /\ Free >= 0
    /\ broken \subseteq {"client", "server"}

(***************************************************************************)
(* A sound stack passes: the client is not shut down, nor the loop left,   *)
(* before every byte has arrived.                                          *)
(***************************************************************************)
SoundStackPasses ==
    stack = "sound" /\ at \in {"report", "done"} =>
      total_recv = Target /\ verdict # "failed"

(***************************************************************************)
(* Whatever the stack makes of the sizes of the sends, and also where one  *)
(* send passes several boundaries or the bytes go on after the last, each  *)
(* segment is timed once, in its entry of the array and in order, and at   *)
(* the send that passed its boundary; when the loop goes on no boundary    *)
(* passed is left untimed.  So what the diagnostics read at the end,       *)
(* seg_ms[0..cur_seg-1], is what was written, and all ten segments of a    *)
(* transfer that sent everything (docs/TESTS.md:2866).                     *)
(***************************************************************************)
SegmentsTimed ==
    /\ DOMAIN seg_ms = 0..(cur_seg - 1) /\ cur_seg <= TP_NUM_SEGMENTS
    /\ \A k \in DOMAIN seg_ms :
         Boundary(k) <= seg_ms[k] /\ seg_ms[k] < Boundary(k) + TP_BUFSIZE
    /\ at # "checkpoint" =>
         \A k \in 0..(TP_NUM_SEGMENTS - 1) : total_sent >= Boundary(k) => k \in DOMAIN seg_ms

(***************************************************************************)
(* The loop ends on a sound stack and on one that stops delivering.        *)
(***************************************************************************)
PumpEnds == stack # "failing" => <>(at = "done")

(***************************************************************************)
(* "The loop continues until the server has received all data or a         *)
(* 10-second timeout expires" (docs/TESTS.md:2776): it ends on any stack.  *)
(***************************************************************************)
PumpAlwaysEnds == <>(at = "done")
=============================================================================
