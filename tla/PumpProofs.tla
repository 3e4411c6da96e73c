----------------------------- MODULE PumpProofs -----------------------------
(***************************************************************************)
(* Proofs about the loopback benchmark's loop, for any number of bytes,    *)
(* buffer, segments and capacity of the connection.                        *)
(***************************************************************************)
EXTENDS Pump, TLAPS

(***************************************************************************)
(* Boundaries lie a segment apart, and those of the array within Target    *)
(***************************************************************************)
LEMMA TimesMonotonic ==
  ASSUME NEW a \in Nat, NEW b \in Nat, NEW d \in Nat, a <= b
  PROVE  a * d <= b * d
  BY SMT

LEMMA Boundaries ==
  ASSUME NEW k \in Nat
  PROVE  /\ Boundary(k) \in Nat
         /\ Boundary(k + 1) = Boundary(k) + TP_SEGMENT_SIZE
         /\ \A l \in Nat : k <= l => Boundary(k) <= Boundary(l)
<1>1. TP_SEGMENT_SIZE \in Nat
  BY PumpAssumption
<1>2. Boundary(k) \in Nat
  BY <1>1 DEF Boundary
<1>3. Boundary(k + 1) = Boundary(k) + TP_SEGMENT_SIZE
  BY <1>1 DEF Boundary
<1>4. ASSUME NEW l \in Nat, k <= l PROVE Boundary(k) <= Boundary(l)
  BY <1>1, <1>4, TimesMonotonic DEF Boundary
<1> QED BY <1>2, <1>3, <1>4

LEMMA SmallerOf ==
  ASSUME NEW a \in Nat, NEW b \in Nat
  PROVE  /\ Smaller(a, b) \in Nat /\ Smaller(a, b) <= a /\ Smaller(a, b) <= b
         /\ Smaller(a, b) = a \/ Smaller(a, b) = b
  BY DEF Smaller
-----------------------------------------------------------------------------
(***************************************************************************)
(* The inductive invariant.  Every byte sent is read, readable or on its   *)
(* way; the client is shut down exactly when everything is sent; and a     *)
(* server that was reported readable still has bytes, or the end of file,  *)
(* when recv() is called, because nothing else takes them.  The first      *)
(* boundary not timed lies ahead, except while those that a send has       *)
(* passed are being timed, and it is passed by that send only.             *)
(***************************************************************************)
Conserved == total_sent = total_recv + transit + arrived

ShutWhenSent ==
    /\ send_done => total_sent = Target
    /\ total_sent = Target => send_done \/ at = "checkpoint"

WritableOpen == at = "checkpoint" \/ (at = "send" /\ writable) => ~send_done

NextAhead ==
    cur_seg < TP_NUM_SEGMENTS =>
        /\ at # "checkpoint" => total_sent < Boundary(cur_seg)
        /\ total_sent < Boundary(cur_seg) + TP_BUFSIZE

TimedAtBoundary ==
    \A k \in DOMAIN seg_ms : Boundary(k) <= seg_ms[k] /\ seg_ms[k] < Boundary(k) + TP_BUFSIZE

StillReadable ==
    at \in {"send", "checkpoint", "shut", "recv"} /\ readable /\ broken = {} =>
        arrived > 0 \/ (send_done /\ transit = 0)

SoundSocket == stack = "sound" => broken = {}

SoundEnd == stack = "sound" /\ at \in {"report", "done"} => total_recv = Target

VerdictLast == verdict = "failed" => at = "done" /\ total_recv < Enough

PumpInv ==
    /\ PumpTypeOK /\ Conserved /\ ShutWhenSent /\ WritableOpen /\ StillReadable
    /\ SoundSocket /\ SoundEnd /\ VerdictLast
    /\ NextAhead /\ TimedAtBoundary

USE DEF Conserved, ShutWhenSent, WritableOpen, StillReadable, SoundSocket, SoundEnd, VerdictLast

LEMMA Constants ==
  /\ Target \in Nat \ {0} /\ TP_BUFSIZE \in Nat \ {0} /\ Room \in Nat \ {0}
  /\ TP_SEGMENT_SIZE \in Nat \ {0} /\ TP_NUM_SEGMENTS \in Nat /\ Enough \in Nat /\ Enough <= Target
  BY PumpAssumption

LEMMA PumpStarts == PumpInit => PumpInv
<1> SUFFICES ASSUME PumpInit PROVE PumpInv
  OBVIOUS
<1>1. NextAhead /\ TimedAtBoundary
  BY Constants DEF PumpInit, NextAhead, TimedAtBoundary, Boundary
<1>2. PumpTypeOK
  <2>1. send_done \in BOOLEAN /\ writable \in BOOLEAN /\ readable \in BOOLEAN
    BY DEF PumpInit
  <2>2. /\ total_sent \in 0..Target /\ total_recv \in 0..total_sent
        /\ transit \in 0..Room /\ arrived \in 0..Room /\ Free >= 0
        /\ cur_seg \in 0..TP_NUM_SEGMENTS
    BY Constants DEF PumpInit, Free
  <2>4. DOMAIN seg_ms = 0..(cur_seg - 1) /\ \A k \in DOMAIN seg_ms : seg_ms[k] \in 0..Target
    BY DEF PumpInit
  <2>3. /\ stack \in {"sound", "stalling", "failing"} /\ at \in {"select", "send", "checkpoint", "shut", "recv", "report", "done"}
        /\ verdict \in {"none", "passed", "failed"} /\ broken \subseteq {"client", "server"}
    BY DEF PumpInit
  <2> QED BY <2>1, <2>2, <2>3, <2>4 DEF PumpTypeOK
<1> QED BY <1>1, <1>2, Constants DEF PumpInit, PumpInv
-----------------------------------------------------------------------------
(***************************************************************************)
(* Each step keeps it                                                      *)
(***************************************************************************)
\* A step that sends nothing and times nothing, and does not go to time
LEMMA SegmentsKept ==
  ASSUME PumpInv, UNCHANGED <<total_sent, segVars>>, at # "checkpoint" \/ at' = "checkpoint",
         at' # "checkpoint" \/ at = "checkpoint"
  PROVE  NextAhead' /\ TimedAtBoundary'
  BY DEF PumpInv, NextAhead, TimedAtBoundary, Boundary, segVars

LEMMA SelectKeeps == PumpInv /\ (WaitSelect \/ LoopOver) => PumpInv'
<1> USE Constants DEF PumpInv, PumpTypeOK, Free, segVars
<1>1. ASSUME PumpInv, WaitSelect PROVE PumpInv'
  <2>1. NextAhead' /\ TimedAtBoundary'
    BY <1>1, SegmentsKept DEF WaitSelect
  <2> QED BY <1>1, <2>1 DEF WaitSelect, ClientReady, ServerReady, stackVars
<1>2. ASSUME PumpInv, LoopOver PROVE PumpInv'
  <2>1. NextAhead' /\ TimedAtBoundary'
    BY <1>2, SegmentsKept DEF LoopOver
  <2> QED BY <1>2, <2>1 DEF LoopOver, stackVars
<1> QED BY <1>1, <1>2

LEMMA SendKeeps == PumpInv /\ Send => PumpInv'
<1> SUFFICES ASSUME PumpInv, Send PROVE PumpInv'
  OBVIOUS
<1> USE Constants DEF segVars
<1>1. CASE writable /\ "client" \notin broken
  <2>1. PICK n \in 1..Smaller(Chunk, Free) :
          total_sent' = total_sent + n /\ transit' = transit + n
    BY <1>1 DEF Send
  <2>2. Target - total_sent \in Nat /\ Free \in Nat
    BY DEF PumpInv, PumpTypeOK, Free
  <2>3. Chunk \in Nat /\ Chunk <= Target - total_sent /\ Chunk <= TP_BUFSIZE
    BY <2>2, SmallerOf DEF Chunk
  <2>4. /\ n \in Nat /\ n >= 1 /\ n <= Target - total_sent /\ n <= Free
        /\ n <= TP_BUFSIZE
    <3>1. Smaller(Chunk, Free) \in Nat /\ Smaller(Chunk, Free) <= Chunk /\ Smaller(Chunk, Free) <= Free
      BY <2>2, <2>3, SmallerOf
    <3> QED BY <2>2, <2>3, <3>1
  <2>5. at = "send" /\ at' = "checkpoint" /\ UNCHANGED <<cur_seg, seg_ms>>
    BY <1>1 DEF Send
  <2>6. total_sent \in Nat /\ cur_seg \in Nat
    BY DEF PumpInv, PumpTypeOK
  <2>7. Boundary(cur_seg) \in Nat
    BY <2>6, Boundaries
  <2>8. cur_seg < TP_NUM_SEGMENTS => total_sent < Boundary(cur_seg)
    BY <2>5 DEF PumpInv, NextAhead
  <2>9. cur_seg < TP_NUM_SEGMENTS => total_sent + n < Boundary(cur_seg) + TP_BUFSIZE
    BY <2>4, <2>6, <2>7, <2>8
  <2>10. NextAhead'
    BY <2>1, <2>5, <2>9 DEF NextAhead, Boundary
  <2>11. TimedAtBoundary'
    BY <2>5 DEF PumpInv, TimedAtBoundary, Boundary
  <2> QED BY <1>1, <2>1, <2>4, <2>5, <2>10, <2>11 DEF Send, PumpInv, PumpTypeOK, Free
<1>2. CASE ~(writable /\ "client" \notin broken)
  <2>1. at = "send" /\ at' \in {"shut", "recv"} /\ UNCHANGED <<total_sent, segVars>>
    BY <1>2 DEF Send
  <2>2. NextAhead' /\ TimedAtBoundary'
    BY <2>1, SegmentsKept
  <2> QED BY <1>2, <2>1, <2>2 DEF Send, PumpInv, PumpTypeOK, Free
<1> QED BY <1>1, <1>2

LEMMA CheckpointKeeps == PumpInv /\ Checkpoint => PumpInv'
<1> SUFFICES ASSUME PumpInv, Checkpoint PROVE PumpInv'
  OBVIOUS
<1> USE Constants
<1>1. /\ cur_seg \in Nat /\ cur_seg < TP_NUM_SEGMENTS /\ total_sent \in 0..Target
      /\ at = "checkpoint" /\ at' = at /\ cur_seg' = cur_seg + 1 /\ total_sent' = total_sent
      /\ Boundary(cur_seg) <= total_sent /\ total_sent < Boundary(cur_seg) + TP_BUFSIZE
      /\ DOMAIN seg_ms = 0..(cur_seg - 1)
  BY DEF PumpInv, PumpTypeOK, NextAhead, Checkpoint, BoundaryPassed, Boundary
<1>2. Boundary(cur_seg) \in Nat /\ Boundary(cur_seg + 1) = Boundary(cur_seg) + TP_SEGMENT_SIZE
  BY <1>1, Boundaries
<1>3. NextAhead'
  <2>1. total_sent < Boundary(cur_seg + 1) + TP_BUFSIZE
    BY <1>1, <1>2
  <2> QED BY <1>1, <2>1 DEF NextAhead, Boundary
<1>4. /\ DOMAIN seg_ms' = 0..cur_seg
      /\ seg_ms' = [k \in DOMAIN seg_ms \union {cur_seg} |->
                      IF k = cur_seg THEN total_sent ELSE seg_ms[k]]
  BY <1>1 DEF Checkpoint
<1>5. ASSUME NEW k \in DOMAIN seg_ms'
      PROVE  \/ k = cur_seg /\ seg_ms'[k] = total_sent
             \/ k \in DOMAIN seg_ms /\ seg_ms'[k] = seg_ms[k]
  BY <1>1, <1>4
<1>6. TimedAtBoundary'
  BY <1>1, <1>5 DEF PumpInv, TimedAtBoundary, Boundary
<1>7. /\ DOMAIN seg_ms' = 0..(cur_seg' - 1) /\ cur_seg' \in 0..TP_NUM_SEGMENTS
      /\ \A k \in DOMAIN seg_ms' : seg_ms'[k] \in 0..Target
  BY <1>1, <1>4, <1>5 DEF PumpInv, PumpTypeOK
<1>8. UNCHANGED <<at, total_sent, total_recv, send_done, writable, readable, verdict,
                  stack, transit, arrived, broken>>
  BY DEF Checkpoint, stackVars
<1> QED BY <1>3, <1>6, <1>7, <1>8 DEF PumpInv, PumpTypeOK, Free

LEMMA ShutDownKeeps == PumpInv /\ ShutDown => PumpInv'
<1> SUFFICES ASSUME PumpInv, ShutDown PROVE PumpInv'
  OBVIOUS
<1> USE Constants
<1>1. /\ at \in {"checkpoint", "shut"} /\ at' = "recv"
      /\ UNCHANGED <<total_sent, total_recv, cur_seg, seg_ms, writable, readable, verdict,
                     stack, transit, arrived, broken>>
      /\ send_done' = (send_done \/ total_sent >= Target)
  BY DEF ShutDown, AllSent, segVars, stackVars
<1>2. cur_seg \in Nat /\ cur_seg <= TP_NUM_SEGMENTS /\ total_sent \in Nat /\ total_sent <= Target
  BY DEF PumpInv, PumpTypeOK
<1>3. Boundary(cur_seg) \in Nat
  BY <1>2, Boundaries
<1>4. cur_seg < TP_NUM_SEGMENTS => total_sent < Boundary(cur_seg)
  <2>1. CASE at = "shut"
    BY <2>1 DEF PumpInv, NextAhead
  <2>2. CASE at = "checkpoint"
    BY <1>2, <1>3, <2>2 DEF ShutDown, BoundaryPassed
  <2> QED BY <1>1, <2>1, <2>2
<1>5. NextAhead'
  BY <1>1, <1>4 DEF PumpInv, NextAhead, Boundary
<1>6. TimedAtBoundary'
  BY <1>1 DEF PumpInv, TimedAtBoundary, Boundary
<1>7. PumpTypeOK'
  BY <1>1 DEF PumpInv, PumpTypeOK, Free
<1>8. ShutWhenSent'
  <2>1. (send_done' <=> send_done \/ total_sent >= Target) /\ total_sent' = total_sent
    BY <1>1
  <2>2. send_done => total_sent = Target
    BY DEF PumpInv
  <2>3. total_sent >= Target <=> total_sent = Target
    BY <1>2
  <2> QED BY <2>1, <2>2, <2>3
<1> QED BY <1>1, <1>5, <1>6, <1>7, <1>8 DEF PumpInv

LEMMA ReceiveKeeps == PumpInv /\ Receive => PumpInv'
<1> SUFFICES ASSUME PumpInv, Receive PROVE PumpInv'
  OBVIOUS
<1> USE Constants DEF Receive, PumpInv, PumpTypeOK, Free, segVars
<1>1. NextAhead' /\ TimedAtBoundary'
  BY SegmentsKept
<1>2. CASE readable /\ "server" \notin broken /\ arrived > 0
  <2>1. PICK n \in 1..Smaller(arrived, TP_BUFSIZE) :
          total_recv' = total_recv + n /\ arrived' = arrived - n
    BY <1>2
  <2>2. arrived \in Nat
    OBVIOUS
  <2>3. Smaller(arrived, TP_BUFSIZE) \in Nat /\ Smaller(arrived, TP_BUFSIZE) <= arrived
    BY <2>2, SmallerOf
  <2>4. n \in Nat /\ n <= arrived
    BY <2>1, <2>2, <2>3
  <2>5. at' = "select"
    BY <1>2
  <2> QED BY <1>1, <2>1, <2>4, <2>5
<1>3. CASE readable /\ "server" \notin broken /\ arrived = 0
  BY <1>3, <1>1
<1>4. CASE ~readable \/ "server" \in broken
  BY <1>4, <1>1
<1> QED BY <1>2, <1>3, <1>4

LEMMA ReportKeeps == PumpInv /\ Report => PumpInv'
<1> SUFFICES ASSUME PumpInv, Report PROVE PumpInv'
  OBVIOUS
<1>1. NextAhead' /\ TimedAtBoundary'
  BY SegmentsKept DEF Report
<1> QED BY <1>1, Constants DEF Report, PumpInv, PumpTypeOK, Free, stackVars, segVars

LEMMA StackKeeps == PumpInv /\ (Deliver \/ Break) => PumpInv'
<1> USE Constants DEF PumpInv, PumpTypeOK, Free, testVars, segVars
<1>1. ASSUME PumpInv, Deliver PROVE PumpInv'
  <2>1. NextAhead' /\ TimedAtBoundary'
    BY <1>1, SegmentsKept DEF Deliver
  <2> QED BY <1>1, <2>1 DEF Deliver
<1>2. ASSUME PumpInv, Break PROVE PumpInv'
  <2>1. NextAhead' /\ TimedAtBoundary'
    BY <1>2, SegmentsKept DEF Break
  <2> QED BY <1>2, <2>1 DEF Break
<1> QED BY <1>1, <1>2

LEMMA PumpInductive == PumpInv /\ [PumpNext]_pumpVars => PumpInv'
<1>1. ASSUME PumpInv, UNCHANGED pumpVars PROVE PumpInv'
  <2>1. NextAhead' /\ TimedAtBoundary'
    BY <1>1, SegmentsKept DEF pumpVars, testVars
  <2> QED BY <1>1, <2>1 DEF pumpVars, testVars, segVars, stackVars, PumpInv, PumpTypeOK, Free
<1> QED BY <1>1, SelectKeeps, SendKeeps, CheckpointKeeps, ShutDownKeeps, ReceiveKeeps,
           ReportKeeps, StackKeeps
        DEF PumpNext, Step, Done
-----------------------------------------------------------------------------
THEOREM PumpInvariant == PumpSpec => []PumpInv
  BY PumpStarts, PumpInductive, PTL DEF PumpSpec

(***************************************************************************)
(* Nothing is received that was not sent, or held beyond the connection's  *)
(* room, and no segment is timed outside seg_ms (test_throughput.c:322).   *)
(***************************************************************************)
THEOREM PumpTypes == PumpSpec => []PumpTypeOK
<1>1. PumpInv => PumpTypeOK
  BY DEF PumpInv
<1> QED BY <1>1, PumpInvariant, PTL

(***************************************************************************)
(* On a sound stack the loop of test_throughput.c:307 is only left with    *)
(* every byte received, whatever sizes the sends and receives take.        *)
(***************************************************************************)
THEOREM SoundStackAlwaysPasses == PumpSpec => []SoundStackPasses
<1>1. PumpInv => SoundStackPasses
  BY Constants DEF PumpInv, PumpTypeOK, SoundStackPasses
<1> QED BY <1>1, PumpInvariant, PTL

(***************************************************************************)
(* The checkpoint loop of test_throughput.c:321 times each boundary that a *)
(* send has passed before the loop goes on, once, in its entry, and not    *)
(* later than the send that passed it, for every size of segment, buffer   *)
(* and send: also where one send passes several boundaries.                *)
(***************************************************************************)
THEOREM SegmentsAlwaysTimed == PumpSpec => []SegmentsTimed
<1>1. PumpInv => SegmentsTimed
  <2> SUFFICES ASSUME PumpInv PROVE SegmentsTimed
    OBVIOUS
  <2>1. /\ DOMAIN seg_ms = 0..(cur_seg - 1) /\ cur_seg \in Nat /\ cur_seg <= TP_NUM_SEGMENTS
        /\ total_sent \in Nat
    BY Constants DEF PumpInv, PumpTypeOK
  <2>2. ASSUME at # "checkpoint", NEW k \in 0..(TP_NUM_SEGMENTS - 1), total_sent >= Boundary(k)
        PROVE  k \in DOMAIN seg_ms
    <3>1. k \in Nat /\ k < TP_NUM_SEGMENTS
      BY Constants
    <3>2. CASE cur_seg <= k
      <4>1. cur_seg < TP_NUM_SEGMENTS
        BY <2>1, <3>1, <3>2, Constants
      <4>2. total_sent < Boundary(cur_seg)
        BY <2>2, <4>1 DEF PumpInv, NextAhead
      <4>3. Boundary(cur_seg) \in Nat /\ Boundary(k) \in Nat /\ Boundary(cur_seg) <= Boundary(k)
        BY <2>1, <3>1, <3>2, Boundaries
      <4> QED BY <2>1, <2>2, <4>2, <4>3
    <3>3. CASE k < cur_seg
      BY <2>1, <3>1, <3>3
    <3> QED BY <2>1, <3>1, <3>2, <3>3
  <2> QED BY <2>1, <2>2 DEF PumpInv, TimedAtBoundary, SegmentsTimed
<1> QED BY <1>1, PumpInvariant, PTL
=============================================================================
