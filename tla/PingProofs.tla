----------------------------- MODULE PingProofs -----------------------------
(***************************************************************************)
(* Proofs about the stopwatch, for every pair of instants, and about       *)
(* icmp_ping, for any number of pings, any timeout, and any instants at    *)
(* which they start.                                                       *)
(***************************************************************************)
EXTENDS Ping, SequenceTheorems, TLAPS

(***************************************************************************)
(* Remainders modulo d                                                     *)
(***************************************************************************)
LEMMA Remainder ==
  ASSUME NEW a \in Int, NEW d \in Nat \ {0}
  PROVE  /\ a \div d \in Int /\ a % d \in 0..(d - 1)
         /\ a = (a \div d) * d + (a % d)
  BY SMT

LEMMA MultipleTooLarge ==
  ASSUME NEW k \in Int, NEW d \in Nat \ {0}, k >= 1
  PROVE  k * d >= d
  BY SMT

LEMMA RemainderUnique ==
  ASSUME NEW a \in Int, NEW b \in Int, NEW k \in Int, NEW d \in Nat \ {0}, a = b + k * d
  PROVE  a % d = b % d
<1> DEFINE p == a \div d
           q == b \div d
           r == a % d
           s == b % d
<1>1. p \in Int /\ r \in 0..(d - 1) /\ a = p * d + r
  BY Remainder
<1>2. q \in Int /\ s \in 0..(d - 1) /\ b = q * d + s
  BY Remainder
<1> HIDE DEF p, q, r, s
<1> DEFINE n == q + k - p
<1>3. n \in Int
  BY <1>1, <1>2
<1>4. n * d = r - s
  <2>1. n * d = q * d + k * d - p * d
    BY <1>1, <1>2
  <2> QED BY <1>1, <1>2, <2>1
<1> HIDE DEF n
<1>5. CASE n >= 1
  <2>1. n * d >= d
    BY <1>3, <1>5, MultipleTooLarge
  <2> QED BY <1>1, <1>2, <1>4, <2>1
<1>6. CASE n <= -1
  <2>1. (-n) * d >= d
    BY <1>3, <1>6, MultipleTooLarge
  <2>2. (-n) * d = -(n * d)
    BY <1>3
  <2> QED BY <1>1, <1>2, <1>3, <1>4, <2>1, <2>2
<1>7. CASE n = 0
  BY <1>1, <1>2, <1>4, <1>7 DEF r, s
<1> QED BY <1>3, <1>5, <1>6, <1>7
-----------------------------------------------------------------------------
LEMMA TimingConstants ==
  MicrosPerSec \in Nat \ {0} /\ PerMs \in Nat \ {0} /\ ULongRange \in Nat \ {0}
  BY TimingAssumption

LEMMA WrappedBy ==
  ASSUME NEW n \in Int
  PROVE  ULong(n) \in Int /\ \E k \in Int : ULong(n) = n + k * ULongRange
<1>1. /\ n \div ULongRange \in Int /\ ULong(n) \in Int
      /\ n = (n \div ULongRange) * ULongRange + ULong(n)
  BY Remainder, TimingConstants DEF ULong
<1>2. ULong(n) = n + (-(n \div ULongRange)) * ULongRange
  BY <1>1, TimingConstants
<1> QED BY <1>1, <1>2

LEMMA SameULong ==
  ASSUME NEW a \in Int, NEW b \in Int, NEW k \in Int, a = b + k * ULongRange
  PROVE  ULong(a) = ULong(b)
<1>1. ULongRange \in Nat \ {0}
  BY TimingConstants
<1>2. a % ULongRange = b % ULongRange
  BY <1>1, RemainderUnique, Zenon
<1> QED BY <1>2 DEF ULong

(***************************************************************************)
(* timer_elapsed_us is the time between its two readings modulo 2^32: the  *)
(* borrow of a second, and a counter of seconds that has wrapped between   *)
(* them, change nothing (testutil.c:317).                                  *)
(***************************************************************************)
THEOREM ElapsedModulo ==
  ASSUME NEW s \in Nat, NEW e \in Nat
  PROVE  timer_elapsed_us(bst_timestamp(s), bst_timestamp(e)) = ULong(e - s)
<1> DEFINE W == ULongRange
           S == MicrosPerSec
           qs == s \div S
           qe == e \div S
           micro == (e % S) - (s % S)
           borrow == IF micro < 0 THEN 1 ELSE 0
           start == bst_timestamp(s)
           end == bst_timestamp(e)
           secs == ULong(end.ts_secs - start.ts_secs - borrow)
<1>1. W \in Nat \ {0} /\ S \in Nat \ {0}
  BY TimingConstants
<1>2. /\ qs \in Int /\ s % S \in Int /\ s = qs * S + (s % S)
      /\ qe \in Int /\ e % S \in Int /\ e = qe * S + (e % S)
  BY <1>1, Remainder
<1>3. /\ start.ts_secs = ULong(qs) /\ start.ts_micro = s % S
      /\ end.ts_secs = ULong(qe) /\ end.ts_micro = e % S
  BY DEF bst_timestamp
<1>4. timer_elapsed_us(start, end) = ULong(secs * S + micro + borrow * S)
  BY <1>3 DEF timer_elapsed_us
<1>5. micro \in Int /\ borrow \in Int
  BY <1>2
<1>6. ULong(qs) \in Int /\ ULong(qe) \in Int
  BY <1>2, WrappedBy
<1>7. PICK i \in Int : ULong(qs) = qs + i * W
  BY <1>2, WrappedBy
<1>8. PICK j \in Int : ULong(qe) = qe + j * W
  BY <1>2, WrappedBy
<1>9. PICK k \in Int : secs = (ULong(qe) - ULong(qs) - borrow) + k * W
  BY <1>3, <1>5, <1>6, WrappedBy
<1>10. micro = (e - s) - qe * S + qs * S
  BY <1>1, <1>2
<1> HIDE DEF W, S, qs, qe, micro, borrow, secs, start, end
<1> DEFINE n == j - i + k
<1>11. n \in Int
  OBVIOUS
<1>12. secs = qe - qs - borrow + n * W
  <2>1. n * W = j * W - i * W + k * W
    BY <1>1
  <2> QED BY <1>1, <1>2, <1>5, <1>7, <1>8, <1>9, <2>1
<1> HIDE DEF n
<1>13. secs * S = qe * S - qs * S - borrow * S + (n * S) * W
  BY <1>1, <1>2, <1>5, <1>11, <1>12
<1>14. secs * S \in Int /\ qe * S \in Int /\ qs * S \in Int /\ borrow * S \in Int /\ n * S \in Int /\ secs \in Int
  BY <1>1, <1>2, <1>5, <1>11, <1>12
<1>15. secs * S + micro + borrow * S = (e - s) + (n * S) * W
  BY <1>1, <1>5, <1>10, <1>13, <1>14
<1>16. secs * S + micro + borrow * S \in Int
  BY <1>5, <1>14
<1>17. ULong(secs * S + micro + borrow * S) = ULong(e - s)
  <2> DEFINE total == secs * S + micro + borrow * S
             m == n * S
             time == e - s
  <2>1. total \in Int /\ m \in Int /\ time \in Int /\ total = time + m * ULongRange
    BY <1>14, <1>15, <1>16 DEF W
  <2> HIDE DEF total, m, time
  <2>2. ULong(total) = ULong(time)
    BY <2>1, SameULong
  <2> QED BY <2>2 DEF total, time
<1> QED BY <1>4, <1>17 DEF start, end

LEMMA SmallRemainder ==
  ASSUME NEW a \in Nat, NEW d \in Nat \ {0}, a < d
  PROVE  a % d = a
  BY SMT

(***************************************************************************)
(* Within the 71 minutes that a ULONG of microseconds holds, the           *)
(* measurement is exact (testutil.h:131).                                  *)
(***************************************************************************)
THEOREM ElapsedExact ==
  ASSUME NEW s \in Nat, NEW e \in Nat, s <= e, e - s < ULongRange
  PROVE  timer_elapsed_us(bst_timestamp(s), bst_timestamp(e)) = e - s
<1>1. e - s \in Nat
  OBVIOUS
<1> QED BY <1>1, ElapsedModulo, SmallRemainder, TimingConstants DEF ULong

(***************************************************************************)
(* Milliseconds are rounded to nearest: off by half of one at most.        *)
(***************************************************************************)
THEOREM RoundedToNearest ==
  ASSUME NEW us \in Nat
  PROVE  /\ Milliseconds(us) \in Nat
         /\ 2 * (us - PerMs * Milliseconds(us)) < PerMs
         /\ 2 * (PerMs * Milliseconds(us) - us) <= PerMs
<1> DEFINE q == us \div PerMs
           r == us % PerMs
<1>1. PerMs \in Nat \ {0}
  BY TimingConstants
<1>2. q \in Int /\ r \in 0..(PerMs - 1) /\ us = q * PerMs + r
  BY <1>1, Remainder
<1>3. q >= 0
  <2>1. CASE q <= -1
    <3>1. (-q) * PerMs >= PerMs
      BY <1>1, <1>2, <2>1, MultipleTooLarge
    <3>2. (-q) * PerMs = -(q * PerMs)
      BY <1>1, <1>2
    <3> QED BY <1>1, <1>2, <3>1, <3>2
  <2> QED BY <1>2, <2>1
<1> HIDE DEF q, r
<1>4. CASE 2 * r >= PerMs
  <2>1. Milliseconds(us) = q + 1
    BY <1>4 DEF Milliseconds, q, r
  <2>2. PerMs * (q + 1) = q * PerMs + PerMs
    BY <1>1, <1>2
  <2> QED BY <1>1, <1>2, <1>3, <1>4, <2>1, <2>2
<1>5. CASE ~(2 * r >= PerMs)
  <2>1. Milliseconds(us) = q
    BY <1>2, <1>5 DEF Milliseconds, q, r
  <2>2. PerMs * q = q * PerMs
    BY <1>1, <1>2
  <2> QED BY <1>1, <1>2, <1>3, <1>5, <2>1, <2>2
<1> QED BY <1>4, <1>5
-----------------------------------------------------------------------------

LEMMA PingConstants ==
  /\ Pings \in Nat /\ Foreign \notin 1..Pings /\ MaxInbox \in Nat
  /\ TimeoutMs \in Nat \ {0} /\ PerMs \in Nat \ {0} /\ ULongRange \in Nat \ {0}
  /\ PerMs * TimeoutMs \in Nat /\ PerMs * TimeoutMs + PerMs < ULongRange
  /\ Starts \subseteq Nat
<1>1. TimeoutMs \in Nat \ {0} /\ PerMs \in Nat \ {0} /\ ULongRange \in Nat \ {0}
  BY PingAssumption, TimingConstants
<1>2. PerMs * (TimeoutMs + 1) = PerMs * TimeoutMs + PerMs
  BY <1>1
<1>3. PerMs * TimeoutMs \in Nat
  BY <1>1
<1> QED BY <1>1, <1>2, <1>3, PingAssumption
-----------------------------------------------------------------------------
(***************************************************************************)
(* The clock.  What WaitSelect() was given is the timeout less the rounded *)
(* time before it, so that it cannot end later than the timeout and half a *)
(* millisecond.                                                            *)
(***************************************************************************)
ClockTypeOK ==
    /\ at \in {"idle", "loop", "wait", "done"}
    /\ ts_start \in Nat /\ elapsed \in Nat /\ waited \in 0..elapsed
    /\ timeout_ms \in Int /\ timeout_ms <= TimeoutMs

Given(before) == timeout_ms = TimeoutMs - Milliseconds(before)

ClockInv ==
    /\ ClockTypeOK /\ WaitBounded
    /\ at \in {"idle", "done"} => elapsed = 0
    /\ at = "loop" => waited = 0 /\ Given(elapsed)
    /\ at = "wait" => Given(elapsed - waited) /\ waited <= PerMs * timeout_ms

LEMMA NoTime == Milliseconds(0) = 0
<1>1. Milliseconds(0) \in Nat /\ 2 * (PerMs * Milliseconds(0)) <= PerMs
  <2>1. Milliseconds(0) \in Nat /\ 2 * (PerMs * Milliseconds(0) - 0) <= PerMs
    BY RoundedToNearest
  <2>2. PerMs * Milliseconds(0) \in Nat
    BY <2>1, PingConstants
  <2> QED BY <2>1, <2>2
<1>2. CASE Milliseconds(0) >= 1
  <2>1. Milliseconds(0) * PerMs >= PerMs
    BY <1>1, <1>2, PingConstants, MultipleTooLarge
  <2>2. Milliseconds(0) * PerMs = PerMs * Milliseconds(0)
    BY <1>1, PingConstants
  <2> QED BY <1>1, <2>1, <2>2, PingConstants
<1> QED BY <1>1, <1>2

LEMMA StartBounded == elapsed = 0 => WaitBounded
  BY PingConstants DEF WaitBounded

\* What the stopwatch shows
LEMMA StopwatchAt ==
  ASSUME ts_start \in Nat, NEW x \in Nat, 2 * (x - PerMs * TimeoutMs) < PerMs
  PROVE  ElapsedUs(x) = x /\ ElapsedMs(x) = Milliseconds(x)
<1>1. x < ULongRange
  BY PingConstants
<1>2. timer_elapsed_us(bst_timestamp(ts_start), bst_timestamp(ts_start + x)) = x
  <2>1. ts_start + x \in Nat /\ ts_start <= ts_start + x /\ (ts_start + x) - ts_start = x
    OBVIOUS
  <2> QED BY <1>1, <2>1, ElapsedExact
<1> QED BY <1>2 DEF ElapsedUs, ElapsedMs, ts_now, timer_elapsed_ms

LEMMA Stopwatch ==
  ASSUME ClockTypeOK, WaitBounded
  PROVE  ElapsedUs(elapsed) = elapsed /\ ElapsedMs(elapsed) = Milliseconds(elapsed)
  BY StopwatchAt DEF ClockTypeOK, WaitBounded

LEMMA ClockStarts == PingInit => ClockInv
  BY StartBounded, PingConstants DEF PingInit, ClockInv, ClockTypeOK

LEMMA ReturnClock == ASSUME NEW result, Return(result) PROVE ClockInv'
<1>1. at' = "idle" /\ ts_start' = 0 /\ elapsed' = 0 /\ waited' = 0 /\ timeout_ms' = 0
  BY DEF Return
<1>2. WaitBounded'
  BY <1>1, PingConstants DEF WaitBounded
<1> QED BY <1>1, <1>2, PingConstants DEF ClockInv, ClockTypeOK

LEMMA TickClock == ClockInv /\ Tick => ClockInv'
<1> SUFFICES ASSUME ClockInv, Tick PROVE ClockInv'
  OBVIOUS
<1>1. /\ at = "wait" /\ at' = "wait" /\ UNCHANGED <<ts_start, timeout_ms>>
      /\ elapsed' = elapsed + 1 /\ waited' = waited + 1 /\ waited < PerMs * timeout_ms
  BY DEF Tick
<1>2. /\ elapsed \in Nat /\ waited \in 0..elapsed /\ timeout_ms \in Int
      /\ timeout_ms = TimeoutMs - Milliseconds(elapsed - waited)
  BY <1>1 DEF ClockInv, ClockTypeOK, Given
<1> DEFINE before == elapsed - waited
           ms == Milliseconds(before)
<1>3. before \in Nat /\ before = elapsed' - waited'
  BY <1>1, <1>2
<1>4. ms \in Nat /\ 2 * (before - PerMs * ms) < PerMs
  BY <1>3, RoundedToNearest
<1>5. PerMs * timeout_ms = PerMs * TimeoutMs - PerMs * ms
  <2>1. timeout_ms = TimeoutMs - ms
    BY <1>2
  <2> HIDE DEF ms
  <2> QED BY <1>4, <2>1, PingConstants
<1> HIDE DEF ms
<1>6. PerMs * timeout_ms \in Int /\ PerMs * ms \in Int
  BY <1>2, <1>4, PingConstants
<1>7. waited' <= PerMs * timeout_ms
  BY <1>1, <1>2, <1>6
<1>8. 2 * (elapsed' - PerMs * TimeoutMs) < PerMs
  BY <1>1, <1>2, <1>3, <1>4, <1>5, <1>6, <1>7, PingConstants
<1>9. (elapsed - waited)' = elapsed - waited
  BY <1>1, <1>2
<1> QED BY <1>1, <1>2, <1>7, <1>8, <1>9 DEF ClockInv, ClockTypeOK, WaitBounded, Given

LEMMA OtherClock == ClockInv /\ ReceiveOther => ClockInv'
<1> SUFFICES ASSUME ClockInv, ReceiveOther PROVE ClockInv'
  OBVIOUS
<1>1. ElapsedMs(elapsed) = Milliseconds(elapsed)
  BY Stopwatch DEF ClockInv
<1>2. at' = "loop" /\ waited' = 0 /\ UNCHANGED <<ts_start, elapsed>>
      /\ timeout_ms' = TimeoutMs - Milliseconds(elapsed)
  BY <1>1 DEF ReceiveOther, Remaining
<1>3. elapsed \in Nat /\ Milliseconds(elapsed) \in Nat
  BY RoundedToNearest DEF ClockInv, ClockTypeOK
<1> QED BY <1>2, <1>3, PingConstants DEF ClockInv, ClockTypeOK, WaitBounded, Given

LEMMA ClockInductive == ClockInv /\ [PingNext]_pingVars => ClockInv'
<1> SUFFICES ASSUME ClockInv, [PingNext]_pingVars PROVE ClockInv'
  OBVIOUS
<1>1. CASE UNCHANGED pingVars
  BY <1>1 DEF pingVars, ClockInv, ClockTypeOK, WaitBounded, Given
<1>2. CASE SendRequest
  <2>1. at = "idle" /\ elapsed = 0 /\ at' = "loop" /\ timeout_ms' = TimeoutMs /\ ts_start' \in Starts
        /\ UNCHANGED <<elapsed, waited>> /\ waited = 0
    BY <1>2, PingConstants DEF SendRequest, ClockInv, ClockTypeOK
  <2>2. ts_start' \in Nat
    BY <2>1, PingConstants
  <2> QED BY <2>1, <2>2, NoTime, PingConstants DEF ClockInv, ClockTypeOK, WaitBounded, Given
<1>3. CASE SendFails
  BY <1>3 DEF SendFails, ClockInv, ClockTypeOK, WaitBounded, Given
<1>4. CASE WaitSelect
  <2>1. PerMs * timeout_ms \in Nat
    BY <1>4, PingConstants DEF WaitSelect, ClockInv, ClockTypeOK
  <2> QED BY <1>4, <2>1 DEF WaitSelect, ClockInv, ClockTypeOK, WaitBounded, Given
<1>5. CASE LoopOver \/ NoReply \/ ReceiveReply
  BY <1>5, ReturnClock DEF LoopOver, NoReply, ReceiveReply
<1>6. CASE Finish
  BY <1>6 DEF Finish, ClockInv, ClockTypeOK, WaitBounded, Given
<1>7. CASE Arrive
  BY <1>7 DEF Arrive, ClockInv, ClockTypeOK, WaitBounded, Given
<1>8. CASE Done
  BY <1>8 DEF Done, pingVars, ClockInv, ClockTypeOK, WaitBounded, Given
<1> QED BY <1>1, <1>2, <1>3, <1>4, <1>5, <1>6, <1>7, <1>8, OtherClock, TickClock DEF PingNext

THEOREM ClockInvariant == PingSpec => []ClockInv
  BY ClockStarts, ClockInductive, PTL DEF PingSpec

(***************************************************************************)
(* No ping waits longer than its timeout and half a millisecond, however   *)
(* many other packets restart WaitSelect() (test_icmp.c:148), and wherever *)
(* the seconds of the clock wrap meanwhile.                                *)
(***************************************************************************)
THEOREM WaitAlwaysBounded == PingSpec => []WaitBounded
<1>1. ClockInv => WaitBounded
  BY DEF ClockInv
<1> QED BY <1>1, ClockInvariant, PTL
-----------------------------------------------------------------------------
(***************************************************************************)
(* The results.  A packet in the socket is a foreign one or a reply to a   *)
(* ping that was answered, and the ping in progress has no result yet.     *)
(***************************************************************************)
Replies == replied \union {Foreign}

ResultsInv ==
    /\ sound \in BOOLEAN /\ ping \in 0..Pings
    /\ rtts \in Seq(Int) /\ Len(rtts) = IF at \in {"loop", "wait"} THEN ping - 1 ELSE ping
    /\ \A p \in DOMAIN rtts : rtts[p] >= -1
    /\ inbox \in Seq(Replies) /\ Len(inbox) <= MaxInbox
    /\ flying \subseteq replied /\ replied \subseteq 1..ping
    /\ OwnReplyOnly

PingInv == ClockInv /\ ResultsInv

LEMMA Recorded ==
  ASSUME rtts \in Seq(Int), NEW result \in Int, rtts' = Append(rtts, result)
  PROVE  /\ rtts' \in Seq(Int) /\ Len(rtts') = Len(rtts) + 1
         /\ DOMAIN rtts = 1..Len(rtts) /\ DOMAIN rtts' = 1..(Len(rtts) + 1)
         /\ \A p \in DOMAIN rtts' : rtts'[p] = IF p = Len(rtts) + 1 THEN result ELSE rtts[p]
  BY AppendProperties, LenProperties

LEMMA ReturnResults ==
  ASSUME PingInv, at \in {"loop", "wait"}, NEW result \in Int, result >= -1, Return(result),
         result > 0 => ping \in replied, UNCHANGED <<flying, replied>>
  PROVE  ResultsInv'
<1>1. rtts \in Seq(Int) /\ rtts' = Append(rtts, result) /\ at' = "idle" /\ inbox' = <<>>
      /\ UNCHANGED <<sound, ping>>
  BY DEF PingInv, ResultsInv, Return
<1>2. Len(rtts) = ping - 1 /\ ping \in 0..Pings /\ Len(rtts) \in Nat
  BY LenProperties DEF PingInv, ResultsInv
<1>3. rtts' \in Seq(Int) /\ Len(rtts') = ping
  BY <1>1, <1>2, Recorded, PingConstants
<1>4. ASSUME NEW p \in DOMAIN rtts'
      PROVE  rtts'[p] >= -1 /\ (rtts'[p] > 0 => p \in replied')
  <2>1. CASE p = ping
    BY <1>1, <1>2, <2>1, Recorded, PingConstants
  <2>2. CASE p # ping
    <3>1. p \in DOMAIN rtts /\ rtts'[p] = rtts[p]
      BY <1>1, <1>2, <1>4, <2>2, Recorded, PingConstants
    <3> QED BY <3>1 DEF PingInv, ResultsInv, OwnReplyOnly
  <2> QED BY <2>1, <2>2
<1>5. inbox' \in Seq(Replies') /\ Len(inbox') <= MaxInbox
  BY <1>1, EmptySeq, PingConstants
<1> QED BY <1>1, <1>3, <1>4, <1>5 DEF PingInv, ResultsInv, OwnReplyOnly

LEMMA ResultsStart == PingInit => ResultsInv
<1> SUFFICES ASSUME PingInit PROVE ResultsInv
  OBVIOUS
<1>1. rtts \in Seq(Int) /\ Len(rtts) = 0 /\ DOMAIN rtts = {} /\ inbox \in Seq(Replies) /\ Len(inbox) = 0
  BY EmptySeq DEF PingInit
<1> QED BY <1>1, PingConstants DEF PingInit, ResultsInv, OwnReplyOnly

LEMMA SendResults == PingInv /\ SendRequest => ResultsInv'
<1> SUFFICES ASSUME PingInv, SendRequest PROVE ResultsInv'
  OBVIOUS
<1>1. /\ at = "idle" /\ at' = "loop" /\ ping' = ping + 1 /\ ping < Pings
      /\ UNCHANGED <<sound, rtts, inbox>>
  BY DEF SendRequest
<1>2. PICK answer \in SUBSET {ping + 1} :
        flying' = flying \union answer /\ replied' = replied \union answer
  BY DEF SendRequest
<1>3. ping \in 0..Pings /\ ping' \in 0..Pings
  BY <1>1, PingConstants DEF PingInv, ResultsInv
<1>4. flying' \subseteq replied' /\ replied' \subseteq 1..ping' /\ replied \subseteq replied'
  BY <1>1, <1>2, <1>3 DEF PingInv, ResultsInv
<1>5. inbox' \in Seq(Replies')
  BY <1>1, <1>4, SeqMonotonic DEF PingInv, ResultsInv, Replies
<1>6. Len(rtts') = ping' - 1
  BY <1>1, <1>3 DEF PingInv, ResultsInv
<1> QED BY <1>1, <1>3, <1>4, <1>5, <1>6 DEF PingInv, ResultsInv, OwnReplyOnly

LEMMA FailResults == PingInv /\ SendFails => ResultsInv'
<1> SUFFICES ASSUME PingInv, SendFails PROVE ResultsInv'
  OBVIOUS
<1>1. /\ at = "idle" /\ ping' = ping + 1 /\ ping < Pings /\ rtts' = Append(rtts, -1)
      /\ UNCHANGED <<sound, at, inbox, flying, replied>>
  BY DEF SendFails
<1>2. rtts \in Seq(Int) /\ Len(rtts) = ping /\ ping \in 0..Pings /\ -1 \in Int
  BY <1>1 DEF PingInv, ResultsInv
<1>3. /\ rtts' \in Seq(Int) /\ Len(rtts') = ping' /\ DOMAIN rtts = 1..ping /\ DOMAIN rtts' = 1..ping'
      /\ \A p \in DOMAIN rtts' : rtts'[p] = IF p = ping + 1 THEN -1 ELSE rtts[p]
  BY <1>1, <1>2, Recorded
<1>4. ASSUME NEW p \in DOMAIN rtts'
      PROVE  rtts'[p] >= -1 /\ (rtts'[p] > 0 => p \in replied')
  <2>1. CASE p = ping + 1
    BY <1>3, <2>1
  <2>2. CASE p # ping + 1
    <3>1. p \in DOMAIN rtts /\ rtts'[p] = rtts[p]
      BY <1>1, <1>2, <1>3, <2>2
    <3> QED BY <1>1, <3>1 DEF PingInv, ResultsInv, OwnReplyOnly
  <2> QED BY <2>1, <2>2
<1>5. replied' \subseteq 1..ping'
  BY <1>1, <1>2 DEF PingInv, ResultsInv
<1>6. inbox' \in Seq(Replies') /\ Len(inbox') <= MaxInbox
  BY <1>1 DEF PingInv, ResultsInv, Replies
<1>7. ping' \in 0..Pings
  BY <1>1, <1>2, PingConstants
<1>8. sound' \in BOOLEAN /\ flying' \subseteq replied' /\ at' = "idle"
  BY <1>1 DEF PingInv, ResultsInv
<1> QED BY <1>3, <1>4, <1>5, <1>6, <1>7, <1>8 DEF ResultsInv, OwnReplyOnly

LEMMA ReplyAnswered == PingInv /\ ReceiveReply => ping \in replied
<1> SUFFICES ASSUME PingInv, ReceiveReply PROVE ping \in replied
  OBVIOUS
<1>1. at = "wait" /\ inbox # <<>> /\ Head(inbox) = ping
  BY DEF ReceiveReply, Matches
<1>2. Head(inbox) \in Replies
  BY <1>1, HeadTailProperties DEF PingInv, ResultsInv
<1>3. ping \in 1..Pings
  <2>1. ping \in 0..Pings /\ Len(rtts) = ping - 1 /\ Len(rtts) \in Nat
    BY <1>1, LenProperties DEF PingInv, ResultsInv
  <2> QED BY <2>1, PingConstants
<1> QED BY <1>1, <1>2, <1>3, PingConstants DEF Replies

LEMMA ReplyResults == PingInv /\ ReceiveReply => ResultsInv'
<1> SUFFICES ASSUME PingInv, ReceiveReply PROVE ResultsInv'
  OBVIOUS
<1>1. at = "wait" /\ Return(RoundTrip(elapsed)) /\ UNCHANGED <<flying, replied>>
  BY DEF ReceiveReply
<1>2. RoundTrip(elapsed) \in Int /\ RoundTrip(elapsed) >= 1
  BY Stopwatch DEF PingInv, ClockInv, ClockTypeOK, RoundTrip
<1> QED BY <1>1, <1>2, ReplyAnswered, ReturnResults

LEMMA ArriveResults == PingInv /\ Arrive => ResultsInv'
<1> SUFFICES ASSUME PingInv, Arrive PROVE ResultsInv'
  OBVIOUS
<1>1. PICK packet \in flying \union {Foreign} :
        /\ IF at \in {"loop", "wait"}
           THEN Len(inbox) < MaxInbox /\ inbox' = Append(inbox, packet)
           ELSE packet # Foreign /\ UNCHANGED inbox
        /\ flying' \in {flying \ {packet}} \union (IF sound THEN {} ELSE {flying})
  BY DEF Arrive
<1>2. UNCHANGED <<sound, at, ping, rtts, replied>>
  BY DEF Arrive
<1>3. flying' \subseteq replied /\ packet \in Replies
  BY <1>1 DEF PingInv, ResultsInv, Replies
<1>4. inbox' \in Seq(Replies) /\ Len(inbox') <= MaxInbox
  <2>1. CASE at \in {"loop", "wait"}
    <3>1. inbox' \in Seq(Replies) /\ Len(inbox') = Len(inbox) + 1 /\ Len(inbox) \in Nat
      BY <1>1, <1>3, <2>1, AppendProperties, LenProperties DEF PingInv, ResultsInv
    <3> QED BY <1>1, <2>1, <3>1, PingConstants
  <2>2. CASE at \notin {"loop", "wait"}
    BY <1>1, <2>2 DEF PingInv, ResultsInv
  <2> QED BY <2>1, <2>2
<1>5. inbox' \in Seq(Replies')
  BY <1>2, <1>4 DEF Replies
<1> QED BY <1>2, <1>3, <1>4, <1>5 DEF PingInv, ResultsInv, OwnReplyOnly

LEMMA OtherResults == PingInv /\ ReceiveOther => ResultsInv'
<1> SUFFICES ASSUME PingInv, ReceiveOther PROVE ResultsInv'
  OBVIOUS
<1>1. /\ inbox # <<>> /\ inbox' = Tail(inbox) /\ at = "wait" /\ at' = "loop"
      /\ UNCHANGED <<sound, ping, rtts, flying, replied>>
  BY DEF ReceiveOther
<1>2. Tail(inbox) \in Seq(Replies) /\ Len(Tail(inbox)) = Len(inbox) - 1 /\ Len(inbox) \in Nat
  BY <1>1, HeadTailProperties, LenProperties DEF PingInv, ResultsInv
<1>3. inbox' \in Seq(Replies') /\ Len(inbox') <= MaxInbox
  <2>1. Len(inbox) <= MaxInbox
    BY DEF PingInv, ResultsInv
  <2>2. inbox' \in Seq(Replies')
    BY <1>1, <1>2 DEF Replies
  <2>3. Len(inbox') = Len(inbox) - 1
    BY <1>1, <1>2
  <2> QED BY <1>2, <2>1, <2>2, <2>3, PingConstants
<1> QED BY <1>1, <1>3 DEF PingInv, ResultsInv, OwnReplyOnly

LEMMA SameResults ==
  ASSUME PingInv, UNCHANGED <<sound, ping, rtts, inbox, flying, replied>>,
         at' \in {"loop", "wait"} <=> at \in {"loop", "wait"}
  PROVE  ResultsInv'
  BY DEF PingInv, ResultsInv, OwnReplyOnly, Replies

LEMMA PingInductive == PingInv /\ [PingNext]_pingVars => PingInv'
<1> SUFFICES ASSUME PingInv, [PingNext]_pingVars PROVE PingInv'
  OBVIOUS
<1>1. ClockInv'
  BY ClockInductive DEF PingInv
<1>2. ResultsInv'
  <2>1. CASE UNCHANGED pingVars \/ Done \/ WaitSelect \/ Finish \/ Tick
    BY <2>1, SameResults DEF pingVars, Done, WaitSelect, Finish, Tick
  <2>2. CASE LoopOver \/ NoReply
    BY <2>2, ReturnResults DEF LoopOver, NoReply
  <2> QED BY <2>1, <2>2, SendResults, FailResults, ReplyResults, ArriveResults, OtherResults DEF PingNext
<1> QED BY <1>1, <1>2 DEF PingInv

THEOREM PingInvariant == PingSpec => []PingInv
<1>1. PingInit => PingInv
  BY ClockStarts, ResultsStart DEF PingInv
<1> QED BY <1>1, PingInductive, PTL DEF PingSpec

(***************************************************************************)
(* The results are one for each ping that is over, and never below -1.     *)
(***************************************************************************)
THEOREM PingTypes == PingSpec => []PingTypeOK
<1>1. PingInv => PingTypeOK
  <2> SUFFICES ASSUME PingInv PROVE PingTypeOK
    OBVIOUS
  <2>1. ping \in 0..Pings /\ replied \subseteq 1..ping
    BY DEF PingInv, ResultsInv
  <2>2. Replies \subseteq 1..Pings \union {Foreign}
    <3>1. 1..ping \subseteq 1..Pings
      BY <2>1, PingConstants
    <3> QED BY <2>1, <3>1 DEF Replies
  <2>3. inbox \in Seq(1..Pings \union {Foreign})
    BY <2>2, SeqMonotonic DEF PingInv, ResultsInv
  <2> QED BY <2>3 DEF PingInv, ResultsInv, ClockInv, ClockTypeOK, PingTypeOK
<1> QED BY <1>1, PingInvariant, PTL

(***************************************************************************)
(* A positive result is the time of an answer to that very ping, whatever  *)
(* else comes in on its socket (test_icmp.c:128).                          *)
(***************************************************************************)
THEOREM OwnReplyAlways == PingSpec => []OwnReplyOnly
<1>1. PingInv => OwnReplyOnly
  BY DEF PingInv, ResultsInv
<1> QED BY <1>1, PingInvariant, PTL
-----------------------------------------------------------------------------
(***************************************************************************)
(* A sound network.  The reply to the ping in progress is on its way or in *)
(* the socket, and the timeout has not run out before it.                  *)
(***************************************************************************)
Waiting == at \in {"loop", "wait"} /\ ping \notin Silent

InTime ==
    /\ ping \in flying \/ \E i \in DOMAIN inbox : inbox[i] = ping
    /\ Milliseconds(elapsed) < TimeoutMs

RightResults == \A p \in DOMAIN rtts : rtts[p] > 0 <=> p \notin Silent

SoundInv ==
    sound => /\ replied \intersect Silent = {}
             /\ RightResults
             /\ Waiting => InTime

LEMMA TimeLeft ==
  ASSUME PingInv, SoundInv, sound, Waiting
  PROVE  /\ at = "loop" => timeout_ms > 0
         /\ at = "wait" => waited # PerMs * timeout_ms
<1> DEFINE before == elapsed - waited
           m == Milliseconds(before)
           n == Milliseconds(elapsed)
<1>1. n < TimeoutMs /\ elapsed \in Nat /\ waited \in 0..elapsed /\ timeout_ms \in Int /\ before \in Nat
  BY DEF SoundInv, InTime, PingInv, ClockInv, ClockTypeOK
<1>2. /\ m \in Nat /\ 2 * (PerMs * m - before) <= PerMs
      /\ n \in Nat /\ 2 * (elapsed - PerMs * n) < PerMs
  BY <1>1, RoundedToNearest
<1>3. at = "loop" => timeout_ms = TimeoutMs - n
  BY DEF PingInv, ClockInv, Given
<1>4. at = "wait" => timeout_ms = TimeoutMs - m
  BY DEF PingInv, ClockInv, Given
<1>5. elapsed = before + waited
  BY <1>1
<1> HIDE DEF before, m, n
<1>6. ASSUME at = "wait", waited = PerMs * timeout_ms
      PROVE  FALSE
  <2>1. waited = PerMs * TimeoutMs - PerMs * m
    BY <1>2, <1>4, <1>6, PingConstants
  <2>2. TimeoutMs - n >= 1 /\ (TimeoutMs - n) * PerMs >= PerMs
    BY <1>1, <1>2, PingConstants, MultipleTooLarge
  <2>3. (TimeoutMs - n) * PerMs = PerMs * TimeoutMs - PerMs * n
    BY <1>2, PingConstants
  <2>4. PerMs * m \in Int /\ PerMs * n \in Int
    BY <1>2, PingConstants
  <2> QED BY <1>1, <1>2, <1>5, <2>1, <2>2, <2>3, <2>4, PingConstants
<1> QED BY <1>1, <1>2, <1>3, <1>6, PingConstants

LEMMA ReturnSound ==
  ASSUME PingInv, SoundInv, at \in {"loop", "wait"}, NEW result \in Int, Return(result),
         sound => (result > 0 <=> ping \notin Silent), UNCHANGED <<flying, replied>>
  PROVE  SoundInv'
<1>1. rtts \in Seq(Int) /\ rtts' = Append(rtts, result) /\ at' = "idle" /\ UNCHANGED <<sound, ping>>
  BY DEF PingInv, ResultsInv, Return
<1>2. Len(rtts) + 1 = ping
  BY LenProperties, PingConstants DEF PingInv, ResultsInv
<1>3. /\ DOMAIN rtts = 1..Len(rtts) /\ DOMAIN rtts' = 1..(Len(rtts) + 1) /\ Len(rtts) \in Nat
      /\ \A p \in DOMAIN rtts' : rtts'[p] = IF p = ping THEN result ELSE rtts[p]
  BY <1>1, <1>2, Recorded, LenProperties
<1>4. ASSUME sound PROVE RightResults'
  <2> SUFFICES ASSUME NEW p \in DOMAIN rtts' PROVE rtts'[p] > 0 <=> p \notin Silent
    BY DEF RightResults
  <2>1. CASE p = ping
    BY <1>3, <1>4, <2>1
  <2>2. CASE p # ping
    <3>1. p \in DOMAIN rtts /\ rtts'[p] = rtts[p]
      BY <1>2, <1>3, <2>2
    <3> QED BY <1>4, <3>1 DEF SoundInv, RightResults
  <2> QED BY <2>1, <2>2
<1> QED BY <1>1, <1>4 DEF SoundInv, Waiting

LEMMA SendSound == PingInv /\ SoundInv /\ SendRequest => SoundInv'
<1> SUFFICES ASSUME PingInv, SoundInv, SendRequest, sound PROVE SoundInv'
  BY DEF SendRequest, SoundInv
<1>1. ping' = ping + 1 /\ elapsed' = elapsed /\ elapsed = 0 /\ UNCHANGED <<sound, rtts>>
  BY DEF SendRequest, PingInv, ClockInv
<1>2. CASE ping + 1 \in Silent
  <2>1. replied' = replied
    BY <1>2 DEF SendRequest
  <2> QED BY <1>1, <1>2, <2>1 DEF SoundInv, RightResults, Waiting
<1>3. CASE ping + 1 \notin Silent
  <2>1. replied' = replied \union {ping + 1} /\ flying' = flying \union {ping + 1}
    BY <1>3 DEF SendRequest
  <2>2. InTime'
    BY <1>1, <2>1, NoTime, PingConstants DEF InTime
  <2> QED BY <1>1, <1>3, <2>1, <2>2 DEF SoundInv, RightResults
<1> QED BY <1>2, <1>3

LEMMA FailSound == PingInv /\ SoundInv /\ SendFails => SoundInv'
<1> SUFFICES ASSUME PingInv, SoundInv, SendFails, sound PROVE SoundInv'
  BY DEF SendFails, SoundInv
<1>1. /\ at = "idle" /\ ping' = ping + 1 /\ ping + 1 \in Silent /\ rtts' = Append(rtts, -1)
      /\ UNCHANGED <<sound, at, replied>>
  BY DEF SendFails
<1>2. rtts \in Seq(Int) /\ Len(rtts) = ping /\ ping \in 0..Pings /\ -1 \in Int
  BY <1>1 DEF PingInv, ResultsInv
<1>3. /\ DOMAIN rtts = 1..ping /\ DOMAIN rtts' = 1..(ping + 1)
      /\ \A p \in DOMAIN rtts' : rtts'[p] = IF p = ping + 1 THEN -1 ELSE rtts[p]
  BY <1>1, <1>2, Recorded
<1>4. RightResults'
  <2> SUFFICES ASSUME NEW p \in DOMAIN rtts' PROVE rtts'[p] > 0 <=> p \notin Silent
    BY DEF RightResults
  <2>1. CASE p = ping + 1
    BY <1>1, <1>3, <2>1
  <2>2. CASE p # ping + 1
    <3>1. p \in DOMAIN rtts /\ rtts'[p] = rtts[p]
      BY <1>2, <1>3, <2>2
    <3> QED BY <3>1 DEF SoundInv, RightResults
  <2> QED BY <2>1, <2>2
<1> QED BY <1>1, <1>4 DEF SoundInv, Waiting

LEMMA EndSound == PingInv /\ SoundInv /\ (LoopOver \/ NoReply) => SoundInv'
<1> SUFFICES ASSUME PingInv, SoundInv, LoopOver \/ NoReply PROVE SoundInv'
  OBVIOUS
<1>1. at \in {"loop", "wait"} /\ Return(0) /\ UNCHANGED <<flying, replied>>
  BY DEF LoopOver, NoReply
<1>2. ASSUME sound PROVE ping \in Silent
  <2>1. SUFFICES ASSUME Waiting PROVE FALSE
    BY <1>1 DEF Waiting
  <2>2. CASE LoopOver
    <3>1. at = "loop" /\ timeout_ms <= 0 /\ timeout_ms \in Int
      BY <2>2 DEF LoopOver, PingInv, ClockInv, ClockTypeOK
    <3> QED BY <1>2, <2>1, <3>1, TimeLeft
  <2>3. CASE NoReply
    BY <1>2, <2>1, <2>3, TimeLeft DEF NoReply
  <2> QED BY <2>2, <2>3
<1> QED BY <1>1, <1>2, ReturnSound

LEMMA ReplySound == PingInv /\ SoundInv /\ ReceiveReply => SoundInv'
<1> SUFFICES ASSUME PingInv, SoundInv, ReceiveReply PROVE SoundInv'
  OBVIOUS
<1>1. at = "wait" /\ Return(RoundTrip(elapsed)) /\ UNCHANGED <<flying, replied>>
  BY DEF ReceiveReply
<1>2. ping \in replied
  BY ReplyAnswered
<1>3. RoundTrip(elapsed) \in Int /\ RoundTrip(elapsed) > 0
  BY Stopwatch DEF PingInv, ClockInv, ClockTypeOK, RoundTrip
<1>4. sound => ping \notin Silent
  BY <1>2 DEF SoundInv
<1> QED BY <1>1, <1>3, <1>4, ReturnSound

LEMMA OtherSound == PingInv /\ SoundInv /\ ReceiveOther => SoundInv'
<1> SUFFICES ASSUME PingInv, SoundInv, ReceiveOther PROVE SoundInv'
  OBVIOUS
<1>1. /\ inbox # <<>> /\ inbox' = Tail(inbox) /\ Head(inbox) # ping /\ at = "wait" /\ at' = "loop"
      /\ UNCHANGED <<sound, ping, elapsed, rtts, flying, replied>>
  BY DEF ReceiveOther, Matches
<1>2. ASSUME sound, Waiting PROVE InTime'
  <2>1. CASE ping \in flying
    BY <1>1, <1>2, <2>1 DEF SoundInv, InTime
  <2>2. ASSUME NEW i \in DOMAIN inbox, inbox[i] = ping
        PROVE  \E j \in DOMAIN inbox' : inbox'[j] = ping
    <3>1. /\ inbox \in Seq(Replies) /\ Len(inbox) \in Nat /\ DOMAIN inbox = 1..Len(inbox)
          /\ Head(inbox) = inbox[1]
      BY LenProperties DEF PingInv, ResultsInv
    <3>2. /\ inbox' \in Seq(Replies) /\ Len(inbox') = Len(inbox) - 1
          /\ \A j \in 1..Len(Tail(inbox)) : Tail(inbox)[j] = inbox[j + 1]
      BY <1>1, <3>1, HeadTailProperties
    <3>3. DOMAIN inbox' = 1..(Len(inbox) - 1)
      BY <3>2, LenProperties
    <3>4. i # 1 /\ i \in 1..Len(inbox)
      BY <1>1, <2>2, <3>1
    <3>5. i - 1 \in 1..Len(Tail(inbox)) /\ (i - 1) + 1 = i
      BY <1>1, <3>1, <3>2, <3>4
    <3>6. i - 1 \in DOMAIN inbox' /\ inbox'[i - 1] = ping
      BY <1>1, <2>2, <3>2, <3>3, <3>5
    <3> QED BY <3>6
  <2> QED BY <1>1, <1>2, <2>1, <2>2 DEF SoundInv, InTime
<1> QED BY <1>1, <1>2 DEF SoundInv, Waiting, RightResults

LEMMA ArriveSound == PingInv /\ SoundInv /\ Arrive => SoundInv'
<1> SUFFICES ASSUME PingInv, SoundInv, Arrive PROVE SoundInv'
  OBVIOUS
<1>1. UNCHANGED <<sound, at, ping, elapsed, rtts, replied>>
  BY DEF Arrive
<1>2. ASSUME sound, Waiting PROVE InTime'
  <2>1. PICK packet \in flying \union {Foreign} :
          inbox' = Append(inbox, packet) /\ flying' = flying \ {packet}
    BY <1>2 DEF Arrive, Waiting
  <2>2. packet \in Replies /\ inbox \in Seq(Replies)
    BY DEF PingInv, ResultsInv, Replies
  <2>3. /\ Len(inbox) \in Nat /\ DOMAIN inbox = 1..Len(inbox) /\ DOMAIN inbox' = 1..(Len(inbox) + 1)
        /\ inbox'[Len(inbox) + 1] = packet /\ \A i \in 1..Len(inbox) : inbox'[i] = inbox[i]
    BY <2>1, <2>2, AppendProperties, LenProperties
  <2>4. CASE packet = ping
    <3>1. Len(inbox) + 1 \in DOMAIN inbox'
      BY <2>3
    <3> QED BY <1>1, <1>2, <2>3, <2>4, <3>1 DEF SoundInv, InTime
  <2>5. CASE packet # ping /\ ping \in flying
    BY <1>1, <1>2, <2>1, <2>5 DEF SoundInv, InTime
  <2>6. ASSUME NEW i \in DOMAIN inbox, inbox[i] = ping PROVE InTime'
    <3>1. i \in DOMAIN inbox' /\ inbox'[i] = ping
      BY <2>3, <2>6
    <3> QED BY <1>1, <1>2, <3>1 DEF SoundInv, InTime
  <2> QED BY <1>2, <2>4, <2>5, <2>6 DEF SoundInv, InTime
<1> QED BY <1>1, <1>2 DEF SoundInv, Waiting, RightResults

LEMMA TickSound == PingInv /\ SoundInv /\ Tick => SoundInv'
<1> SUFFICES ASSUME PingInv, SoundInv, Tick PROVE SoundInv'
  OBVIOUS
<1>1. /\ at = "wait" /\ inbox = <<>> /\ elapsed' = elapsed + 1
      /\ UNCHANGED <<sound, at, ping, ts_start, rtts, inbox, flying, replied>>
  BY DEF Tick
<1>2. ASSUME sound, Waiting PROVE InTime'
  <2>1. ping \in flying
    BY <1>1, <1>2 DEF SoundInv, InTime
  <2>2. ElapsedMs(elapsed + 1) < TimeoutMs
    BY <1>2, <2>1 DEF Tick
  <2>3. ClockInv'
    BY TickClock DEF PingInv
  <2>4. ElapsedMs(elapsed + 1) = Milliseconds(elapsed + 1)
    BY <1>1, <2>3, StopwatchAt DEF ClockInv, ClockTypeOK, WaitBounded
  <2> QED BY <1>1, <2>1, <2>2, <2>4 DEF InTime
<1> QED BY <1>1, <1>2 DEF SoundInv, Waiting, RightResults

LEMMA SoundInductive == PingInv /\ SoundInv /\ [PingNext]_pingVars => SoundInv'
<1> SUFFICES ASSUME PingInv, SoundInv, [PingNext]_pingVars PROVE SoundInv'
  OBVIOUS
<1>1. CASE UNCHANGED pingVars \/ Done \/ WaitSelect \/ Finish
  <2>1. UNCHANGED <<sound, ping, elapsed, rtts, inbox, flying, replied>>
    BY <1>1 DEF pingVars, Done, WaitSelect, Finish
  <2>2. Waiting' <=> Waiting
    BY <1>1, <2>1 DEF pingVars, Done, WaitSelect, Finish, Waiting
  <2>3. RightResults' <=> RightResults
    BY <2>1 DEF RightResults
  <2>4. InTime' <=> InTime
    BY <2>1 DEF InTime
  <2> QED BY <2>1, <2>2, <2>3, <2>4 DEF SoundInv
<1> QED BY <1>1, SendSound, FailSound, EndSound, ReplySound, OtherSound, ArriveSound, TickSound
        DEF PingNext

DoneLast == at = "done" => ping = Pings

LEMMA DoneInductive == DoneLast /\ [PingNext]_pingVars => DoneLast'
  BY DEF DoneLast, PingNext, pingVars, SendRequest, SendFails, WaitSelect, LoopOver, NoReply, Return,
         ReceiveReply, ReceiveOther, Finish, Arrive, Tick, Done

(***************************************************************************)
(* On a sound network all five tests pass: every ping that is answered has *)
(* a positive result, one answered at once (test_icmp.c:142) and one at    *)
(* the last moment included.                                               *)
(***************************************************************************)
THEOREM SoundPingsAlwaysPass == PingSpec => []SoundPingsPass
<1>1. PingInit => SoundInv /\ DoneLast
  <2> SUFFICES ASSUME PingInit PROVE SoundInv /\ DoneLast
    OBVIOUS
  <2>1. DOMAIN rtts = {} /\ replied = {} /\ at = "idle"
    BY EmptySeq DEF PingInit
  <2> QED BY <2>1 DEF SoundInv, RightResults, Waiting, DoneLast
<1>2. PingInv /\ SoundInv /\ DoneLast => SoundPingsPass
  <2> SUFFICES ASSUME PingInv, SoundInv, DoneLast, sound PROVE SoundPingsPass
    BY DEF SoundPingsPass
  <2>1. \A p \in DOMAIN rtts : rtts[p] > 0 <=> p \notin Silent
    BY DEF SoundInv, RightResults
  <2>2. ASSUME at = "done" PROVE Cardinality(Success) >= Required
    <3>1. Success = Multi \ Silent
      <4>1. Multi \subseteq DOMAIN rtts
        <5>1. DOMAIN rtts = 1..Pings
          BY <2>2, LenProperties DEF DoneLast, PingInv, ResultsInv
        <5> QED BY <5>1, PingAssumption
      <4> QED BY <2>1, <4>1 DEF Success
    <3> QED BY <3>1, PingAssumption
  <2> QED BY <2>1, <2>2 DEF SoundPingsPass
<1> QED BY <1>1, <1>2, PingInvariant, SoundInductive, DoneInductive, PTL DEF PingSpec
=============================================================================
