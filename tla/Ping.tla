-------------------------------- MODULE Ping --------------------------------
(***************************************************************************)
(* icmp_ping() and the tests 132 to 136 that call it one ping after the    *)
(* other (test_icmp.c).  Every ping opens a raw socket of its own, which   *)
(* receives all ICMP packets that come in while it is open: replies to     *)
(* earlier pings and packets of others too.                                *)
(*                                                                         *)
(* A packet is the number of the ping it replies to, or Foreign.  Time     *)
(* passes in microseconds, few to a millisecond but enough to see the      *)
(* rounding and the borrow of module Timing, and only in WaitSelect(): the *)
(* code in between takes none.                                             *)
(***************************************************************************)
EXTENDS Timing, Sequences, FiniteSets

CONSTANTS
    Pings,       \* the number of pings
    Multi,       \* those of test 135
    Required,    \* replies test 135 wants (4)
    Silent,      \* pings of an address nobody answers (test 136)
    TimeoutMs,   \* 3000
    Starts,      \* instants at which a ping may start
    Foreign,     \* any other packet
    MaxInbox     \* bound on the packets waiting in the socket

VARIABLES
    sound,       \* every reply comes in time and once, and no call fails
    at,          \* "idle", "loop", "wait" or "done"
    ping,        \* the ping begun last
    ts_start,    \* an instant
    elapsed,     \* microseconds since then,
    waited,      \* and in this WaitSelect()
    timeout_ms,
    rtts,        \* results: microseconds, 0 for no reply, -1 for an error
    inbox,       \* packets in the socket
    flying,      \* replies on their way
    replied      \* history: pings that were answered

pingVars == <<sound, at, ping, ts_start, elapsed, waited, timeout_ms, rtts, inbox, flying, replied>>

ASSUME PingAssumption ==
    /\ Pings \in Nat /\ Multi \subseteq 1..Pings /\ Silent \subseteq 1..Pings
    /\ Required \in Nat /\ Required <= Cardinality(Multi \ Silent)
    /\ TimeoutMs \in Nat \ {0} /\ PerMs * (TimeoutMs + 1) < ULongRange
    /\ Starts \subseteq Nat /\ Starts # {} /\ MaxInbox \in Nat \ {0}
    /\ Foreign \notin 1..Pings

PingInit ==
    /\ sound \in BOOLEAN
    /\ at = "idle" /\ ping = 0 /\ rtts = <<>>
    /\ ts_start = 0 /\ elapsed = 0 /\ waited = 0 /\ timeout_ms = 0
    /\ inbox = <<>> /\ flying = {} /\ replied = {}

\* timer_now() so many microseconds after the start
ts_now(elapses) == bst_timestamp(ts_start + elapses)

ElapsedUs(elapses) == timer_elapsed_us(bst_timestamp(ts_start), ts_now(elapses))
ElapsedMs(elapses) == timer_elapsed_ms(bst_timestamp(ts_start), ts_now(elapses))
-----------------------------------------------------------------------------
\* close the socket, and with it what it has received, and return a result
Return(result) ==
    /\ rtts' = Append(rtts, result)
    /\ at' = "idle" /\ inbox' = <<>>
    /\ ts_start' = 0 /\ elapsed' = 0 /\ waited' = 0 /\ timeout_ms' = 0
    /\ UNCHANGED <<sound, ping>>

\* The request is sent, and answered or lost
SendRequest ==
    /\ at = "idle" /\ ping < Pings
    /\ ping' = ping + 1 /\ at' = "loop" /\ timeout_ms' = TimeoutMs
    /\ ts_start' \in Starts
    /\ \E answer \in IF ping + 1 \in Silent THEN {{}}
                     ELSE {{ping + 1}} \union (IF sound THEN {} ELSE {{}}) :
         /\ flying' = flying \union answer
         /\ replied' = replied \union answer
    /\ UNCHANGED <<sound, elapsed, waited, rtts, inbox>>

\* socket() or sendto() returned -1, also for want of a route
SendFails ==
    /\ at = "idle" /\ ping < Pings
    /\ ~sound \/ ping + 1 \in Silent
    /\ ping' = ping + 1
    /\ rtts' = Append(rtts, -1)
    /\ UNCHANGED <<sound, at, ts_start, elapsed, waited, timeout_ms, inbox, flying, replied>>

\* while (timeout_ms > 0)
WaitSelect ==
    /\ at = "loop" /\ timeout_ms > 0
    /\ at' = "wait" /\ waited' = 0
    /\ UNCHANGED <<sound, ping, ts_start, elapsed, timeout_ms, rtts, inbox, flying, replied>>

LoopOver ==
    /\ at = "loop" /\ timeout_ms <= 0
    /\ Return(0)
    /\ UNCHANGED <<flying, replied>>

\* WaitSelect() times out; a failure of it or of recv() gives the same result
NoReply ==
    /\ at = "wait"
    /\ (inbox = <<>> /\ waited = PerMs * timeout_ms) \/ ~sound
    /\ Return(0)
    /\ UNCHANGED <<flying, replied>>

\* slip: the sequence number is not looked at
MatchesAnyReply(packet) == packet # Foreign

Matches(packet) == packet = ping

\* slip: a reply within the clock's resolution
Measured(elapses) == ElapsedUs(elapses)

\* (LONG)(rtt_us > 0 ? rtt_us : 1)
RoundTrip(elapses) == IF ElapsedUs(elapses) > 0 THEN ElapsedUs(elapses) ELSE 1

\* slip: what has been waited before is forgotten
WholeTimeout(elapses) == TimeoutMs

Remaining(elapses) == TimeoutMs - ElapsedMs(elapses)

ReceiveReply ==
    /\ at = "wait" /\ inbox # <<>> /\ Matches(Head(inbox))
    /\ Return(RoundTrip(elapsed))
    /\ UNCHANGED <<flying, replied>>

\* Any other packet, also one too short: the remaining timeout shrinks
ReceiveOther ==
    /\ at = "wait" /\ inbox # <<>> /\ ~Matches(Head(inbox))
    /\ inbox' = Tail(inbox)
    /\ timeout_ms' = Remaining(elapsed)
    /\ at' = "loop" /\ waited' = 0
    /\ UNCHANGED <<sound, ping, ts_start, elapsed, rtts, flying, replied>>

Finish ==
    /\ at = "idle" /\ ping = Pings
    /\ at' = "done"
    /\ UNCHANGED <<sound, ping, ts_start, elapsed, waited, timeout_ms, rtts, inbox, flying, replied>>
-----------------------------------------------------------------------------
(***************************************************************************)
(* The network and the clock                                               *)
(***************************************************************************)
\* A packet comes in; without a socket nobody receives it.  One that is not
\* sound may also repeat a reply.
Arrive ==
    /\ \E packet \in flying \union {Foreign} :
         /\ IF at \in {"loop", "wait"}
            THEN Len(inbox) < MaxInbox /\ inbox' = Append(inbox, packet)
            ELSE packet # Foreign /\ UNCHANGED inbox
         /\ flying' \in {flying \ {packet}} \union (IF sound THEN {} ELSE {flying})
    /\ UNCHANGED <<sound, at, ping, ts_start, elapsed, waited, timeout_ms, rtts, replied>>

Tick ==
    /\ at = "wait" /\ inbox = <<>> /\ waited < PerMs * timeout_ms
    /\ sound /\ ping \in flying => ElapsedMs(elapsed + 1) < TimeoutMs
    /\ elapsed' = elapsed + 1 /\ waited' = waited + 1
    /\ UNCHANGED <<sound, at, ping, ts_start, timeout_ms, rtts, inbox, flying, replied>>

Done == at = "done" /\ UNCHANGED pingVars

PingNext ==
    \/ SendRequest \/ SendFails \/ WaitSelect \/ LoopOver \/ NoReply
    \/ ReceiveReply \/ ReceiveOther \/ Finish
    \/ Arrive \/ Tick \/ Done

PingSpec == PingInit /\ [][PingNext]_pingVars
-----------------------------------------------------------------------------
PingTypeOK ==
    /\ sound \in BOOLEAN
    /\ at \in {"idle", "loop", "wait", "done"}
    /\ ping \in 0..Pings
    /\ ts_start \in Nat /\ elapsed \in Nat /\ waited \in 0..elapsed
    /\ timeout_ms \in Int /\ timeout_ms <= TimeoutMs
    /\ rtts \in Seq(Int) /\ Len(rtts) = IF at \in {"loop", "wait"} THEN ping - 1 ELSE ping
    /\ \A p \in DOMAIN rtts : rtts[p] >= -1
    /\ inbox \in Seq(1..Pings \union {Foreign}) /\ Len(inbox) <= MaxInbox
    /\ flying \subseteq replied /\ replied \subseteq 1..ping

(***************************************************************************)
(* However many other packets come in, and whenever, a ping is over within *)
(* its three seconds and less than the half millisecond that the rounding  *)
(* of the remaining time may add (test_icmp.c:148).                        *)
(***************************************************************************)
WaitBounded == 2 * (elapsed - PerMs * TimeoutMs) < PerMs

(***************************************************************************)
(* A ping takes no other ping's reply for its own, late or repeated ones   *)
(* included.                                                               *)
(***************************************************************************)
OwnReplyOnly == \A p \in DOMAIN rtts : rtts[p] > 0 => p \in replied

(***************************************************************************)
(* On a sound network every ping that is answered has a positive result,   *)
(* also one answered at once and one behind other packets, and the address *)
(* nobody answers has none: all five tests pass.                           *)
(***************************************************************************)
Success == {p \in Multi : p \in DOMAIN rtts /\ rtts[p] > 0}

SoundPingsPass ==
    sound =>
      /\ \A p \in DOMAIN rtts : rtts[p] > 0 <=> p \notin Silent
      /\ at = "done" => Cardinality(Success) >= Required
=============================================================================
