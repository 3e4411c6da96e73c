--------------------------- MODULE DataProperties ---------------------------
(***************************************************************************)
(* What must be true of the data services and their tests.                 *)
(***************************************************************************)
EXTENDS HelperData, Functions

DataTypeOK ==
    /\ sound \in BOOLEAN
    /\ at \in [Transfers -> {"off", "sending", "receiving", "ended"}]
    /\ verdict \in [Transfers -> {"none", "passed", "failed"}]
    /\ calls \in [Transfers -> Nat] /\ due \in [Transfers -> 0..Block]
    /\ \A t \in Transfers : total_sent[t] \in 0..Size[t] /\ total_recv[t] \in 0..Size[t]
    /\ pending \in [Services -> Seq(Transfers)]
    /\ up \in [Transfers -> 0..UpRoom] /\ down \in [Transfers -> 0..DownRoom]
    /\ hung \in [Transfers -> {"open", "closed", "reset"}]
    /\ at_helper \in {"select", "dispatch", "sendall", "down"}
    /\ batch \in SUBSET (Transfers \union Services)
    /\ watched \in SUBSET Transfers /\ closed \in SUBSET Transfers
    /\ serving \in Transfers \union {Nobody}
    /\ unsent \in Nat
    /\ sink_totals \in [Transfers -> Int]

(***************************************************************************)
(* While a test has its connection and the helper has not closed it, every *)
(* byte sent is somewhere: on its way, in the helper's hands, received or  *)
(* counted by the sink.                                                    *)
(***************************************************************************)
Live(t) == at[t] \in {"sending", "receiving"} /\ t \notin closed

Counted(t) == IF sink_totals[t] > 0 THEN sink_totals[t] ELSE 0

BytesConserved ==
    \A t \in Transfers : Live(t) =>
      total_sent[t] = up[t] + InHand(t) + down[t] + total_recv[t] + Counted(t)

(***************************************************************************)
(* The helper knows each connection it has accepted exactly once: watched  *)
(* by the selector until it is closed, a sink's with its total, and        *)
(* nothing of a connection that is closed (_sink_totals is keyed by file   *)
(* descriptors, which are used again).                                     *)
(***************************************************************************)
Queued == UNION {Range(pending[s]) : s \in Services}

ConnectionsAccounted ==
    /\ watched \intersect (closed \union Queued) = {}
    /\ serving # Nobody => serving \in watched
    /\ batch \ Services \subseteq watched
    /\ \A t \in Transfers : sink_totals[t] >= 0 <=> t \in watched /\ Service[t] = "sink"

(***************************************************************************)
(* The test blocked in send() and the helper blocked in sendall() to it do *)
(* not wait for each other for ever, as long as the stacks hold all but    *)
(* one of the bytes: only then does sending everything before reading end  *)
(* (bsdsocktest_helper.py:225, test_sendrecv.c:600).                       *)
(***************************************************************************)
Fits(t) == Size[t] <= UpRoom + DownRoom + 1

Embraced(t) ==
    /\ serving = t /\ unsent > 0 /\ down[t] = DownRoom
    /\ at[t] = "sending" /\ due[t] > 0 /\ up[t] = UpRoom

NoEmbrace == \A t \in Transfers : Fits(t) => ~Embraced(t)

(***************************************************************************)
(* On a sound network no test of a service fails, whatever else the helper *)
(* is doing at the time.                                                   *)
(***************************************************************************)
SoundTransfersPass == sound => \A t \in Transfers : verdict[t] # "failed"

(***************************************************************************)
(* Every test that has connected ends, also when the helper is stopped,    *)
(* sends come up short or bytes do not come back, although only recv() has *)
(* a timeout: send() must always find the helper reading or gone.          *)
(***************************************************************************)
TransfersEnd == \A t \in Transfers : at[t] # "off" ~> at[t] = "ended"

(***************************************************************************)
(* The helper lets go of every connection whose test is over, also of one  *)
(* it accepts only afterwards.                                             *)
(***************************************************************************)
ConnectionsForgotten ==
    \A t \in Transfers : at[t] = "ended" ~> t \notin watched \union Queued
=============================================================================
