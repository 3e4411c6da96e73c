-------------------------- MODULE HelperProperties --------------------------
(***************************************************************************)
(* What must be true of the control channel.                               *)
(***************************************************************************)
EXTENDS HelperControl

Places == {"off", "await_ok", "connected", "await_go", "accepting", "ended"}

ControlTypeOK ==
    /\ timely \in BOOLEAN /\ machine \in [Runs -> Amigas]
    /\ at \in [Runs -> Places]
    /\ test41 \in [Runs -> {"none", "passed", "failed"}]
    /\ listening \in SUBSET Runs /\ inbound \in [Runs -> Nat]
    /\ backlog \in Seq(Runs)
    /\ up \in [Runs -> Seq(Commands)] /\ down \in [Runs -> Seq(Replies)]
    /\ at_helper \in {"select", "dispatch", "parse", "calling", "down"}
    /\ batch \in SUBSET (Runs \union {"listener"})
    /\ watched \in SUBSET Runs /\ closed \in SUBSET Runs
    /\ ctrl_conn \in Runs \union {None}
    /\ ctrl_buf \in Seq(Commands)
    /\ calling \in Amigas \union {None}

(***************************************************************************)
(* The helper leaks no control connection: one it has accepted is closed,  *)
(* or it is the current one, watched by the selector; commands are only    *)
(* ever taken from, and answered on, the current one (_accept_ctrl,        *)
(* _close_ctrl).                                                           *)
(***************************************************************************)
Accepted == {r \in Runs : at[r] # "off" /\ ~Contains(backlog, r)}

OneControlConnection ==
    /\ watched = {ctrl_conn} \ {None}
    /\ Accepted \ closed = watched
    /\ (batch \ {"listener"}) \ closed \subseteq watched
    /\ at_helper = "calling" \/ ctrl_buf # <<>> => ctrl_conn # None

(***************************************************************************)
(* Test 41 cannot pass on a call meant for another run: a call waits in a  *)
(* run's listener only after the helper's GO for that run's own command,   *)
(* although the helper calls an address and not a run, and may call late.  *)
(***************************************************************************)
CallsAnnounced ==
    \A r \in Runs : inbound[r] > 0 =>
      inbound[r] = 1 /\ (at[r] = "accepting" \/ Contains(down[r], "GO"))

(***************************************************************************)
(* A run that has the helper to itself does not fail test 41, as long as   *)
(* every answer comes within the client's timeouts.                        *)
(***************************************************************************)
UndisturbedRunPasses ==
    \A r \in Runs :
      timely /\ (\A q \in Runs \ {r} : at[q] = "off") => test41[r] # "failed"

(***************************************************************************)
(* A connection in the helper's backlog is accepted in the end, however    *)
(* long the helper is held up by a call, unless the helper ends first.     *)
(* That takes a Ctrl-C or a client that has left the backlog: it never     *)
(* happens when every answer is in time, whatever else the runs do.        *)
(***************************************************************************)
ConnectionsAccepted ==
    \A r \in Runs : Contains(backlog, r) ~>
      IF at_helper = "down" THEN ~timely ELSE r \in Accepted

(***************************************************************************)
(* No run hangs on the helper: one that has begun ends.                    *)
(***************************************************************************)
RunsEnd == \A r \in Runs : at[r] # "off" ~> at[r] = "ended"

(***************************************************************************)
(* Losing the control connection fails no test ("all network tests are     *)
(* skipped (not failed)", host/README.md), and runs of one Amiga that      *)
(* follow each other do not lose it.                                       *)
(***************************************************************************)
BackToBackRunsPass == timely => \A r \in Runs : test41[r] # "failed"
=============================================================================
