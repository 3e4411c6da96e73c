--------------------------- MODULE HelperControl ---------------------------
(***************************************************************************)
(* The control channel between the suite (helper_proto.c and test 41 of    *)
(* test_sendrecv.c, which asks to be called back) and the host helper      *)
(* (host/bsdsocktest_helper.py), a single thread that dispatches batches   *)
(* of socket events and blocks while it calls an Amiga back.               *)
(*                                                                         *)
(* A run of the suite makes one control connection, so a connection is     *)
(* named by its run.  The runs of one Amiga follow each other; the runs of *)
(* two Amigas may overlap.  A stream is a sequence of protocol lines, and  *)
(* EOF closes it.                                                          *)
(***************************************************************************)
EXTENDS Naturals, Sequences, FiniteSets, SequencesExt

CONSTANTS
    Runs,     \* runs of the suite, each with its control connection
    Amigas,   \* machines (IP addresses) that run the suite
    None      \* no connection

VARIABLES
    timely,     \* every answer takes less than the client's timeouts
    machine,    \* machine[r]: the Amiga run r is on
    (* the suite *)
    at,         \* what each run is doing
    test41,     \* "none", "passed" or "failed"
    listening,  \* the runs that listen for the helper's call
    inbound,    \* calls waiting in each run's listener
    (* the network *)
    backlog,    \* connections the helper has not accepted yet
    up,         \* lines from each run to the helper, unread
    down,       \* lines from the helper to each run, unread
    (* the helper *)
    at_helper,  \* "select", "dispatch", "parse", "calling" or "down"
    batch,      \* events of this select() still to be dispatched
    watched,    \* control connections registered with the selector
    closed,     \* control connections the helper has closed or refused
    ctrl_conn,
    ctrl_buf,   \* lines received and not processed
    calling     \* the Amiga being called back

environment == <<timely, machine>>
clientVars  == <<at, test41, listening>>
networkVars == <<backlog, up, down, inbound>>
eventVars   == <<at_helper, batch>>
ctrlVars    == <<watched, closed, ctrl_conn, ctrl_buf>>
helperVars  == <<eventVars, ctrlVars, calling>>
controlVars == <<environment, clientVars, networkVars, helperVars>>

ASSUME ControlAssumption == None \notin Runs \union Amigas /\ "listener" \notin Runs

Replies  == {"OK", "GO", "EOF"}
Commands == {"CONNECT", "QUIT", "EOF"}

ControlInit ==
    /\ timely \in BOOLEAN /\ machine \in [Runs -> Amigas]
    /\ at = [r \in Runs |-> "off"]
    /\ test41 = [r \in Runs |-> "none"]
    /\ listening = {}
    /\ inbound = [r \in Runs |-> 0]
    /\ backlog = <<>>
    /\ up = [r \in Runs |-> <<>>] /\ down = [r \in Runs |-> <<>>]
    /\ at_helper = "select" /\ batch = {}
    /\ watched = {} /\ closed = {}
    /\ ctrl_conn = None /\ ctrl_buf = <<>> /\ calling = None

Goto(r, place) == at' = [at EXCEPT ![r] = place]

\* Closing a socket with unread input resets the connection, which may cost
\* the peer the lines it has not read yet.
Hangup(lines, unread) ==
    {Append(lines, "EOF")} \union (IF unread # <<>> THEN {<<"EOF">>} ELSE {})

\* Lines sent to a connection the other side has closed go nowhere
Sent(r, line) == IF r \in closed THEN up[r] ELSE Append(up[r], line)

\* slip: the previous connection is forgotten, or looked for when there is none
ForgetCurrent == {}
AssumeCurrent == {ctrl_conn}

\* The current control connection, if there is one
Current == {ctrl_conn} \ {None}

\* Events select() would report now
Ready ==
    (IF backlog # <<>> THEN {"listener"} ELSE {})
      \union {r \in watched : up[r] # <<>>}

\* Nothing that run r waits for can still come
Quiescent == at_helper = "select" /\ Ready = {}

\* slip: recv, accept and connect without a timeout
NeverExpires == FALSE

Expired == timely => Quiescent
-----------------------------------------------------------------------------
(***************************************************************************)
(* The suite                                                               *)
(***************************************************************************)
\* helper_connect, as far as the TCP connection; with no helper the suite
\* bails out
Begins(r) ==
    /\ at[r] = "off"
    /\ \A q \in Runs : q # r /\ machine[q] = machine[r] => at[q] \in {"off", "ended"}

Connect(r) ==
    /\ Begins(r) /\ at_helper # "down"
    /\ Goto(r, "await_ok")
    /\ backlog' = Append(backlog, r)
    /\ UNCHANGED <<environment, test41, listening, up, down, inbound, helperVars>>

ConnectRefused(r) ==
    /\ Begins(r) /\ at_helper = "down"
    /\ Goto(r, "ended")
    /\ closed' = closed \union {r}
    /\ UNCHANGED <<environment, test41, listening, networkVars, eventVars, watched, ctrl_conn,
                   ctrl_buf, calling>>

\* recv_line returned OK
ConnectOK(r) ==
    /\ at[r] = "await_ok"
    /\ down[r] # <<>> /\ Head(down[r]) = "OK"
    /\ down' = [down EXCEPT ![r] = Tail(@)]
    /\ Goto(r, "connected")
    /\ UNCHANGED <<environment, test41, listening, backlog, up, inbound, helperVars>>

\* recv_line returned anything else, or timed out: the suite bails out
ConnectFails(r) ==
    /\ at[r] = "await_ok"
    /\ IF down[r] = <<>> THEN Expired ELSE Head(down[r]) # "OK"
    /\ \E lines \in Hangup(up[r], down[r]) : up' = [up EXCEPT ![r] = lines]
    /\ Goto(r, "ended")
    /\ UNCHANGED <<environment, test41, listening, backlog, down, inbound, helperVars>>

\* Test 41 listens, then helper_request_connect sends the command; a send on
\* a connection the helper has closed may still succeed.
RequestConnect(r) ==
    /\ at[r] = "connected" /\ test41[r] = "none"
    /\ listening' = listening \union {r}
    /\ up' = [up EXCEPT ![r] = Sent(r, "CONNECT")]
    /\ Goto(r, "await_go")
    /\ UNCHANGED <<environment, test41, backlog, down, inbound, helperVars>>

\* Test 41 reports, and closes its listener with whatever waits in it
Report41(r, verdict) ==
    /\ test41' = [test41 EXCEPT ![r] = verdict]
    /\ listening' = listening \ {r}
    /\ inbound' = [inbound EXCEPT ![r] = 0]
    /\ Goto(r, "connected")

RequestGranted(r) ==
    /\ at[r] = "await_go"
    /\ down[r] # <<>> /\ Head(down[r]) = "GO"
    /\ down' = [down EXCEPT ![r] = Tail(@)]
    /\ Goto(r, "accepting")
    /\ UNCHANGED <<environment, test41, listening, backlog, up, inbound, helperVars>>

\* send or recv_line failed, or another line than GO came
RequestFails(r) ==
    /\ at[r] = "await_go"
    /\ \/ r \in closed
       \/ IF down[r] = <<>> THEN Expired ELSE Head(down[r]) # "GO"
    /\ Report41(r, "failed")
    /\ UNCHANGED <<environment, backlog, up, down, helperVars>>

AcceptCall(r) ==
    /\ at[r] = "accepting" /\ inbound[r] > 0
    /\ Report41(r, "passed")
    /\ UNCHANGED <<environment, backlog, up, down, helperVars>>

AcceptTimesOut(r) ==
    /\ at[r] = "accepting" /\ inbound[r] = 0 /\ Expired
    /\ Report41(r, "failed")
    /\ UNCHANGED <<environment, backlog, up, down, helperVars>>

\* helper_quit, at the end of the run or after a Ctrl-C
Quit(r) ==
    /\ at[r] = "connected"
    /\ \E lines \in Hangup(Sent(r, "QUIT"), down[r]) : up' = [up EXCEPT ![r] = lines]
    /\ Goto(r, "ended")
    /\ UNCHANGED <<environment, test41, listening, backlog, down, inbound, helperVars>>

\* The stack under test takes the emulator down: its host closes the sockets
Crash(r) ==
    /\ ~timely /\ at[r] \notin {"off", "ended"}
    /\ \E lines \in Hangup(up[r], down[r]) : up' = [up EXCEPT ![r] = lines]
    /\ listening' = listening \ {r}
    /\ inbound' = [inbound EXCEPT ![r] = 0]
    /\ Goto(r, "ended")
    /\ UNCHANGED <<environment, test41, backlog, down, helperVars>>
-----------------------------------------------------------------------------
(***************************************************************************)
(* The helper                                                              *)
(***************************************************************************)
\* The streams after the helper has closed connection r, if it is one
ClosedDown(r) ==
    IF r = None THEN {down}
    ELSE {[down EXCEPT ![r] = lines] : lines \in Hangup(down[r], up[r])}

\* _close_ctrl: whichever connection is current
CloseCtrl ==
    /\ down' \in ClosedDown(ctrl_conn)
    /\ watched' = watched \ Current
    /\ closed' = closed \union Current
    /\ ctrl_conn' = None /\ ctrl_buf' = <<>>

Select ==
    /\ at_helper = "select" /\ Ready # {}
    /\ batch' = Ready
    /\ at_helper' = "dispatch"
    /\ UNCHANGED <<environment, clientVars, networkVars, ctrlVars, calling>>

BatchDone ==
    /\ at_helper = "dispatch" /\ batch = {}
    /\ at_helper' = "select"
    /\ UNCHANGED <<environment, clientVars, networkVars, batch, ctrlVars, calling>>

\* _accept_ctrl: the new connection replaces the previous one
AcceptCtrl ==
    /\ at_helper = "dispatch" /\ "listener" \in batch
    /\ batch' = batch \ {"listener"}
    /\ LET r == Head(backlog)
       IN  /\ backlog' = Tail(backlog)
           /\ \E streams \in ClosedDown(ctrl_conn) :
                down' = [streams EXCEPT ![r] = Append(@, "OK")]
           /\ watched' = (watched \ Current) \union {r}
           /\ closed' = closed \union Current
           /\ ctrl_conn' = r /\ ctrl_buf' = <<>>
    /\ UNCHANGED <<environment, clientVars, up, inbound, at_helper, calling>>

\* The client of connection r has closed it
Gone(r) == up[r] # <<>> /\ Last(up[r]) = "EOF"

\* ... and is closed again when its client has gone before the OK
AcceptCtrlFails ==
    /\ at_helper = "dispatch" /\ "listener" \in batch
    /\ batch' = batch \ {"listener"}
    /\ LET r == Head(backlog)
       IN  /\ Gone(r)
           /\ backlog' = Tail(backlog)
           /\ down' \in ClosedDown(ctrl_conn)
           /\ watched' = watched \ Current
           /\ closed' = closed \union Current \union {r}
           /\ ctrl_conn' = None /\ ctrl_buf' = <<>>
    /\ UNCHANGED <<environment, clientVars, up, inbound, at_helper, calling>>

\* _handle_ctrl for an event of connection r.  Receiving from a socket that
\* was closed earlier in the batch raises OSError, which counts as EOF.
HandleEOF(r) ==
    /\ at_helper = "dispatch" /\ r \in batch \ {"listener"}
    /\ r \in closed \/ Head(up[r]) = "EOF"
    /\ batch' = batch \ {r}
    /\ CloseCtrl
    /\ UNCHANGED <<environment, clientVars, backlog, up, inbound, at_helper, calling>>

HandleLines(r) ==
    /\ at_helper = "dispatch" /\ r \in batch \ {"listener"}
    /\ r \notin closed
    /\ \E n \in 1..Len(up[r]) :
         /\ \A i \in 1..n : up[r][i] # "EOF"
         /\ ctrl_buf' = ctrl_buf \o SubSeq(up[r], 1, n)
         /\ up' = [up EXCEPT ![r] = SubSeq(@, n + 1, Len(@))]
    /\ batch' = batch \ {r}
    /\ at_helper' = "parse"
    /\ UNCHANGED <<environment, clientVars, backlog, down, inbound, watched, closed, ctrl_conn, calling>>

ParseDone ==
    /\ at_helper = "parse" /\ ctrl_buf = <<>>
    /\ at_helper' = "dispatch"
    /\ UNCHANGED <<environment, clientVars, networkVars, batch, ctrlVars, calling>>

ParseQuit ==
    /\ at_helper = "parse" /\ ctrl_buf # <<>> /\ Head(ctrl_buf) = "QUIT"
    /\ CloseCtrl
    /\ UNCHANGED <<environment, clientVars, backlog, up, inbound, eventVars, calling>>

\* _handle_connect answers first, then sleeps and calls
\* slip: the command is not answered
ConnectUnanswered ==
    /\ at_helper = "parse" /\ ctrl_buf # <<>> /\ Head(ctrl_buf) = "CONNECT"
    /\ ctrl_buf' = Tail(ctrl_buf)
    /\ calling' = machine[ctrl_conn]
    /\ at_helper' = "calling"
    /\ UNCHANGED <<environment, clientVars, networkVars, batch, watched, closed, ctrl_conn>>

ParseConnect ==
    /\ at_helper = "parse" /\ ctrl_buf # <<>> /\ Head(ctrl_buf) = "CONNECT"
    /\ ctrl_buf' = Tail(ctrl_buf)
    /\ down' = [down EXCEPT ![ctrl_conn] = Append(@, "GO")]
    /\ calling' = machine[ctrl_conn]
    /\ at_helper' = "calling"
    /\ UNCHANGED <<environment, clientVars, backlog, up, inbound, batch, watched, closed, ctrl_conn>>

\* Whichever run listens on that Amiga's port is reached; with none listening,
\* or the network failing, the call is given up.
Callable == {r \in listening : machine[r] = calling}

\* slip: the call waits for as long as it takes
CallUntilReached ==
    /\ at_helper = "calling"
    /\ \E r \in Callable : inbound' = [inbound EXCEPT ![r] = @ + 1]
    /\ calling' = None
    /\ at_helper' = "parse"
    /\ UNCHANGED <<environment, clientVars, backlog, up, down, batch, ctrlVars>>

CallBack ==
    /\ at_helper = "calling"
    /\ \/ \E r \in Callable : inbound' = [inbound EXCEPT ![r] = @ + 1]
       \/ (Callable = {} \/ ~timely) /\ UNCHANGED inbound
    /\ calling' = None
    /\ at_helper' = "parse"
    /\ UNCHANGED <<environment, clientVars, backlog, up, down, batch, ctrlVars>>

(***************************************************************************)
(* The helper's process ends with every connection, those in the backlog   *)
(* included, for two reasons: Ctrl-C on the host, and an accept() that     *)
(* raises for a connection given up before, which nothing catches.         *)
(***************************************************************************)
Live == {r \in Runs : at[r] # "off"} \ closed

ProcessEnds ==
    /\ at_helper' = "down" /\ batch' = {} /\ backlog' = <<>>
    /\ \E cut \in SUBSET {r \in Live : up[r] # <<>>} :
         down' = [r \in Runs |-> IF r \in cut THEN <<"EOF">>
                                 ELSE IF r \in Live THEN Append(down[r], "EOF") ELSE down[r]]
    /\ watched' = {} /\ closed' = closed \union Live
    /\ ctrl_conn' = None /\ ctrl_buf' = <<>> /\ calling' = None
    /\ UNCHANGED <<environment, clientVars, up, inbound>>

Interrupted == ~timely /\ at_helper # "down" /\ ProcessEnds

AcceptRaises ==
    /\ at_helper = "dispatch" /\ "listener" \in batch
    /\ Gone(Head(backlog))
    /\ ProcessEnds
-----------------------------------------------------------------------------
ClientStep(r) ==
    \/ ConnectOK(r) \/ ConnectFails(r)
    \/ RequestConnect(r) \/ RequestGranted(r) \/ RequestFails(r)
    \/ AcceptCall(r) \/ AcceptTimesOut(r)
    \/ Quit(r)

HelperStep ==
    \/ Select \/ BatchDone
    \/ AcceptCtrl \/ AcceptCtrlFails
    \/ \E r \in Runs : HandleEOF(r) \/ HandleLines(r)
    \/ ParseDone \/ ParseQuit \/ ParseConnect
    \/ CallBack

\* Every run is over, and the helper waits for the next, or is gone
AllQuiet ==
    /\ \A r \in Runs : at[r] = "ended"
    /\ Quiescent \/ at_helper = "down"
    /\ UNCHANGED controlVars

ControlNext ==
    \/ \E r \in Runs : Connect(r) \/ ConnectRefused(r) \/ ClientStep(r) \/ Crash(r)
    \/ HelperStep \/ Interrupted \/ AcceptRaises
    \/ AllQuiet

ControlSpec == ControlInit /\ [][ControlNext]_controlVars

(***************************************************************************)
(* The helper's loop runs on; a run that has begun takes its steps, of     *)
(* which a timeout is one.  No new run has to begin, none to crash, and    *)
(* the helper need not end.                                                *)
(***************************************************************************)
FairControlSpec ==
    /\ ControlSpec
    /\ WF_controlVars(HelperStep)
    /\ \A r \in Runs : WF_controlVars(ClientStep(r))
=============================================================================
