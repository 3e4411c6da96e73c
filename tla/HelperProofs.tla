---------------------------- MODULE HelperProofs ----------------------------
(***************************************************************************)
(* Proofs about the control channel, for any number of runs on any number  *)
(* of machines, with clients that crash, time out or leave at any moment.  *)
(***************************************************************************)
EXTENDS HelperProperties, SequenceTheorems, TLAPS

(***************************************************************************)
(* The inductive invariant                                                 *)
(***************************************************************************)
Waiting(r) == Contains(backlog, r)

\* A connection is not made yet, waits, is the current one, or is closed
Placed(r) ==
    /\ at[r] = "off" => ~Waiting(r) /\ r \notin closed /\ r # ctrl_conn
    /\ at[r] # "off" => Waiting(r) \/ r \in closed \/ r = ctrl_conn
    /\ Waiting(r) => r \notin closed /\ r # ctrl_conn
    /\ r \in closed => r # ctrl_conn

PlacedInv ==
    /\ IsInjective(backlog)
    /\ watched = Current
    /\ \A r \in Runs : Placed(r)

\* What the helper's thread has in hand
ThreadInv ==
    /\ batch \ {"listener"} \subseteq watched \union closed
    /\ "listener" \in batch => backlog # <<>>
    /\ \A r \in batch \intersect watched : up[r] # <<>>
    /\ at_helper \in {"select", "dispatch"} => ctrl_buf = <<>>
    /\ at_helper = "calling" \/ ctrl_buf # <<>> => ctrl_conn # None
    /\ at_helper = "calling" => calling = machine[ctrl_conn]

\* The earlier runs of a machine are accepted before the one that is going on
Precedes(s, q, r) == \E i, j \in 1..Len(s) : i < j /\ s[i] = q /\ s[j] = r

Turn(r) ==
    \A q \in Runs : q # r /\ machine[q] = machine[r] /\ at[r] \notin {"off", "ended"} =>
      /\ Waiting(q) => Precedes(backlog, q, r)
      /\ q = ctrl_conn => Waiting(r)

TurnInv == \A r \in Runs : Turn(r)

\* Commands of run r on their way, and the call the helper is making for it
InHand(r)  == IF r = ctrl_conn THEN Len(ctrl_buf) ELSE 0
Sending(r) == Len(up[r]) + InHand(r)
Call(r)    == IF r = ctrl_conn /\ at_helper = "calling" THEN 1 ELSE 0
Granted(r) == at[r] = "accepting" \/ Contains(down[r], "GO")
Asking(r)  == at[r] \in {"await_go", "accepting"}

\* A run asks once, and is called once for it
Asked(r) ==
    /\ Waiting(r) => at[r] \in {"await_ok", "ended"} /\ down[r] = <<>>
    /\ at[r] = "off" => down[r] = <<>>
    /\ r \in listening <=> Asking(r)
    /\ ~Asking(r) => inbound[r] = 0
    /\ at[r] \in {"off", "await_ok"} \/ Asking(r) => test41[r] = "none"
    /\ at[r] # "ended" /\ ~Asking(r) /\ test41[r] = "none" =>
         Sending(r) = 0 /\ Call(r) = 0 /\ ~Granted(r)
    /\ Asking(r) =>
         /\ Sending(r) + Call(r) + inbound[r] <= 1
         /\ Granted(r) => Sending(r) = 0
         /\ Call(r) + inbound[r] > 0 => Granted(r)

AskedInv == \A r \in Runs : Asked(r)

\* A run that is alone gets what it waits for
Alone(r) == timely /\ \A q \in Runs \ {r} : at[q] = "off"

Served(r) ==
    /\ r \notin closed
    /\ up[r] \in {<<>>, <<"CONNECT">>}
    /\ r = ctrl_conn => ctrl_buf \in {<<>>, <<"CONNECT">>}
    /\ at[r] = "await_ok" => Waiting(r) \/ down[r] = <<"OK">>
    /\ at[r] = "connected" => down[r] = <<>>
    /\ at[r] = "await_go" => \/ Sending(r) = 1 /\ down[r] = <<>>
                             \/ Call(r) + inbound[r] = 1 /\ down[r] = <<"GO">>
    /\ at[r] = "accepting" => Call(r) + inbound[r] = 1

AloneInv ==
    \A r \in Runs : Alone(r) =>
      /\ test41[r] # "failed"
      /\ at[r] \notin {"off", "ended"} /\ test41[r] = "none" => Served(r)

ControlInv == ControlTypeOK /\ PlacedInv /\ ThreadInv /\ TurnInv /\ AskedInv /\ AloneInv
-----------------------------------------------------------------------------
(***************************************************************************)
(* Streams and the backlog                                                 *)
(***************************************************************************)
LEMMA NoLines ==
  /\ \A x : ~Contains(<<>>, x)
  /\ IsInjective(<<>>) /\ Len(<<>>) = 0
  /\ \A S : <<>> \in Seq(S)
  BY DEF Contains, IsInjective

LEMMA OneLine ==
  ASSUME NEW S, NEW t \in S
  PROVE  /\ <<t>> \in Seq(S) /\ Len(<<t>>) = 1 /\ <<t>> # <<>> /\ Head(<<t>>) = t
         /\ Tail(<<t>>) = <<>> /\ Append(<<>>, t) = <<t>>
         /\ \A x : Contains(<<t>>, x) <=> x = t
<1>1. /\ <<t>> \in Seq(S) /\ Len(<<t>>) = 1 /\ <<t>> # <<>> /\ Head(<<t>>) = t /\ <<t>>[1] = t
      /\ Tail(<<t>>) = <<>> /\ Append(<<>>, t) = <<t>> /\ 1..1 = {1}
  OBVIOUS
<1> QED BY <1>1 DEF Contains

LEMMA Appended ==
  ASSUME NEW S, NEW q \in Seq(S), NEW t \in S
  PROVE  /\ Append(q, t) \in Seq(S) /\ Append(q, t) # <<>> /\ Len(Append(q, t)) = Len(q) + 1
         /\ \A x : Contains(Append(q, t), x) <=> Contains(q, x) \/ x = t
         /\ IsInjective(q) /\ ~Contains(q, t) => IsInjective(Append(q, t))
         /\ \A a, b : Precedes(q, a, b) => Precedes(Append(q, t), a, b)
         /\ \A a : Contains(q, a) => Precedes(Append(q, t), a, t)
<1>1. PICK p : p = Append(q, t)
  OBVIOUS
<1>2. /\ p \in Seq(S) /\ p # <<>> /\ DOMAIN q = 1..Len(q) /\ DOMAIN p = 1..(Len(q) + 1)
      /\ Len(p) = Len(q) + 1 /\ Len(q) \in Nat /\ p[Len(q) + 1] = t
      /\ \A i \in 1..Len(q) : p[i] = q[i]
  BY <1>1, AppendProperties
<1>3. PICK n \in Nat : n = Len(q)
  BY <1>2
<1>4. /\ \A i \in 1..(n + 1) : i \in 1..n \/ i = n + 1
      /\ 1..n \subseteq 1..(n + 1) /\ n + 1 \in 1..(n + 1) /\ \A i \in 1..n : i < n + 1
  OBVIOUS
<1>5. \A x : Contains(p, x) <=> Contains(q, x) \/ x = t
  BY <1>2, <1>3, <1>4 DEF Contains
<1>6. IsInjective(q) /\ ~Contains(q, t) => IsInjective(p)
  BY <1>2, <1>3, <1>4 DEF Contains, IsInjective
<1>7. \A a, b : Precedes(q, a, b) => Precedes(p, a, b)
  BY <1>2, <1>3, <1>4 DEF Precedes
<1>8. \A a : Contains(q, a) => Precedes(p, a, t)
  BY <1>2, <1>3, <1>4 DEF Contains, Precedes
<1> QED BY <1>1, <1>2, <1>5, <1>6, <1>7, <1>8

LEMMA Shortened ==
  ASSUME NEW S, NEW q \in Seq(S), q # <<>>
  PROVE  /\ Tail(q) \in Seq(S) /\ Head(q) \in S /\ Contains(q, Head(q))
         /\ Len(q) \in Nat \ {0} /\ Len(Tail(q)) = Len(q) - 1
         /\ \A x : Contains(Tail(q), x) => Contains(q, x)
         /\ \A x : Contains(q, x) => Contains(Tail(q), x) \/ x = Head(q)
         /\ IsInjective(q) => /\ IsInjective(Tail(q)) /\ ~Contains(Tail(q), Head(q))
                              /\ \A a, b : Precedes(q, a, b) =>
                                   /\ Contains(Tail(q), b)
                                   /\ a # Head(q) => Precedes(Tail(q), a, b)
<1>1. PICK p : p = Tail(q)
  OBVIOUS
<1>2. /\ p \in Seq(S) /\ Len(q) \in Nat \ {0} /\ DOMAIN q = 1..Len(q) /\ Len(p) = Len(q) - 1
      /\ DOMAIN p = 1..(Len(q) - 1) /\ Head(q) = q[1] /\ q[1] \in S
      /\ \A i \in 1..(Len(q) - 1) : p[i] = q[i + 1]
  BY <1>1, HeadTailProperties
<1>3. PICK n \in Nat : n + 1 = Len(q) /\ n = Len(p)
  <2>1. Len(p) \in Nat /\ Len(p) + 1 = Len(q)
    BY <1>2
  <2> QED BY <2>1
<1>4. /\ 1 \in 1..(n + 1) /\ \A i \in 1..n : i + 1 \in 1..(n + 1) /\ i + 1 # 1
      /\ \A i \in 1..(n + 1) : i = 1 \/ (i - 1 \in 1..n /\ q[i] = p[i - 1])
      /\ \A i \in 1..n : p[i] = q[i + 1]
      /\ \A i, j \in 1..n : i + 1 = j + 1 => i = j
  BY <1>2, <1>3
<1>5. Contains(q, Head(q))
  BY <1>2, <1>3, <1>4 DEF Contains
<1>6. \A x : Contains(p, x) => Contains(q, x)
  BY <1>3, <1>4 DEF Contains
<1>7. \A x : Contains(q, x) => Contains(p, x) \/ x = Head(q)
  BY <1>2, <1>3, <1>4 DEF Contains
<1>8. ASSUME IsInjective(q)
      PROVE  /\ IsInjective(p) /\ ~Contains(p, Head(q))
             /\ \A a, b : Precedes(q, a, b) =>
                  Contains(p, b) /\ (a # Head(q) => Precedes(p, a, b))
  <2>1. \A i, j \in 1..(n + 1) : q[i] = q[j] => i = j
    BY <1>2, <1>3, <1>8 DEF IsInjective
  <2>2. DOMAIN p = 1..n
    BY <1>2, <1>3
  <2>3. IsInjective(p)
    BY <1>4, <2>1, <2>2 DEF IsInjective
  <2>4. ~Contains(p, Head(q))
    BY <1>2, <1>3, <1>4, <2>1 DEF Contains
  <2>5. ASSUME NEW a, NEW b, Precedes(q, a, b)
        PROVE  Contains(p, b) /\ (a # Head(q) => Precedes(p, a, b))
    <3>1. PICK i, j \in 1..(n + 1) : i < j /\ q[i] = a /\ q[j] = b
      BY <1>3, <2>5 DEF Precedes
    <3>2. j # 1 /\ j - 1 \in 1..n /\ p[j - 1] = b
      BY <1>4, <3>1
    <3>3. Contains(p, b)
      BY <1>3, <3>2 DEF Contains
    <3>4. ASSUME a # Head(q) PROVE Precedes(p, a, b)
      <4>1. i # 1 /\ i - 1 \in 1..n /\ p[i - 1] = a /\ i - 1 < j - 1
        BY <1>2, <1>4, <3>1, <3>4
      <4> QED BY <1>3, <3>2, <4>1 DEF Precedes
    <3> QED BY <3>3, <3>4
  <2> QED BY <2>3, <2>4, <2>5
<1> QED BY <1>1, <1>2, <1>5, <1>6, <1>7, <1>8

\* What is left to read of a stream its writer has closed
LEMMA HungUp ==
  ASSUME NEW S, "EOF" \in S, NEW q \in Seq(S), NEW unread, NEW lines \in Hangup(q, unread)
  PROVE  /\ lines \in Seq(S) /\ lines # <<>>
         /\ Contains(lines, "GO") => Contains(q, "GO")
         /\ unread = <<>> /\ Contains(q, "GO") => Contains(lines, "GO")
<1>1. CASE lines = Append(q, "EOF")
  <2>1. "GO" # "EOF"
    OBVIOUS
  <2> QED BY <1>1, <2>1, Appended, Zenon
<1>2. CASE unread # <<>> /\ lines = <<"EOF">>
  <2>1. "GO" # "EOF"
    OBVIOUS
  <2> QED BY <1>2, <2>1, OneLine, Zenon
<1> QED BY <1>1, <1>2 DEF Hangup
-----------------------------------------------------------------------------
LEMMA ControlConstants == None \notin Runs /\ None \notin Amigas /\ "listener" \notin Runs
  BY ControlAssumption

LEMMA ControlInitially == ControlInit => ControlInv
<1> SUFFICES ASSUME ControlInit PROVE ControlInv
  OBVIOUS
<1> USE ControlConstants, NoLines DEF ControlInit
<1>1. ControlTypeOK
  BY DEF ControlTypeOK, Places
<1>2. \A r \in Runs : ~Waiting(r) /\ r # ctrl_conn /\ r \notin closed /\ at[r] = "off"
  BY DEF Waiting
<1>3. PlacedInv
  BY <1>2 DEF PlacedInv, Placed, Current
<1>4. ThreadInv
  BY DEF ThreadInv
<1>5. TurnInv
  BY <1>2 DEF TurnInv, Turn
<1>6. AskedInv
  <2> SUFFICES ASSUME NEW r \in Runs PROVE Asked(r)
    BY DEF AskedInv
  <2>1. Sending(r) = 0 /\ Call(r) = 0 /\ ~Granted(r) /\ ~Asking(r)
    BY <1>2 DEF Sending, InHand, Call, Granted, Asking
  <2> QED BY <1>2, <2>1 DEF Asked
<1>7. AloneInv
  BY <1>2 DEF AloneInv
<1> QED BY <1>1, <1>3, <1>4, <1>5, <1>6, <1>7 DEF ControlInv

\* What the invariant says of one run
LEMMA OfRun ==
  ASSUME ControlInv, NEW r \in Runs
  PROVE  /\ at[r] \in Places /\ test41[r] \in {"none", "passed", "failed"}
         /\ inbound[r] \in Nat /\ up[r] \in Seq(Commands) /\ down[r] \in Seq(Replies)
         /\ machine[r] \in Amigas /\ Len(up[r]) \in Nat
         /\ InHand(r) \in Nat /\ Sending(r) \in Nat /\ Sending(r) = Len(up[r]) + InHand(r)
         /\ Call(r) \in {0, 1}
         /\ up[r] # <<>> => Len(up[r]) > 0
         /\ Placed(r) /\ Turn(r) /\ Asked(r)
<1>1. ControlTypeOK
  BY DEF ControlInv
<1>2. /\ at[r] \in Places /\ test41[r] \in {"none", "passed", "failed"}
      /\ inbound[r] \in Nat /\ up[r] \in Seq(Commands) /\ down[r] \in Seq(Replies)
      /\ machine[r] \in Amigas /\ ctrl_buf \in Seq(Commands)
  BY <1>1, Zenon DEF ControlTypeOK
<1>3. Len(up[r]) \in Nat /\ Len(ctrl_buf) \in Nat /\ (up[r] # <<>> => Len(up[r]) > 0)
  BY <1>2
<1>4. InHand(r) \in Nat /\ Call(r) \in {0, 1}
  BY <1>3 DEF InHand, Call
<1>5. Sending(r) \in Nat /\ Sending(r) = Len(up[r]) + InHand(r)
  BY <1>3, <1>4 DEF Sending
<1>6. Placed(r) /\ Turn(r) /\ Asked(r)
  BY DEF ControlInv, PlacedInv, TurnInv, AskedInv
<1> QED BY <1>2, <1>3, <1>4, <1>5, <1>6
-----------------------------------------------------------------------------
(***************************************************************************)
(* Steps of the suite                                                      *)
(***************************************************************************)
\* A step that leaves a run alone: its own state, its streams, and what the
\* helper has in hand for it
Spared(u) ==
    /\ at'[u] = at[u] /\ test41'[u] = test41[u] /\ inbound'[u] = inbound[u]
    /\ up'[u] = up[u] /\ down'[u] = down[u]
    /\ u \in listening' <=> u \in listening
    /\ Waiting(u)' <=> Waiting(u)
    /\ InHand(u)' = InHand(u) /\ Call(u)' = Call(u)

LEMMA SparedStays ==
  ASSUME NEW u, Spared(u), Asked(u)
  PROVE  Asked(u)'
<1>1. Sending(u)' = Sending(u) /\ (Granted(u)' <=> Granted(u)) /\ (Asking(u)' <=> Asking(u))
  BY DEF Spared, Sending, Granted, Asking
<1> QED BY <1>1, Zenon DEF Spared, Asked

\* Run r goes to a place: its streams, its test and its listener change, and
\* nothing of the helper or of another run
Moves(r, place, verdict, calls, sent, rest) ==
    /\ UNCHANGED <<environment, backlog, helperVars>>
    /\ at' = [at EXCEPT ![r] = place] /\ place \in Places \ {"off"}
    /\ test41' = [test41 EXCEPT ![r] = verdict] /\ verdict \in {"none", "passed", "failed"}
    /\ listening' \in {listening, listening \union {r}, listening \ {r}}
    /\ inbound' = [inbound EXCEPT ![r] = calls] /\ calls \in Nat
    /\ up' = [up EXCEPT ![r] = sent] /\ sent \in Seq(Commands)
    /\ down' = [down EXCEPT ![r] = rest] /\ rest \in Seq(Replies)
    /\ at[r] \notin {"off", "ended"}
    /\ up[r] # <<>> => sent # <<>>

LEMMA MovesType ==
  ASSUME ControlInv, NEW r \in Runs, NEW place, NEW verdict, NEW calls, NEW sent, NEW rest,
         Moves(r, place, verdict, calls, sent, rest)
  PROVE  /\ ControlTypeOK'
         /\ at'[r] = place /\ test41'[r] = verdict /\ inbound'[r] = calls
         /\ up'[r] = sent /\ down'[r] = rest
         /\ InHand(r)' = InHand(r) /\ Call(r)' = Call(r) /\ (Waiting(r)' <=> Waiting(r))
         /\ \A u \in Runs \ {r} : Spared(u)
<1> USE DEF Moves
<1>1. ControlTypeOK
  BY DEF ControlInv
<1>2. /\ at' \in [Runs -> Places] /\ at'[r] = place
      /\ \A u \in Runs \ {r} : at'[u] = at[u]
  BY <1>1 DEF ControlTypeOK
<1>3. /\ test41' \in [Runs -> {"none", "passed", "failed"}] /\ test41'[r] = verdict
      /\ \A u \in Runs \ {r} : test41'[u] = test41[u]
  BY <1>1 DEF ControlTypeOK
<1>4. /\ inbound' \in [Runs -> Nat] /\ inbound'[r] = calls
      /\ \A u \in Runs \ {r} : inbound'[u] = inbound[u]
  BY <1>1 DEF ControlTypeOK
<1>5. /\ up' \in [Runs -> Seq(Commands)] /\ up'[r] = sent
      /\ \A u \in Runs \ {r} : up'[u] = up[u]
  BY <1>1, Zenon DEF ControlTypeOK
<1>6. /\ down' \in [Runs -> Seq(Replies)] /\ down'[r] = rest
      /\ \A u \in Runs \ {r} : down'[u] = down[u]
  BY <1>1, Zenon DEF ControlTypeOK
<1>7. /\ listening' \in SUBSET Runs
      /\ \A u \in Runs \ {r} : u \in listening' <=> u \in listening
  BY <1>1 DEF ControlTypeOK
<1>8. UNCHANGED <<timely, machine, backlog, at_helper, batch, watched, closed, ctrl_conn,
                  ctrl_buf, calling>>
  BY DEF environment, helperVars, eventVars, ctrlVars
<1>9. ControlTypeOK'
  <2> HIDE DEF Moves
  <2> QED BY <1>1, <1>2, <1>3, <1>4, <1>5, <1>6, <1>7, <1>8, Zenon DEF ControlTypeOK
<1>10. \A u : InHand(u)' = InHand(u) /\ Call(u)' = Call(u) /\ (Waiting(u)' <=> Waiting(u))
  BY <1>8 DEF InHand, Call, Waiting
<1> HIDE DEF Moves
<1>11. \A u \in Runs \ {r} : Spared(u)
  BY <1>2, <1>3, <1>4, <1>5, <1>6, <1>7, <1>10 DEF Spared
<1> QED BY <1>2, <1>3, <1>4, <1>5, <1>6, <1>9, <1>10, <1>11

\* The helper's part of the invariant does not mind, nor does any other run
LEMMA MovesKeep ==
  ASSUME ControlInv, NEW r \in Runs, NEW place, NEW verdict, NEW calls, NEW sent, NEW rest,
         Moves(r, place, verdict, calls, sent, rest), Asked(r)',
         Alone(r) => /\ verdict # "failed"
                     /\ place # "ended" /\ verdict = "none" => Served(r)'
  PROVE  ControlInv'
<1>1. /\ ControlTypeOK' /\ at'[r] = place /\ test41'[r] = verdict /\ up'[r] = sent
      /\ \A u \in Runs \ {r} : Spared(u)
  BY MovesType
<1>2. UNCHANGED <<timely, machine, backlog, at_helper, batch, watched, closed, ctrl_conn,
                  ctrl_buf, calling>>
  BY DEF Moves, environment, helperVars, eventVars, ctrlVars
<1>3. /\ at[r] \notin {"off", "ended"} /\ place # "off" /\ (up[r] # <<>> => up'[r] # <<>>)
  BY <1>1 DEF Moves
<1>4. \A u \in Runs : /\ at'[u] = "off" <=> at[u] = "off"
                      /\ at'[u] \notin {"off", "ended"} => at[u] \notin {"off", "ended"}
                      /\ up[u] # <<>> => up'[u] # <<>>
  BY <1>1, <1>3 DEF Spared
<1>5. \A u : Waiting(u)' <=> Waiting(u)
  BY <1>2 DEF Waiting
<1>6. PlacedInv'
  BY <1>2, <1>4, <1>5 DEF ControlInv, PlacedInv, Placed, Current
<1>7. ThreadInv'
  <2>1. watched \subseteq Runs
    BY DEF ControlInv, ControlTypeOK
  <2> QED BY <1>2, <1>4, <2>1 DEF ControlInv, ThreadInv
<1>8. TurnInv'
  BY <1>2, <1>4, <1>5 DEF ControlInv, TurnInv, Turn
<1>9. AskedInv'
  <2> SUFFICES ASSUME NEW u \in Runs PROVE Asked(u)'
    BY DEF AskedInv
  <2>1. CASE u = r
    BY <2>1
  <2>2. CASE u # r
    BY <1>1, <2>2, SparedStays DEF ControlInv, AskedInv
  <2> QED BY <2>1, <2>2
<1>10. AloneInv'
  <2> SUFFICES ASSUME NEW u \in Runs, Alone(u)'
               PROVE  /\ test41'[u] # "failed"
                      /\ at'[u] \notin {"off", "ended"} /\ test41'[u] = "none" => Served(u)'
    BY DEF AloneInv
  <2>1. u = r
    BY <1>1, <1>3 DEF Alone
  <2>2. Alone(r)
    BY <1>2, <1>4, <2>1 DEF Alone
  <2> QED BY <1>1, <2>1, <2>2
<1> QED BY <1>1, <1>6, <1>7, <1>8, <1>9, <1>10 DEF ControlInv

\* An assignment that changes nothing
LEMMA SameAgain ==
  ASSUME NEW S, NEW T, NEW f \in [S -> T], NEW r \in S
  PROVE  f = [f EXCEPT ![r] = f[r]]
  OBVIOUS

\* While a run waits for what only the helper can do, its timeouts do not
\* expire if answers are timely
LEMMA NotExpired ==
  ASSUME ControlInv, NEW r \in Runs, timely, Expired, at[r] # "off", r \notin closed
  PROVE  ~Waiting(r) /\ Sending(r) = 0 /\ Call(r) = 0
<1>1. at_helper = "select" /\ Ready = {}
  BY DEF Expired, Quiescent
<1>2. backlog = <<>> /\ \A u \in watched : up[u] = <<>>
  BY <1>1 DEF Ready
<1>3. ~Waiting(r)
  BY <1>2, NoLines DEF Waiting
<1>4. r \in watched
  BY <1>3, OfRun, ControlConstants DEF Placed, Current, ControlInv, PlacedInv
<1>5. up[r] = <<>> /\ ctrl_buf = <<>>
  BY <1>1, <1>2, <1>4 DEF ControlInv, ThreadInv
<1>6. Sending(r) = 0
  BY <1>5, NoLines DEF Sending, InHand
<1>7. Call(r) = 0
  BY <1>1 DEF Call
<1> QED BY <1>3, <1>6, <1>7

\* What is left of a stream when its first line has been read
LEMMA ReadLine ==
  ASSUME ControlInv, NEW r \in Runs, down[r] # <<>>
  PROVE  /\ Tail(down[r]) \in Seq(Replies)
         /\ Contains(Tail(down[r]), "GO") => Contains(down[r], "GO")
         /\ Contains(down[r], Head(down[r]))
         /\ \A line \in Replies : down[r] = <<line>> => Head(down[r]) = line /\ Tail(down[r]) = <<>>
<1>1. down[r] \in Seq(Replies)
  BY OfRun
<1> QED BY <1>1, Shortened, OneLine

\* What is left of a run's commands when it closes its control connection
LEMMA Leaves ==
  ASSUME ControlInv, NEW r \in Runs, NEW q \in Seq(Commands), NEW sent \in Hangup(q, down[r])
  PROVE  sent \in Seq(Commands) /\ sent # <<>>
  BY HungUp DEF Commands

LEMMA ConnectOKKeeps ==
  ASSUME ControlInv, NEW r \in Runs, ConnectOK(r)
  PROVE  ControlInv'
<1> DEFINE rest == Tail(down[r])
<1>1. /\ ControlTypeOK /\ at[r] = "await_ok" /\ down[r] # <<>> /\ Head(down[r]) = "OK"
      /\ down' = [down EXCEPT ![r] = rest]
  BY DEF ConnectOK, ControlInv
<1>2. /\ rest \in Seq(Replies) /\ (Contains(rest, "GO") => Contains(down[r], "GO"))
      /\ (down[r] = <<"OK">> => rest = <<>>)
  BY <1>1, ReadLine DEF Replies
<1>3. /\ ~Waiting(r) /\ test41[r] = "none" /\ Sending(r) = 0 /\ Call(r) = 0 /\ ~Granted(r)
      /\ inbound[r] = 0 /\ r \notin listening
  BY <1>1, OfRun DEF Asked, Asking
<1> HIDE DEF rest
<1>4. Moves(r, "connected", test41[r], inbound[r], up[r], rest)
  BY <1>1, <1>2, OfRun, SameAgain DEF ConnectOK, Moves, Places, Goto, ControlTypeOK
<1>5. /\ at'[r] = "connected" /\ test41'[r] = "none" /\ inbound'[r] = 0 /\ up'[r] = up[r]
      /\ down'[r] = rest /\ Sending(r)' = 0 /\ Call(r)' = 0 /\ ~Waiting(r)' /\ r \notin listening'
  BY <1>3, <1>4, MovesType DEF Sending, ConnectOK
<1>6. ~Granted(r)' /\ ~Asking(r)'
  BY <1>2, <1>3, <1>5 DEF Granted, Asking
<1>7. Asked(r)'
  BY <1>5, <1>6 DEF Asked
<1>8. ASSUME Alone(r) PROVE Served(r)'
  <2>1. Served(r)
    BY <1>1, <1>3, <1>8 DEF ControlInv, AloneInv
  <2>2. UNCHANGED <<closed, ctrl_conn, ctrl_buf>>
    BY <1>4 DEF Moves, helperVars, ctrlVars
  <2>3. rest = <<>>
    BY <1>1, <1>2, <1>3, <2>1 DEF Served
  <2> QED BY <1>5, <2>1, <2>2, <2>3 DEF Served
<1> QED BY <1>3, <1>4, <1>7, <1>8, MovesKeep

\* A run that is over needs nothing
LEMMA EndKeeps ==
  ASSUME ControlInv, NEW r \in Runs, NEW calls \in {0, inbound[r]}, NEW sent,
         Moves(r, "ended", test41[r], calls, sent, down[r]),
         listening' = listening \ {r},
         r \notin listening => calls = inbound[r], r \in listening => calls = 0
  PROVE  ControlInv'
<1>1. /\ at'[r] = "ended" /\ test41'[r] = test41[r] /\ inbound'[r] = calls
      /\ down'[r] = down[r] /\ (Waiting(r)' <=> Waiting(r))
  BY MovesType
<1>2. ~Asking(r)' /\ r \notin listening'
  BY <1>1 DEF Asking
<1>3. calls = 0 /\ (Waiting(r) => down[r] = <<>>)
  BY OfRun DEF Asked
<1>4. Asked(r)'
  BY <1>1, <1>2, <1>3 DEF Asked
<1>5. Alone(r) => test41[r] # "failed"
  BY DEF ControlInv, AloneInv
<1> QED BY <1>4, <1>5, MovesKeep

LEMMA ConnectFailsKeeps ==
  ASSUME ControlInv, NEW r \in Runs, ConnectFails(r)
  PROVE  ControlInv'
<1>1. PICK sent \in Hangup(up[r], down[r]) : up' = [up EXCEPT ![r] = sent]
  BY DEF ConnectFails
<1>2. at[r] = "await_ok" /\ ControlTypeOK
  BY DEF ConnectFails, ControlInv
<1>3. r \notin listening /\ inbound[r] = 0
  BY <1>2, OfRun DEF Asked, Asking
<1>4. sent \in Seq(Commands) /\ sent # <<>>
  BY Leaves, OfRun
<1>5. Moves(r, "ended", test41[r], inbound[r], sent, down[r])
  BY <1>1, <1>2, <1>4, OfRun, SameAgain DEF ConnectFails, Moves, Places, Goto, ControlTypeOK
<1>6. listening' = listening \ {r}
  BY <1>3 DEF ConnectFails
<1> QED BY <1>3, <1>5, <1>6, EndKeeps

LEMMA QuitKeeps ==
  ASSUME ControlInv, NEW r \in Runs, Quit(r)
  PROVE  ControlInv'
<1>1. PICK sent \in Hangup(Sent(r, "QUIT"), down[r]) : up' = [up EXCEPT ![r] = sent]
  BY DEF Quit
<1>2. at[r] = "connected" /\ ControlTypeOK
  BY DEF Quit, ControlInv
<1>3. r \notin listening /\ inbound[r] = 0
  BY <1>2, OfRun DEF Asked, Asking
<1>4. sent \in Seq(Commands) /\ sent # <<>>
  <2>1. up[r] \in Seq(Commands)
    BY OfRun
  <2>2. Append(up[r], "QUIT") \in Seq(Commands)
    BY <2>1, Appended DEF Commands
  <2>3. Sent(r, "QUIT") \in Seq(Commands)
    BY <2>1, <2>2 DEF Sent
  <2> QED BY <2>3, Leaves
<1>5. Moves(r, "ended", test41[r], inbound[r], sent, down[r])
  BY <1>1, <1>2, <1>4, OfRun, SameAgain DEF Quit, Moves, Places, Goto, ControlTypeOK
<1>6. listening' = listening \ {r}
  BY <1>3 DEF Quit
<1> QED BY <1>3, <1>5, <1>6, EndKeeps

LEMMA CrashKeeps ==
  ASSUME ControlInv, NEW r \in Runs, Crash(r)
  PROVE  ControlInv'
<1>1. PICK sent \in Hangup(up[r], down[r]) : up' = [up EXCEPT ![r] = sent]
  BY DEF Crash
<1>2. at[r] \notin {"off", "ended"} /\ ControlTypeOK
  BY DEF Crash, ControlInv
<1>3. sent \in Seq(Commands) /\ sent # <<>>
  BY Leaves, OfRun
<1>4. Moves(r, "ended", test41[r], 0, sent, down[r])
  BY <1>1, <1>2, <1>3, OfRun, SameAgain DEF Crash, Moves, Places, Goto, ControlTypeOK
<1>5. r \notin listening => inbound[r] = 0
  BY OfRun DEF Asked
<1> QED BY <1>4, <1>5, EndKeeps DEF Crash

LEMMA RequestConnectKeeps ==
  ASSUME ControlInv, NEW r \in Runs, RequestConnect(r)
  PROVE  ControlInv'
<1>0. PICK sent : sent = Sent(r, "CONNECT")
  OBVIOUS
<1>1. /\ ControlTypeOK /\ at[r] = "connected" /\ test41[r] = "none"
      /\ up' = [up EXCEPT ![r] = sent] /\ listening' = listening \union {r}
  BY <1>0 DEF RequestConnect, ControlInv
<1>2. /\ Sending(r) = 0 /\ Call(r) = 0 /\ ~Granted(r) /\ inbound[r] = 0 /\ ~Waiting(r)
  BY <1>1, OfRun DEF Asked, Asking
<1>3. up[r] = <<>> /\ up[r] \in Seq(Commands) /\ InHand(r) = 0
  BY <1>2, OfRun
<1>4. /\ sent \in {<<>>, <<"CONNECT">>} /\ sent \in Seq(Commands) /\ Len(sent) <= 1
      /\ Len(sent) \in Nat /\ (r \notin closed => sent = <<"CONNECT">> /\ Len(sent) = 1)
  <2>1. CASE r \in closed
    <3>1. sent = <<>>
      BY <1>0, <1>3, <2>1 DEF Sent
    <3>2. <<>> \in Seq(Commands) /\ Len(<<>>) = 0
      OBVIOUS
    <3> QED BY <2>1, <3>1, <3>2
  <2>2. CASE r \notin closed
    <3>1. "CONNECT" \in Commands /\ Append(<<>>, "CONNECT") = <<"CONNECT">>
      BY DEF Commands
    <3>2. sent = <<"CONNECT">>
      BY <1>0, <1>3, <2>2, <3>1 DEF Sent
    <3> QED BY <3>1, <3>2, OneLine
  <2> QED BY <2>1, <2>2
<1>5. Moves(r, "await_go", test41[r], inbound[r], sent, down[r])
  BY <1>1, <1>3, <1>4, OfRun, SameAgain DEF RequestConnect, Moves, Places, Goto, ControlTypeOK
<1>6. /\ at'[r] = "await_go" /\ test41'[r] = "none" /\ inbound'[r] = 0 /\ up'[r] = sent
      /\ down'[r] = down[r] /\ Call(r)' = 0 /\ InHand(r)' = 0 /\ ~Waiting(r)'
  BY <1>1, <1>2, <1>3, <1>5, MovesType
<1>7. Sending(r)' = Len(sent) /\ ~Granted(r)' /\ Asking(r)' /\ r \in listening'
  BY <1>1, <1>2, <1>4, <1>6 DEF Granted, Asking, Sending
<1>8. Asked(r)'
  BY <1>4, <1>6, <1>7 DEF Asked
<1>9. ASSUME Alone(r) PROVE Served(r)'
  <2>1. Served(r)
    BY <1>1, <1>9 DEF ControlInv, AloneInv
  <2>2. UNCHANGED <<closed, ctrl_conn, ctrl_buf>>
    BY <1>5 DEF Moves, helperVars, ctrlVars
  <2>3. Sending(r)' = 1 /\ down'[r] = <<>>
    BY <1>1, <1>4, <1>6, <1>7, <2>1 DEF Served
  <2> QED BY <1>4, <1>6, <2>1, <2>2, <2>3 DEF Served
<1> QED BY <1>1, <1>5, <1>8, <1>9, MovesKeep

LEMMA RequestGrantedKeeps ==
  ASSUME ControlInv, NEW r \in Runs, RequestGranted(r)
  PROVE  ControlInv'
<1> DEFINE rest == Tail(down[r])
<1>1. /\ ControlTypeOK /\ at[r] = "await_go" /\ down[r] # <<>> /\ Head(down[r]) = "GO"
      /\ down' = [down EXCEPT ![r] = rest] /\ UNCHANGED listening
  BY DEF RequestGranted, ControlInv
<1>2. rest \in Seq(Replies) /\ Granted(r)
  BY <1>1, ReadLine DEF Granted
<1>3. /\ Asking(r) /\ ~Waiting(r) /\ test41[r] = "none" /\ r \in listening
      /\ Sending(r) = 0 /\ Sending(r) + Call(r) + inbound[r] <= 1
  BY <1>1, <1>2, OfRun DEF Asked, Asking
<1> HIDE DEF rest
<1>4. Moves(r, "accepting", test41[r], inbound[r], up[r], rest)
  BY <1>1, <1>2, OfRun, SameAgain DEF RequestGranted, Moves, Places, Goto, ControlTypeOK
<1>5. /\ at'[r] = "accepting" /\ test41'[r] = "none" /\ inbound'[r] = inbound[r]
      /\ up'[r] = up[r] /\ Call(r)' = Call(r) /\ Sending(r)' = Sending(r) /\ ~Waiting(r)'
  BY <1>3, <1>4, MovesType DEF Sending
<1>6. Granted(r)' /\ Asking(r)' /\ r \in listening'
  BY <1>1, <1>3, <1>5 DEF Granted, Asking
<1>7. Asked(r)'
  BY <1>3, <1>5, <1>6 DEF Asked
<1>8. ASSUME Alone(r) PROVE Served(r)'
  <2>1. Served(r)
    BY <1>1, <1>3, <1>8 DEF ControlInv, AloneInv
  <2>2. UNCHANGED <<closed, ctrl_conn, ctrl_buf>>
    BY <1>4 DEF Moves, helperVars, ctrlVars
  <2>3. Call(r) + inbound[r] = 1
    BY <1>1, <1>3, <2>1 DEF Served
  <2>4. Call(r)' + inbound'[r] = 1
    BY <1>5, <2>3
  <2> QED BY <1>5, <2>1, <2>2, <2>4 DEF Served
<1> QED BY <1>3, <1>4, <1>7, <1>8, MovesKeep

\* A verdict ends a run's use of its listener
LEMMA ReportKeeps ==
  ASSUME ControlInv, NEW r \in Runs, NEW verdict \in {"passed", "failed"},
         at[r] \in {"await_go", "accepting"}, Report41(r, verdict),
         UNCHANGED <<environment, backlog, up, down, helperVars>>,
         Alone(r) => verdict # "failed"
  PROVE  ControlInv'
<1>1. ControlTypeOK
  BY DEF ControlInv
<1>2. Moves(r, "connected", verdict, 0, up[r], down[r])
  BY <1>1, OfRun, SameAgain DEF Report41, Moves, Places, Goto, ControlTypeOK
<1>3. ~Waiting(r)
  BY OfRun DEF Asked
<1>4. /\ at'[r] = "connected" /\ test41'[r] = verdict /\ inbound'[r] = 0 /\ ~Waiting(r)'
      /\ r \notin listening'
  BY <1>2, <1>3, MovesType DEF Report41
<1>5. Asked(r)'
  BY <1>4 DEF Asked, Asking
<1> QED BY <1>2, <1>5, MovesKeep

LEMMA RequestFailsKeeps ==
  ASSUME ControlInv, NEW r \in Runs, RequestFails(r)
  PROVE  ControlInv'
<1>1. /\ at[r] = "await_go" /\ Report41(r, "failed")
      /\ UNCHANGED <<environment, backlog, up, down, helperVars>>
  BY DEF RequestFails
<1>2. ASSUME Alone(r) PROVE FALSE
  <2>1. Asking(r) /\ test41[r] = "none" /\ timely
    BY <1>1, <1>2, OfRun DEF Asked, Asking, Alone
  <2>2. Served(r)
    BY <1>1, <1>2, <2>1 DEF ControlInv, AloneInv
  <2>3. r \notin closed /\ (IF down[r] = <<>> THEN Expired ELSE Head(down[r]) # "GO")
    BY <2>2 DEF Served, RequestFails
  <2>4. CASE Sending(r) = 1 /\ down[r] = <<>>
    BY <1>1, <2>1, <2>3, <2>4, NotExpired
  <2>5. CASE down[r] = <<"GO">>
    BY <2>3, <2>5, OneLine DEF Replies
  <2> QED BY <1>1, <2>2, <2>4, <2>5 DEF Served
<1> QED BY <1>1, <1>2, ReportKeeps

LEMMA AcceptCallKeeps ==
  ASSUME ControlInv, NEW r \in Runs, AcceptCall(r)
  PROVE  ControlInv'
  BY ReportKeeps DEF AcceptCall

LEMMA AcceptTimesOutKeeps ==
  ASSUME ControlInv, NEW r \in Runs, AcceptTimesOut(r)
  PROVE  ControlInv'
<1>1. /\ at[r] = "accepting" /\ inbound[r] = 0 /\ Expired /\ Report41(r, "failed")
      /\ UNCHANGED <<environment, backlog, up, down, helperVars>>
  BY DEF AcceptTimesOut
<1>2. ASSUME Alone(r) PROVE FALSE
  <2>1. Asking(r) /\ test41[r] = "none" /\ timely
    BY <1>1, <1>2, OfRun DEF Asked, Asking, Alone
  <2>2. Served(r)
    BY <1>1, <1>2, <2>1 DEF ControlInv, AloneInv
  <2>3. Call(r) = 0
    BY <1>1, <2>1, <2>2, NotExpired DEF Served
  <2> QED BY <1>1, <2>2, <2>3 DEF Served
<1> QED BY <1>1, <1>2, ReportKeeps

\* A new run joins the backlog, after the earlier runs of its machine
LEMMA ConnectKeeps ==
  ASSUME ControlInv, NEW r \in Runs, Connect(r)
  PROVE  ControlInv'
<1>1. /\ ControlTypeOK /\ at[r] = "off" /\ at' = [at EXCEPT ![r] = "await_ok"]
      /\ backlog' = Append(backlog, r) /\ backlog \in Seq(Runs)
      /\ \A q \in Runs : q # r /\ machine[q] = machine[r] => at[q] \in {"off", "ended"}
      /\ UNCHANGED <<test41, listening, up, down, inbound>>
  BY DEF Connect, Begins, Goto, ControlInv, ControlTypeOK
<1>2. UNCHANGED <<timely, machine, at_helper, batch, watched, closed, ctrl_conn, ctrl_buf, calling>>
  BY DEF Connect, environment, helperVars, eventVars, ctrlVars
<1>3. /\ at' \in [Runs -> Places] /\ at'[r] = "await_ok"
      /\ \A u \in Runs \ {r} : at'[u] = at[u]
  BY <1>1 DEF ControlTypeOK, Places
<1>4. /\ backlog' \in Seq(Runs) /\ backlog' # <<>>
      /\ \A u : Waiting(u)' <=> Waiting(u) \/ u = r
      /\ IsInjective(backlog) /\ ~Waiting(r) => IsInjective(backlog')
      /\ \A a, b : Precedes(backlog, a, b) => Precedes(backlog', a, b)
      /\ \A a : Waiting(a) => Precedes(backlog', a, r)
  BY <1>1, Appended DEF Waiting
<1>5. /\ ~Waiting(r) /\ r \notin closed /\ r # ctrl_conn /\ down[r] = <<>> /\ test41[r] = "none"
      /\ inbound[r] = 0 /\ r \notin listening
      /\ Sending(r) = 0 /\ Call(r) = 0 /\ ~Granted(r)
  BY <1>1, OfRun DEF Placed, Asked, Asking
<1>6. \A u : InHand(u)' = InHand(u) /\ Call(u)' = Call(u) /\ Sending(u)' = Sending(u)
  BY <1>1, <1>2 DEF InHand, Call, Sending
<1>7. ControlTypeOK'
  BY <1>1, <1>2, <1>3, <1>4, Zenon DEF ControlTypeOK
<1>8. PlacedInv'
  <2>1. watched' = Current'
    BY <1>2 DEF ControlInv, PlacedInv, Current
  <2>2. IsInjective(backlog')
    BY <1>4, <1>5 DEF ControlInv, PlacedInv
  <2>3. ASSUME NEW u \in Runs PROVE Placed(u)'
    BY <1>2, <1>3, <1>4, <1>5, OfRun DEF Placed
  <2> QED BY <2>1, <2>2, <2>3 DEF PlacedInv
<1>9. ThreadInv'
  BY <1>1, <1>2, <1>4 DEF ControlInv, ThreadInv
<1>10. TurnInv'
  <2> SUFFICES ASSUME NEW u \in Runs, NEW q \in Runs, q # u, machine[q] = machine[u],
                      at'[u] \notin {"off", "ended"}
               PROVE  /\ Waiting(q)' => Precedes(backlog', q, u)
                      /\ q = ctrl_conn => Waiting(u)'
    BY <1>2 DEF TurnInv, Turn
  <2>1. CASE u = r
    BY <1>4, <2>1
  <2>2. CASE u # r
    <3>1. q # r
      BY <1>1, <1>3, <2>2
    <3> QED BY <1>3, <1>4, <2>2, <3>1, OfRun DEF Turn
  <2> QED BY <2>1, <2>2
<1>11. AskedInv'
  <2> SUFFICES ASSUME NEW u \in Runs PROVE Asked(u)'
    BY DEF AskedInv
  <2>1. CASE u = r
    <3>1. ~Asking(r)' /\ ~Granted(r)'
      BY <1>1, <1>3, <1>5 DEF Asking, Granted
    <3> QED BY <1>1, <1>3, <1>5, <1>6, <2>1, <3>1 DEF Asked
  <2>2. CASE u # r
    <3>1. Spared(u)
      BY <1>1, <1>3, <1>4, <1>6, <2>2 DEF Spared
    <3> QED BY <3>1, SparedStays, OfRun
  <2> QED BY <2>1, <2>2
<1>12. AloneInv'
  <2> SUFFICES ASSUME NEW u \in Runs, Alone(u)' PROVE test41'[u] # "failed" /\ Served(u)'
    BY DEF AloneInv
  <2>1. u = r
    BY <1>3 DEF Alone
  <2>2. Len(up[r]) = 0 /\ up[r] = <<>>
    BY <1>5, OfRun
  <2> QED BY <1>1, <1>2, <1>3, <1>4, <1>5, <2>1, <2>2 DEF Served
<1> QED BY <1>7, <1>8, <1>9, <1>10, <1>11, <1>12 DEF ControlInv

\* With the helper gone a new run ends before it has a connection
LEMMA ConnectRefusedKeeps ==
  ASSUME ControlInv, NEW r \in Runs, ConnectRefused(r)
  PROVE  ControlInv'
<1>1. /\ ControlTypeOK /\ at[r] = "off" /\ at' = [at EXCEPT ![r] = "ended"]
      /\ closed' = closed \union {r} /\ at_helper = "down"
  BY DEF ConnectRefused, Begins, Goto, ControlInv
<1>2. UNCHANGED <<timely, machine, test41, listening, backlog, up, down, inbound, at_helper, batch,
                  watched, ctrl_conn, ctrl_buf, calling>>
  BY DEF ConnectRefused, environment, networkVars, eventVars
<1>3. /\ at' \in [Runs -> Places] /\ at'[r] = "ended"
      /\ \A u \in Runs \ {r} : at'[u] = at[u]
  BY <1>1 DEF ControlTypeOK, Places
<1>4. /\ ~Waiting(r) /\ r # ctrl_conn /\ down[r] = <<>> /\ test41[r] = "none"
      /\ inbound[r] = 0 /\ r \notin listening
  BY <1>1, OfRun DEF Placed, Asked, Asking
<1>5. \A u : /\ InHand(u)' = InHand(u) /\ Call(u)' = Call(u) /\ Sending(u)' = Sending(u)
             /\ Waiting(u)' <=> Waiting(u)
  BY <1>2 DEF InHand, Call, Sending, Waiting
<1>6. ControlTypeOK'
  <2>1. closed' \in SUBSET Runs
    BY <1>1 DEF ControlTypeOK
  <2> QED BY <1>1, <1>2, <1>3, <2>1, Zenon DEF ControlTypeOK
<1>7. PlacedInv'
  <2>1. watched' = Current' /\ IsInjective(backlog')
    BY <1>2 DEF ControlInv, PlacedInv, Current
  <2>2. ASSUME NEW u \in Runs PROVE Placed(u)'
    BY <1>1, <1>2, <1>3, <1>4, <1>5, OfRun DEF Placed
  <2> QED BY <2>1, <2>2 DEF PlacedInv
<1>8. ThreadInv'
  BY <1>1, <1>2 DEF ControlInv, ThreadInv
<1>9. TurnInv'
  BY <1>2, <1>3, <1>5 DEF ControlInv, TurnInv, Turn
<1>10. AskedInv'
  <2> SUFFICES ASSUME NEW u \in Runs PROVE Asked(u)'
    BY DEF AskedInv
  <2>1. CASE u = r
    <3>1. ~Asking(r)'
      BY <1>3 DEF Asking
    <3> QED BY <1>2, <1>3, <1>4, <1>5, <2>1, <3>1 DEF Asked
  <2>2. CASE u # r
    <3>1. Spared(u)
      BY <1>2, <1>3, <1>5, <2>2 DEF Spared
    <3> QED BY <3>1, SparedStays, OfRun
  <2> QED BY <2>1, <2>2
<1>11. AloneInv'
  <2> SUFFICES ASSUME NEW u \in Runs, Alone(u)'
               PROVE  test41'[u] # "failed" /\ at'[u] = "ended"
    BY DEF AloneInv
  <2>1. u = r
    BY <1>3 DEF Alone
  <2> QED BY <1>2, <1>3, <1>4, <2>1
<1> QED BY <1>6, <1>7, <1>8, <1>9, <1>10, <1>11 DEF ControlInv
-----------------------------------------------------------------------------
(***************************************************************************)
(* Steps of the helper                                                     *)
(***************************************************************************)
\* A step that only moves on in the loop
LEMMA LoopKeeps ==
  ASSUME ControlInv, UNCHANGED <<environment, clientVars, networkVars, ctrlVars, calling>>,
         at_helper # "calling", at_helper' \in {"select", "dispatch", "parse"},
         batch' \in SUBSET (Runs \union {"listener"}), ThreadInv'
  PROVE  ControlInv'
<1>1. UNCHANGED <<timely, machine, at, test41, listening, backlog, up, down, inbound,
                  watched, closed, ctrl_conn, ctrl_buf, calling>>
  BY DEF environment, clientVars, networkVars, ctrlVars
<1>2. ControlTypeOK'
  BY <1>1, Zenon DEF ControlInv, ControlTypeOK
<1>3. \A u : /\ Waiting(u)' <=> Waiting(u)
             /\ InHand(u)' = InHand(u) /\ Call(u)' = Call(u) /\ Sending(u)' = Sending(u)
  BY <1>1 DEF Waiting, InHand, Call, Sending
<1>4. PlacedInv' /\ TurnInv'
  BY <1>1, <1>3 DEF ControlInv, PlacedInv, Placed, Current, TurnInv, Turn
<1>5. AskedInv'
  <2> SUFFICES ASSUME NEW u \in Runs PROVE Asked(u)'
    BY DEF AskedInv
  <2>1. Spared(u)
    BY <1>1, <1>3 DEF Spared
  <2> QED BY <2>1, SparedStays, OfRun
<1>6. AloneInv'
  BY <1>1, <1>3 DEF ControlInv, AloneInv, Alone, Served
<1> QED BY <1>2, <1>4, <1>5, <1>6 DEF ControlInv

LEMMA SelectKeeps ==
  ASSUME ControlInv, Select
  PROVE  ControlInv'
<1>1. /\ at_helper = "select" /\ at_helper' = "dispatch" /\ batch' = Ready
      /\ UNCHANGED <<environment, clientVars, networkVars, ctrlVars, calling>>
  BY DEF Select
<1>2. UNCHANGED <<machine, backlog, up, watched, closed, ctrl_conn, ctrl_buf>>
  BY <1>1 DEF environment, networkVars, ctrlVars
<1>3. watched \subseteq Runs
  BY DEF ControlInv, ControlTypeOK
<1>4. /\ Ready \ {"listener"} \subseteq watched /\ Ready \in SUBSET (Runs \union {"listener"})
      /\ "listener" \in Ready => backlog # <<>>
      /\ \A r \in Ready \intersect watched : up[r] # <<>>
  BY <1>3, ControlConstants DEF Ready
<1>5. ThreadInv'
  BY <1>1, <1>2, <1>4 DEF ControlInv, ThreadInv
<1> QED BY <1>1, <1>4, <1>5, LoopKeeps

LEMMA BatchDoneKeeps ==
  ASSUME ControlInv, BatchDone
  PROVE  ControlInv'
<1>1. /\ at_helper = "dispatch" /\ at_helper' = "select" /\ batch' = batch
      /\ UNCHANGED <<environment, clientVars, networkVars, ctrlVars, calling>>
  BY DEF BatchDone
<1>2. ThreadInv'
  BY <1>1 DEF ControlInv, ThreadInv, environment, networkVars, ctrlVars
<1> QED BY <1>1, <1>2, LoopKeeps DEF ControlInv, ControlTypeOK

LEMMA ParseDoneKeeps ==
  ASSUME ControlInv, ParseDone
  PROVE  ControlInv'
<1>1. /\ at_helper = "parse" /\ at_helper' = "dispatch" /\ batch' = batch /\ ctrl_buf = <<>>
      /\ UNCHANGED <<environment, clientVars, networkVars, ctrlVars, calling>>
  BY DEF ParseDone
<1>2. ThreadInv'
  BY <1>1 DEF ControlInv, ThreadInv, environment, networkVars, ctrlVars
<1> QED BY <1>1, <1>2, LoopKeeps DEF ControlInv, ControlTypeOK

\* What closing the current connection does to the streams
LEMMA ClosedStreams ==
  ASSUME ControlInv, NEW d \in ClosedDown(ctrl_conn)
  PROVE  /\ d \in [Runs -> Seq(Replies)]
         /\ \A u \in Runs \ {ctrl_conn} : d[u] = down[u]
         /\ \A u \in Runs : /\ Contains(d[u], "GO") => Contains(down[u], "GO")
                            /\ up[u] = <<>> /\ Contains(down[u], "GO") => Contains(d[u], "GO")
<1>1. down \in [Runs -> Seq(Replies)] /\ (ctrl_conn \in Runs \/ ctrl_conn = None)
  BY DEF ControlInv, ControlTypeOK
<1>2. CASE ctrl_conn = None
  BY <1>1, <1>2 DEF ClosedDown
<1>3. CASE ctrl_conn \in Runs
  <2>1. PICK lines \in Hangup(down[ctrl_conn], up[ctrl_conn]) :
          d = [down EXCEPT ![ctrl_conn] = lines]
    BY <1>3, ControlConstants DEF ClosedDown
  <2>2. /\ lines \in Seq(Replies)
        /\ Contains(lines, "GO") => Contains(down[ctrl_conn], "GO")
        /\ up[ctrl_conn] = <<>> /\ Contains(down[ctrl_conn], "GO") => Contains(lines, "GO")
    BY <1>1, <1>3, <2>1, HungUp DEF Replies
  <2>3. /\ d \in [Runs -> Seq(Replies)] /\ d[ctrl_conn] = lines
        /\ \A u \in Runs \ {ctrl_conn} : d[u] = down[u]
    BY <1>1, <1>3, <2>1, <2>2, Zenon
  <2> QED BY <2>2, <2>3
<1> QED BY <1>1, <1>2, <1>3

\* What a run has asked for survives the loss of its connection
LEMMA DroppedStays ==
  ASSUME ControlInv, NEW u \in Runs, at_helper' # "calling",
         UNCHANGED <<clientVars, up, inbound>>, ctrl_buf' = <<>>,
         Waiting(u)' => Waiting(u) /\ down'[u] = down[u],
         at[u] = "off" => down'[u] = down[u],
         Contains(down'[u], "GO") => Contains(down[u], "GO"),
         up[u] = <<>> /\ Contains(down[u], "GO") => Contains(down'[u], "GO")
  PROVE  Asked(u)'
<1>1. UNCHANGED <<at, test41, listening>>
  BY DEF clientVars
<1>2. InHand(u)' = 0 /\ Call(u)' = 0
  BY NoLines DEF InHand, Call
<1>3. Sending(u)' = Len(up[u]) /\ Sending(u)' <= Sending(u) /\ Sending(u)' \in Nat
  BY <1>2, OfRun DEF Sending
<1>4. (Asking(u)' <=> Asking(u)) /\ (Granted(u)' => Granted(u))
  BY <1>1 DEF Asking, Granted
<1>5. Asking(u) /\ inbound[u] > 0 => Granted(u)'
  <2> SUFFICES ASSUME Asking(u), inbound[u] > 0 PROVE Granted(u)'
    OBVIOUS
  <2>1. Granted(u) /\ Sending(u) = 0
    BY <1>2, OfRun DEF Asked
  <2>2. up[u] = <<>>
    BY <2>1, OfRun
  <2> QED BY <1>1, <2>1, <2>2 DEF Granted
<1>6. Asked(u)
  BY OfRun
<1>7. Asking(u) => /\ Sending(u)' + Call(u)' + inbound'[u] <= 1
                   /\ Granted(u)' => Sending(u)' = 0
                   /\ Call(u)' + inbound'[u] > 0 => Granted(u)'
  <2> SUFFICES ASSUME Asking(u)
               PROVE  /\ Sending(u)' + Call(u)' + inbound'[u] <= 1
                      /\ Granted(u)' => Sending(u)' = 0
                      /\ Call(u)' + inbound'[u] > 0 => Granted(u)'
    OBVIOUS
  <2>1. /\ Sending(u) \in Nat /\ Call(u) \in {0, 1} /\ inbound[u] \in Nat
        /\ Sending(u) + Call(u) + inbound[u] <= 1 /\ (Granted(u) => Sending(u) = 0)
    BY <1>6, OfRun DEF Asked
  <2> QED BY <1>2, <1>3, <1>4, <1>5, <2>1
<1>8. at[u] # "ended" /\ ~Asking(u) /\ test41[u] = "none" => Sending(u)' = 0
  BY <1>3, <1>6, OfRun DEF Asked
<1> QED BY <1>1, <1>2, <1>4, <1>6, <1>7, <1>8 DEF Asked

\* _close_ctrl keeps the invariant, as a step of HandleEOF and of ParseQuit
LEMMA CloseKeeps ==
  ASSUME ControlInv, CloseCtrl, at_helper \in {"dispatch", "parse"}, at_helper' = at_helper,
         UNCHANGED <<environment, clientVars, backlog, up, inbound, calling>>,
         batch' \subseteq batch, \A u \in Runs : Alone(u) => ~Served(u)
  PROVE  ControlInv'
<1>1. UNCHANGED <<timely, machine, at, test41, listening, backlog, up, inbound, calling>>
  BY DEF environment, clientVars
<1>2. /\ down' \in ClosedDown(ctrl_conn) /\ watched' = watched \ Current
      /\ closed' = closed \union Current /\ ctrl_conn' = None /\ ctrl_buf' = <<>>
  BY DEF CloseCtrl
<1>3. /\ ControlTypeOK /\ watched = Current /\ Current \subseteq Runs /\ watched' = {}
      /\ \A u \in Runs : u \in Current <=> u = ctrl_conn
  BY <1>2, ControlConstants DEF ControlInv, PlacedInv, Current, ControlTypeOK
<1>4. /\ down' \in [Runs -> Seq(Replies)]
      /\ \A u \in Runs \ {ctrl_conn} : down'[u] = down[u]
      /\ \A u \in Runs : /\ Contains(down'[u], "GO") => Contains(down[u], "GO")
                         /\ up[u] = <<>> /\ Contains(down[u], "GO") => Contains(down'[u], "GO")
  BY <1>2, ClosedStreams
<1>5. ControlTypeOK'
  <2>1. ctrl_buf' \in Seq(Commands) /\ closed' \in SUBSET Runs /\ watched' \in SUBSET Runs
    BY <1>2, <1>3, NoLines DEF ControlTypeOK
  <2> QED BY <1>1, <1>2, <1>3, <1>4, <2>1 DEF ControlTypeOK
<1>6. \A u : Waiting(u)' <=> Waiting(u)
  BY <1>1 DEF Waiting
<1>7. PlacedInv'
  <2>1. watched' = Current' /\ IsInjective(backlog')
    BY <1>1, <1>2, <1>3 DEF Current, ControlInv, PlacedInv
  <2>2. ASSUME NEW u \in Runs PROVE Placed(u)'
    BY <1>1, <1>2, <1>3, <1>6, OfRun, ControlConstants DEF Placed
  <2> QED BY <2>1, <2>2 DEF PlacedInv
<1>8. ThreadInv'
  BY <1>1, <1>2, <1>3 DEF ControlInv, ThreadInv
<1>9. TurnInv'
  BY <1>1, <1>2, <1>6, ControlConstants DEF ControlInv, TurnInv, Turn
<1>10. AskedInv'
  <2> SUFFICES ASSUME NEW u \in Runs PROVE Asked(u)'
    BY DEF AskedInv
  <2>1. Waiting(u)' => Waiting(u) /\ down'[u] = down[u]
    BY <1>4, <1>6, OfRun DEF Placed
  <2>2. at[u] = "off" => down'[u] = down[u]
    BY <1>4, OfRun DEF Placed
  <2> QED BY <1>2, <1>4, <2>1, <2>2, DroppedStays
<1>11. AloneInv'
  BY <1>1 DEF ControlInv, AloneInv, Alone
<1> QED BY <1>5, <1>7, <1>8, <1>9, <1>10, <1>11 DEF ControlInv

\* The run an event or the current connection belongs to has begun
LEMMA Begun ==
  ASSUME ControlInv, NEW r \in Runs, Waiting(r) \/ r \in closed \/ r \in watched \/ r = ctrl_conn
  PROVE  at[r] # "off" /\ \A u \in Runs : Alone(u) => u = r
<1>1. at[r] # "off"
  BY OfRun DEF Placed, ControlInv, PlacedInv, Current
<1> QED BY <1>1 DEF Alone

LEMMA EventOfRun ==
  ASSUME ControlInv, NEW r \in batch \ {"listener"}
  PROVE  /\ r \in Runs /\ (r \in closed \/ (r = ctrl_conn /\ up[r] # <<>>))
         /\ \A u \in Runs : Alone(u) => u = r
<1>1. r \in Runs /\ (r \in closed \/ r \in watched)
  BY DEF ControlInv, ControlTypeOK, ThreadInv
<1>2. r \in watched => r = ctrl_conn /\ up[r] # <<>>
  BY DEF ControlInv, PlacedInv, ThreadInv, Current
<1> QED BY <1>1, <1>2, Begun

LEMMA HandleEOFKeeps ==
  ASSUME ControlInv, NEW r \in Runs, HandleEOF(r)
  PROVE  ControlInv'
<1>1. /\ at_helper = "dispatch" /\ r \in batch \ {"listener"}
      /\ r \in closed \/ Head(up[r]) = "EOF"
      /\ batch' = batch \ {r} /\ CloseCtrl /\ at_helper' = at_helper
      /\ UNCHANGED <<environment, clientVars, backlog, up, inbound, calling>>
  BY DEF HandleEOF
<1>2. ASSUME NEW u \in Runs, Alone(u), Served(u) PROVE FALSE
  <2>1. u = r
    BY <1>1, <1>2, EventOfRun
  <2>2. up[r] # <<>> /\ Head(up[r]) = "EOF"
    BY <1>1, <1>2, <2>1, EventOfRun DEF Served
  <2>3. up[r] = <<"CONNECT">>
    BY <1>2, <2>1, <2>2 DEF Served
  <2> QED BY <2>2, <2>3
<1> QED BY <1>1, <1>2, CloseKeeps

LEMMA ParseQuitKeeps ==
  ASSUME ControlInv, ParseQuit
  PROVE  ControlInv'
<1>1. /\ at_helper = "parse" /\ ctrl_buf # <<>> /\ Head(ctrl_buf) = "QUIT" /\ CloseCtrl
      /\ batch' = batch /\ at_helper' = at_helper
      /\ UNCHANGED <<environment, clientVars, backlog, up, inbound, calling>>
  BY DEF ParseQuit, eventVars
<1>2. ASSUME NEW u \in Runs, Alone(u), Served(u) PROVE FALSE
  <2>1. ctrl_conn \in Runs
    BY <1>1 DEF ControlInv, ControlTypeOK, ThreadInv
  <2>2. u = ctrl_conn
    BY <1>2, <2>1, Begun
  <2>3. ctrl_buf = <<"CONNECT">>
    BY <1>1, <1>2, <2>2 DEF Served
  <2> QED BY <1>1, <2>3
<1> QED BY <1>1, <1>2, CloseKeeps

\* The first connection of the backlog: of one that waited, and of the last run
\* of its machine
LEMMA FirstWaiting ==
  ASSUME ControlInv, "listener" \in batch
  PROVE  /\ Head(backlog) \in Runs /\ Waiting(Head(backlog)) /\ Tail(backlog) \in Seq(Runs)
         /\ IsInjective(Tail(backlog)) /\ ~Contains(Tail(backlog), Head(backlog))
         /\ \A x : Contains(Tail(backlog), x) => Waiting(x)
         /\ \A x : Waiting(x) => Contains(Tail(backlog), x) \/ x = Head(backlog)
         /\ \A a, b : Precedes(backlog, a, b) =>
              /\ Contains(Tail(backlog), b)
              /\ a # Head(backlog) => Precedes(Tail(backlog), a, b)
<1>1. backlog \in Seq(Runs) /\ backlog # <<>> /\ IsInjective(backlog)
  BY DEF ControlInv, ControlTypeOK, ThreadInv, PlacedInv
<1> QED BY <1>1, Shortened DEF Waiting

\* Taking the first connection of the backlog, to keep it or to close it
Takes(h, kept, d) ==
    /\ h = Head(backlog) /\ backlog' = Tail(backlog) /\ batch' = batch \ {"listener"}
    /\ d \in ClosedDown(ctrl_conn) /\ ctrl_buf' = <<>>
    /\ IF kept
       THEN /\ down' = [d EXCEPT ![h] = Append(@, "OK")]
            /\ watched' = (watched \ Current) \union {h}
            /\ closed' = closed \union Current /\ ctrl_conn' = h
       ELSE /\ down' = d
            /\ watched' = watched \ Current
            /\ closed' = closed \union Current \union {h} /\ ctrl_conn' = None

LEMMA TakesKeeps ==
  ASSUME ControlInv, at_helper = "dispatch", "listener" \in batch,
         UNCHANGED <<environment, clientVars, up, inbound, at_helper, calling>>,
         NEW h, NEW kept \in BOOLEAN, NEW d, Takes(h, kept, d),
         ~kept => at[h] = "ended" \/ \A u \in Runs : Alone(u) => ~Served(u)
  PROVE  ControlInv'
<1> DEFINE rest == Tail(backlog)
<1>1. UNCHANGED <<timely, machine, at, test41, listening, up, inbound, at_helper, calling>>
  BY DEF environment, clientVars
<1>2. /\ h = Head(backlog) /\ backlog' = rest /\ batch' = batch \ {"listener"}
      /\ d \in ClosedDown(ctrl_conn) /\ ctrl_buf' = <<>>
      /\ down' = IF kept THEN [d EXCEPT ![h] = Append(@, "OK")] ELSE d
      /\ watched' = (watched \ Current) \union (IF kept THEN {h} ELSE {})
      /\ closed' = closed \union Current \union (IF kept THEN {} ELSE {h})
      /\ ctrl_conn' = IF kept THEN h ELSE None
  BY DEF Takes
<1>3. /\ h \in Runs /\ Waiting(h) /\ rest \in Seq(Runs)
      /\ IsInjective(rest) /\ ~Contains(rest, h)
      /\ \A x : Contains(rest, x) => Waiting(x)
      /\ \A x : Waiting(x) => Contains(rest, x) \/ x = h
      /\ \A a, b : Precedes(backlog, a, b) =>
           Contains(rest, b) /\ (a # h => Precedes(rest, a, b))
  BY <1>2, FirstWaiting
<1> HIDE DEF rest
<1>4. \A x : Waiting(x)' <=> Contains(rest, x)
  BY <1>2 DEF Waiting
<1>5. /\ ControlTypeOK /\ watched = Current /\ Current \subseteq Runs
      /\ \A u \in Runs : u \in Current <=> u = ctrl_conn
  BY ControlConstants DEF ControlInv, PlacedInv, Current, ControlTypeOK
<1>6. /\ d \in [Runs -> Seq(Replies)]
      /\ \A u \in Runs \ {ctrl_conn} : d[u] = down[u]
      /\ \A u \in Runs : /\ Contains(d[u], "GO") => Contains(down[u], "GO")
                         /\ up[u] = <<>> /\ Contains(down[u], "GO") => Contains(d[u], "GO")
  BY <1>2, ClosedStreams
<1>7. /\ h # ctrl_conn /\ h \notin closed /\ down[h] = <<>> /\ d[h] = <<>>
      /\ at[h] \in {"await_ok", "ended"}
  BY <1>3, <1>6, OfRun DEF Placed, Asked
<1>8. /\ down' \in [Runs -> Seq(Replies)]
      /\ \A u \in Runs \ {h} : down'[u] = d[u]
      /\ down'[h] = IF kept THEN <<"OK">> ELSE <<>>
  <2>1. "OK" \in Replies /\ Append(<<>>, "OK") = <<"OK">> /\ <<"OK">> \in Seq(Replies)
    BY OneLine DEF Replies
  <2>2. CASE kept
    <3>1. down' = [d EXCEPT ![h] = <<"OK">>]
      BY <1>2, <1>3, <1>6, <1>7, <2>1, <2>2
    <3> QED BY <1>3, <1>6, <2>1, <2>2, <3>1, Zenon
  <2>3. CASE ~kept
    BY <1>2, <1>6, <1>7, <2>3
  <2> QED BY <2>2, <2>3
<1>9. ~Contains(down'[h], "GO")
  BY <1>8, NoLines, OneLine DEF Replies
<1>10. ControlTypeOK'
  <2>1. /\ ctrl_buf' \in Seq(Commands) /\ closed' \in SUBSET Runs /\ watched' \in SUBSET Runs
        /\ batch' \in SUBSET (Runs \union {"listener"}) /\ ctrl_conn' \in Runs \union {None}
        /\ backlog' \in Seq(Runs)
    BY <1>2, <1>3, <1>5, NoLines DEF ControlTypeOK
  <2> QED BY <1>1, <1>5, <1>8, <2>1 DEF ControlTypeOK
<1>11. PlacedInv'
  <2>1. watched' = Current'
    BY <1>2, <1>3, <1>5, ControlConstants DEF Current
  <2>2. ASSUME NEW u \in Runs PROVE Placed(u)'
    <3>1. CASE u = h
      BY <1>1, <1>2, <1>3, <1>4, <1>5, <1>7, <3>1, ControlConstants DEF Placed
    <3>2. CASE u # h
      BY <1>1, <1>2, <1>3, <1>4, <1>5, <3>2, OfRun, ControlConstants DEF Placed
    <3> QED BY <3>1, <3>2
  <2> QED BY <1>2, <1>3, <2>1, <2>2 DEF PlacedInv
<1>12. ThreadInv'
  <2>1. h \notin watched /\ h \notin batch
    BY <1>3, <1>5, <1>7, ControlConstants DEF ControlInv, ThreadInv
  <2>2. batch' \intersect watched' = {}
    BY <1>2, <1>3, <1>5, <2>1
  <2>3. batch' \ {"listener"} \subseteq watched' \union closed'
    BY <1>2, <1>5 DEF ControlInv, ThreadInv
  <2> QED BY <1>1, <1>2, <2>2, <2>3 DEF ThreadInv
<1>13. TurnInv'
  <2> SUFFICES ASSUME NEW u \in Runs, NEW q \in Runs, q # u, machine[q] = machine[u],
                      at[u] \notin {"off", "ended"}
               PROVE  /\ Contains(rest, q) => Precedes(rest, q, u)
                      /\ q = ctrl_conn' => Contains(rest, u)
    BY <1>1, <1>2, <1>4 DEF TurnInv, Turn
  <2>1. Waiting(q) => Precedes(backlog, q, u)
    BY OfRun DEF Turn
  <2>2. Contains(rest, q) => Precedes(rest, q, u)
    BY <1>3, <2>1
  <2>3. q = ctrl_conn' => Contains(rest, u)
    BY <1>2, <1>3, <2>1, ControlConstants
  <2> QED BY <2>2, <2>3
<1>14. AskedInv'
  <2> SUFFICES ASSUME NEW u \in Runs PROVE Asked(u)'
    BY DEF AskedInv
  <2>1. CASE u = h
    <3>1. ~Waiting(h)' /\ ~Granted(h) /\ ~Asking(h)
      BY <1>3, <1>4, <1>7, NoLines DEF Asking, Granted
    <3> QED BY <1>2, <1>7, <1>9, <2>1, <3>1, DroppedStays, NoLines
  <2>2. CASE u # h
    <3>1. Waiting(u)' => Waiting(u) /\ down'[u] = down[u]
      BY <1>3, <1>4, <1>6, <1>8, <2>2, OfRun DEF Placed
    <3>2. at[u] = "off" => down'[u] = down[u]
      BY <1>6, <1>8, <2>2, OfRun DEF Placed
    <3> QED BY <1>2, <1>6, <1>8, <2>2, <3>1, <3>2, DroppedStays
  <2> QED BY <2>1, <2>2
<1>15. AloneInv'
  <2> SUFFICES ASSUME NEW u \in Runs, Alone(u)'
               PROVE  /\ test41'[u] # "failed"
                      /\ at'[u] \notin {"off", "ended"} /\ test41'[u] = "none" => Served(u)'
    BY DEF AloneInv
  <2>1. Alone(u)
    BY <1>1 DEF Alone
  <2>2. u = h
    BY <1>3, <2>1, Begun
  <2>3. test41'[u] # "failed"
    BY <1>1, <2>1 DEF ControlInv, AloneInv
  <2>4. ASSUME at'[u] \notin {"off", "ended"}, test41'[u] = "none"
        PROVE  Served(u)'
    <3>1. Served(h) /\ at[h] = "await_ok"
      BY <1>1, <1>7, <2>1, <2>2, <2>4 DEF ControlInv, AloneInv
    <3>2. kept
      BY <2>1, <2>2, <3>1
    <3> QED BY <1>1, <1>2, <1>5, <1>7, <1>8, <2>2, <3>1, <3>2 DEF Served
  <2> QED BY <2>3, <2>4
<1> QED BY <1>10, <1>11, <1>12, <1>13, <1>14, <1>15 DEF ControlInv

LEMMA AcceptCtrlKeeps ==
  ASSUME ControlInv, AcceptCtrl
  PROVE  ControlInv'
<1>1. /\ at_helper = "dispatch" /\ "listener" \in batch
      /\ UNCHANGED <<environment, clientVars, up, inbound, at_helper, calling>>
  BY DEF AcceptCtrl
<1>2. PICK d \in ClosedDown(ctrl_conn) : down' = [d EXCEPT ![Head(backlog)] = Append(@, "OK")]
  BY DEF AcceptCtrl
<1>3. Takes(Head(backlog), TRUE, d)
  BY <1>2 DEF AcceptCtrl, Takes
<1> QED BY <1>1, <1>3, TakesKeeps

\* Every connection is closed when the helper's process ends
LEMMA ProcessEndsKeeps ==
  ASSUME ControlInv, ProcessEnds, \A u \in Runs : Alone(u) => ~Served(u)
  PROVE  ControlInv'
<1>1. UNCHANGED <<timely, machine, at, test41, listening, up, inbound>>
  BY DEF ProcessEnds, environment, clientVars
<1>2. PICK cut \in SUBSET {r \in Live : up[r] # <<>>} :
        down' = [r \in Runs |-> IF r \in cut THEN <<"EOF">>
                                ELSE IF r \in Live THEN Append(down[r], "EOF") ELSE down[r]]
  BY DEF ProcessEnds
<1>3. /\ at_helper' = "down" /\ batch' = {} /\ backlog' = <<>> /\ watched' = {}
      /\ closed' = closed \union Live /\ ctrl_conn' = None /\ ctrl_buf' = <<>> /\ calling' = None
  BY DEF ProcessEnds
<1>4. \A u \in Runs : u \in Live <=> at[u] # "off" /\ u \notin closed
  BY DEF Live
<1>5. ASSUME NEW u \in Runs
      PROVE  /\ down'[u] \in Seq(Replies) /\ (u \notin Live => down'[u] = down[u])
             /\ Contains(down'[u], "GO") => Contains(down[u], "GO")
             /\ up[u] = <<>> /\ Contains(down[u], "GO") => Contains(down'[u], "GO")
  <2>1. down[u] \in Seq(Replies)
    BY OfRun
  <2>2. CASE u \in Live
    <3>1. down'[u] \in Hangup(down[u], up[u])
      BY <1>2, <2>2 DEF Hangup
    <3> QED BY <2>1, <2>2, <3>1, HungUp DEF Replies
  <2>3. CASE u \notin Live
    BY <1>2, <2>1, <2>3
  <2> QED BY <2>2, <2>3
<1>6. down' \in [Runs -> Seq(Replies)]
  <2>1. down' = [u \in Runs |-> down'[u]]
    BY <1>2
  <2> QED BY <1>5, <2>1
<1>7. ControlTypeOK'
  <2>1. ControlTypeOK
    BY DEF ControlInv
  <2>2. /\ closed' \in SUBSET Runs /\ watched' \in SUBSET Runs
        /\ batch' \in SUBSET (Runs \union {"listener"})
    BY <1>3, <2>1 DEF ControlTypeOK, Live
  <2>3. ctrl_buf' \in Seq(Commands) /\ backlog' \in Seq(Runs)
    BY <1>3, NoLines
  <2> QED BY <1>1, <1>3, <1>6, <2>1, <2>2, <2>3, Zenon DEF ControlTypeOK
<1>8. \A u : ~Waiting(u)'
  BY <1>3, NoLines DEF Waiting
<1>9. PlacedInv'
  <2>1. watched' = Current' /\ IsInjective(backlog')
    BY <1>3, NoLines DEF Current
  <2>2. ASSUME NEW u \in Runs PROVE Placed(u)'
    BY <1>1, <1>3, <1>4, <1>8, OfRun, ControlConstants DEF Placed
  <2> QED BY <2>1, <2>2 DEF PlacedInv
<1>10. ThreadInv'
  BY <1>3 DEF ThreadInv
<1>11. TurnInv'
  BY <1>3, <1>8, ControlConstants DEF TurnInv, Turn
<1>12. AskedInv'
  <2> SUFFICES ASSUME NEW u \in Runs PROVE Asked(u)'
    BY DEF AskedInv
  <2>1. UNCHANGED <<clientVars, up, inbound>>
    BY <1>1 DEF clientVars
  <2>2. at[u] = "off" => down'[u] = down[u]
    BY <1>4, <1>5
  <2> QED BY <1>3, <1>5, <1>8, <2>1, <2>2, DroppedStays
<1>13. AloneInv'
  BY <1>1 DEF ControlInv, AloneInv, Alone
<1> QED BY <1>7, <1>9, <1>10, <1>11, <1>12, <1>13 DEF ControlInv

LEMMA InterruptedKeeps ==
  ASSUME ControlInv, Interrupted
  PROVE  ControlInv'
  BY ProcessEndsKeeps DEF Interrupted, Alone

\* The connection that accept() fails for is not one of a run that is served
LEMMA GoneNotServed ==
  ASSUME ControlInv, "listener" \in batch, Gone(Head(backlog)),
         NEW u \in Runs, Alone(u), Served(u)
  PROVE  FALSE
<1>1. u = Head(backlog)
  BY FirstWaiting, Begun
<1>2. up[u] = <<"CONNECT">>
  BY <1>1 DEF Served, Gone
<1> QED BY <1>1, <1>2 DEF Gone, Last

LEMMA AcceptRaisesKeeps ==
  ASSUME ControlInv, AcceptRaises
  PROVE  ControlInv'
<1>1. "listener" \in batch /\ Gone(Head(backlog)) /\ ProcessEnds
  BY DEF AcceptRaises
<1> QED BY <1>1, GoneNotServed, ProcessEndsKeeps

LEMMA AcceptCtrlFailsKeeps ==
  ASSUME ControlInv, AcceptCtrlFails
  PROVE  ControlInv'
<1> DEFINE h == Head(backlog)
<1>1. /\ at_helper = "dispatch" /\ "listener" \in batch /\ Gone(h)
      /\ UNCHANGED <<environment, clientVars, up, inbound, at_helper, calling>>
  BY DEF AcceptCtrlFails
<1>2. Takes(h, FALSE, down')
  BY DEF AcceptCtrlFails, Takes
<1>3. ASSUME NEW u \in Runs, Alone(u), Served(u) PROVE FALSE
  BY <1>1, <1>3, GoneNotServed
<1> QED BY <1>1, <1>2, <1>3, TakesKeeps

\* recv_line reads some of the current connection's lines
LEMMA SplitLines ==
  ASSUME NEW q \in Seq(Commands), NEW n \in 1..Len(q)
  PROVE  /\ SubSeq(q, 1, n) \in Seq(Commands) /\ Len(SubSeq(q, 1, n)) = n
         /\ SubSeq(q, n + 1, Len(q)) \in Seq(Commands)
         /\ Len(SubSeq(q, n + 1, Len(q))) = Len(q) - n
         /\ q = <<"CONNECT">> => /\ n = 1 /\ SubSeq(q, 1, n) = <<"CONNECT">>
                                 /\ SubSeq(q, n + 1, Len(q)) = <<>>
<1>1. Len(q) \in Nat /\ n \in Nat /\ n <= Len(q) /\ 1 <= n
  OBVIOUS
<1>2. SubSeq(q, 1, n) \in Seq(Commands) /\ Len(SubSeq(q, 1, n)) = n
  BY <1>1, SubSeqProperties
<1>3. /\ SubSeq(q, n + 1, Len(q)) \in Seq(Commands)
      /\ Len(SubSeq(q, n + 1, Len(q))) = Len(q) - n
  BY <1>1, SubSeqProperties
<1>4. ASSUME q = <<"CONNECT">>
      PROVE  n = 1 /\ SubSeq(q, 1, n) = <<"CONNECT">> /\ SubSeq(q, n + 1, Len(q)) = <<>>
  <2>1. Len(q) = 1 /\ n = 1
    BY <1>1, <1>4
  <2>2. SubSeq(q, 1, Len(q)) = q
    BY SubSeqFull
  <2>3. SubSeq(q, 2, 1) = <<>>
    BY SubSeqEmpty
  <2> QED BY <1>4, <2>1, <2>2, <2>3
<1> QED BY <1>2, <1>3, <1>4

LEMMA HandleLinesKeeps ==
  ASSUME ControlInv, NEW r \in Runs, HandleLines(r)
  PROVE  ControlInv'
<1>1. /\ at_helper = "dispatch" /\ at_helper' = "parse" /\ r \in batch \ {"listener"}
      /\ r \notin closed /\ batch' = batch \ {r}
      /\ UNCHANGED <<environment, clientVars, backlog, down, inbound, watched, closed,
                     ctrl_conn, calling>>
  BY DEF HandleLines
<1>2. UNCHANGED <<timely, machine, at, test41, listening, backlog, down, inbound, watched,
                  closed, ctrl_conn, calling>>
  BY <1>1 DEF environment, clientVars
<1>3. PICK q : q = up[r]
  OBVIOUS
<1>4. q \in Seq(Commands) /\ r = ctrl_conn /\ ctrl_buf = <<>> /\ ControlTypeOK
  BY <1>1, <1>3, EventOfRun, OfRun DEF ControlInv, ThreadInv
<1>5. PICK n \in 1..Len(q) :
        /\ ctrl_buf' = <<>> \o SubSeq(q, 1, n)
        /\ up' = [up EXCEPT ![r] = SubSeq(q, n + 1, Len(q))]
  BY <1>3, <1>4 DEF HandleLines
<1>6. PICK got, left : got = SubSeq(q, 1, n) /\ left = SubSeq(q, n + 1, Len(q))
  OBVIOUS
<1>7. /\ got \in Seq(Commands) /\ left \in Seq(Commands) /\ Len(got) + Len(left) = Len(q)
      /\ Len(got) \in Nat /\ Len(left) \in Nat /\ Len(q) \in Nat
      /\ q = <<"CONNECT">> => got = <<"CONNECT">> /\ left = <<>>
  BY <1>4, <1>6, SplitLines
<1>8. ctrl_buf' = got
  BY <1>5, <1>6, <1>7, ConcatEmptySeq
<1>9. /\ up' \in [Runs -> Seq(Commands)] /\ up'[r] = left
      /\ \A u \in Runs \ {r} : up'[u] = up[u]
  BY <1>4, <1>5, <1>6, <1>7, Zenon DEF ControlTypeOK
<1>10. ControlTypeOK'
  <2>1. batch' \in SUBSET (Runs \union {"listener"})
    BY <1>1 DEF ControlInv, ControlTypeOK
  <2> QED BY <1>1, <1>2, <1>4, <1>7, <1>8, <1>9, <2>1, Zenon DEF ControlTypeOK
<1>11. \A u : Waiting(u)' <=> Waiting(u)
  BY <1>2 DEF Waiting
<1>12. PlacedInv' /\ TurnInv'
  BY <1>2, <1>11 DEF ControlInv, PlacedInv, Placed, Current, TurnInv, Turn
<1>13. ThreadInv'
  <2>1. watched \subseteq Runs
    BY <1>4 DEF ControlTypeOK
  <2>2. ctrl_conn # None
    BY <1>4, ControlConstants
  <2> QED BY <1>1, <1>2, <1>9, <2>1, <2>2 DEF ControlInv, ThreadInv
<1>14. \A u : Call(u) = 0 /\ Call(u)' = 0
  BY <1>1 DEF Call
<1>15. Sending(r)' = Sending(r)
  BY <1>2, <1>3, <1>4, <1>7, <1>8, <1>9, NoLines DEF Sending, InHand
<1>16. \A u \in Runs \ {r} : Sending(u)' = Sending(u)
  BY <1>2, <1>4, <1>9 DEF Sending, InHand
<1>17. AskedInv'
  <2> SUFFICES ASSUME NEW u \in Runs PROVE Asked(u)'
    BY DEF AskedInv
  <2>1. Sending(u)' = Sending(u) /\ Call(u)' = Call(u)
    BY <1>14, <1>15, <1>16
  <2>2. (Granted(u)' <=> Granted(u)) /\ (Asking(u)' <=> Asking(u)) /\ Asked(u)
    BY <1>2, OfRun DEF Granted, Asking
  <2> QED BY <1>2, <1>11, <2>1, <2>2, Zenon DEF Asked
<1>18. AloneInv'
  <2> SUFFICES ASSUME NEW u \in Runs, Alone(u)'
               PROVE  /\ test41'[u] # "failed"
                      /\ at'[u] \notin {"off", "ended"} /\ test41'[u] = "none" => Served(u)'
    BY DEF AloneInv
  <2>1. Alone(u)
    BY <1>2 DEF Alone
  <2>2. u = r
    BY <1>1, <2>1, EventOfRun
  <2>3. ASSUME Served(r) PROVE Served(r)'
    <3>1. q = <<"CONNECT">>
      BY <1>3, <1>5, <1>7, <2>3, NoLines DEF Served
    <3>2. up'[r] = <<>> /\ ctrl_buf' = <<"CONNECT">>
      BY <1>7, <1>8, <1>9, <3>1
    <3> QED BY <1>2, <1>11, <1>14, <1>15, <2>3, <3>2 DEF Served
  <2> QED BY <1>2, <2>1, <2>2, <2>3 DEF ControlInv, AloneInv
<1> QED BY <1>10, <1>12, <1>13, <1>17, <1>18 DEF ControlInv

\* GO is answered before the call is made
LEMMA ParseConnectKeeps ==
  ASSUME ControlInv, ParseConnect
  PROVE  ControlInv'
<1>0. PICK c : c = ctrl_conn
  OBVIOUS
<1>1. /\ at_helper = "parse" /\ at_helper' = "calling" /\ ctrl_buf # <<>>
      /\ ctrl_buf' = Tail(ctrl_buf) /\ calling' = machine[c]
      /\ down' = [down EXCEPT ![c] = Append(@, "GO")]
      /\ UNCHANGED <<environment, clientVars, backlog, up, inbound, batch, watched, closed, ctrl_conn>>
  BY <1>0 DEF ParseConnect
<1>2. /\ UNCHANGED <<timely, machine, at, test41, listening, backlog, up, inbound, batch, watched,
                     closed, ctrl_conn>>
      /\ c = ctrl_conn /\ c = ctrl_conn'
  BY <1>0, <1>1 DEF environment, clientVars
<1>3. ControlTypeOK /\ c \in Runs /\ ctrl_buf \in Seq(Commands)
  BY <1>1, <1>2 DEF ControlInv, ControlTypeOK, ThreadInv
<1>4. PICK n \in Nat : n + 1 = Len(ctrl_buf) /\ Len(Tail(ctrl_buf)) = n
  <2>1. Len(ctrl_buf) \in Nat \ {0} /\ Len(Tail(ctrl_buf)) = Len(ctrl_buf) - 1
    BY <1>1, <1>3, Shortened
  <2>2. Len(Tail(ctrl_buf)) \in Nat /\ Len(Tail(ctrl_buf)) + 1 = Len(ctrl_buf)
    BY <2>1
  <2> QED BY <2>2
<1>5. PICK rest : rest = Append(down[c], "GO")
  OBVIOUS
<1>6. /\ rest \in Seq(Replies) /\ Contains(rest, "GO")
      /\ down[c] = <<>> => rest = <<"GO">>
  <2>1. "GO" \in Replies /\ down[c] \in Seq(Replies)
    BY <1>3, OfRun DEF Replies
  <2>2. rest \in Seq(Replies) /\ Contains(rest, "GO")
    BY <1>5, <2>1, Appended
  <2>3. down[c] = <<>> => rest = <<"GO">>
    BY <1>5, <2>1, OneLine
  <2> QED BY <2>2, <2>3
<1>7. /\ down' \in [Runs -> Seq(Replies)] /\ down'[c] = rest
      /\ \A u \in Runs \ {c} : down'[u] = down[u]
  <2>1. down' = [down EXCEPT ![c] = rest]
    BY <1>1, <1>5
  <2> QED BY <1>3, <1>6, <2>1, Zenon DEF ControlTypeOK
<1>8. ControlTypeOK'
  <2>1. ctrl_buf' \in Seq(Commands) /\ calling' \in Amigas
    BY <1>1, <1>3, Shortened, OfRun
  <2> QED BY <1>1, <1>2, <1>3, <1>7, <2>1 DEF ControlTypeOK
<1>9. \A u : Waiting(u)' <=> Waiting(u)
  BY <1>2 DEF Waiting
<1>10. PlacedInv' /\ TurnInv'
  BY <1>2, <1>9 DEF ControlInv, PlacedInv, Placed, Current, TurnInv, Turn
<1>11. ThreadInv'
  BY <1>1, <1>2, <1>3, ControlConstants DEF ControlInv, ThreadInv
<1>12. /\ Sending(c)' + 1 = Sending(c) /\ Sending(c)' \in Nat
       /\ Call(c) = 0 /\ Call(c)' = 1
  BY <1>1, <1>2, <1>3, <1>4, OfRun DEF Sending, InHand, Call
<1>13. inbound[c] = 0 /\ (Asking(c) => ~Granted(c) /\ Sending(c)' = 0)
  <2>1. Asked(c) /\ inbound[c] \in Nat /\ Sending(c) \in Nat /\ Sending(c) > 0
    BY <1>3, <1>12, OfRun
  <2> QED BY <1>12, <2>1 DEF Asked
<1>14. AskedInv'
  <2> SUFFICES ASSUME NEW u \in Runs PROVE Asked(u)'
    BY DEF AskedInv
  <2>1. CASE u = c
    <3>1. Granted(c)' /\ (Asking(c)' <=> Asking(c)) /\ ~Waiting(c)
      BY <1>2, <1>3, <1>6, <1>7, OfRun DEF Granted, Asking, Placed
    <3>2. at[c] # "off" /\ Asked(c)
      BY <1>2, <1>3, OfRun, Begun
    <3>3. at[c] # "ended" /\ ~Asking(c) => test41[c] # "none"
      BY <1>3, <1>12, <3>2, OfRun DEF Asked
    <3> QED BY <1>2, <1>9, <1>12, <1>13, <2>1, <3>1, <3>2, <3>3 DEF Asked
  <2>2. CASE u # c
    <3>1. Spared(u)
      BY <1>1, <1>2, <1>7, <1>9, <2>2 DEF Spared, InHand, Call
    <3> QED BY <3>1, SparedStays, OfRun
  <2> QED BY <2>1, <2>2
<1>15. AloneInv'
  <2> SUFFICES ASSUME NEW u \in Runs, Alone(u)'
               PROVE  /\ test41'[u] # "failed"
                      /\ at'[u] \notin {"off", "ended"} /\ test41'[u] = "none" => Served(u)'
    BY DEF AloneInv
  <2>1. Alone(u)
    BY <1>2 DEF Alone
  <2>2. u = c
    BY <1>2, <1>3, <2>1, Begun
  <2>3. ASSUME at[c] \notin {"off", "ended"}, test41[c] = "none", Served(c) PROVE Served(c)'
    <3>1. Asking(c)
      BY <1>3, <1>12, <2>3, OfRun DEF Asked
    <3>2. at[c] = "await_go"
      BY <1>13, <3>1 DEF Asking, Granted
    <3>3. down[c] = <<>>
      BY <1>12, <1>13, <2>3, <3>2 DEF Served
    <3>4. down'[c] = <<"GO">>
      BY <1>6, <1>7, <3>3
    <3>5. ctrl_buf' = <<>>
      BY <1>1, <1>2, <2>3, OneLine DEF Served, Commands
    <3> QED BY <1>2, <1>12, <1>13, <2>3, <3>2, <3>4, <3>5 DEF Served
  <2> QED BY <1>2, <2>1, <2>2, <2>3 DEF ControlInv, AloneInv
<1> QED BY <1>8, <1>10, <1>11, <1>14, <1>15 DEF ControlInv

\* The only run that can be listening on the machine being called is the one
\* whose command the helper is carrying out
LEMMA OnlyTheCaller ==
  ASSUME ControlInv, at_helper = "calling", NEW r \in Callable
  PROVE  r \in Runs /\ r = ctrl_conn /\ Asking(r)
<1>1. r \in Runs /\ r \in listening /\ machine[r] = calling
  BY DEF Callable, ControlInv, ControlTypeOK
<1>2. ctrl_conn \in Runs /\ machine[ctrl_conn] = machine[r]
  BY <1>1 DEF ControlInv, ControlTypeOK, ThreadInv
<1>3. Asking(r) /\ ~Waiting(r)
  BY <1>1, OfRun DEF Asked, Asking
<1>4. r = ctrl_conn
  BY <1>1, <1>2, <1>3, OfRun DEF Turn, Asking
<1> QED BY <1>1, <1>3, <1>4

LEMMA CallBackKeeps ==
  ASSUME ControlInv, CallBack
  PROVE  ControlInv'
<1>0. PICK c : c = ctrl_conn
  OBVIOUS
<1>1. /\ at_helper = "calling" /\ at_helper' = "parse" /\ calling' = None
      /\ UNCHANGED <<environment, clientVars, backlog, up, down, batch, ctrlVars>>
      /\ \/ \E r \in Callable : inbound' = [inbound EXCEPT ![r] = @ + 1]
         \/ (Callable = {} \/ ~timely) /\ UNCHANGED inbound
  BY DEF CallBack
<1>2. /\ UNCHANGED <<timely, machine, at, test41, listening, backlog, up, down, batch, watched,
                     closed, ctrl_conn, ctrl_buf>>
      /\ c = ctrl_conn /\ c = ctrl_conn'
  BY <1>0, <1>1 DEF environment, clientVars, ctrlVars
<1>3. ControlTypeOK /\ c \in Runs
  BY <1>1, <1>2 DEF ControlInv, ControlTypeOK, ThreadInv
<1>4. /\ inbound' \in [Runs -> Nat]
      /\ \A u \in Runs \ {c} : inbound'[u] = inbound[u]
      /\ \/ Asking(c) /\ inbound'[c] = inbound[c] + 1
         \/ inbound'[c] = inbound[c] /\ (~timely \/ ~Asking(c))
  <2>1. ASSUME NEW r \in Callable, inbound' = [inbound EXCEPT ![r] = @ + 1]
        PROVE  <1>4
    <3>1. r = c /\ Asking(c)
      BY <1>1, <1>2, <2>1, OnlyTheCaller
    <3> QED BY <1>3, <2>1, <3>1 DEF ControlTypeOK
  <2>2. ASSUME Callable = {} \/ ~timely, inbound' = inbound
        PROVE  <1>4
    <3>1. Callable = {} => ~Asking(c)
      BY <1>1, <1>2, <1>3, OfRun DEF Callable, Asked, ControlInv, ThreadInv
    <3> QED BY <1>3, <2>2, <3>1 DEF ControlTypeOK
  <2> QED BY <1>1, <2>1, <2>2
<1>5. ControlTypeOK'
  BY <1>1, <1>2, <1>3, <1>4 DEF ControlTypeOK
<1>6. \A u : Waiting(u)' <=> Waiting(u)
  BY <1>2 DEF Waiting
<1>7. PlacedInv' /\ TurnInv'
  BY <1>2, <1>6 DEF ControlInv, PlacedInv, Placed, Current, TurnInv, Turn
<1>8. ThreadInv'
  BY <1>1, <1>2 DEF ControlInv, ThreadInv
<1>9. /\ \A u : Sending(u)' = Sending(u)
      /\ \A u : u # c => Call(u)' = Call(u)
      /\ Call(c) = 1 /\ Call(c)' = 0
  BY <1>1, <1>2 DEF Sending, InHand, Call
<1>10. \A u : (Granted(u)' <=> Granted(u)) /\ (Asking(u)' <=> Asking(u))
  BY <1>2 DEF Granted, Asking
<1>11. AskedInv'
  <2> SUFFICES ASSUME NEW u \in Runs PROVE Asked(u)'
    BY DEF AskedInv
  <2>1. Asked(u) /\ inbound[u] \in Nat /\ Sending(u) \in Nat
    BY OfRun
  <2>2. CASE u = c
    <3>0. Asking(u) => Sending(u) = 0 /\ inbound[u] = 0 /\ Granted(u)
      BY <1>9, <2>1, <2>2 DEF Asked
    <3>1. /\ ~Asking(u) => inbound'[u] = 0
          /\ Asking(u) => /\ Sending(u)' + Call(u)' + inbound'[u] <= 1
                          /\ Granted(u)' => Sending(u)' = 0
                          /\ Call(u)' + inbound'[u] > 0 => Granted(u)'
      BY <1>4, <1>9, <1>10, <2>1, <2>2, <3>0 DEF Asked
    <3>2. at[u] # "ended" /\ ~Asking(u) => test41[u] # "none"
      BY <1>9, <2>1, <2>2 DEF Asked
    <3> QED BY <1>2, <1>6, <1>10, <2>1, <3>1, <3>2 DEF Asked
  <2>3. CASE u # c
    <3>1. /\ inbound'[u] = inbound[u] /\ Sending(u)' = Sending(u) /\ Call(u)' = Call(u)
      BY <1>4, <1>9, <2>3
    <3> QED BY <1>2, <1>6, <1>10, <2>1, <3>1, Zenon DEF Asked
  <2> QED BY <2>2, <2>3
<1>12. AloneInv'
  <2> SUFFICES ASSUME NEW u \in Runs, Alone(u)'
               PROVE  /\ test41'[u] # "failed"
                      /\ at'[u] \notin {"off", "ended"} /\ test41'[u] = "none" => Served(u)'
    BY DEF AloneInv
  <2>1. Alone(u)
    BY <1>2 DEF Alone
  <2>2. u = c
    BY <1>2, <1>3, <2>1, Begun
  <2>3. ASSUME Served(c) PROVE Served(c)'
    <3>1. Asking(c) => Call(c)' + inbound'[c] = Call(c) + inbound[c]
      BY <1>3, <1>4, <1>9, <2>1, <2>2, OfRun DEF Alone
    <3>2. Sending(c)' = Sending(c) /\ (Asking(c) <=> at[c] \in {"await_go", "accepting"})
      BY <1>9 DEF Asking
    <3> QED BY <1>2, <1>6, <2>3, <3>1, <3>2 DEF Served
  <2> QED BY <1>2, <2>1, <2>2, <2>3 DEF ControlInv, AloneInv
<1> QED BY <1>5, <1>7, <1>8, <1>11, <1>12 DEF ControlInv
-----------------------------------------------------------------------------
LEMMA ControlStutter ==
  ASSUME ControlInv, UNCHANGED controlVars
  PROVE  ControlInv'
<1>1. UNCHANGED <<timely, machine, at, test41, listening, inbound, backlog, up, down,
                  at_helper, batch, watched, closed, ctrl_conn, ctrl_buf, calling>>
  BY DEF controlVars, environment, clientVars, networkVars, helperVars, eventVars, ctrlVars
<1>2. \A u : /\ Waiting(u)' <=> Waiting(u)
             /\ InHand(u)' = InHand(u) /\ Call(u)' = Call(u) /\ Sending(u)' = Sending(u)
  BY <1>1 DEF Waiting, InHand, Call, Sending
<1>3. ControlTypeOK' /\ ThreadInv'
  BY <1>1 DEF ControlInv, ControlTypeOK, ThreadInv
<1>4. PlacedInv' /\ TurnInv'
  BY <1>1, <1>2 DEF ControlInv, PlacedInv, Placed, Current, TurnInv, Turn
<1>5. AskedInv'
  BY <1>1, <1>2, SparedStays DEF ControlInv, AskedInv, Spared
<1>6. AloneInv'
  BY <1>1, <1>2 DEF ControlInv, AloneInv, Alone, Served
<1> QED BY <1>3, <1>4, <1>5, <1>6 DEF ControlInv

\* One step per action of the suite and of the helper
LEMMA ControlStep == ControlInv /\ [ControlNext]_controlVars => ControlInv'
<1> SUFFICES ASSUME ControlInv, [ControlNext]_controlVars PROVE ControlInv'
  OBVIOUS
<1>1. ASSUME NEW r \in Runs, Connect(r) \/ ConnectRefused(r) \/ ClientStep(r) \/ Crash(r)
      PROVE  ControlInv'
  BY <1>1, ConnectKeeps, ConnectRefusedKeeps, ConnectOKKeeps, ConnectFailsKeeps, RequestConnectKeeps,
     RequestGrantedKeeps, RequestFailsKeeps, AcceptCallKeeps, AcceptTimesOutKeeps, QuitKeeps,
     CrashKeeps
  DEF ClientStep
<1>2. CASE HelperStep
  BY <1>2, SelectKeeps, BatchDoneKeeps, AcceptCtrlKeeps, AcceptCtrlFailsKeeps, HandleEOFKeeps,
     HandleLinesKeeps, ParseDoneKeeps, ParseQuitKeeps, ParseConnectKeeps, CallBackKeeps
  DEF HelperStep
<1>3. CASE Interrupted \/ AcceptRaises
  BY <1>3, InterruptedKeeps, AcceptRaisesKeeps
<1>4. CASE UNCHANGED controlVars
  BY <1>4, ControlStutter
<1> QED BY <1>1, <1>2, <1>3, <1>4 DEF ControlNext, AllQuiet

LEMMA ControlAlways == ControlSpec => []ControlInv
  BY ControlInitially, ControlStep, PTL DEF ControlSpec

(***************************************************************************)
(* Every variable of the control channel keeps its type: only commands     *)
(* reach the helper's buffer, and it never answers on, or calls for, a     *)
(* connection it does not have.                                            *)
(***************************************************************************)
THEOREM ControlTypes == ControlSpec => []ControlTypeOK
<1>1. ControlInv => ControlTypeOK
  BY DEF ControlInv
<1> QED BY <1>1, ControlAlways, PTL

(***************************************************************************)
(* With any number of runs and machines, clients that crash and events     *)
(* that outlive their connection, the helper keeps one control connection  *)
(* and leaks none (_accept_ctrl, _handle_ctrl, _close_ctrl).               *)
(***************************************************************************)
THEOREM OneControlConnectionAlways == ControlSpec => []OneControlConnection
<1>1. ASSUME ControlInv PROVE OneControlConnection
  <2>1. watched = Current /\ watched \subseteq Runs
    BY <1>1 DEF ControlInv, PlacedInv, ControlTypeOK
  <2>2. \A r \in Runs : r \in watched <=> r = ctrl_conn
    BY <2>1, ControlConstants DEF Current
  <2>3. Accepted \ closed = watched
    BY <1>1, <2>1, <2>2, OfRun DEF Accepted, Placed, Waiting
  <2> QED BY <1>1, <2>1, <2>3 DEF OneControlConnection, ControlInv, ThreadInv, Current
<1> QED BY <1>1, ControlAlways, PTL

(***************************************************************************)
(* A call of the helper only ever waits in the listener of the run that    *)
(* asked for it, once, and after its GO, although the helper calls an      *)
(* address: runs of one machine follow each other, and are accepted in     *)
(* that order (_handle_connect, test 41).                                  *)
(***************************************************************************)
THEOREM CallsAlwaysAnnounced == ControlSpec => []CallsAnnounced
<1>1. ASSUME ControlInv PROVE CallsAnnounced
  <2> SUFFICES ASSUME NEW r \in Runs, inbound[r] > 0
               PROVE  inbound[r] = 1 /\ (at[r] = "accepting" \/ Contains(down[r], "GO"))
    BY DEF CallsAnnounced
  <2>1. Asking(r) /\ inbound[r] \in Nat /\ Sending(r) \in Nat /\ Call(r) \in {0, 1}
    BY <1>1, OfRun DEF Asked
  <2>2. inbound[r] = 1 /\ Granted(r)
    BY <1>1, <2>1, OfRun DEF Asked
  <2> QED BY <2>2 DEF Granted
<1> QED BY <1>1, ControlAlways, PTL

(***************************************************************************)
(* A run that has the helper to itself passes or skips test 41 as long as  *)
(* no answer is late: no timeout expires, and no line, connection or call  *)
(* is lost, while there is anything left to come.                          *)
(***************************************************************************)
THEOREM UndisturbedRunAlwaysPasses == ControlSpec => []UndisturbedRunPasses
<1>1. ControlInv => UndisturbedRunPasses
  BY DEF ControlInv, AloneInv, Alone, UndisturbedRunPasses
<1> QED BY <1>1, ControlAlways, PTL
=============================================================================
