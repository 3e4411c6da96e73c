----------------------------- MODULE DataProofs -----------------------------
(***************************************************************************)
(* Proofs about the data services, for any number of tests, of any sizes,  *)
(* on stacks that hold any number of bytes.                                *)
(***************************************************************************)
EXTENDS DataProperties, SequenceTheorems, TLAPS

LEMMA DataConstants ==
  /\ Nobody \notin Transfers /\ Services \intersect Transfers = {}
  /\ Service \in [Transfers -> Services]
  /\ \A t \in Transfers : /\ Size[t] \in Nat \ {0} /\ Needed[t] \in Nat /\ Needed[t] <= Size[t]
                          /\ Service[t] = "echo" => Size[t] % Block = 0
  /\ Block \in Nat \ {0} /\ EchoRead \in Nat \ {0} /\ UpRoom \in Nat \ {0} /\ DownRoom \in Nat \ {0}
  BY DataAssumption

LEMMA SmallerOf ==
  ASSUME NEW a \in Nat, NEW b \in Nat
  PROVE  Smaller(a, b) \in Nat /\ Smaller(a, b) <= a /\ Smaller(a, b) <= b
  BY DEF Smaller

\* The bytes a test has asked send() to send so far
Asked(t) == calls[t] * Block

LEMMA Blocks ==
  ASSUME NEW s \in Nat \ {0}, NEW c \in Nat
  PROVE  /\ s \div Block \in Nat /\ c * Block \in Nat
         /\ (c + 1) * Block = c * Block + Block
         /\ c < s \div Block => c * Block + Block <= s
         /\ c = s \div Block /\ s % Block = 0 => c * Block = s
<1> DEFINE q == s \div Block
<1>1. Block \in Nat \ {0}
  BY DataConstants
<1>2. q \in Nat /\ s % Block \in Nat /\ s = q * Block + (s % Block)
  BY <1>1, SMT
<1>3. c * Block \in Nat /\ (c + 1) * Block = c * Block + Block
  BY <1>1, SMT
<1>4. ASSUME c < q PROVE c * Block + Block <= s
  <2>1. (c + 1) * Block <= q * Block
    BY <1>1, <1>2, <1>4, SMT
  <2>2. q * Block \in Nat
    BY <1>1, <1>2, SMT
  <2> DEFINE b == q * Block  r == s % Block  a == c * Block
  <2>3. s = b + r /\ b \in Nat /\ r \in Nat /\ a \in Nat /\ a + Block <= b
    BY <1>2, <1>3, <2>1, <2>2, Zenon
  <2> HIDE DEF a, b, r
  <2>4. a + Block <= s
    BY <1>1, <2>3
  <2> QED BY <2>4 DEF a
<1> QED BY <1>2, <1>3, <1>4
-----------------------------------------------------------------------------
(***************************************************************************)
(* The inductive invariant                                                 *)
(***************************************************************************)
TypesInv ==
    /\ sound \in BOOLEAN
    /\ at \in [Transfers -> {"off", "sending", "receiving", "ended"}]
    /\ verdict \in [Transfers -> {"none", "passed", "failed"}]
    /\ calls \in [Transfers -> Nat] /\ due \in [Transfers -> 0..Block]
    /\ total_sent \in [Transfers -> Nat] /\ total_recv \in [Transfers -> Nat]
    /\ pending \in [Services -> Seq(Transfers)]
    /\ up \in [Transfers -> 0..UpRoom] /\ down \in [Transfers -> 0..DownRoom]
    /\ hung \in [Transfers -> {"open", "closed", "reset"}]
    /\ at_helper \in {"select", "dispatch", "sendall", "down"}
    /\ batch \in SUBSET (Transfers \union Services)
    /\ watched \in SUBSET Transfers /\ closed \in SUBSET Transfers
    /\ serving \in Transfers \union {Nobody} /\ unsent \in Nat
    /\ sink_totals \in [Transfers -> Int]

Running(t) == at[t] \in {"sending", "receiving"}

\* A test never sends more than it is to transfer
Counts(t) ==
    /\ total_sent[t] + due[t] <= Size[t]
    /\ Service[t] = "echo" => calls[t] <= Size[t] \div Block /\ total_sent[t] + due[t] <= Asked(t)
    /\ ~Running(t) => calls[t] = 0 /\ due[t] = 0 /\ total_sent[t] = 0 /\ total_recv[t] = 0
    /\ at[t] = "receiving" => Service[t] = "echo"

CountsInv == \A t \in Transfers : Counts(t)

\* Each connection waits to be accepted once, at its own service
QueueInv ==
    \A s \in Services : IsInjective(pending[s]) /\ \A t \in Range(pending[s]) : Service[t] = s

\* Where a connection can be, and what the helper's thread has in hand
HelperInv ==
    /\ QueueInv
    /\ watched \intersect (closed \union Queued) = {} /\ closed \intersect Queued = {}
    /\ \A t \in watched \union closed \union Queued : at[t] # "off"
    /\ serving # Nobody <=> at_helper = "sendall"
    /\ serving # Nobody => serving \in watched \ batch
    /\ batch \ Services \subseteq watched
    /\ at_helper \in {"select", "down"} => batch = {}
    /\ \A s \in batch \intersect Services : pending[s] # <<>>
    /\ \A t \in Transfers : sink_totals[t] >= 0 <=> t \in watched /\ Service[t] = "sink"

\* Where a test's bytes are
Held(t) == up[t] + InHand(t) + down[t] + total_recv[t] + Counted(t)

Flow(t) ==
    /\ at[t] = "off" => up[t] = 0 /\ down[t] = 0
    /\ Running(t) => Held(t) <= total_sent[t] /\ (t \notin closed => Held(t) = total_sent[t])
    /\ hung[t] # "open" => at[t] = "ended"

FlowInv == \A t \in Transfers : Flow(t)

\* On a sound network only a test that is over is closed, and no send() is short
Sound(t) ==
    /\ t \in closed => at[t] = "ended"
    /\ verdict[t] # "failed"
    /\ t \in batch => up[t] > 0 \/ hung[t] # "open"
    /\ at[t] = "sending" /\ Service[t] = "echo" => total_sent[t] + due[t] = Asked(t)
    /\ at[t] = "receiving" => total_sent[t] = Size[t]

SoundInv == sound => \A t \in Transfers : Sound(t)

DataInv == TypesInv /\ CountsInv /\ HelperInv /\ FlowInv /\ SoundInv

LEMMA DataInitially ==
  DataInit => DataInv
<1> SUFFICES ASSUME DataInit PROVE DataInv
  OBVIOUS
<1> USE DataConstants DEF DataInit
<1>1. TypesInv
  BY DEF TypesInv, Services
<1>2. CountsInv
  <2>1. \A t \in Transfers : 0 <= Size[t] \div Block /\ 0 * Block = 0
    BY Blocks
  <2> QED BY <2>1 DEF CountsInv, Counts, Running, Asked
<1>3. Queued = {} /\ QueueInv
  BY DEF Queued, QueueInv, Range, IsInjective
<1>4. HelperInv
  BY <1>3 DEF HelperInv
<1>5. FlowInv
  BY DEF FlowInv, Flow, Running
<1>6. SoundInv
  BY DEF SoundInv, Sound
<1> QED BY <1>1, <1>2, <1>4, <1>5, <1>6 DEF DataInv
-----------------------------------------------------------------------------
(***************************************************************************)
(* The queues of connections                                               *)
(***************************************************************************)
\* What only a test changes does not change where the helper is
LEMMA HelperUntouched ==
  ASSUME HelperInv, UNCHANGED <<pending, loopVars>>,
         \A t \in Transfers : at[t] # "off" => at'[t] # "off",
         TypesInv
  PROVE  HelperInv'
<1>1. Queued' = Queued /\ (QueueInv <=> QueueInv')
  BY DEF Queued, QueueInv
<1>2. Queued \subseteq Transfers
  BY RangeOfSeq DEF Queued, TypesInv
<1> QED BY <1>1, <1>2 DEF HelperInv, loopVars, TypesInv

LEMMA Appended ==
  ASSUME NEW S, NEW q \in Seq(S), NEW t \in S
  PROVE  /\ Append(q, t) \in Seq(S) /\ Append(q, t) # <<>>
         /\ Range(Append(q, t)) = Range(q) \union {t}
         /\ IsInjective(q) /\ t \notin Range(q) => IsInjective(Append(q, t))
<1> DEFINE p == Append(q, t)
<1>1. /\ p \in Seq(S) /\ p # <<>> /\ DOMAIN q = 1..Len(q) /\ DOMAIN p = 1..(Len(q) + 1)
      /\ Len(q) \in Nat /\ p[Len(q) + 1] = t /\ \A i \in 1..Len(q) : p[i] = q[i]
  BY AppendProperties
<1>2. /\ \A i \in 1..(Len(q) + 1) : i \in 1..Len(q) \/ i = Len(q) + 1
      /\ 1..Len(q) \subseteq 1..(Len(q) + 1) /\ Len(q) + 1 \in 1..(Len(q) + 1)
  BY <1>1
<1> HIDE DEF p
<1>3. Range(p) = Range(q) \union {t}
  BY <1>1, <1>2 DEF Range
<1>4. IsInjective(q) /\ t \notin Range(q) => IsInjective(p)
  BY <1>1, <1>2 DEF Range, IsInjective
<1> QED BY <1>1, <1>3, <1>4 DEF p

LEMMA Shortened ==
  ASSUME NEW S, NEW q \in Seq(S), q # <<>>, IsInjective(q)
  PROVE  /\ Tail(q) \in Seq(S) /\ IsInjective(Tail(q))
         /\ Head(q) \in Range(q) /\ Range(q) \subseteq S
         /\ Range(Tail(q)) = Range(q) \ {Head(q)}
<1> DEFINE p == Tail(q)
<1>1. /\ p \in Seq(S) /\ Len(q) \in Nat \ {0} /\ DOMAIN q = 1..Len(q) /\ DOMAIN p = 1..(Len(q) - 1)
      /\ Head(q) = q[1] /\ \A i \in 1..(Len(q) - 1) : p[i] = q[i + 1]
  BY HeadTailProperties
<1>2. Range(q) \subseteq S
  BY RangeOfSeq
<1>3. \A i, j \in 1..Len(q) : q[i] = q[j] => i = j
  BY <1>1 DEF IsInjective
<1> HIDE DEF p
<1>4. IsInjective(p)
  BY <1>1, <1>3 DEF IsInjective
<1>5. 1 \in 1..Len(q)
  BY <1>1
<1>6. Head(q) \in Range(q)
  BY <1>1, <1>5 DEF Range
<1>7. ASSUME NEW x \in Range(q), x # Head(q) PROVE x \in Range(p)
  <2>1. PICK i \in 1..Len(q) : q[i] = x
    BY <1>1, <1>7 DEF Range
  <2>2. i - 1 \in 1..(Len(q) - 1) /\ p[i - 1] = x
    BY <1>1, <1>7, <2>1
  <2> QED BY <1>1, <2>2 DEF Range
<1>8. ASSUME NEW x \in Range(p) PROVE x \in Range(q) /\ x # Head(q)
  <2>1. PICK i \in 1..(Len(q) - 1) : p[i] = x
    BY <1>1, <1>8 DEF Range
  <2>2. i + 1 \in 1..Len(q) /\ q[i + 1] = x /\ i + 1 # 1
    BY <1>1, <2>1
  <2>3. x # Head(q)
    BY <1>1, <1>3, <1>5, <2>2
  <2> QED BY <1>1, <2>2, <2>3 DEF Range
<1>9. Range(p) = Range(q) \ {Head(q)}
  BY <1>7, <1>8
<1> QED BY <1>1, <1>2, <1>4, <1>6, <1>9 DEF p

\* A new connection joins the queue of its service
LEMMA Joins ==
  ASSUME TypesInv, QueueInv, NEW t \in Transfers, t \notin Queued,
         pending' = [pending EXCEPT ![Service[t]] = Append(@, t)]
  PROVE  /\ pending' \in [Services -> Seq(Transfers)]
         /\ Queued' = Queued \union {t} /\ QueueInv'
         /\ \A s \in Services : pending[s] # <<>> => pending'[s] # <<>>
<1>1. PICK s \in Services : s = Service[t]
  BY DataConstants
<1>2. PICK q \in Seq(Transfers) : q = pending[s]
  BY DEF TypesInv
<1>3. /\ Append(q, t) \in Seq(Transfers) /\ Append(q, t) # <<>>
      /\ Range(Append(q, t)) = Range(q) \union {t} /\ IsInjective(Append(q, t))
  BY <1>2, Appended DEF Queued, QueueInv
<1>4. PICK p \in Seq(Transfers) : p = Append(q, t)
  BY <1>3
<1>5. /\ pending' \in [Services -> Seq(Transfers)] /\ pending'[s] = p
      /\ \A r \in Services \ {s} : pending'[r] = pending[r]
  BY <1>1, <1>2, <1>4 DEF TypesInv
<1>6. Queued' = Queued \union {t}
  BY <1>2, <1>3, <1>4, <1>5 DEF Queued, Services
<1>7. QueueInv'
  BY <1>1, <1>2, <1>3, <1>4, <1>5 DEF QueueInv, Services
<1> QED BY <1>3, <1>4, <1>5, <1>6, <1>7

\* accept() takes the first connection of a queue
LEMMA Served ==
  ASSUME TypesInv, QueueInv, NEW s \in Services, pending[s] # <<>>,
         pending' = [pending EXCEPT ![s] = Tail(@)]
  PROVE  /\ pending' \in [Services -> Seq(Transfers)]
         /\ Head(pending[s]) \in Queued \intersect Transfers /\ Service[Head(pending[s])] = s
         /\ Queued' = Queued \ {Head(pending[s])} /\ QueueInv'
         /\ \A r \in Services \ {s} : pending'[r] = pending[r]
<1>1. PICK q \in Seq(Transfers) : q = pending[s]
  BY DEF TypesInv
<1>2. PICK h : h = Head(q)
  OBVIOUS
<1>3. /\ Tail(q) \in Seq(Transfers) /\ IsInjective(Tail(q)) /\ h \in Range(q)
      /\ Range(Tail(q)) = Range(q) \ {h} /\ Range(q) \subseteq Transfers
  BY <1>1, <1>2, Shortened DEF QueueInv
<1>4. PICK p \in Seq(Transfers) : p = Tail(q)
  BY <1>3
<1>5. /\ pending' \in [Services -> Seq(Transfers)] /\ pending'[s] = p
      /\ \A r \in Services \ {s} : pending'[r] = pending[r]
  BY <1>1, <1>4 DEF TypesInv
<1>6. h \in Queued \intersect Transfers /\ Service[h] = s
  BY <1>1, <1>3 DEF Queued, QueueInv
<1>7. \A r \in Services \ {s} : h \notin Range(pending[r])
  BY <1>6 DEF QueueInv
<1>8. Queued' = Queued \ {h}
  BY <1>1, <1>3, <1>4, <1>5, <1>7 DEF Queued, Services
<1>9. QueueInv'
  BY <1>1, <1>3, <1>4, <1>5 DEF QueueInv, Services
<1> QED BY <1>1, <1>2, <1>5, <1>6, <1>8, <1>9
-----------------------------------------------------------------------------
(***************************************************************************)
(* Steps of the tests                                                      *)
(***************************************************************************)
\* What the invariant says of one test
LEMMA OfTest ==
  ASSUME DataInv, NEW t \in Transfers
  PROVE  /\ at[t] \in {"off", "sending", "receiving", "ended"} /\ calls[t] \in Nat
         /\ due[t] \in Nat /\ due[t] <= Block /\ total_sent[t] \in Nat /\ total_recv[t] \in Nat
         /\ up[t] \in Nat /\ up[t] <= UpRoom /\ down[t] \in Nat /\ down[t] <= DownRoom
         /\ hung[t] \in {"open", "closed", "reset"} /\ sink_totals[t] \in Int
         /\ Counted(t) \in Nat /\ InHand(t) \in Nat /\ Asked(t) \in Nat /\ Held(t) \in Nat
         /\ Counts(t) /\ Flow(t) /\ (sound => Sound(t))
         /\ Size[t] \in Nat \ {0} /\ Service[t] \in Services
<1> USE DEF DataInv
<1>1. /\ at[t] \in {"off", "sending", "receiving", "ended"} /\ calls[t] \in Nat
      /\ due[t] \in Nat /\ due[t] <= Block /\ total_sent[t] \in Nat /\ total_recv[t] \in Nat
      /\ up[t] \in Nat /\ up[t] <= UpRoom /\ down[t] \in Nat /\ down[t] <= DownRoom
      /\ hung[t] \in {"open", "closed", "reset"} /\ sink_totals[t] \in Int
  <2>1. TypesInv /\ {Block, UpRoom, DownRoom} \subseteq Nat
    BY DataConstants
  <2>2. /\ at[t] \in {"off", "sending", "receiving", "ended"} /\ calls[t] \in Nat
        /\ total_sent[t] \in Nat /\ total_recv[t] \in Nat
        /\ hung[t] \in {"open", "closed", "reset"} /\ sink_totals[t] \in Int
    BY <2>1, Zenon DEF TypesInv
  <2>3. due[t] \in 0..Block /\ up[t] \in 0..UpRoom /\ down[t] \in 0..DownRoom
    BY <2>1, Zenon DEF TypesInv
  <2> HIDE DEF DataInv
  <2> QED BY <2>1, <2>2, <2>3
<1>2. Counted(t) \in Nat /\ InHand(t) \in Nat
  BY <1>1 DEF Counted, InHand, TypesInv
<1>3. Asked(t) \in Nat
  BY <1>1, Blocks DEF Asked
<1>4. Held(t) \in Nat
  BY <1>1, <1>2 DEF Held
<1>5. Counts(t) /\ Flow(t) /\ (sound => Sound(t))
  BY DEF CountsInv, FlowInv, SoundInv
<1> QED BY <1>1, <1>2, <1>3, <1>4, <1>5, DataConstants

\* A step that leaves a test alone: its own state, its connection's, and what
\* the helper holds of it
Spared(u) ==
    /\ at'[u] = at[u] /\ verdict'[u] = verdict[u] /\ calls'[u] = calls[u] /\ due'[u] = due[u]
    /\ total_sent'[u] = total_sent[u] /\ total_recv'[u] = total_recv[u]
    /\ up'[u] = up[u] /\ down'[u] = down[u] /\ hung'[u] = hung[u]
    /\ InHand(u)' = InHand(u) /\ Counted(u)' = Counted(u)
    /\ u \in closed' <=> u \in closed
    /\ u \in batch' => u \in batch

LEMMA SparedStays ==
  ASSUME DataInv, NEW u \in Transfers, Spared(u), sound' = sound
  PROVE  Counts(u)' /\ Flow(u)' /\ (sound' => Sound(u)')
<1>1. Counts(u) /\ Flow(u) /\ (sound => Sound(u))
  BY OfTest
<1>2. Asked(u)' = Asked(u) /\ Held(u)' = Held(u)
  BY DEF Spared, Asked, Held
<1>3. Counts(u)'
  BY <1>1, <1>2, Zenon DEF Spared, Counts, Running
<1>4. Flow(u)'
  BY <1>1, <1>2, Zenon DEF Spared, Flow, Running
<1>5. sound' => Sound(u)'
  BY <1>1, <1>2, Zenon DEF Spared, Sound
<1> QED BY <1>3, <1>4, <1>5

\* A step of one test, or about one test's connection, spares all the others
LEMMA Together ==
  ASSUME DataInv, sound' = sound, NEW t \in Transfers,
         \A u \in Transfers \ {t} : Spared(u),
         TypesInv', HelperInv', Counts(t)', Flow(t)', sound => Sound(t)'
  PROVE  DataInv'
<1>1. \A u \in Transfers : Counts(u)' /\ Flow(u)' /\ (sound' => Sound(u)')
  BY SparedStays
<1> QED BY <1>1 DEF DataInv, CountsInv, FlowInv, SoundInv

LEMMA ConnectPreserves ==
  ASSUME DataInv, NEW t \in Transfers, Connect(t) PROVE DataInv'
<1> USE DEF Connect, Goto, loopVars, streamVars
<1>1. TypesInv /\ QueueInv /\ t \notin watched \union closed \union Queued
  BY DEF DataInv, HelperInv
<1>2. /\ pending' \in [Services -> Seq(Transfers)] /\ Queued' = Queued \union {t} /\ QueueInv'
      /\ \A s \in Services : pending[s] # <<>> => pending'[s] # <<>>
  BY <1>1, Joins
<1>3. TypesInv' /\ at'[t] = "sending"
  BY <1>1, <1>2 DEF TypesInv
<1>4. \A u \in Transfers \ {t} : Spared(u)
  BY <1>1 DEF Spared, InHand, Counted, TypesInv
<1>5. HelperInv'
  <2>1. \A u \in watched \union closed \union Queued' : at'[u] # "off"
    BY <1>1, <1>2 DEF DataInv, HelperInv, TypesInv
  <2> QED BY <1>1, <1>2, <2>1 DEF DataInv, HelperInv
<1>6. Counts(t) /\ Flow(t) /\ (sound => Sound(t)) /\ 0 <= Size[t] \div Block
      /\ InHand(t) = 0 /\ Counted(t) = 0 /\ calls[t] = 0 /\ Asked(t) = 0
  <2>1. serving # t /\ ~(sink_totals[t] >= 0)
    BY <1>1, DataConstants DEF DataInv, HelperInv
  <2>2. InHand(t) = 0 /\ Counted(t) = 0
    BY <2>1, OfTest DEF InHand, Counted
  <2>3. calls[t] = 0
    BY OfTest DEF Counts, Running
  <2>4. 0 * Block = 0 /\ 0 <= Size[t] \div Block
    BY OfTest, Blocks, DataConstants
  <2> QED BY <2>2, <2>3, <2>4, OfTest DEF Asked
<1>7. Counts(t)'
  BY <1>3, <1>6 DEF Counts, Running, Asked
<1>8. Flow(t)'
  BY <1>1, <1>3, <1>6 DEF Flow, Running, Held, InHand, Counted, Counts
<1>9. sound => Sound(t)'
  <2>1. Asked(t)' = 0
    BY <1>6 DEF Asked
  <2> QED BY <1>1, <1>3, <1>6, <2>1 DEF Sound, Counts, Running
<1> QED BY <1>3, <1>4, <1>5, <1>7, <1>8, <1>9, Together

LEMMA SendBeginsPreserves ==
  ASSUME DataInv, NEW t \in Transfers, SendBegins(t) PROVE DataInv'
<1> USE DEF SendBegins, loopVars, streamVars
<1> PICK n : n = Chunk(t)
  OBVIOUS
<1>1. /\ n \in 0..Block /\ total_sent[t] + n <= Size[t]
      /\ Service[t] = "echo" => n = Block /\ calls[t] + 1 <= Size[t] \div Block
  <2>1. CASE Service[t] = "echo"
    <3>1. Asked(t) + Block <= Size[t] /\ Size[t] \div Block \in Nat
      BY <2>1, OfTest, Blocks DEF MoreToSend, Asked
    <3> QED BY <2>1, <3>1, OfTest, DataConstants DEF Chunk, MoreToSend, Counts
  <2>2. CASE Service[t] # "echo"
    <3>1. Size[t] - total_sent[t] \in Nat
      BY <2>2, OfTest DEF MoreToSend
    <3> QED BY <2>2, <3>1, OfTest, DataConstants DEF Chunk, Smaller
  <2> QED BY <2>1, <2>2
<1>2. TypesInv' /\ calls'[t] = calls[t] + 1 /\ due'[t] = n
  <2>1. TypesInv /\ due' = [due EXCEPT ![t] = n] /\ calls' = [calls EXCEPT ![t] = calls[t] + 1]
    BY DEF DataInv
  <2>2. calls[t] + 1 \in Nat
    BY OfTest
  <2>3. /\ due' \in [Transfers -> 0..Block] /\ due'[t] = n
        /\ calls' \in [Transfers -> Nat] /\ calls'[t] = calls[t] + 1
    BY <1>1, <2>1, <2>2 DEF TypesInv
  <2> QED BY <2>1, <2>3 DEF TypesInv
<1>3. \A u \in Transfers \ {t} : Spared(u)
  BY DEF Spared, InHand, Counted, DataInv, TypesInv
<1>4. HelperInv'
  BY HelperUntouched DEF DataInv
<1>5. Asked(t)' = Asked(t) + Block
  BY <1>2, OfTest, Blocks DEF Asked
<1>6. Counts(t)'
  BY <1>1, <1>2, <1>5, OfTest DEF Counts, Running
<1>7. Flow(t)'
  BY OfTest DEF Flow, Running, Held, InHand, Counted
<1>8. sound => Sound(t)'
  BY <1>1, <1>2, <1>5, OfTest DEF Sound
<1> QED BY <1>2, <1>3, <1>4, <1>6, <1>7, <1>8, Together

LEMMA SendProceedsPreserves ==
  ASSUME DataInv, NEW t \in Transfers, SendProceeds(t) PROVE DataInv'
<1> USE DEF SendProceeds, loopVars
<1>1. PICK rest \in {due[t] - 1} \union (IF sound THEN {} ELSE {0}) : due' = [due EXCEPT ![t] = rest]
  OBVIOUS
<1>2. /\ rest \in Nat /\ rest + 1 <= due[t] /\ (sound => rest + 1 = due[t])
      /\ up[t] + 1 \in 0..UpRoom /\ total_sent[t] + 1 \in Nat
  BY <1>1, OfTest, DataConstants
<1>3. /\ TypesInv' /\ up'[t] = up[t] + 1 /\ total_sent'[t] = total_sent[t] + 1 /\ due'[t] = rest
      /\ rest \in 0..Block
  <2>1. rest \in 0..Block
    BY <1>2, OfTest, DataConstants
  <2> QED BY <1>1, <1>2, <2>1 DEF DataInv, TypesInv
<1>4. \A u \in Transfers \ {t} : Spared(u)
  BY <1>1 DEF Spared, InHand, Counted, DataInv, TypesInv
<1>5. HelperInv'
  BY HelperUntouched DEF DataInv
<1>6. Asked(t)' = Asked(t) /\ Held(t)' = Held(t) + 1
  BY <1>3, OfTest DEF Asked, Held, InHand, Counted
<1>7. Counts(t)' /\ Running(t)
  BY <1>2, <1>3, <1>6, OfTest DEF Counts, Running
<1>8. Flow(t)'
  BY <1>3, <1>6, <1>7, OfTest DEF Flow, Running
<1>9. sound => Sound(t)'
  BY <1>2, <1>3, <1>6, OfTest DEF Sound, Counts
<1> QED BY <1>3, <1>4, <1>5, <1>7, <1>8, <1>9, Together

\* The end of a test with the word it reports, which is no failure if the
\* network is sound
LEMMA LeavePreserves ==
  ASSUME DataInv, NEW t \in Transfers, NEW word \in {"none", "passed", "failed"}, Leave(t, word),
         sound => word # "failed", at[t] # "off"
  PROVE  DataInv'
<1> USE DEF Leave, Goto, loopVars
<1>1. /\ TypesInv' /\ at'[t] = "ended" /\ calls'[t] = 0 /\ due'[t] = 0 /\ total_sent'[t] = 0
      /\ total_recv'[t] = 0 /\ hung'[t] # "open" /\ verdict'[t] = word
  <2>1. TypesInv /\ 0 \in 0..Block /\ 0 \in 0..UpRoom /\ 0 \in 0..DownRoom
    BY DataConstants DEF DataInv
  <2>2. up' \in [Transfers -> 0..UpRoom]
    BY <2>1 DEF TypesInv
  <2>3. hung' \in [Transfers -> {"open", "closed", "reset"}] /\ hung'[t] # "open"
    BY <2>1 DEF TypesInv
  <2> QED BY <2>1, <2>2, <2>3 DEF TypesInv
<1>2. \A u \in Transfers \ {t} : Spared(u)
  BY DEF Spared, InHand, Counted, DataInv, TypesInv
<1>3. HelperInv'
  BY <1>1, HelperUntouched DEF DataInv, TypesInv
<1>4. Asked(t)' = 0 /\ 0 <= Size[t] \div Block
  BY <1>1, OfTest, Blocks, DataConstants DEF Asked
<1>5. Counts(t)'
  BY <1>1, <1>4, OfTest DEF Counts
<1>6. Flow(t)'
  BY <1>1 DEF Flow, Running
<1>7. sound => Sound(t)'
  BY <1>1 DEF Sound
<1> QED BY <1>1, <1>2, <1>3, <1>5, <1>6, <1>7, Together

\* On a sound network a loop of send() ends with everything sent
LEMMA SoundlySent ==
  ASSUME DataInv, sound, NEW t \in Transfers, SendingOver(t)
  PROVE  total_sent[t] = Size[t]
<1>1. at[t] = "sending" /\ due[t] = 0 /\ ~MoreToSend(t) /\ Counts(t) /\ Sound(t)
  BY OfTest DEF SendingOver, Sound
<1>2. CASE Service[t] = "echo"
  <2>1. Size[t] \div Block \in Nat /\ calls[t] = Size[t] \div Block
    <3> DEFINE d == Size[t] \div Block
    <3>1. d \in Nat /\ calls[t] \in Nat
      BY OfTest, Blocks
    <3>2. calls[t] <= d /\ ~(calls[t] < d)
      BY <1>1, <1>2, Zenon DEF MoreToSend, Counts
    <3> HIDE DEF d
    <3>3. calls[t] = d
      BY <3>1, <3>2
    <3> QED BY <3>1, <3>3 DEF d
  <2>2. Asked(t) = Size[t]
    BY <1>2, <2>1, OfTest, Blocks, DataConstants DEF Asked
  <2> QED BY <1>1, <1>2, <2>2, OfTest DEF Sound
<1>3. CASE Service[t] # "echo"
  BY <1>1, <1>3, OfTest DEF MoreToSend, Counts
<1> QED BY <1>2, <1>3

LEMMA TurnToReceivePreserves ==
  ASSUME DataInv, NEW t \in Transfers, TurnToReceive(t) PROVE DataInv'
<1> USE DEF TurnToReceive, Goto, SendingOver, loopVars, streamVars
<1>1. TypesInv' /\ at'[t] = "receiving" /\ due'[t] = 0
  <2>1. TypesInv /\ 0 \in 0..Block
    BY DataConstants DEF DataInv
  <2>2. due' \in [Transfers -> 0..Block] /\ due'[t] = 0
    BY <2>1 DEF TypesInv
  <2> QED BY <2>1, <2>2 DEF TypesInv
<1>2. \A u \in Transfers \ {t} : Spared(u)
  BY DEF Spared, InHand, Counted, DataInv, TypesInv
<1>3. HelperInv'
  BY <1>1, HelperUntouched DEF DataInv, TypesInv
<1>4. Asked(t)' = Asked(t) /\ Held(t)' = Held(t)
  BY DEF Asked, Held, InHand, Counted
<1>5. Counts(t)'
  BY <1>1, <1>4, OfTest DEF Counts, Running
<1>6. Flow(t)'
  BY <1>1, <1>4, OfTest DEF Flow, Running
<1>7. sound => Sound(t)'
  BY <1>1, OfTest, SoundlySent DEF Sound
<1> QED BY <1>1, <1>2, <1>3, <1>5, <1>6, <1>7, Together

LEMMA ReportSentPreserves ==
  ASSUME DataInv, NEW t \in Transfers, ReportSent(t) PROVE DataInv'
<1> DEFINE word == Score(total_sent[t], t)
<1>1. word \in {"none", "passed", "failed"} /\ Leave(t, word) /\ at[t] # "off"
  BY DEF ReportSent, SendingOver, Score
<1>2. sound => word # "failed"
  BY SoundlySent, OfTest, DataConstants DEF ReportSent, Score
<1> QED BY <1>1, <1>2, LeavePreserves

LEMMA ReceivePreserves ==
  ASSUME DataInv, NEW t \in Transfers, Receive(t) PROVE DataInv'
<1> USE DEF Receive, loopVars
<1> DEFINE room == Block - (total_recv[t] % Block)
<1>1. room \in Nat
  BY OfTest, DataConstants
<1>2. PICK n \in 1..Smaller(down[t], room) :
        /\ total_recv' = [total_recv EXCEPT ![t] = @ + n]
        /\ down' = [down EXCEPT ![t] = @ - n]
  OBVIOUS
<1> HIDE DEF room
<1>3. n \in Nat /\ down[t] - n \in Nat /\ down[t] - n <= DownRoom /\ total_recv[t] + n \in Nat
  <2>1. PICK k \in Nat : k = Smaller(down[t], room) /\ k <= down[t]
    BY <1>1, OfTest, SmallerOf
  <2>2. n \in Nat /\ n <= down[t]
    BY <1>2, <2>1, OfTest
  <2> QED BY <2>2, OfTest, DataConstants
<1>4. TypesInv' /\ down'[t] = down[t] - n /\ total_recv'[t] = total_recv[t] + n
  <2>1. TypesInv /\ down[t] - n \in 0..DownRoom
    BY <1>3, DataConstants DEF DataInv
  <2>2. /\ down' \in [Transfers -> 0..DownRoom] /\ down'[t] = down[t] - n
        /\ total_recv' \in [Transfers -> Nat] /\ total_recv'[t] = total_recv[t] + n
    BY <1>2, <1>3, <2>1 DEF TypesInv
  <2> QED BY <2>1, <2>2 DEF TypesInv
<1>5. \A u \in Transfers \ {t} : Spared(u)
  BY <1>2 DEF Spared, InHand, Counted, DataInv, TypesInv
<1>6. HelperInv'
  BY HelperUntouched DEF DataInv
<1>7. Asked(t)' = Asked(t) /\ Held(t)' = Held(t)
  BY <1>3, <1>4, OfTest DEF Asked, Held, InHand, Counted
<1>8. Counts(t)'
  BY <1>7, OfTest DEF Counts, Running
<1>9. Flow(t)'
  BY <1>4, <1>7, OfTest DEF Flow, Running
<1>10. sound => Sound(t)'
  BY <1>7, OfTest DEF Sound
<1> QED BY <1>4, <1>5, <1>6, <1>8, <1>9, <1>10, Together

LEMMA ReportReceivedPreserves ==
  ASSUME DataInv, NEW t \in Transfers, ReportReceived(t) PROVE DataInv'
<1>1. PICK word \in {Score(total_recv[t], t)} \union (IF sound THEN {} ELSE {"failed"}) : Leave(t, word)
  BY DEF ReportReceived
<1>2. word \in {"none", "passed", "failed"} /\ at[t] = "receiving" /\ Service[t] = "echo"
  BY OfTest DEF ReportReceived, Score, Counts
<1>3. ASSUME sound PROVE total_recv[t] >= Size[t]
  <2>1. CASE NothingComes(t)
    <3>1. t \notin closed /\ total_sent[t] = Size[t] /\ Held(t) = total_sent[t]
      BY <1>2, <1>3, OfTest DEF Sound, Flow, Running
    <3>2. Counted(t) = 0
      BY <1>2, OfTest DEF DataInv, HelperInv, Counted
    <3> QED BY <1>3, <2>1, <3>1, <3>2, OfTest DEF NothingComes, Held
  <2> QED BY <2>1 DEF ReportReceived
<1>4. sound => word # "failed"
  BY <1>1, <1>3, OfTest, DataConstants DEF Score
<1> QED BY <1>1, <1>2, <1>4, LeavePreserves

LEMMA ConnectFailsPreserves ==
  ASSUME DataInv, NEW t \in Transfers, ConnectFails(t) PROVE DataInv'
<1> USE DEF ConnectFails, Goto, loopVars, streamVars
<1>1. TypesInv' /\ at'[t] = "ended"
  BY DEF DataInv, TypesInv
<1>2. \A u \in Transfers \ {t} : Spared(u)
  BY DEF Spared, InHand, Counted, DataInv, TypesInv
<1>3. HelperInv'
  BY <1>1, HelperUntouched DEF DataInv, TypesInv
<1>4. Counts(t)' /\ Flow(t)'
  BY <1>1, OfTest DEF Counts, Running, Asked, Flow
<1> QED BY <1>1, <1>2, <1>3, <1>4, Together

LEMMA CrashPreserves ==
  ASSUME DataInv, NEW t \in Transfers, Crash(t) PROVE DataInv'
  BY LeavePreserves DEF Crash
-----------------------------------------------------------------------------
(***************************************************************************)
(* Steps of the helper                                                     *)
(***************************************************************************)
LEMMA SelectPreserves ==
  ASSUME DataInv, Select PROVE DataInv'
<1> USE DEF Select, testVars, streamVars
<1>1. TypesInv'
  <2>1. batch' \in SUBSET (Transfers \union Services)
    BY DEF DataInv, TypesInv, Ready
  <2> QED BY <2>1 DEF DataInv, TypesInv
<1>2. HelperInv'
  <2>1. Queued' = Queued /\ QueueInv' /\ serving = Nobody
    BY DEF DataInv, HelperInv, Queued, QueueInv
  <2>2. batch' \ Services \subseteq watched /\ \A s \in batch' \intersect Services : pending[s] # <<>>
    BY DataConstants DEF Ready, DataInv, TypesInv
  <2> QED BY <2>1, <2>2 DEF DataInv, HelperInv
<1>3. CountsInv' /\ FlowInv'
  BY DEF DataInv, CountsInv, Counts, FlowInv, Flow, Running, Asked, Held, InHand, Counted
<1>4. SoundInv'
  <2>1. \A u \in Transfers : u \in batch' => up[u] > 0 \/ hung[u] # "open"
    BY DataConstants DEF Ready
  <2> QED BY <2>1 DEF DataInv, SoundInv, Sound, Asked
<1> QED BY <1>1, <1>2, <1>3, <1>4 DEF DataInv

LEMMA BatchDonePreserves ==
  ASSUME DataInv, BatchDone PROVE DataInv'
<1> USE DEF BatchDone, testVars, streamVars
<1>1. TypesInv'
  BY DEF DataInv, TypesInv
<1>2. HelperInv'
  <2>1. Queued' = Queued /\ QueueInv' /\ serving = Nobody
    BY DEF DataInv, HelperInv, Queued, QueueInv
  <2> QED BY <2>1 DEF DataInv, HelperInv
<1>3. CountsInv' /\ FlowInv' /\ SoundInv'
  BY DEF DataInv, CountsInv, Counts, FlowInv, Flow, SoundInv, Sound, Running, Asked, Held, InHand, Counted
<1> QED BY <1>1, <1>2, <1>3 DEF DataInv

LEMMA Accepted ==
  ASSUME DataInv, NEW s \in Services, Handling(s),
         pending' = [pending EXCEPT ![s] = Tail(@)],
         watched' = watched \union {Head(pending[s])},
         sink_totals' = IF s = "sink" THEN [sink_totals EXCEPT ![Head(pending[s])] = 0] ELSE sink_totals,
         UNCHANGED <<sound, testVars, streamVars, at_helper, closed, serving, unsent>>
  PROVE  DataInv'
<1> USE DEF Handling, testVars, streamVars
<1>1. TypesInv /\ QueueInv /\ pending[s] # <<>> /\ serving = Nobody
  BY DEF DataInv, HelperInv
<1>2. PICK h : h = Head(pending[s])
  OBVIOUS
<1>3. /\ pending' \in [Services -> Seq(Transfers)] /\ h \in Queued \intersect Transfers
      /\ Service[h] = s /\ Queued' = Queued \ {h} /\ QueueInv'
      /\ \A r \in Services \ {s} : pending'[r] = pending[r]
  BY <1>1, <1>2, Served
<1>4. h \notin watched \union closed /\ at[h] # "off" /\ ~(sink_totals[h] >= 0)
  BY <1>3 DEF DataInv, HelperInv
<1>5. sink_totals' \in [Transfers -> Int]
      /\ \A u \in Transfers : sink_totals'[u] = IF u = h /\ s = "sink" THEN 0 ELSE sink_totals[u]
  BY <1>1, <1>2, <1>3 DEF TypesInv
<1>6. TypesInv'
  BY <1>1, <1>2, <1>3, <1>5 DEF TypesInv
<1>7. HelperInv'
  <2>1. \A u \in Transfers : sink_totals'[u] >= 0 <=> u \in watched' /\ Service[u] = "sink"
    BY <1>2, <1>3, <1>4, <1>5 DEF DataInv, HelperInv
  <2>2. \A r \in batch' \intersect Services : pending'[r] # <<>>
    BY <1>3 DEF DataInv, HelperInv
  <2> QED BY <1>1, <1>2, <1>3, <1>4, <2>1, <2>2 DEF DataInv, HelperInv
<1>8. \A u \in Transfers : Spared(u)
  <2>1. ASSUME NEW u \in Transfers PROVE Counted(u)' = Counted(u)
    <3>1. sink_totals[u] \in Int /\ sink_totals'[u] = IF u = h /\ s = "sink" THEN 0 ELSE sink_totals[u]
      BY <1>1, <1>5 DEF TypesInv
    <3> QED BY <1>4, <3>1 DEF Counted
  <2> QED BY <2>1 DEF Spared, InHand
<1> QED BY <1>3, <1>6, <1>7, <1>8, SparedStays DEF DataInv, CountsInv, FlowInv, SoundInv

LEMMA AcceptsPreserve ==
  ASSUME DataInv, AcceptEcho \/ AcceptSink PROVE DataInv'
<1>1. "echo" \in Services /\ "sink" \in Services
  BY DEF Services
<1>2. CASE AcceptEcho
  BY <1>1, <1>2, Accepted DEF AcceptEcho
<1>3. CASE AcceptSink
  BY <1>1, <1>3, Accepted DEF AcceptSink
<1> QED BY <1>2, <1>3

LEMMA HandleEchoPreserves ==
  ASSUME DataInv, NEW t \in Transfers, HandleEcho(t) PROVE DataInv'
<1> USE DEF HandleEcho, Handling, testVars
<1>1. PICK n \in 1..Smaller(up[t], EchoRead) : up' = [up EXCEPT ![t] = @ - n] /\ unsent' = n
  OBVIOUS
<1>2. n \in Nat /\ up[t] - n \in Nat /\ up[t] - n <= UpRoom
  <2>1. PICK k \in Nat : k = Smaller(up[t], EchoRead) /\ k <= up[t]
    BY OfTest, SmallerOf, DataConstants
  <2>2. n \in Nat /\ n <= up[t]
    BY <1>1, <2>1, OfTest
  <2> QED BY <2>2, OfTest, DataConstants
<1>3. serving = Nobody /\ t \in watched /\ t \notin Services /\ t # Nobody /\ at[t] # "off"
  BY DataConstants DEF DataInv, HelperInv
<1>4. TypesInv' /\ up'[t] = up[t] - n
  <2>1. TypesInv /\ up[t] - n \in 0..UpRoom
    BY <1>2, DataConstants DEF DataInv
  <2>2. up' \in [Transfers -> 0..UpRoom] /\ up'[t] = up[t] - n
    BY <1>1, <2>1 DEF TypesInv
  <2> QED BY <1>1, <1>2, <2>1, <2>2 DEF TypesInv
<1>5. \A u \in Transfers \ {t} : Spared(u)
  BY <1>1, <1>3, DataConstants DEF Spared, InHand, Counted, DataInv, TypesInv
<1>6. HelperInv'
  <2>1. Queued' = Queued /\ QueueInv'
    BY DEF DataInv, HelperInv, Queued, QueueInv
  <2> QED BY <1>3, <2>1 DEF DataInv, HelperInv
<1>7. Asked(t)' = Asked(t) /\ Held(t)' = Held(t)
  BY <1>1, <1>2, <1>3, <1>4, OfTest DEF Asked, Held, InHand, Counted
<1>8. Counts(t)'
  BY <1>7, OfTest DEF Counts, Running
<1>9. Flow(t)'
  BY <1>3, <1>4, <1>7, OfTest DEF Flow, Running
<1>10. sound => Sound(t)'
  BY <1>4, <1>7, OfTest DEF Sound
<1> QED BY <1>4, <1>5, <1>6, <1>8, <1>9, <1>10, Together

LEMMA HandleSinkPreserves ==
  ASSUME DataInv, NEW t \in Transfers, HandleSink(t) PROVE DataInv'
<1> USE DEF HandleSink, Handling, testVars
<1>1. PICK n \in 1..up[t] : up' = [up EXCEPT ![t] = @ - n] /\ sink_totals' = [sink_totals EXCEPT ![t] = @ + n]
  OBVIOUS
<1>2. /\ n \in Nat /\ up[t] - n \in Nat /\ up[t] - n <= UpRoom /\ sink_totals[t] + n \in Int
  BY <1>1, OfTest, DataConstants
<1>3. serving = Nobody /\ t \in watched /\ t \notin Services /\ sink_totals[t] >= 0
  BY DataConstants DEF DataInv, HelperInv
<1>4. TypesInv' /\ up'[t] = up[t] - n /\ sink_totals'[t] = sink_totals[t] + n
  <2>1. TypesInv /\ up[t] - n \in 0..UpRoom
    BY <1>2, DataConstants DEF DataInv
  <2>2. /\ up' \in [Transfers -> 0..UpRoom] /\ up'[t] = up[t] - n
        /\ sink_totals' \in [Transfers -> Int] /\ sink_totals'[t] = sink_totals[t] + n
    BY <1>1, <1>2, <2>1 DEF TypesInv
  <2> QED BY <2>1, <2>2 DEF TypesInv
<1>5. \A u \in Transfers \ {t} : Spared(u)
  BY <1>1 DEF Spared, InHand, Counted, DataInv, TypesInv
<1>6. HelperInv'
  <2>1. Queued' = Queued /\ QueueInv'
    BY DEF DataInv, HelperInv, Queued, QueueInv
  <2>2. \A u \in Transfers : sink_totals'[u] >= 0 <=> sink_totals[u] >= 0
    <3>1. \A u \in Transfers \ {t} : sink_totals'[u] = sink_totals[u]
      BY <1>1 DEF DataInv, TypesInv
    <3>2. sink_totals'[t] >= 0
      BY <1>1, <1>2, <1>3, <1>4, OfTest
    <3> QED BY <1>3, <3>1, <3>2
  <2> QED BY <1>3, <2>1, <2>2 DEF DataInv, HelperInv
<1>7. Asked(t)' = Asked(t) /\ Held(t)' = Held(t)
  BY <1>1, <1>2, <1>3, <1>4, OfTest DEF Asked, Held, InHand, Counted
<1>8. Counts(t)'
  BY <1>7, OfTest DEF Counts, Running
<1>9. Flow(t)'
  BY <1>3, <1>4, <1>7, OfTest DEF Flow, Running
<1>10. sound => Sound(t)'
  BY <1>4, <1>7, OfTest DEF Sound
<1> QED BY <1>4, <1>5, <1>6, <1>8, <1>9, <1>10, Together

\* A connection is dropped that is at its end, and with it what is in hand
LEMMA Dropped ==
  ASSUME DataInv, NEW t \in Transfers, t \in watched, t \notin batch', Drop(t),
         sound => at[t] = "ended", at_helper' = "dispatch",
         serving = Nobody \/ serving = t, serving' = Nobody, unsent' \in Nat,
         batch' \subseteq batch,
         UNCHANGED <<sound, testVars, pending, streamVars>>
  PROVE  DataInv'
<1> USE DEF Drop, testVars, streamVars
<1>1. TypesInv' /\ sink_totals'[t] = -1
  <2>1. TypesInv
    BY DEF DataInv
  <2>2. sink_totals' \in [Transfers -> Int] /\ sink_totals'[t] = -1
    BY <2>1 DEF TypesInv
  <2> QED BY <2>1, <2>2 DEF TypesInv
<1>2. \A u \in Transfers \ {t} : Spared(u)
  BY DataConstants DEF Spared, InHand, Counted, DataInv, TypesInv
<1>3. HelperInv'
  <2>1. Queued' = Queued /\ QueueInv' /\ t \notin Queued
    BY DEF DataInv, HelperInv, Queued, QueueInv
  <2>2. \A u \in Transfers : sink_totals'[u] >= 0 <=> u \in watched' /\ Service[u] = "sink"
    BY <1>1 DEF DataInv, HelperInv, TypesInv
  <2>3. batch' \ Services \subseteq watched'
    BY DEF DataInv, HelperInv
  <2> QED BY <2>1, <2>2, <2>3 DEF DataInv, HelperInv
<1>4. Asked(t)' = Asked(t) /\ Held(t)' <= Held(t)
  <2>1. InHand(t)' = 0 /\ Counted(t)' = 0
    BY <1>1, DataConstants DEF InHand, Counted
  <2> QED BY <2>1, OfTest DEF Asked, Held
<1>5. Counts(t)'
  BY <1>4, OfTest DEF Counts, Running
<1>6. Flow(t)'
  <2>1. Held(t)' \in Nat /\ t \in closed'
    BY <1>1, OfTest, DataConstants DEF Held, InHand, Counted
  <2> QED BY <1>4, <2>1, OfTest DEF Flow, Running
<1>7. sound => Sound(t)'
  BY <1>4, OfTest DEF Sound
<1> QED BY <1>1, <1>2, <1>3, <1>5, <1>6, <1>7, Together

LEMMA HandleEndPreserves ==
  ASSUME DataInv, NEW t \in Transfers, HandleEnd(t) PROVE DataInv'
<1>1. /\ serving = Nobody /\ serving' = Nobody /\ unsent' \in Nat /\ t \in watched
      /\ at_helper' = "dispatch" /\ batch' = batch \ {t}
  BY DataConstants DEF HandleEnd, Handling, DataInv, HelperInv, TypesInv
<1>2. sound => at[t] = "ended"
  BY OfTest DEF HandleEnd, Handling, HasBytes, Sound, Flow
<1> QED BY <1>1, <1>2, Dropped DEF HandleEnd

LEMMA SendallProceedsPreserves ==
  ASSUME DataInv, SendallProceeds PROVE DataInv'
<1> USE DEF SendallProceeds, testVars
<1>1. PICK t \in Transfers : t = serving
  BY DEF DataInv, HelperInv, TypesInv
<1>2. unsent - 1 \in Nat /\ down[t] + 1 \in 0..DownRoom /\ down' = [down EXCEPT ![t] = @ + 1]
  BY <1>1, OfTest, DataConstants DEF DataInv, TypesInv
<1>3. TypesInv' /\ down'[t] = down[t] + 1
  BY <1>2 DEF DataInv, TypesInv
<1>4. \A u \in Transfers \ {t} : Spared(u)
  BY <1>1, <1>2 DEF Spared, InHand, Counted, DataInv, TypesInv
<1>5. HelperInv'
  <2>1. Queued' = Queued /\ QueueInv'
    BY DEF DataInv, HelperInv, Queued, QueueInv
  <2> QED BY <2>1 DEF DataInv, HelperInv
<1>6. Asked(t)' = Asked(t) /\ Held(t)' = Held(t)
  BY <1>1, <1>2, <1>3, OfTest DEF Asked, Held, InHand, Counted, DataInv, TypesInv
<1>7. at[t] # "off"
  BY <1>1, DataConstants DEF DataInv, HelperInv
<1>8. Counts(t)'
  BY <1>6, OfTest DEF Counts, Running
<1>9. Flow(t)'
  BY <1>6, <1>7, OfTest DEF Flow, Running
<1>10. sound => Sound(t)'
  BY <1>6, OfTest DEF Sound
<1> QED BY <1>3, <1>4, <1>5, <1>8, <1>9, <1>10, Together

LEMMA SendallToClosedPreserves ==
  ASSUME DataInv, SendallToClosed PROVE DataInv'
<1> USE DEF SendallToClosed, testVars
<1>1. PICK t \in Transfers : t = serving
  BY DEF DataInv, HelperInv, TypesInv
<1>2. TypesInv' /\ hung'[t] = "reset" /\ at[t] = "ended"
  <2>1. TypesInv /\ at[t] = "ended"
    BY <1>1, OfTest DEF Flow, DataInv
  <2>2. hung' \in [Transfers -> {"open", "closed", "reset"}] /\ hung'[t] = "reset"
    BY <1>1, <2>1 DEF TypesInv
  <2>3. unsent' \in Nat
    BY <2>1 DEF TypesInv
  <2> QED BY <2>1, <2>2, <2>3 DEF TypesInv
<1>3. \A u \in Transfers \ {t} : Spared(u)
  BY <1>1 DEF Spared, InHand, Counted, DataInv, TypesInv
<1>4. HelperInv'
  <2>1. Queued' = Queued /\ QueueInv'
    BY DEF DataInv, HelperInv, Queued, QueueInv
  <2> QED BY <2>1 DEF DataInv, HelperInv
<1>5. Asked(t)' = Asked(t)
  BY DEF Asked
<1>6. Counts(t)'
  BY <1>5, OfTest DEF Counts, Running
<1>7. Flow(t)' /\ (sound => Sound(t)')
  BY <1>2, <1>5, OfTest DEF Flow, Sound, Running
<1> QED BY <1>2, <1>3, <1>4, <1>6, <1>7, Together

LEMMA SendallReturnsPreserves ==
  ASSUME DataInv, SendallReturns PROVE DataInv'
<1> USE DEF SendallReturns, testVars, streamVars
<1>1. TypesInv'
  BY DEF DataInv, TypesInv
<1>2. \A u \in Transfers : Spared(u)
  BY DataConstants DEF Spared, InHand, Counted
<1>3. HelperInv'
  <2>1. Queued' = Queued /\ QueueInv'
    BY DEF DataInv, HelperInv, Queued, QueueInv
  <2> QED BY <2>1 DEF DataInv, HelperInv
<1> QED BY <1>1, <1>2, <1>3, SparedStays DEF DataInv, CountsInv, FlowInv, SoundInv

LEMMA SendallRaisesPreserves ==
  ASSUME DataInv, SendallRaises PROVE DataInv'
<1> USE DEF SendallRaises, testVars
<1>1. PICK t \in Transfers : t = serving
  BY DEF DataInv, HelperInv, TypesInv
<1>2. t \in watched /\ t \notin batch /\ at[t] = "ended"
  BY <1>1, DataConstants, OfTest DEF DataInv, HelperInv, Flow
<1> QED BY <1>1, <1>2, Dropped

LEMMA ProcessEndsPreserves ==
  ASSUME DataInv, ~sound, ProcessEnds PROVE DataInv'
<1> USE DEF ProcessEnds, testVars
<1>1. PICK kept \in SUBSET Transfers : down' = [t \in Transfers |-> IF t \in kept THEN down[t] ELSE 0]
  OBVIOUS
<1>2. TypesInv'
  <2>1. TypesInv /\ \A t \in Transfers : 0 \in 0..DownRoom
    BY DataConstants DEF DataInv
  <2>2. down' \in [Transfers -> 0..DownRoom]
    BY <1>1, <2>1 DEF TypesInv
  <2> QED BY <2>1, <2>2 DEF TypesInv
<1>3. HelperInv'
  <2>1. Queued' = {} /\ QueueInv'
    BY DEF Queued, QueueInv, Range, IsInjective
  <2> QED BY <2>1, DataConstants DEF HelperInv
<1>4. CountsInv'
  BY DEF DataInv, CountsInv, Counts, Running, Asked
<1>5. ASSUME NEW t \in Transfers PROVE Flow(t)'
  <2>1. down'[t] \in Nat /\ down'[t] <= down[t] /\ InHand(t)' = 0 /\ Counted(t)' = 0
    BY <1>1, OfTest, DataConstants DEF InHand, Counted
  <2>2. Held(t)' = up[t] + down'[t] + total_recv[t]
    BY <2>1, OfTest DEF Held
  <2>3. Held(t)' \in Nat /\ Held(t)' <= Held(t)
    <3> HIDE DEF ProcessEnds
    <3> QED BY <2>1, <2>2, OfTest DEF Held
  <2> QED BY <1>5, <2>1, <2>3, OfTest DEF Flow, Running
<1> QED BY <1>2, <1>3, <1>4, <1>5 DEF DataInv, FlowInv, SoundInv
-----------------------------------------------------------------------------
(***************************************************************************)
(* The theorems                                                            *)
(***************************************************************************)
LEMMA DataStep ==
  DataInv /\ [DataNext]_dataVars => DataInv'
<1> SUFFICES ASSUME DataInv, [DataNext]_dataVars PROVE DataInv'
  OBVIOUS
<1>1. ASSUME NEW t \in Transfers, Connect(t) \/ ConnectFails(t) \/ TestStep(t) \/ Crash(t)
      PROVE  DataInv'
  BY <1>1, ConnectPreserves, ConnectFailsPreserves, SendBeginsPreserves, SendProceedsPreserves,
     TurnToReceivePreserves, ReportSentPreserves, ReceivePreserves, ReportReceivedPreserves,
     CrashPreserves DEF TestStep
<1>2. CASE HelperStep
  BY <1>2, SelectPreserves, BatchDonePreserves, AcceptsPreserve, HandleEchoPreserves,
     HandleSinkPreserves, HandleEndPreserves, SendallProceedsPreserves, SendallToClosedPreserves,
     SendallReturnsPreserves, SendallRaisesPreserves DEF HelperStep
<1>3. CASE Interrupted \/ AcceptRaises
  BY <1>3, ProcessEndsPreserves DEF Interrupted, AcceptRaises
<1>4. CASE UNCHANGED dataVars
  <2>1. Queued' = Queued /\ (QueueInv <=> QueueInv')
    BY <1>4 DEF Queued, QueueInv, dataVars
  <2>2. TypesInv' /\ CountsInv'
    BY <1>4 DEF DataInv, dataVars, testVars, loopVars, streamVars, TypesInv, CountsInv, Counts,
       Running, Asked
  <2>3. HelperInv'
    BY <1>4, <2>1 DEF DataInv, dataVars, testVars, loopVars, streamVars, HelperInv
  <2>4. FlowInv' /\ SoundInv'
    BY <1>4 DEF DataInv, dataVars, testVars, loopVars, streamVars, FlowInv, Flow, SoundInv, Sound,
       Running, Asked, Held, InHand, Counted
  <2> QED BY <2>2, <2>3, <2>4 DEF DataInv
<1> QED BY <1>1, <1>2, <1>3, <1>4 DEF DataNext, AllQuiet

(***************************************************************************)
(* What the rest follows from: where every connection is, what the helper  *)
(* has in hand of it, and where a test's bytes are.                        *)
(***************************************************************************)
THEOREM DataInvariant == DataSpec => []DataInv
<1> QED BY DataInitially, DataStep, PTL DEF DataSpec

(***************************************************************************)
(* No test sends or receives more than its size, no stack holds more than  *)
(* its room.                                                               *)
(***************************************************************************)
THEOREM DataTypes == DataSpec => []DataTypeOK
<1>1. DataInv => DataTypeOK
  <2> SUFFICES ASSUME DataInv PROVE DataTypeOK
    OBVIOUS
  <2>1. ASSUME NEW t \in Transfers PROVE total_sent[t] \in 0..Size[t] /\ total_recv[t] \in 0..Size[t]
    BY OfTest DEF Counts, Flow, Held, Running
  <2> QED BY <2>1 DEF DataInv, TypesInv, DataTypeOK
<1> QED BY <1>1, DataInvariant, PTL

(***************************************************************************)
(* No byte of a live connection is lost or doubled between send(), the     *)
(* select loop of bsdsocktest_helper.py and recv(), however reads, writes  *)
(* and batches of events fall.                                             *)
(***************************************************************************)
THEOREM BytesAlwaysConserved == DataSpec => []BytesConserved
<1>1. DataInv => BytesConserved
  BY OfTest DEF BytesConserved, Live, Flow, Running, Held
<1> QED BY <1>1, DataInvariant, PTL

(***************************************************************************)
(* The selector, the pending connections and _sink_totals agree about every*)
(* connection, also when a descriptor ends in the middle of a batch.       *)
(***************************************************************************)
THEOREM ConnectionsAlwaysAccounted == DataSpec => []ConnectionsAccounted
<1>1. DataInv => ConnectionsAccounted
  BY DEF DataInv, HelperInv, ConnectionsAccounted
<1> QED BY <1>1, DataInvariant, PTL

(***************************************************************************)
(* Sending everything before reading (test_sendrecv.c:600) never meets a   *)
(* sendall() that waits for the reader, if the stacks hold all but one byte.*)
(***************************************************************************)
THEOREM NoEmbraceEver == DataSpec => []NoEmbrace
<1>1. DataInv => NoEmbrace
  <2> SUFFICES ASSUME DataInv, NEW t \in Transfers, Fits(t), Embraced(t) PROVE FALSE
    BY DEF NoEmbrace
  <2>1. t \notin closed /\ unsent \in Nat
    BY DataConstants DEF DataInv, HelperInv, TypesInv, Embraced
  <2>2. Held(t) = total_sent[t] /\ Held(t) >= UpRoom + 1 + DownRoom
    BY <2>1, OfTest, DataConstants DEF Flow, Running, Held, InHand, Embraced
  <2> QED BY <2>2, OfTest, DataConstants DEF Counts, Fits, Embraced
<1> QED BY <1>1, DataInvariant, PTL

(***************************************************************************)
(* On a sound network no transfer fails, with any number of Amigas served  *)
(* by the one thread of the helper.                                        *)
(***************************************************************************)
THEOREM SoundTransfersAlwaysPass == DataSpec => []SoundTransfersPass
<1>1. DataInv => SoundTransfersPass
  BY DEF DataInv, SoundInv, Sound, SoundTransfersPass
<1> QED BY <1>1, DataInvariant, PTL
=============================================================================
