--------------------------- MODULE ResourceProofs ---------------------------
(***************************************************************************)
(* Proofs about what the tests borrow, for any descriptors, any stack and  *)
(* any list of known crashes.  First a ledger is shown to be right about   *)
(* every test, whatever fails; then, on a sound stack, a diary as well,    *)
(* and with it what each test reports.                                     *)
(***************************************************************************)
EXTENDS Diary, FiniteSetTheorems, WellFoundedInduction, TLAPS

\* The steps the current test began with
Script == IF current \in crashes THEN Spared(current) ELSE Program(current)

(***************************************************************************)
(* What the variables hold, as far as the proofs need it                   *)
(***************************************************************************)
LibFields == {"open", "pending", "watched", "due", "events", "masks", "pool", "errno_ptr", "dtable"}
OwnFields == {"dtsize", "new_dtsize", "orig", "many", "got", "rc", "complete"}

ShapeInv ==
    /\ sound \in BOOLEAN /\ allocated \in BOOLEAN /\ raised \in BOOLEAN
    /\ phase \in {"closed", "reset", "between", "test", "done"}
    /\ category \in Categories /\ current \in (Files[category].first - 1)..Files[category].last
    /\ fd \in [Locals -> Int]
    /\ DOMAIN lib = LibFields /\ DOMAIN lib.masks = MaskTags /\ lib.pool \subseteq {"socket", "copy"}
    /\ DOMAIN own = OwnFields

(***************************************************************************)
(* A ledger is right about the descriptors: those it calls open are those  *)
(* that are, each under one local,                                         *)
(***************************************************************************)
Held(b) == {l \in Locals : b.fd[l] = "open"}

DescriptorsKept(b) ==
    /\ \A l \in Locals : /\ b.fd[l] = "none" => fd[l] = None
                         /\ b.fd[l] \in {"open", "used"} => fd[l] >= 0
    /\ \A l, m \in Held(b) : fd[l] = fd[m] => l = m
    /\ \A l \in Held(b) : fd[l] \notin own.many
    /\ lib.open = {fd[l] : l \in Held(b)} \union own.many
    /\ lib.open \subseteq Descriptors
    /\ ~b.many => own.many = {}

\* about the signal,
SignalKept(b) ==
    /\ allocated = b.signal /\ (raised => b.raised)
    /\ \A m \in MaskTags : lib.masks[m] = "sigbit" <=> m \in b.masks
    /\ own.orig = "sigbit" <=> b.orig

\* and about the rest
RestKept(b) ==
    /\ lib.errno_ptr = "local" <=> b.errno
    /\ b.said = 0 => said = <<>>
    /\ b.said = 1 => Len(said) = 1
    /\ sound => /\ "socket" \in lib.pool => b.pooled
                /\ b.pooled => Descriptors \ lib.open # {}

Kept(b) == DescriptorsKept(b) /\ SignalKept(b) /\ RestKept(b)

Stands(c) == c.todo = todo /\ c.sound = sound /\ Balanced(c) /\ Kept(c.book)

Follows(c) == c \in LedgersOf(Script) /\ Stands(c)

\* A step of the test that its ledger can take as well
Carried(c) == \E d \in Moves(c) : d.todo = todo' /\ d.sound = sound' /\ Kept(d.book)'

(***************************************************************************)
(* Some ledger is right about the test in hand, and between tests there is *)
(* nothing that a ledger would have to say.                                *)
(***************************************************************************)
Clear ==
    /\ own.many = {} /\ own.orig # "sigbit"
    /\ ~allocated /\ ~raised /\ (\A m \in MaskTags : lib.masks[m] # "sigbit")
    /\ lib.errno_ptr # "local"
    /\ sound => "socket" \notin lib.pool

LedgerInv ==
    /\ phase = "test" => current >= Files[category].first /\ \E c : Follows(c)
    /\ phase # "test" => Clear /\ Len(said) <= 1
    /\ phase = "between" => lib.open = {} /\ (current >= Files[category].first => Len(said) = 1)
    /\ phase \in {"closed", "reset"} => lib.open \subseteq {0} /\ current = Files[category].first - 1
    /\ ~misclosed

ResInv == ShapeInv /\ LedgerInv
-----------------------------------------------------------------------------
LEMMA Ranges ==
  ASSUME NEW f \in Categories
  PROVE  /\ Files[f].first \in Nat /\ Files[f].last \in Nat
         /\ Files[f].first \in Nat \ {0} /\ Files[f].first <= Files[f].last
         /\ Files[f].first..Files[f].last \subseteq Tests
<1>1. f \in DOMAIN Files
  BY ResourcesAssumption
<1>2. Files[f].first \in Nat \ {0} /\ Files[f].last \in Nat /\ Files[f].first <= Files[f].last
  BY <1>1 DEF Files, Category
<1> QED BY <1>1, <1>2 DEF Tests

LessThan == {pair \in Nat \X Nat : pair[1] < pair[2]}

LEMMA LessThanWellFounded == IsWellFoundedOn(LessThan, Nat)
  BY NatLessThanWellFounded DEF OpToRel, LessThan

LEMMA LowestFree ==
  ASSUME NEW free, free \subseteq Nat, free # {}
  PROVE  (CHOOSE d \in free : \A e \in free : d <= e) \in free
<1>1. PICK i \in free : \A j \in free : ~(<<j, i>> \in LessThan)
  BY LessThanWellFounded, WFMin
<1>2. ASSUME NEW j \in free
      PROVE  i <= j
  <2>1. <<j, i>> \notin LessThan
    BY <1>1
  <2>2. <<j, i>> \in Nat \X Nat /\ <<j, i>>[1] = j /\ <<j, i>>[2] = i
    OBVIOUS
  <2> QED BY <2>1, <2>2 DEF LessThan
<1>3. \E d \in free : \A e \in free : d <= e
  BY <1>2
<1> QED BY <1>3

(***************************************************************************)
(* A call that makes a descriptor returns one that is free, or none, and   *)
(* on a sound stack none only when there is none.                          *)
(***************************************************************************)
LEMMA MadeIsFree ==
  ASSUME NEW d \in Made(lib.open)
  PROVE  /\ d \in Int /\ (d = None \/ d \in Descriptors \ lib.open)
         /\ sound /\ Descriptors \ lib.open # {} => d # None
<1> DEFINE free == Descriptors \ lib.open
<1>1. free \subseteq Nat
  BY ResourcesAssumption
<1>2. CASE free = {}
  BY <1>2 DEF Made, None
<1>3. CASE free # {}
  <2>1. (CHOOSE x \in free : \A e \in free : x <= e) \in free
    BY <1>1, <1>3, LowestFree
  <2>2. None \notin Nat
    BY DEF None
  <2>3. d \in {CHOOSE x \in free : \A e \in free : x <= e} \union May({None})
    BY <1>3 DEF Made
  <2>4. sound => May({None}) = {}
    BY DEF May
  <2>5. May({None}) \subseteq {None} /\ None \in Int
    BY DEF May, None
  <2> HIDE DEF free
  <2>6. d = None \/ d \in free
    BY <2>1, <2>3, <2>5
  <2>7. sound => d \in free
    BY <2>1, <2>3, <2>4
  <2> QED BY <1>1, <2>2, <2>5, <2>6, <2>7 DEF free
<1> QED BY <1>2, <1>3

LEMMA Balance ==
  ASSUME ShapeInv, current >= Files[category].first
  PROVE  AllBalanced(Script, LedgersOf(Script))
<1>1. current \in Tests
  BY Ranges DEF ShapeInv
<1> QED BY <1>1, BooksBalance DEF Script

(***************************************************************************)
(* What a ledger that is right allows the next step to be                  *)
(***************************************************************************)
LEMMA Allowed ==
  ASSUME NEW c, Stands(c)
  PROVE  /\ c.book \in Books
         /\ todo # <<>> => Fits(Head(todo), c.book)
         /\ todo = <<>> => Settled(c.book)
  BY DEF Stands, Balanced

(***************************************************************************)
(* A step that the ledger can take leads to a ledger of the same test.     *)
(***************************************************************************)
LEMMA Followed ==
  ASSUME ShapeInv, current >= Files[category].first, NEW c, Follows(c), todo # <<>>,
         UNCHANGED <<runVars, current>>, Carried(c)
  PROVE  \E d : Follows(d)'
<1>1. AllBalanced(Script, LedgersOf(Script)) /\ Script' = Script
  BY Balance DEF Script, runVars
<1>2. c.todo = todo /\ c \in LedgersOf(Script)
  BY DEF Follows, Stands
<1>3. PICK d \in Moves(c) : d.todo = todo' /\ d.sound = sound' /\ Kept(d.book)'
  BY DEF Carried
<1>4. d \in LedgersOf(Script) /\ Balanced(d)
  BY <1>1, <1>2, <1>3 DEF AllBalanced
<1> QED BY <1>1, <1>3, <1>4 DEF Follows, Stands

(***************************************************************************)
(* A step that is done: the rest of the steps, and one of the books that   *)
(* the step may lead to                                                    *)
(***************************************************************************)
Branching == {"if", "if_size", "if_rc", "if_helper", "if_event", "alloc"}

LEMMA Done ==
  ASSUME NEW c, Stands(c), todo' = Tail(todo), UNCHANGED runVars,
         Head(todo).op \notin Branching,
         NEW b \in After(Head(todo), c.book, c.sound), Kept(b)'
  PROVE  Carried(c)
<1>0. c.todo = todo /\ c.sound = sound /\ sound' = sound
  BY DEF Stands, runVars
<1>1. PICK d : d = [todo |-> Tail(todo), sound |-> c.sound, book |-> b]
  OBVIOUS
<1>2. d \in Ledgers(Tail(todo), c.sound, After(Head(todo), c.book, c.sound))
  BY <1>1 DEF Ledgers
<1>3. Moves(c) = Ledgers(Tail(todo), c.sound, After(Head(todo), c.book, c.sound))
  BY <1>0 DEF Moves, Branching
<1>4. d \in Moves(c) /\ d.todo = todo' /\ d.sound = sound' /\ Kept(d.book)'
  BY <1>0, <1>1, <1>2, <1>3
<1> QED BY <1>4 DEF Carried
-----------------------------------------------------------------------------
(***************************************************************************)
(* What a step leaves alone a ledger need not change.                      *)
(***************************************************************************)
LEMMA DescriptorsStay ==
  ASSUME NEW b, NEW e, DescriptorsKept(b), e.fd = b.fd, e.many = b.many,
         fd' = fd, lib'.open = lib.open, own'.many = own.many
  PROVE  DescriptorsKept(e)'
<1>1. Held(e) = Held(b)
  BY DEF Held
<1> QED BY <1>1 DEF DescriptorsKept

LEMMA SignalStays ==
  ASSUME NEW b, NEW e, SignalKept(b),
         e.signal = b.signal, e.raised = b.raised, e.masks = b.masks, e.orig = b.orig,
         UNCHANGED <<allocated, raised>>, lib'.masks = lib.masks, own'.orig = own.orig
  PROVE  SignalKept(e)'
  BY DEF SignalKept

LEMMA RestStays ==
  ASSUME NEW b, NEW e, RestKept(b), e.errno = b.errno, e.said = b.said, e.pooled = b.pooled,
         UNCHANGED <<said, sound>>, lib'.errno_ptr = lib.errno_ptr, lib'.pool = lib.pool,
         ~b.pooled \/ lib'.open = lib.open
  PROVE  RestKept(e)'
  BY DEF RestKept

(***************************************************************************)
(* A descriptor comes in, or the call for it fails.                        *)
(***************************************************************************)
LEMMA ComesIn ==
  ASSUME ShapeInv, NEW b \in Books, NEW x \in Locals, NEW d, NEW e, DescriptorsKept(b),
         b.fd[x] # "open", d = None \/ d \in Descriptors \ lib.open,
         e.fd = [b.fd EXCEPT ![x] = IF d = None THEN "none" ELSE "open"], e.many = b.many,
         fd' = [fd EXCEPT ![x] = d], lib'.open = lib.open \union ({d} \ {None}),
         own'.many = own.many
  PROVE  DescriptorsKept(e)'
<1>0. Descriptors \subseteq Nat /\ None \notin Nat /\ b.fd \in [Locals -> Statuses] /\ fd \in [Locals -> Int]
  BY ResourcesAssumption DEF None, Books, ShapeInv
<1>1. \A l \in Locals : l # x => fd'[l] = fd[l] /\ e.fd[l] = b.fd[l]
  BY <1>0
<1>2. fd'[x] = d /\ e.fd[x] = IF d = None THEN "none" ELSE "open"
  BY <1>0
<1>3. Held(e) = Held(b) \union (IF d = None THEN {} ELSE {x}) /\ x \notin Held(b)
  BY <1>1, <1>2 DEF Held
<1>4. \A l \in Held(b) : fd'[l] = fd[l] /\ fd[l] \in lib.open
  BY <1>1, <1>3 DEF Held, DescriptorsKept
<1>5. own.many \subseteq lib.open
  BY DEF DescriptorsKept
<1>6. \A l \in Locals : /\ e.fd[l] = "none" => fd'[l] = None
                        /\ e.fd[l] \in {"open", "used"} => fd'[l] >= 0
  <2>1. d = None \/ d \in Nat
    BY <1>0
  <2> QED BY <2>1, <1>1, <1>2 DEF DescriptorsKept
<1>7. \A l, m \in Held(e) : fd'[l] = fd'[m] => l = m
  BY <1>2, <1>3, <1>4 DEF DescriptorsKept
<1>8. \A l \in Held(e) : fd'[l] \notin own.many
  BY <1>2, <1>3, <1>4, <1>5 DEF DescriptorsKept
<1>9. lib'.open = {fd'[l] : l \in Held(e)} \union own.many
  <2>1. CASE d = None
    BY <2>1, <1>3, <1>4 DEF DescriptorsKept
  <2>2. CASE d # None
    <3>1. {fd'[l] : l \in Held(e)} = {fd[l] : l \in Held(b)} \union {d}
      BY <2>2, <1>2, <1>3, <1>4
    <3> QED BY <2>2, <3>1 DEF DescriptorsKept
  <2> QED BY <2>1, <2>2
<1>10. lib'.open \subseteq Descriptors
  BY DEF DescriptorsKept
<1> QED BY <1>6, <1>7, <1>8, <1>9, <1>10 DEF DescriptorsKept, Held

(***************************************************************************)
(* A local that is not open may be given any number, or none.              *)
(***************************************************************************)
LEMMA Renumbered ==
  ASSUME ShapeInv, NEW b \in Books, NEW x \in Locals, NEW d, NEW e, DescriptorsKept(b),
         b.fd[x] # "open", d = None \/ d \in Nat,
         e.fd = [b.fd EXCEPT ![x] = IF d = None THEN "none" ELSE "used"], e.many = b.many,
         fd' = [fd EXCEPT ![x] = d], lib'.open = lib.open, own'.many = own.many
  PROVE  DescriptorsKept(e)'
<1>0. None \notin Nat /\ b.fd \in [Locals -> Statuses] /\ fd \in [Locals -> Int]
  BY DEF None, Books, ShapeInv
<1>1. \A l \in Locals : l # x => fd'[l] = fd[l] /\ e.fd[l] = b.fd[l]
  BY <1>0
<1>2. fd'[x] = d /\ e.fd[x] = IF d = None THEN "none" ELSE "used"
  BY <1>0
<1>3. Held(e) = Held(b) /\ x \notin Held(b)
  BY <1>1, <1>2 DEF Held
<1>4. \A l \in Held(b) : fd'[l] = fd[l]
  BY <1>1, <1>3 DEF Held
<1>5. \A l \in Locals : /\ e.fd[l] = "none" => fd'[l] = None
                        /\ e.fd[l] \in {"open", "used"} => fd'[l] >= 0
  BY <1>0, <1>1, <1>2 DEF DescriptorsKept
<1>6. {fd'[l] : l \in Held(e)} = {fd[l] : l \in Held(b)}
  BY <1>3, <1>4
<1> QED BY <1>3, <1>4, <1>5, <1>6 DEF DescriptorsKept, Held

(***************************************************************************)
(* A local that is open gives its descriptor up, and keeps the number.     *)
(***************************************************************************)
LEMMA GivenUp ==
  ASSUME ShapeInv, NEW b \in Books, NEW x \in Locals, NEW e, DescriptorsKept(b),
         b.fd[x] = "open", e.fd = [b.fd EXCEPT ![x] = "used"], e.many = b.many,
         fd' = fd, lib'.open = lib.open \ {fd[x]}, own'.many = own.many
  PROVE  DescriptorsKept(e)'
<1>0. b.fd \in [Locals -> Statuses]
  BY DEF Books
<1>1. Held(e) = Held(b) \ {x} /\ x \in Held(b)
  BY <1>0 DEF Held
<1>2. {fd[l] : l \in Held(e)} = {fd[l] : l \in Held(b)} \ {fd[x]}
  BY <1>1 DEF DescriptorsKept
<1>3. lib'.open = {fd[l] : l \in Held(e)} \union own.many
  BY <1>1, <1>2 DEF DescriptorsKept
<1>4. \A l \in Locals : /\ e.fd[l] = "none" => fd[l] = None
                        /\ e.fd[l] \in {"open", "used"} => fd[l] >= 0
  BY <1>0 DEF DescriptorsKept
<1>5. /\ \A l, m \in Held(e) : fd[l] = fd[m] => l = m
      /\ \A l \in Held(e) : fd[l] \notin own.many
  BY <1>1 DEF DescriptorsKept
<1>6. ~e.many => own.many = {}
  BY DEF DescriptorsKept
<1> QED BY <1>3, <1>4, <1>5, <1>6 DEF DescriptorsKept, Held
-----------------------------------------------------------------------------
(***************************************************************************)
(* The books a step may lead to, step by step                              *)
(***************************************************************************)
LEMMA AfterGets ==
  ASSUME NEW s, NEW b, NEW fair, s.op \in Gets
  PROVE  After(s, b, fair) = {Becomes(b, s.x, "open"), Becomes(b, s.x, "none")}
<1>1. /\ s.op # "close" /\ s.op # "forget" /\ s.op \notin {"release", "release_copy"}
      /\ s.op # "obtain" /\ s.op \notin {"open_many", "close_many"} /\ s.op # "free"
      /\ s.op # "signal" /\ s.op \notin {"clear", "wait"} /\ s.op # "set_mask"
      /\ s.op # "save_mask" /\ s.op # "errno_ptr" /\ s.op \notin {"judge", "say"}
  BY DEF Gets
<1> QED BY <1>1, Zenon DEF After

LEMMA AfterClose ==
  ASSUME NEW s, NEW b, NEW fair, s.op = "close"
  PROVE  After(s, b, fair) = {Becomes(b, s.x, IF b.fd[s.x] = "open" THEN "used" ELSE b.fd[s.x])}
<1>1. s.op \notin Gets
  BY DEF Gets
<1> QED BY <1>1 DEF After

LEMMA AfterForget ==
  ASSUME NEW s, NEW b, NEW fair, s.op = "forget"
  PROVE  After(s, b, fair) = {Becomes(b, s.x, "none")}
<1>1. s.op \notin Gets
  BY DEF Gets
<1> QED BY <1>1 DEF After

LEMMA AfterRelease ==
  ASSUME NEW s, NEW b, NEW fair, s.op \in {"release", "release_copy"}
  PROVE  After(s, b, fair) = {Released(s, b)} \union (IF fair THEN {} ELSE {Becomes(b, s.x, "none")})
<1>1. /\ s.op \notin Gets /\ s.op # "close" /\ s.op # "forget" /\ s.op # "obtain"
      /\ s.op \notin {"open_many", "close_many"} /\ s.op # "free" /\ s.op # "signal"
      /\ s.op \notin {"clear", "wait"} /\ s.op # "set_mask" /\ s.op # "save_mask"
      /\ s.op # "errno_ptr" /\ s.op \notin {"judge", "say"}
  BY DEF Gets
<1> QED BY <1>1, Zenon DEF After

LEMMA AfterObtain ==
  ASSUME NEW s, NEW b, NEW fair, s.op = "obtain"
  PROVE  After(s, b, fair) = {[Becomes(b, s.x, "open") EXCEPT !.pooled = FALSE]}
                             \union (IF fair /\ b.pooled THEN {}
                                     ELSE {[Becomes(b, s.x, "none") EXCEPT !.pooled = FALSE]})
<1>1. /\ s.op \notin Gets /\ s.op # "close" /\ s.op # "forget"
      /\ s.op \notin {"release", "release_copy"}
      /\ s.op \notin {"open_many", "close_many"} /\ s.op # "free" /\ s.op # "signal"
      /\ s.op \notin {"clear", "wait"} /\ s.op # "set_mask" /\ s.op # "save_mask"
      /\ s.op # "errno_ptr" /\ s.op \notin {"judge", "say"}
  BY DEF Gets
<1> QED BY <1>1, Zenon DEF After

LEMMA AfterMany ==
  ASSUME NEW s, NEW b, NEW fair, s.op \in {"open_many", "close_many"}
  PROVE  After(s, b, fair) = {[b EXCEPT !.many = (s.op = "open_many")]}
<1>1. /\ s.op \notin Gets /\ s.op # "close" /\ s.op # "forget"
      /\ s.op \notin {"release", "release_copy"} /\ s.op # "obtain" /\ s.op # "free"
      /\ s.op # "signal" /\ s.op \notin {"clear", "wait"} /\ s.op # "set_mask"
      /\ s.op # "save_mask" /\ s.op # "errno_ptr" /\ s.op \notin {"judge", "say"}
  BY DEF Gets
<1> QED BY <1>1, Zenon DEF After

LEMMA AfterFree ==
  ASSUME NEW s, NEW b, NEW fair, s.op = "free"
  PROVE  After(s, b, fair) = {[b EXCEPT !.signal = FALSE]}
<1>1. /\ s.op \notin Gets /\ s.op # "close" /\ s.op # "forget"
      /\ s.op \notin {"release", "release_copy"} /\ s.op # "obtain"
      /\ s.op \notin {"open_many", "close_many"} /\ s.op # "signal"
      /\ s.op \notin {"clear", "wait"} /\ s.op # "set_mask" /\ s.op # "save_mask"
      /\ s.op # "errno_ptr" /\ s.op \notin {"judge", "say"}
  BY DEF Gets
<1> QED BY <1>1, Zenon DEF After

LEMMA AfterSignal ==
  ASSUME NEW s, NEW b, NEW fair, s.op = "signal"
  PROVE  After(s, b, fair) = {[b EXCEPT !.raised = TRUE]}
<1>1. /\ s.op \notin Gets /\ s.op # "close" /\ s.op # "forget"
      /\ s.op \notin {"release", "release_copy"} /\ s.op # "obtain"
      /\ s.op \notin {"open_many", "close_many"} /\ s.op # "free"
      /\ s.op \notin {"clear", "wait"} /\ s.op # "set_mask" /\ s.op # "save_mask"
      /\ s.op # "errno_ptr" /\ s.op \notin {"judge", "say"}
  BY DEF Gets
<1> QED BY <1>1, Zenon DEF After

LEMMA AfterClear ==
  ASSUME NEW s, NEW b, NEW fair, s.op \in {"clear", "wait"}
  PROVE  After(s, b, fair) = {[b EXCEPT !.raised = MayRaise(b.masks)]}
<1>1. /\ s.op \notin Gets /\ s.op # "close" /\ s.op # "forget"
      /\ s.op \notin {"release", "release_copy"} /\ s.op # "obtain"
      /\ s.op \notin {"open_many", "close_many"} /\ s.op # "free" /\ s.op # "signal"
      /\ s.op # "set_mask" /\ s.op # "save_mask" /\ s.op # "errno_ptr"
      /\ s.op \notin {"judge", "say"}
  BY DEF Gets
<1> QED BY <1>1, Zenon DEF After

LEMMA AfterSetMask ==
  ASSUME NEW s, NEW b, NEW fair, s.op = "set_mask"
  PROVE  After(s, b, fair) = {Masked(b, IF NamesSignal(s, b) THEN b.masks \union {s.x}
                                                    ELSE b.masks \ {s.x})}
<1>1. /\ s.op \notin Gets /\ s.op # "close" /\ s.op # "forget"
      /\ s.op \notin {"release", "release_copy"} /\ s.op # "obtain"
      /\ s.op \notin {"open_many", "close_many"} /\ s.op # "free" /\ s.op # "signal"
      /\ s.op \notin {"clear", "wait"} /\ s.op # "save_mask" /\ s.op # "errno_ptr"
      /\ s.op \notin {"judge", "say"}
  BY DEF Gets
<1> QED BY <1>1, Zenon DEF After

LEMMA AfterSaveMask ==
  ASSUME NEW s, NEW b, NEW fair, s.op = "save_mask"
  PROVE  After(s, b, fair) = {[b EXCEPT !.orig = (s.x \in b.masks)]}
<1>1. /\ s.op \notin Gets /\ s.op # "close" /\ s.op # "forget"
      /\ s.op \notin {"release", "release_copy"} /\ s.op # "obtain"
      /\ s.op \notin {"open_many", "close_many"} /\ s.op # "free" /\ s.op # "signal"
      /\ s.op \notin {"clear", "wait"} /\ s.op # "set_mask" /\ s.op # "errno_ptr"
      /\ s.op \notin {"judge", "say"}
  BY DEF Gets
<1> QED BY <1>1, Zenon DEF After

LEMMA AfterErrno ==
  ASSUME NEW s, NEW b, NEW fair, s.op = "errno_ptr"
  PROVE  After(s, b, fair) = {[b EXCEPT !.errno = (s.x = "local")]}
<1>1. /\ s.op \notin Gets /\ s.op # "close" /\ s.op # "forget"
      /\ s.op \notin {"release", "release_copy"} /\ s.op # "obtain"
      /\ s.op \notin {"open_many", "close_many"} /\ s.op # "free" /\ s.op # "signal"
      /\ s.op \notin {"clear", "wait"} /\ s.op # "set_mask" /\ s.op # "save_mask"
      /\ s.op \notin {"judge", "say"}
  BY DEF Gets
<1> QED BY <1>1, Zenon DEF After

LEMMA AfterReport ==
  ASSUME NEW s, NEW b, NEW fair, s.op \in {"judge", "say"}
  PROVE  After(s, b, fair) = {[b EXCEPT !.said = IF @ = 0 THEN 1 ELSE 2]}
<1>1. /\ s.op \notin Gets /\ s.op # "close" /\ s.op # "forget"
      /\ s.op \notin {"release", "release_copy"} /\ s.op # "obtain"
      /\ s.op \notin {"open_many", "close_many"} /\ s.op # "free" /\ s.op # "signal"
      /\ s.op \notin {"clear", "wait"} /\ s.op # "set_mask" /\ s.op # "save_mask"
      /\ s.op # "errno_ptr"
  BY DEF Gets
<1> QED BY <1>1, Zenon DEF After

\* Steps that change nothing a ledger follows
Unfollowed == {"connect_now", "connect_async", "watch", "unwatch", "cause", "delay", "wait_writable", "get",
               "complete", "get_dtable", "let", "let_sum", "set_dtable", "restore_dtable"}

LEMMA AfterOther ==
  ASSUME NEW s, NEW b, NEW fair, s.op \in Unfollowed
  PROVE  After(s, b, fair) = {b}
<1>1. /\ s.op \notin Gets /\ s.op # "close" /\ s.op # "forget"
      /\ s.op \notin {"release", "release_copy"} /\ s.op # "obtain"
      /\ s.op \notin {"open_many", "close_many"} /\ s.op # "free" /\ s.op # "signal"
      /\ s.op \notin {"clear", "wait"} /\ s.op # "set_mask" /\ s.op # "save_mask"
      /\ s.op # "errno_ptr" /\ s.op \notin {"judge", "say"}
  BY DEF Gets, Unfollowed
<1> QED BY <1>1, Zenon DEF After

(***************************************************************************)
(* Descriptors.  Each step leads to one of the books it may lead to.       *)
(***************************************************************************)
LEMMA GetsCarried ==
  ASSUME ShapeInv, NEW c, Stands(c), phase = "test", todo # <<>>,
         todo' = Tail(todo), UNCHANGED <<runVars, phase, current>>,
         Head(todo).op \in Gets, NEW d, d = None \/ d \in Descriptors \ lib.open,
         fd' = [fd EXCEPT ![X] = d], lib'.open = lib.open \union ({d} \ {None}),
         UNCHANGED <<own, allocated, raised, said>>,
         lib'.masks = lib.masks, lib'.errno_ptr = lib.errno_ptr, lib'.pool = lib.pool
  PROVE  Carried(c)
<1>1. c.book \in Books /\ Fits(Head(todo), c.book) /\ Kept(c.book)
  BY Allowed DEF Stands
<1>2. PICK x : x = X
  OBVIOUS
<1>3. x \in Locals /\ c.book.fd[x] # "open" /\ ~c.book.pooled
  BY <1>1, <1>2 DEF Fits, Overwrites, Gets, X
<1>4. PICK b : b = Becomes(c.book, x, IF d = None THEN "none" ELSE "open")
  OBVIOUS
<1>5. b \in After(Head(todo), c.book, c.sound)
  <2>1. After(Head(todo), c.book, c.sound) = {Becomes(c.book, x, "open"), Becomes(c.book, x, "none")}
    BY <1>2, AfterGets DEF X
  <2> QED BY <1>4, <2>1
<1>6. /\ b.fd = [c.book.fd EXCEPT ![x] = IF d = None THEN "none" ELSE "open"]
      /\ b.many = c.book.many /\ b.signal = c.book.signal /\ b.raised = c.book.raised
      /\ b.masks = c.book.masks /\ b.orig = c.book.orig /\ b.errno = c.book.errno
      /\ b.pooled = c.book.pooled /\ b.said = c.book.said
  BY <1>1, <1>4 DEF Becomes, Books
<1>7. DescriptorsKept(b)'
  BY <1>1, <1>2, <1>3, <1>6, ComesIn DEF Kept
<1>8. SignalKept(b)' /\ RestKept(b)'
  BY <1>1, <1>3, <1>6, SignalStays, RestStays DEF Kept, runVars
<1>9. Kept(b)' /\ Head(todo).op \notin Branching
  BY <1>7, <1>8 DEF Kept, Gets, Branching
<1> QED BY <1>5, <1>9, Done

LEMMA GetsStep ==
  ASSUME ShapeInv, NEW c, Stands(c),
         Socket \/ Refused \/ Connect \/ Accept \/ Dup2Socket
  PROVE  Carried(c)
<1> USE DEF Do, At, Same, Returned, KeepTask, KeepTest, runVars
<1>0. DOMAIN lib = LibFields
  BY DEF ShapeInv
<1>1. CASE Socket
  <2>1. PICK d \in Made(lib.open) : Returned(X, d) /\ lib' = WithOpen(d)
    BY <1>1 DEF Socket
  <2>2. /\ lib'.open = lib.open \union ({d} \ {None})
        /\ lib'.masks = lib.masks /\ lib'.errno_ptr = lib.errno_ptr /\ lib'.pool = lib.pool
    BY <1>0, <2>1 DEF WithOpen, LibFields
  <2>3. Head(todo).op \in Gets
    BY <1>1 DEF Socket, Gets
  <2> QED BY <1>1, <2>1, <2>2, <2>3, MadeIsFree, GetsCarried DEF Socket
<1>2. CASE Refused
  <2>1. PICK d \in {None} \union May(Made(lib.open)) : Returned(X, d) /\ lib' = WithOpen(d)
    BY <1>2 DEF Refused
  <2>2. /\ lib'.open = lib.open \union ({d} \ {None})
        /\ lib'.masks = lib.masks /\ lib'.errno_ptr = lib.errno_ptr /\ lib'.pool = lib.pool
    BY <1>0, <2>1 DEF WithOpen, LibFields
  <2>3. Head(todo).op \in Gets
    BY <1>2 DEF Refused, Gets
  <2>4. d = None \/ d \in Descriptors \ lib.open
    BY <2>1, MadeIsFree DEF May
  <2> QED BY <1>2, <2>1, <2>2, <2>3, <2>4, GetsCarried DEF Refused
<1>3. CASE Connect
  <2>1. PICK d : /\ d \in Made(lib.open) \/ d = None
                 /\ Returned(X, d)
                 /\ lib' = IF d = None THEN lib ELSE [Queued(Y) EXCEPT !.open = @ \union {d}]
    BY <1>3 DEF Connect
  <2>2. d = None \/ d \in Descriptors \ lib.open
    BY <2>1, MadeIsFree
  <2>3. /\ lib'.open = lib.open \union ({d} \ {None})
        /\ lib'.masks = lib.masks /\ lib'.errno_ptr = lib.errno_ptr /\ lib'.pool = lib.pool
    BY <1>0, <2>1 DEF Queued, LibFields
  <2>4. Head(todo).op \in Gets
    BY <1>3 DEF Connect, Gets
  <2> QED BY <1>3, <2>1, <2>2, <2>3, <2>4, GetsCarried DEF Connect
<1>4. CASE Accept
  <2>1. PICK d : /\ d \in Made(lib.open) \/ d = None
                 /\ Returned(X, d)
                 /\ \/ lib' = [WithOpen(d) EXCEPT !.pending = @ \ {fd[Y]}]
                    \/ d = None /\ lib' = lib
    BY <1>4 DEF Accept
  <2>2. d = None \/ d \in Descriptors \ lib.open
    BY <2>1, MadeIsFree
  <2>3. /\ lib'.open = lib.open \union ({d} \ {None})
        /\ lib'.masks = lib.masks /\ lib'.errno_ptr = lib.errno_ptr /\ lib'.pool = lib.pool
    BY <1>0, <2>1 DEF WithOpen, LibFields
  <2>4. Head(todo).op \in Gets
    BY <1>4 DEF Accept, Gets
  <2> QED BY <1>4, <2>1, <2>2, <2>3, <2>4, GetsCarried DEF Accept
<1>5. CASE Dup2Socket
  <2>1. PICK d \in Made(lib.open) : Returned(X, d) /\ lib' = WithOpen(d)
    BY <1>5 DEF Dup2Socket
  <2>2. /\ lib'.open = lib.open \union ({d} \ {None})
        /\ lib'.masks = lib.masks /\ lib'.errno_ptr = lib.errno_ptr /\ lib'.pool = lib.pool
    BY <1>0, <2>1 DEF WithOpen, LibFields
  <2>3. Head(todo).op \in Gets
    BY <1>5 DEF Dup2Socket, Gets
  <2> QED BY <1>5, <2>1, <2>2, <2>3, MadeIsFree, GetsCarried DEF Dup2Socket
<1> QED BY <1>1, <1>2, <1>3, <1>4, <1>5

(***************************************************************************)
(* Steps that change nothing a ledger follows                              *)
(***************************************************************************)
LEMMA NothingFollowed ==
  ASSUME ShapeInv, NEW c, Stands(c), phase = "test", todo # <<>>,
         todo' = Tail(todo), UNCHANGED <<runVars, phase, current>>,
         c.book \in After(Head(todo), c.book, c.sound), Head(todo).op \notin Branching,
         fd' = fd, lib'.open = lib.open, own'.many = own.many,
         UNCHANGED <<allocated, raised, said>>, lib'.masks = lib.masks, own'.orig = own.orig,
         lib'.errno_ptr = lib.errno_ptr, lib'.pool = lib.pool
  PROVE  Carried(c)
<1>1. PICK b : b = c.book
  OBVIOUS
<1>2. Kept(b)
  BY <1>1 DEF Stands
<1>3. Kept(b)'
  BY <1>2, DescriptorsStay, SignalStays, RestStays DEF Kept, runVars
<1> QED BY <1>1, <1>3, Done

LEMMA CloseStep ==
  ASSUME ShapeInv, NEW c, Stands(c), Close, ~misclosed
  PROVE  Carried(c) /\ ~misclosed'
<1> USE DEF Close, Do, At, Same, KeepTask, runVars
<1>0. DOMAIN lib = LibFields /\ None \notin Nat /\ Descriptors \subseteq Nat
  BY ResourcesAssumption DEF ShapeInv, None
<1>1. c.book \in Books /\ Fits(Head(todo), c.book) /\ Kept(c.book)
  BY Allowed DEF Stands
<1>2. PICK x : x = X
  OBVIOUS
<1>3. x \in Locals /\ c.book.fd[x] \in {"open", "none"} /\ ~c.book.pooled
  BY <1>1, <1>2 DEF Fits, X
<1>4. /\ lib'.open = lib.open \ {fd[x]} /\ lib'.masks = lib.masks
      /\ lib'.errno_ptr = lib.errno_ptr /\ lib'.pool = lib.pool
  BY <1>0, <1>2 DEF LibFields
<1>5. fd[x] # None => fd[x] \in lib.open /\ c.book.fd[x] = "open"
  BY <1>1, <1>3 DEF Kept, DescriptorsKept, Held
<1>6. ~misclosed'
  BY <1>2, <1>5
<1>7. PICK b : b = Becomes(c.book, x, IF c.book.fd[x] = "open" THEN "used" ELSE c.book.fd[x])
  OBVIOUS
<1>8. b \in After(Head(todo), c.book, c.sound)
  BY <1>2, <1>7, AfterClose DEF X
<1>9. /\ b.fd = [c.book.fd EXCEPT ![x] = IF c.book.fd[x] = "open" THEN "used" ELSE c.book.fd[x]]
      /\ b.many = c.book.many /\ b.signal = c.book.signal /\ b.raised = c.book.raised
      /\ b.masks = c.book.masks /\ b.orig = c.book.orig /\ b.errno = c.book.errno
      /\ b.pooled = c.book.pooled /\ b.said = c.book.said
  BY <1>1, <1>7 DEF Becomes, Books
<1>10. DescriptorsKept(b)'
  <2>1. CASE c.book.fd[x] = "open"
    BY <2>1, <1>1, <1>3, <1>4, <1>9, GivenUp DEF Kept
  <2>2. CASE c.book.fd[x] = "none"
    <3>1. fd[x] = None /\ lib.open \subseteq Descriptors
      BY <2>2, <1>1, <1>3 DEF Kept, DescriptorsKept
    <3>2. lib'.open = lib.open
      BY <3>1, <1>0, <1>4
    <3>3. b.fd = c.book.fd
      BY <2>2, <1>1, <1>9 DEF Books
    <3> QED BY <3>2, <3>3, <1>1, <1>9, DescriptorsStay DEF Kept
  <2> QED BY <2>1, <2>2, <1>3
<1>11. SignalKept(b)' /\ RestKept(b)'
  BY <1>1, <1>3, <1>4, <1>9, SignalStays, RestStays DEF Kept
<1>12. Kept(b)' /\ Head(todo).op \notin Branching
  BY <1>10, <1>11 DEF Kept, Branching
<1> QED BY <1>6, <1>8, <1>12, Done

LEMMA ForgetStep ==
  ASSUME ShapeInv, NEW c, Stands(c), Forget
  PROVE  Carried(c)
<1> USE DEF Forget, Do, At, Same, Returned, KeepTask, KeepTest, runVars
<1>1. c.book \in Books /\ Fits(Head(todo), c.book) /\ Kept(c.book)
  BY Allowed DEF Stands
<1>2. PICK x : x = X
  OBVIOUS
<1>3. x \in Locals /\ c.book.fd[x] # "open"
  BY <1>1, <1>2 DEF Fits, Overwrites, X
<1>4. PICK b : b = Becomes(c.book, x, "none")
  OBVIOUS
<1>5. b \in After(Head(todo), c.book, c.sound)
  BY <1>2, <1>4, AfterForget DEF X
<1>6. /\ b.fd = [c.book.fd EXCEPT ![x] = "none"]
      /\ b.many = c.book.many /\ b.signal = c.book.signal /\ b.raised = c.book.raised
      /\ b.masks = c.book.masks /\ b.orig = c.book.orig /\ b.errno = c.book.errno
      /\ b.pooled = c.book.pooled /\ b.said = c.book.said
  BY <1>1, <1>4 DEF Becomes, Books
<1>7. DescriptorsKept(b)'
  BY <1>1, <1>2, <1>3, <1>6, Renumbered DEF Kept
<1>8. SignalKept(b)' /\ RestKept(b)'
  BY <1>1, <1>6, SignalStays, RestStays DEF Kept
<1>9. Kept(b)' /\ Head(todo).op \notin Branching
  BY <1>7, <1>8 DEF Kept, Branching
<1> QED BY <1>5, <1>9, Done

LEMMA ManyStep ==
  ASSUME ShapeInv, NEW c, Stands(c), OpenMany \/ CloseMany, ~misclosed
  PROVE  Carried(c) /\ ~misclosed'
<1> USE DEF Do, At, Same, KeepTask, KeepTest, runVars
<1>0. DOMAIN lib = LibFields /\ DOMAIN own = OwnFields /\ ~misclosed
  BY DEF ShapeInv
<1>1. c.book \in Books /\ Fits(Head(todo), c.book) /\ Kept(c.book)
  BY Allowed DEF Stands, OpenMany, CloseMany
<1>2. PICK b : b = [c.book EXCEPT !.many = (Head(todo).op = "open_many")]
  OBVIOUS
<1>3. /\ b.fd = c.book.fd /\ b.many = (Head(todo).op = "open_many")
      /\ b.signal = c.book.signal /\ b.raised = c.book.raised
      /\ b.masks = c.book.masks /\ b.orig = c.book.orig /\ b.errno = c.book.errno
      /\ b.pooled = c.book.pooled /\ b.said = c.book.said
  BY <1>1, <1>2 DEF Books
<1>4. ~c.book.pooled /\ Held(b) = Held(c.book)
  BY <1>1, <1>3 DEF Fits, OpenMany, CloseMany, Held
<1>5. b \in After(Head(todo), c.book, c.sound) /\ Head(todo).op \notin Branching
  BY <1>2, AfterMany DEF OpenMany, CloseMany, Branching
<1>6. CASE OpenMany
  <2>1. PICK S : /\ S \subseteq Descriptors \ lib.open
                 /\ own' = [own EXCEPT !.many = S] /\ lib' = [lib EXCEPT !.open = @ \union S]
    BY <1>6 DEF OpenMany
  <2>2. /\ own'.many = S /\ own'.orig = own.orig /\ lib'.open = lib.open \union S
        /\ lib'.masks = lib.masks /\ lib'.errno_ptr = lib.errno_ptr /\ lib'.pool = lib.pool
    BY <1>0, <2>1 DEF LibFields, OwnFields
  <2>3. own.many = {} /\ b.many
    BY <1>1, <1>3, <1>6 DEF Fits, OpenMany, Kept, DescriptorsKept
  <2>4. DescriptorsKept(b)'
    BY <1>1, <1>3, <1>4, <1>6, <2>1, <2>2, <2>3 DEF OpenMany, Kept, DescriptorsKept, Held
  <2>5. SignalKept(b)' /\ RestKept(b)'
    BY <1>1, <1>3, <1>4, <1>6, <2>2, SignalStays, RestStays DEF OpenMany, Kept
  <2>6. Kept(b)'
    BY <2>4, <2>5 DEF Kept
  <2> QED BY <1>0, <1>5, <1>6, <2>6, Done DEF OpenMany
<1>7. CASE CloseMany
  <2>1. /\ own'.many = {} /\ own'.orig = own.orig /\ lib'.open = lib.open \ own.many
        /\ lib'.masks = lib.masks /\ lib'.errno_ptr = lib.errno_ptr /\ lib'.pool = lib.pool
    BY <1>0, <1>7 DEF LibFields, OwnFields, CloseMany
  <2>2. DescriptorsKept(b)'
    BY <1>1, <1>3, <1>4, <1>7, <2>1 DEF CloseMany, Kept, DescriptorsKept, Held
  <2>3. SignalKept(b)' /\ RestKept(b)'
    BY <1>1, <1>3, <1>4, <1>7, <2>1, SignalStays, RestStays DEF CloseMany, Kept
  <2>4. Kept(b)'
    BY <2>2, <2>3 DEF Kept
  <2>5. own.many \subseteq lib.open
    BY <1>1 DEF Kept, DescriptorsKept
  <2> QED BY <1>0, <1>5, <1>7, <2>4, <2>5, Done DEF CloseMany
<1> QED BY <1>6, <1>7

(***************************************************************************)
(* A socket that is released leaves room, and so it can be obtained again. *)
(***************************************************************************)
LEMMA ReleasedKept ==
  ASSUME ShapeInv, NEW b \in Books, NEW x \in Locals, NEW y \in Locals, NEW e, DescriptorsKept(b),
         b.fd[x] # "open", b.fd[y] = "open", e.many = b.many,
         e.fd = [b.fd EXCEPT ![x] = "used", ![y] = "used"],
         fd' = [fd EXCEPT ![x] = 1], lib'.open = lib.open \ {fd[y]}, own'.many = own.many
  PROVE  DescriptorsKept(e)' /\ Descriptors \ lib'.open # {}
<1>0. b.fd \in [Locals -> Statuses] /\ fd \in [Locals -> Int] /\ x # y
  BY DEF Books, ShapeInv
<1>1. \A l \in Locals : l # x => fd'[l] = fd[l]
  BY <1>0
<1>2. fd'[x] = 1 /\ e.fd[x] = "used" /\ e.fd[y] = "used"
  BY <1>0
<1>3. \A l \in Locals : l # x /\ l # y => e.fd[l] = b.fd[l]
  BY <1>0
<1>4. Held(e) = Held(b) \ {y} /\ y \in Held(b) /\ x \notin Held(b)
  BY <1>2, <1>3 DEF Held
<1>5. \A l \in Held(e) : fd'[l] = fd[l] /\ l \in Held(b) /\ fd[l] # fd[y]
  BY <1>1, <1>4 DEF Held, DescriptorsKept
<1>6. {fd'[l] : l \in Held(e)} = {fd[l] : l \in Held(b)} \ {fd[y]}
  BY <1>4, <1>5
<1>7. fd[y] \notin own.many /\ fd[y] \in lib.open /\ fd[y] \in Descriptors
  BY <1>4 DEF DescriptorsKept
<1>8. lib'.open = {fd'[l] : l \in Held(e)} \union own.many /\ lib'.open \subseteq Descriptors
  BY <1>6, <1>7 DEF DescriptorsKept
<1>9. \A l \in Locals : /\ e.fd[l] = "none" => fd'[l] = None
                        /\ e.fd[l] \in {"open", "used"} => fd'[l] >= 0
  BY <1>0, <1>1, <1>2, <1>3 DEF DescriptorsKept
<1>10. /\ \A l, m \in Held(e) : fd'[l] = fd'[m] => l = m
       /\ \A l \in Held(e) : fd'[l] \notin own.many
  BY <1>5 DEF DescriptorsKept
<1>11. ~e.many => own.many = {}
  BY DEF DescriptorsKept
<1>12. Descriptors \ lib'.open # {}
  BY <1>7
<1> QED BY <1>8, <1>9, <1>10, <1>11, <1>12 DEF DescriptorsKept, Held

LEMMA ReleaseStep ==
  ASSUME ShapeInv, NEW c, Stands(c), ReleaseSocket
  PROVE  Carried(c)
<1> USE DEF ReleaseSocket, Do, At, Same, Returned, KeepTask, KeepTest, runVars
<1>0. DOMAIN lib = LibFields
  BY DEF ShapeInv
<1>1. c.book \in Books /\ Fits(Head(todo), c.book) /\ Kept(c.book) /\ c.sound = sound
  BY Allowed DEF Stands
<1>2. PICK x, y : x = X /\ y = Y
  OBVIOUS
<1>3. /\ x \in Locals /\ c.book.fd[x] # "open" /\ y \in Locals /\ c.book.fd[y] = "open"
      /\ ~c.book.pooled
  BY <1>1, <1>2 DEF Fits, Overwrites, X, Y
<1>4. Head(todo).op \in {"release", "release_copy"} /\ Head(todo).op \notin Branching
  BY DEF Branching
<1>5. PICK id \in {1} \union May({None}) :
        /\ fd' = [fd EXCEPT ![x] = id]
        /\ lib' = IF id = None THEN lib
                  ELSE IF At("release") THEN [lib EXCEPT !.open = @ \ {fd[y]}, !.pool = @ \union {"socket"}]
                  ELSE [lib EXCEPT !.pool = @ \union {"copy"}]
  BY <1>2
<1>6. CASE id = None
  <2>1. lib' = lib
    BY <1>5, <1>6
  <2>2. ~sound
    BY <1>5, <1>6 DEF May, None
  <2>3. PICK b : b = Becomes(c.book, x, "none")
    OBVIOUS
  <2>4. b \in After(Head(todo), c.book, c.sound)
    BY <1>1, <1>2, <1>4, <2>2, <2>3, AfterRelease DEF X
  <2>5. /\ b.fd = [c.book.fd EXCEPT ![x] = "none"]
        /\ b.many = c.book.many /\ b.signal = c.book.signal /\ b.raised = c.book.raised
        /\ b.masks = c.book.masks /\ b.orig = c.book.orig /\ b.errno = c.book.errno
        /\ b.pooled = c.book.pooled /\ b.said = c.book.said
    BY <1>1, <2>3 DEF Becomes, Books
  <2>6. DescriptorsKept(b)'
    BY <1>1, <1>3, <1>5, <1>6, <2>1, <2>5, Renumbered DEF Kept
  <2>7. SignalKept(b)' /\ RestKept(b)'
    BY <1>1, <1>3, <2>1, <2>5, SignalStays, RestStays DEF Kept
  <2>8. Kept(b)'
    BY <2>6, <2>7 DEF Kept
  <2> QED BY <1>4, <2>4, <2>8, Done
<1>7. CASE id # None
  <2>0. id = 1
    BY <1>5, <1>7 DEF May
  <2>1. PICK b : b = Released(Head(todo), c.book)
    OBVIOUS
  <2>2. b \in After(Head(todo), c.book, c.sound)
    BY <1>4, <2>1, AfterRelease
  <2>3. /\ b.fd = IF Head(todo).op = "release" THEN [c.book.fd EXCEPT ![x] = "used", ![y] = "used"]
                                               ELSE [c.book.fd EXCEPT ![x] = "used"]
        /\ b.pooled = (Head(todo).op = "release")
        /\ b.many = c.book.many /\ b.signal = c.book.signal /\ b.raised = c.book.raised
        /\ b.masks = c.book.masks /\ b.orig = c.book.orig /\ b.errno = c.book.errno
        /\ b.said = c.book.said
    BY <1>1, <1>2, <2>1 DEF Released, Books, X, Y
  <2>4. CASE Head(todo).op = "release"
    <3>1. lib' = [lib EXCEPT !.open = @ \ {fd[y]}, !.pool = @ \union {"socket"}]
      BY <1>5, <1>7, <2>4
    <3>2. /\ lib'.open = lib.open \ {fd[y]} /\ lib'.masks = lib.masks
          /\ lib'.errno_ptr = lib.errno_ptr
      BY <1>0, <3>1 DEF LibFields
    <3>3. b.fd = [c.book.fd EXCEPT ![x] = "used", ![y] = "used"]
      BY <2>3, <2>4
    <3>4. DescriptorsKept(b)' /\ Descriptors \ lib'.open # {}
      <4>1. fd' = [fd EXCEPT ![x] = 1] /\ own'.many = own.many
        BY <1>5, <2>0
      <4>2. DescriptorsKept(c.book) /\ b.many = c.book.many
        BY <1>1, <2>3 DEF Kept
      <4>3. /\ c.book \in Books /\ x \in Locals /\ y \in Locals
            /\ c.book.fd[x] # "open" /\ c.book.fd[y] = "open"
        BY <1>1, <1>3
      <4>4. lib'.open = lib.open \ {fd[y]} /\ own'.many = own.many
        BY <4>1, <3>2
      <4> QED BY <4>1, <4>2, <4>3, <4>4, <3>3, ReleasedKept
    <3>5. SignalKept(b)'
      BY <1>1, <2>3, <3>2, SignalStays DEF Kept
    <3>6. RestKept(b)'
      BY <1>1, <2>3, <2>4, <3>2, <3>4 DEF Kept, RestKept
    <3>7. Kept(b)'
      BY <3>4, <3>5, <3>6 DEF Kept
    <3> QED BY <1>4, <2>2, <3>7, Done
  <2>5. CASE Head(todo).op = "release_copy"
    <3>1. lib' = [lib EXCEPT !.pool = @ \union {"copy"}]
      BY <1>5, <1>7, <2>5
    <3>2. /\ lib'.open = lib.open /\ lib'.masks = lib.masks
          /\ lib'.errno_ptr = lib.errno_ptr /\ lib'.pool = lib.pool \union {"copy"}
      BY <1>0, <3>1 DEF LibFields
    <3>3. b.fd = [c.book.fd EXCEPT ![x] = "used"]
      BY <1>1, <1>3, <2>3, <2>5 DEF Books
    <3>4. 1 \in Nat /\ 1 # None
      BY DEF None
    <3>5. DescriptorsKept(b)'
      BY <1>1, <1>3, <1>5, <2>0, <2>3, <3>2, <3>3, <3>4, Renumbered DEF Kept
    <3>6. SignalKept(b)'
      BY <1>1, <2>3, <3>2, SignalStays DEF Kept
    <3>7. RestKept(b)'
      BY <1>1, <1>3, <2>3, <2>5, <3>2 DEF Kept, RestKept
    <3>8. Kept(b)'
      BY <3>5, <3>6, <3>7 DEF Kept
    <3> QED BY <1>4, <2>2, <3>8, Done
  <2> QED BY <1>4, <2>4, <2>5
<1> QED BY <1>6, <1>7

LEMMA ObtainStep ==
  ASSUME ShapeInv, NEW c, Stands(c), ObtainSocket
  PROVE  Carried(c)
<1> USE DEF ObtainSocket, Do, At, Same, Returned, KeepTask, KeepTest, runVars
<1>0. DOMAIN lib = LibFields
  BY DEF ShapeInv
<1>1. c.book \in Books /\ Fits(Head(todo), c.book) /\ Kept(c.book) /\ c.sound = sound
  BY Allowed DEF Stands
<1>2. PICK x : x = X
  OBVIOUS
<1>3. x \in Locals /\ c.book.fd[x] # "open"
  BY <1>1, <1>2 DEF Fits, Overwrites, X
<1>4. PICK d \in Made(lib.open) :
        /\ fd' = [fd EXCEPT ![x] = d]
        /\ lib' = IF d = None THEN lib ELSE [WithOpen(d) EXCEPT !.pool = @ \ {"socket"}]
  BY <1>2
<1>5. /\ lib'.open = lib.open \union ({d} \ {None}) /\ lib'.masks = lib.masks
      /\ lib'.errno_ptr = lib.errno_ptr
      /\ lib'.pool = IF d = None THEN lib.pool ELSE lib.pool \ {"socket"}
  BY <1>0, <1>4 DEF WithOpen, LibFields
<1>6. PICK b : b = [Becomes(c.book, x, IF d = None THEN "none" ELSE "open") EXCEPT !.pooled = FALSE]
  OBVIOUS
<1>7. d = None => ~(sound /\ c.book.pooled)
  BY <1>1, MadeIsFree DEF Kept, RestKept
<1>8. b \in After(Head(todo), c.book, c.sound)
  BY <1>1, <1>2, <1>6, <1>7, AfterObtain DEF X
<1>9. /\ b.fd = [c.book.fd EXCEPT ![x] = IF d = None THEN "none" ELSE "open"]
      /\ b.many = c.book.many /\ b.signal = c.book.signal /\ b.raised = c.book.raised
      /\ b.masks = c.book.masks /\ b.orig = c.book.orig /\ b.errno = c.book.errno
      /\ ~b.pooled /\ b.said = c.book.said
  BY <1>1, <1>6 DEF Becomes, Books
<1>10. DescriptorsKept(b)'
  BY <1>1, <1>3, <1>4, <1>5, <1>9, MadeIsFree, ComesIn DEF Kept
<1>11. SignalKept(b)'
  BY <1>1, <1>5, <1>9, SignalStays DEF Kept
<1>12. RestKept(b)'
  BY <1>1, <1>5, <1>7, <1>9 DEF Kept, RestKept
<1>13. Kept(b)' /\ Head(todo).op \notin Branching
  BY <1>10, <1>11, <1>12 DEF Kept, Branching
<1> QED BY <1>8, <1>13, Done

LEMMA ConnectSocketStep ==
  ASSUME ShapeInv, NEW c, Stands(c), ConnectSocket
  PROVE  Carried(c)
<1> USE DEF ConnectSocket, Do, At, Same, KeepTask, KeepTest, runVars
<1>0. DOMAIN lib = LibFields /\ DOMAIN own = OwnFields
  BY DEF ShapeInv
<1>1. PICK rc \in {"ok"} \union (IF At("connect_async") THEN {"progress"} ELSE {}) \union May({"error"}),
           event \in BOOLEAN, arrives \in {TRUE} \union May({FALSE}) :
        /\ own' = [own EXCEPT !.rc = rc]
        /\ lib' = IF rc = "error" \/ ~arrives THEN lib
                  ELSE [Queued(Y) EXCEPT !.due = @ \union ((IF event THEN {fd[X]} ELSE {}) \intersect lib.watched)]
  OBVIOUS
<1>2. own'.many = own.many /\ own'.orig = own.orig
  BY <1>0, <1>1 DEF OwnFields
<1>3. /\ lib'.open = lib.open /\ lib'.masks = lib.masks /\ lib'.errno_ptr = lib.errno_ptr
      /\ lib'.pool = lib.pool
  BY <1>0, <1>1 DEF LibFields, Queued
<1>4. c.book \in After(Head(todo), c.book, c.sound) /\ Head(todo).op \notin Branching
  BY AfterOther DEF Unfollowed, Branching
<1> QED BY <1>2, <1>3, <1>4, NothingFollowed
-----------------------------------------------------------------------------
(***************************************************************************)
(* Branches.  Where the test takes one, the ledger can.                    *)
(***************************************************************************)
LEMMA MovesIf ==
  ASSUME NEW c, Head(c.todo).op = "if"
  PROVE  Moves(c) = Ledgers(Head(c.todo).yes \o Tail(c.todo), c.sound,
                            IF \A l \in Head(c.todo).needs : c.book.fd[l] # "none"
                            THEN {c.book} ELSE {})
                    \union Ledgers(Head(c.todo).no \o Tail(c.todo), c.sound,
                            IF \E l \in Head(c.todo).needs : c.book.fd[l] \notin {"open", "used"}
                            THEN {c.book} ELSE {})
<1>1. Head(c.todo).op \notin {"if_size", "if_rc", "if_helper"}
  OBVIOUS
<1> QED BY <1>1, Zenon DEF Moves

LEMMA MovesEither ==
  ASSUME NEW c, Head(c.todo).op \in {"if_size", "if_rc", "if_helper"}
  PROVE  Moves(c) = Ledgers(Head(c.todo).yes \o Tail(c.todo), c.sound, {c.book})
                    \union Ledgers(Head(c.todo).no \o Tail(c.todo), c.sound, {c.book})
<1>1. Head(c.todo).op # "if" /\ Head(c.todo).op # "if_event" /\ Head(c.todo).op # "alloc"
  OBVIOUS
<1> QED BY <1>1, Zenon DEF Moves

LEMMA MovesEvent ==
  ASSUME NEW c, Head(c.todo).op = "if_event"
  PROVE  Moves(c) = Ledgers(Head(c.todo).yes \o Tail(c.todo), c.sound, {c.book})
                    \union Ledgers(<<>> \o Tail(c.todo), c.sound, {c.book})
<1>1. Head(c.todo).op \notin {"if_size", "if_rc", "if_helper"}
  OBVIOUS
<1> QED BY <1>1, Zenon DEF Moves

LEMMA MovesAlloc ==
  ASSUME NEW c, Head(c.todo).op = "alloc"
  PROVE  Moves(c) = Ledgers(Tail(c.todo), c.sound, {[c.book EXCEPT !.signal = TRUE]})
                    \union Ledgers(Skip, c.sound, IF ~c.sound THEN {c.book} ELSE {})
<1>1. Head(c.todo).op \notin {"if_size", "if_rc", "if_helper"}
  OBVIOUS
<1> QED BY <1>1, Zenon DEF Moves

LEMMA BranchCarried ==
  ASSUME ShapeInv, NEW c, Stands(c), phase = "test", todo # <<>>,
         NEW S, Ledgers(todo', c.sound, {c.book}) \subseteq S, S \subseteq Moves(c),
         UNCHANGED <<runVars, phase, current, lib, fd, own, allocated, raised, said>>
  PROVE  Carried(c)
<1>1. PICK e : e = [todo |-> todo', sound |-> c.sound, book |-> c.book]
  OBVIOUS
<1>2. e \in Moves(c) /\ e.todo = todo' /\ e.sound = c.sound /\ e.book = c.book
  BY <1>1 DEF Ledgers
<1>3. PICK b : b = c.book
  OBVIOUS
<1>4. Kept(b)'
  BY <1>3, DescriptorsStay, SignalStays, RestStays DEF Stands, Kept, runVars
<1> QED BY <1>2, <1>3, <1>4 DEF Carried, Stands, runVars

LEMMA BranchStep ==
  ASSUME ShapeInv, NEW c, Stands(c), Branch \/ RoundEnds
  PROVE  Carried(c)
<1>0. /\ phase = "test" /\ todo # <<>> /\ c.todo = todo
      /\ UNCHANGED <<runVars, phase, current, lib, fd, own, allocated, raised, said>>
  BY DEF Stands, Branch, RoundEnds, Decide, At, Same, KeepTask, KeepTest, KeepOwn
<1>1. c.book \in Books /\ Fits(Head(todo), c.book) /\ Kept(c.book)
  BY <1>0, Allowed DEF Stands
<1>2. CASE At("if") /\ Decide("if", \A l \in Head(todo).needs : fd[l] >= 0)
  <2>1. Head(todo).op = "if" /\ Head(todo).needs \subseteq Locals
    BY <1>1, <1>2 DEF At, Fits
  <2>2. /\ (\A l \in Head(todo).needs : fd[l] >= 0) =>
             \A l \in Head(todo).needs : c.book.fd[l] # "none"
        /\ ~(\A l \in Head(todo).needs : fd[l] >= 0) =>
             \E l \in Head(todo).needs : c.book.fd[l] \notin {"open", "used"}
    <3>1. ~(None >= 0)
      BY DEF None
    <3> QED BY <1>1, <2>1, <3>1 DEF Kept, DescriptorsKept
  <2>3. CASE \A l \in Head(todo).needs : fd[l] >= 0
    <3>1. todo' = Head(todo).yes \o Tail(todo)
      BY <1>2, <2>3 DEF Decide
    <3>2. Ledgers(todo', c.sound, {c.book}) \subseteq Moves(c)
      BY <1>0, <2>1, <2>2, <2>3, <3>1, MovesIf
    <3> QED BY <1>0, <3>2, BranchCarried
  <2>4. CASE ~(\A l \in Head(todo).needs : fd[l] >= 0)
    <3>1. todo' = Head(todo).no \o Tail(todo)
      BY <1>2, <2>4 DEF Decide
    <3>2. Ledgers(todo', c.sound, {c.book}) \subseteq Moves(c)
      BY <1>0, <2>1, <2>2, <2>4, <3>1, MovesIf
    <3> QED BY <1>0, <3>2, BranchCarried
  <2> QED BY <2>3, <2>4
<1>3. ASSUME NEW op \in {"if_size", "if_rc", "if_helper"}, At(op),
             todo' = Head(todo).yes \o Tail(todo) \/ todo' = Head(todo).no \o Tail(todo)
      PROVE  Carried(c)
  <2>1. Head(c.todo).op \in {"if_size", "if_rc", "if_helper"}
    BY <1>0, <1>3 DEF At
  <2>2. Moves(c) = Ledgers(Head(todo).yes \o Tail(todo), c.sound, {c.book})
                   \union Ledgers(Head(todo).no \o Tail(todo), c.sound, {c.book})
    <3>1. Moves(c) = Ledgers(Head(c.todo).yes \o Tail(c.todo), c.sound, {c.book})
                     \union Ledgers(Head(c.todo).no \o Tail(c.todo), c.sound, {c.book})
      BY <2>1, MovesEither
    <3> QED BY <1>0, <3>1
  <2>3. Ledgers(todo', c.sound, {c.book}) \subseteq Moves(c)
    BY <1>3, <2>2
  <2> QED BY <1>0, <2>3, BranchCarried
<1>4. CASE /\ At("if_size") \/ At("if_rc") \/ At("if_helper")
           /\ Branch
  <2>1. todo' = Head(todo).yes \o Tail(todo) \/ todo' = Head(todo).no \o Tail(todo)
    BY <1>4 DEF Branch, Decide, At
  <2> QED BY <1>3, <1>4, <2>1
<1>5. CASE RoundEnds
  <2>1. todo' = Head(todo).yes \o Tail(todo) \/ todo' = <<>> \o Tail(todo)
    BY <1>5 DEF RoundEnds
  <2>2. Ledgers(todo', c.sound, {c.book}) \subseteq Moves(c)
    BY <1>0, <1>5, <2>1, MovesEvent DEF RoundEnds, At
  <2> QED BY <1>0, <2>2, BranchCarried
<1> QED BY <1>2, <1>4, <1>5 DEF Branch

-----------------------------------------------------------------------------
(***************************************************************************)
(* The signal                                                              *)
(***************************************************************************)
LEMMA AllocStep ==
  ASSUME ShapeInv, NEW c, Stands(c), AllocSignal
  PROVE  Carried(c)
<1>0. /\ phase = "test" /\ todo # <<>> /\ c.todo = todo /\ c.sound = sound /\ Head(todo).op = "alloc"
      /\ UNCHANGED <<runVars, phase, current, lib, fd, own, raised, said>>
  BY DEF Stands, AllocSignal, At, Same, KeepTest, KeepOwn
<1>1. c.book \in Books /\ Kept(c.book)
  BY <1>0, Allowed DEF Stands
<1>2. CASE allocated' = TRUE /\ todo' = Tail(todo)
  <2>1. PICK b : b = [c.book EXCEPT !.signal = TRUE]
    OBVIOUS
  <2>2. /\ b.fd = c.book.fd /\ b.many = c.book.many /\ b.signal = TRUE /\ b.raised = c.book.raised
        /\ b.masks = c.book.masks /\ b.orig = c.book.orig /\ b.errno = c.book.errno
        /\ b.pooled = c.book.pooled /\ b.said = c.book.said
    BY <1>1, <2>1 DEF Books
  <2>3. PICK e : e = [todo |-> Tail(todo), sound |-> c.sound, book |-> b]
    OBVIOUS
  <2>4. e \in Moves(c)
    BY <1>0, <2>1, <2>3, MovesAlloc DEF Ledgers
  <2>5. DescriptorsKept(b)' /\ RestKept(b)'
    BY <1>0, <1>1, <2>2, DescriptorsStay, RestStays DEF Kept, runVars
  <2>6. SignalKept(b)'
    BY <1>0, <1>1, <1>2, <2>2 DEF Kept, SignalKept
  <2>7. Kept(e.book)' /\ e.todo = todo' /\ e.sound = c.sound
    BY <1>2, <2>3, <2>5, <2>6 DEF Kept
  <2> QED BY <1>0, <2>4, <2>7 DEF Carried, runVars
<1>3. CASE ~sound /\ todo' = Skip /\ UNCHANGED allocated
  <2>1. Ledgers(todo', c.sound, {c.book}) \subseteq Moves(c)
    BY <1>0, <1>3, MovesAlloc
  <2> QED BY <1>0, <1>3, <2>1, BranchCarried
<1> QED BY <1>2, <1>3 DEF AllocSignal

\* A step that only concerns the signal
LEMMA SignalCarried ==
  ASSUME ShapeInv, NEW c, Stands(c), phase = "test", todo # <<>>,
         todo' = Tail(todo), UNCHANGED <<runVars, phase, current>>,
         Head(todo).op \notin Branching,
         NEW b \in After(Head(todo), c.book, c.sound),
         b.fd = c.book.fd, b.many = c.book.many, b.errno = c.book.errno,
         b.pooled = c.book.pooled, b.said = c.book.said,
         UNCHANGED <<fd, said>>, own'.many = own.many,
         lib'.open = lib.open, lib'.errno_ptr = lib.errno_ptr, lib'.pool = lib.pool,
         SignalKept(b)'
  PROVE  Carried(c)
<1>1. DescriptorsKept(b)' /\ RestKept(b)'
  BY DescriptorsStay, RestStays DEF Stands, Kept, runVars
<1> QED BY <1>1, Done DEF Kept

LEMMA FreeStep ==
  ASSUME ShapeInv, NEW c, Stands(c), FreeSignal
  PROVE  Carried(c)
<1> USE DEF FreeSignal, Do, At, Same, KeepOwn, KeepTest
<1>1. c.book \in Books /\ Kept(c.book)
  BY Allowed DEF Stands
<1>2. PICK b : b = [c.book EXCEPT !.signal = FALSE]
  OBVIOUS
<1>3. /\ b.fd = c.book.fd /\ b.many = c.book.many /\ b.signal = FALSE /\ b.raised = c.book.raised
      /\ b.masks = c.book.masks /\ b.orig = c.book.orig /\ b.errno = c.book.errno
      /\ b.pooled = c.book.pooled /\ b.said = c.book.said
  BY <1>1, <1>2 DEF Books
<1>4. b \in After(Head(todo), c.book, c.sound) /\ Head(todo).op \notin Branching
  BY <1>2, AfterFree DEF Branching
<1>5. SignalKept(b)'
  BY <1>1, <1>3 DEF Kept, SignalKept
<1> QED BY <1>3, <1>4, <1>5, SignalCarried

LEMMA SetSignalStep ==
  ASSUME ShapeInv, NEW c, Stands(c), SetSignal
  PROVE  Carried(c)
<1> USE DEF SetSignal, Do, At, Same, KeepOwn, KeepTest
<1>1. c.book \in Books /\ Kept(c.book)
  BY Allowed DEF Stands
<1>2. PICK b : b = [c.book EXCEPT !.raised = IF Head(todo).op = "signal" THEN TRUE ELSE MayRaise(c.book.masks)]
  OBVIOUS
<1>3. /\ b.fd = c.book.fd /\ b.many = c.book.many /\ b.signal = c.book.signal
      /\ b.raised = (IF Head(todo).op = "signal" THEN TRUE ELSE MayRaise(c.book.masks))
      /\ b.masks = c.book.masks /\ b.orig = c.book.orig /\ b.errno = c.book.errno
      /\ b.pooled = c.book.pooled /\ b.said = c.book.said
  BY <1>1, <1>2 DEF Books
<1>4. b \in After(Head(todo), c.book, c.sound) /\ Head(todo).op \notin Branching
  <2>1. CASE Do("signal")
    BY <2>1, <1>2, AfterSignal DEF Branching
  <2>2. CASE Do("clear")
    <3>1. Head(todo).op \in {"clear", "wait"} /\ Head(todo).op # "signal"
      BY <2>2
    <3> QED BY <3>1, <1>2, AfterClear DEF Branching
  <2> QED BY <2>1, <2>2
<1>5. SignalKept(b)'
  BY <1>1, <1>3 DEF Kept, SignalKept
<1> QED BY <1>3, <1>4, <1>5, SignalCarried

LEMMA WaitStep ==
  ASSUME ShapeInv, NEW c, Stands(c), Wait
  PROVE  Carried(c)
<1> USE DEF Wait, Do, At, Same, KeepOwn, KeepTest
<1>1. c.book \in Books /\ Kept(c.book)
  BY Allowed DEF Stands
<1>2. CASE Do("wait")
  <2>1. PICK b : b = [c.book EXCEPT !.raised = MayRaise(c.book.masks)]
    OBVIOUS
  <2>2. /\ b.fd = c.book.fd /\ b.many = c.book.many /\ b.signal = c.book.signal
        /\ b.masks = c.book.masks /\ b.orig = c.book.orig /\ b.errno = c.book.errno
        /\ b.pooled = c.book.pooled /\ b.said = c.book.said
    BY <1>1, <2>1 DEF Books
  <2>3. b \in After(Head(todo), c.book, c.sound) /\ Head(todo).op \notin Branching
    BY <1>2, <2>1, AfterClear DEF Branching
  <2>4. SignalKept(b)'
    BY <1>1, <1>2, <2>2 DEF Kept, SignalKept
  <2> QED BY <2>2, <2>3, <2>4, SignalCarried
<1>3. CASE Do("delay") \/ Do("wait_writable")
  <2>1. c.book \in After(Head(todo), c.book, c.sound) /\ Head(todo).op \notin Branching
    BY <1>3, AfterOther DEF Unfollowed, Branching
  <2> QED BY <1>3, <2>1, NothingFollowed
<1> QED BY <1>2, <1>3

LEMMA MasksStep ==
  ASSUME ShapeInv, NEW c, Stands(c), SetMasks
  PROVE  Carried(c)
<1> USE DEF Do, At, Same, KeepTask, KeepTest
<1>0. DOMAIN lib = LibFields /\ DOMAIN own = OwnFields /\ DOMAIN lib.masks = MaskTags
  BY DEF ShapeInv
<1>1. c.book \in Books /\ Fits(Head(todo), c.book) /\ Kept(c.book)
  BY Allowed DEF Stands, SetMasks
<1>2. CASE Do("set_mask") /\ lib' = [lib EXCEPT !.masks[X] = IF Y = "orig" THEN own.orig ELSE Y] /\ UNCHANGED own
  <2>1. PICK x : x = X
    OBVIOUS
  <2>2. x \in MaskTags
    BY <1>1, <1>2, <2>1 DEF Fits, X
  <2>3. /\ lib'.open = lib.open /\ lib'.errno_ptr = lib.errno_ptr /\ lib'.pool = lib.pool
        /\ lib'.masks = [lib.masks EXCEPT ![x] = IF Y = "orig" THEN own.orig ELSE Y]
    BY <1>0, <1>2, <2>1 DEF LibFields
  <2>4. PICK masks : masks = IF NamesSignal(Head(todo), c.book) THEN c.book.masks \union {x}
                                                               ELSE c.book.masks \ {x}
    OBVIOUS
  <2>5. PICK b : b = Masked(c.book, masks)
    OBVIOUS
  <2>6. b \in After(Head(todo), c.book, c.sound) /\ Head(todo).op \notin Branching
    BY <1>2, <2>1, <2>4, <2>5, AfterSetMask DEF X, Branching
  <2>7. /\ b.fd = c.book.fd /\ b.many = c.book.many /\ b.signal = c.book.signal
        /\ b.raised = (c.book.raised \/ MayRaise(masks))
        /\ b.masks = masks /\ b.orig = c.book.orig /\ b.errno = c.book.errno
        /\ b.pooled = c.book.pooled /\ b.said = c.book.said
    BY <1>1, <2>5 DEF Books, Masked
  <2>8. lib'.masks[x] = "sigbit" <=> NamesSignal(Head(todo), c.book)
    <3>1. lib'.masks[x] = IF Y = "orig" THEN own.orig ELSE Y
      BY <1>0, <2>2, <2>3
    <3>2. own.orig = "sigbit" <=> c.book.orig
      BY <1>1 DEF Kept, SignalKept
    <3> QED BY <3>1, <3>2 DEF NamesSignal, Y
  <2>9. \A m \in MaskTags : lib'.masks[m] = "sigbit" <=> m \in masks
    <3>1. \A m \in MaskTags : m # x => lib'.masks[m] = lib.masks[m]
      BY <1>0, <2>3
    <3>2. \A m \in MaskTags : lib.masks[m] = "sigbit" <=> m \in c.book.masks
      BY <1>1 DEF Kept, SignalKept
    <3> QED BY <2>4, <2>8, <3>1, <3>2
  <2>10. SignalKept(b)'
    BY <1>1, <1>2, <2>7, <2>9 DEF Kept, SignalKept, SetMasks
  <2> QED BY <1>2, <2>3, <2>6, <2>7, <2>10, SignalCarried DEF SetMasks
<1>3. CASE Do("save_mask") /\ own' = [own EXCEPT !.orig = lib.masks[X]] /\ UNCHANGED lib
  <2>1. PICK x : x = X
    OBVIOUS
  <2>2. x \in MaskTags
    BY <1>1, <1>3, <2>1 DEF Fits, X
  <2>3. own'.orig = lib.masks[x] /\ own'.many = own.many
    BY <1>0, <1>3, <2>1 DEF OwnFields
  <2>4. PICK b : b = [c.book EXCEPT !.orig = (x \in c.book.masks)]
    OBVIOUS
  <2>5. /\ b.fd = c.book.fd /\ b.many = c.book.many /\ b.signal = c.book.signal
        /\ b.raised = c.book.raised /\ b.orig = (x \in c.book.masks)
        /\ b.masks = c.book.masks /\ b.errno = c.book.errno
        /\ b.pooled = c.book.pooled /\ b.said = c.book.said
    BY <1>1, <2>4 DEF Books
  <2>6. b \in After(Head(todo), c.book, c.sound) /\ Head(todo).op \notin Branching
    BY <1>3, <2>1, <2>4, AfterSaveMask DEF X, Branching
  <2>7. SignalKept(b)'
    BY <1>1, <1>3, <2>2, <2>3, <2>5 DEF Kept, SignalKept, SetMasks
  <2> QED BY <1>3, <2>3, <2>5, <2>6, <2>7, SignalCarried DEF SetMasks
<1> QED BY <1>2, <1>3 DEF SetMasks
-----------------------------------------------------------------------------
(***************************************************************************)
(* Events, errno, the table and the verdicts                               *)
(***************************************************************************)
LEMMA UnfollowedStep ==
  ASSUME ShapeInv, NEW c, Stands(c),
         Watch \/ CauseEvent \/ GetEvents \/ Complete \/ TableStep
  PROVE  Carried(c)
<1> USE DEF Do, At, Same, KeepTask, KeepTest, KeepOwn
<1>0. DOMAIN lib = LibFields /\ DOMAIN own = OwnFields
  BY DEF ShapeInv
<1>1. CASE Watch \/ CauseEvent
  <2>1. /\ lib'.open = lib.open /\ lib'.errno_ptr = lib.errno_ptr /\ lib'.pool = lib.pool
        /\ lib'.masks = lib.masks
    BY <1>0, <1>1 DEF LibFields, Watch, CauseEvent
  <2>2. Head(todo).op \in Unfollowed /\ Head(todo).op \notin Branching
    BY <1>1 DEF Watch, CauseEvent, Unfollowed, Branching
  <2>3. c.book \in After(Head(todo), c.book, c.sound)
    BY <2>2, AfterOther
  <2> QED BY <1>1, <2>1, <2>2, <2>3, NothingFollowed DEF Watch, CauseEvent
<1>2. CASE GetEvents \/ Complete
  <2>1. /\ lib'.open = lib.open /\ lib'.errno_ptr = lib.errno_ptr /\ lib'.pool = lib.pool
        /\ lib'.masks = lib.masks
    BY <1>0, <1>2 DEF LibFields, GetEvents, Complete
  <2>2. own'.many = own.many /\ own'.orig = own.orig
    BY <1>0, <1>2 DEF OwnFields, GetEvents, Complete
  <2>3. Head(todo).op \in Unfollowed /\ Head(todo).op \notin Branching
    BY <1>2 DEF GetEvents, Complete, Unfollowed, Branching
  <2>4. c.book \in After(Head(todo), c.book, c.sound)
    BY <2>3, AfterOther
  <2> QED BY <1>2, <2>1, <2>2, <2>3, <2>4, NothingFollowed DEF GetEvents, Complete
<1>3. CASE TableStep
  <2>1. /\ lib'.open = lib.open /\ lib'.errno_ptr = lib.errno_ptr /\ lib'.pool = lib.pool
        /\ lib'.masks = lib.masks
    BY <1>0, <1>3 DEF LibFields, TableStep, Sized
  <2>2. Head(todo).op \in Unfollowed /\ Head(todo).op \notin Branching
    BY <1>3 DEF TableStep, Unfollowed, Branching
  <2>3. own'.many = own.many /\ own'.orig = own.orig
    <3>1. CASE UNCHANGED own
      BY <3>1
    <3>2. CASE Do("get_dtable") \/ Do("let") \/ Do("let_sum")
      <4>1. X \in {"dtsize", "new_dtsize"}
        BY <3>2, Allowed DEF Fits, X
      <4>2. PICK v : own' = [own EXCEPT ![X] = v]
        BY <1>3, <3>2 DEF TableStep
      <4> QED BY <1>0, <4>1, <4>2 DEF OwnFields
    <3> QED BY <1>3, <3>1, <3>2 DEF TableStep
  <2>4. c.book \in After(Head(todo), c.book, c.sound)
    BY <2>2, AfterOther
  <2> QED BY <1>3, <2>1, <2>2, <2>3, <2>4, NothingFollowed DEF TableStep
<1> QED BY <1>1, <1>2, <1>3

LEMMA ErrnoStep ==
  ASSUME ShapeInv, NEW c, Stands(c), SetErrnoPtr
  PROVE  Carried(c)
<1> USE DEF SetErrnoPtr, Do, At, Same, KeepTask, KeepTest, KeepOwn
<1>0. DOMAIN lib = LibFields
  BY DEF ShapeInv
<1>1. c.book \in Books /\ Fits(Head(todo), c.book) /\ Kept(c.book)
  BY Allowed DEF Stands
<1>2. PICK x : x = X
  OBVIOUS
<1>3. /\ lib'.open = lib.open /\ lib'.errno_ptr = x /\ lib'.pool = lib.pool
      /\ lib'.masks = lib.masks
  BY <1>0, <1>2 DEF LibFields
<1>4. PICK b : b = [c.book EXCEPT !.errno = (x = "local")]
  OBVIOUS
<1>5. /\ b.fd = c.book.fd /\ b.many = c.book.many /\ b.signal = c.book.signal
      /\ b.raised = c.book.raised /\ b.masks = c.book.masks /\ b.orig = c.book.orig
      /\ b.errno = (x = "local") /\ b.pooled = c.book.pooled /\ b.said = c.book.said
  BY <1>1, <1>4 DEF Books
<1>6. b \in After(Head(todo), c.book, c.sound) /\ Head(todo).op \notin Branching
  BY <1>2, <1>4, AfterErrno DEF X, Branching
<1>7. DescriptorsKept(b)' /\ SignalKept(b)'
  BY <1>1, <1>3, <1>5, DescriptorsStay, SignalStays DEF Kept
<1>8. RestKept(b)'
  BY <1>1, <1>3, <1>5 DEF Kept, RestKept, runVars
<1>9. Kept(b)'
  BY <1>7, <1>8 DEF Kept
<1> QED BY <1>6, <1>9, Done

LEMMA ReportStep ==
  ASSUME ShapeInv, NEW c, Stands(c), Report
  PROVE  Carried(c)
<1> USE DEF Report, Do, At, Same, KeepTask, KeepOwn
<1>1. c.book \in Books /\ Kept(c.book) /\ c.book.said \in {0, 1}
  BY Allowed DEF Stands, Balanced, Books
<1>2. PICK v : said' = Append(said, v)
  OBVIOUS
<1>3. PICK b : b = [c.book EXCEPT !.said = IF @ = 0 THEN 1 ELSE 2]
  OBVIOUS
<1>4. /\ b.fd = c.book.fd /\ b.many = c.book.many /\ b.signal = c.book.signal
      /\ b.raised = c.book.raised /\ b.masks = c.book.masks /\ b.orig = c.book.orig
      /\ b.errno = c.book.errno /\ b.pooled = c.book.pooled
      /\ b.said = IF c.book.said = 0 THEN 1 ELSE 2
  BY <1>1, <1>3 DEF Books
<1>5. b \in After(Head(todo), c.book, c.sound) /\ Head(todo).op \notin Branching
  <2>1. Head(todo).op \in {"judge", "say"}
    OBVIOUS
  <2> QED BY <2>1, <1>3, AfterReport DEF Branching
<1>6. DescriptorsKept(b)' /\ SignalKept(b)'
  BY <1>1, <1>4, DescriptorsStay, SignalStays DEF Kept
<1>7. c.book.said = 0 => Len(said') = 1
  <2>1. Len(Append(<<>>, v)) = 1
    OBVIOUS
  <2> QED BY <2>1, <1>1, <1>2 DEF Kept, RestKept
<1>8. RestKept(b)'
  BY <1>1, <1>4, <1>7 DEF Kept, RestKept, runVars
<1>9. Kept(b)'
  BY <1>6, <1>8 DEF Kept
<1> QED BY <1>5, <1>9, Done

(***************************************************************************)
(* What the stack does meanwhile: an event raises the signal only while a  *)
(* mask names it, which the ledger has allowed for.                        *)
(***************************************************************************)
LEMMA StackStep ==
  ASSUME ShapeInv, NEW c, Stands(c), Arrive \/ Spurious
  PROVE  Stands(c)'
<1>0. DOMAIN lib = LibFields
  BY DEF ShapeInv
<1>1. PICK b : b = c.book
  OBVIOUS
<1>2. Kept(b) /\ Balanced(c)
  BY <1>1 DEF Stands
<1>3. UNCHANGED <<runVars, phase, current, todo, allocated, fd, own, said>>
  BY DEF Arrive, Spurious, KeepOwn, KeepTest
<1>4. /\ lib'.open = lib.open /\ lib'.errno_ptr = lib.errno_ptr /\ lib'.pool = lib.pool
      /\ lib'.masks = lib.masks
  BY <1>0 DEF LibFields, Arrive, Spurious
<1>5. raised' => raised \/ lib.masks["SIGEVENTMASK"] = "sigbit"
  BY DEF Arrive, Spurious, Raise
<1>6. lib.masks["SIGEVENTMASK"] = "sigbit" => b.raised
  BY <1>1, <1>2 DEF Kept, SignalKept, MaskTags, Balanced, MayRaise
<1>7. SignalKept(b)'
  BY <1>2, <1>3, <1>4, <1>5, <1>6 DEF Kept, SignalKept
<1>8. DescriptorsKept(b)' /\ RestKept(b)'
  BY <1>2, <1>3, <1>4, DescriptorsStay, RestStays DEF Kept, runVars
<1> QED BY <1>1, <1>2, <1>3, <1>7, <1>8 DEF Stands, Kept, runVars
-----------------------------------------------------------------------------
(***************************************************************************)
(* The shape is kept by every step.                                        *)
(***************************************************************************)
LEMMA ShapeOfDescriptors ==
  ASSUME ShapeInv, DescriptorStep
  PROVE  ShapeInv'
<1> USE DEF ShapeInv, Do, At, Same, Returned, KeepTask, KeepTest, runVars
<1>0. None \in Int
  BY DEF None
<1>1. CASE Socket
  BY <1>1, MadeIsFree DEF Socket, WithOpen, LibFields
<1>2. CASE Refused
  <2>1. PICK d \in {None} \union May(Made(lib.open)) : Returned(X, d) /\ lib' = WithOpen(d)
    BY <1>2 DEF Refused
  <2>2. d \in Int
    BY <1>0, <2>1, MadeIsFree DEF May
  <2>3. DOMAIN lib' = LibFields /\ lib'.masks = lib.masks /\ lib'.pool = lib.pool
    BY <2>1 DEF WithOpen, LibFields
  <2> QED BY <1>2, <2>1, <2>2, <2>3 DEF Refused
<1>3. CASE Connect
  <2>1. PICK d \in Int : /\ Returned(X, d)
                         /\ lib' = IF d = None THEN lib ELSE [Queued(Y) EXCEPT !.open = @ \union {d}]
    BY <1>0, <1>3, MadeIsFree DEF Connect
  <2>2. DOMAIN lib' = LibFields /\ lib'.masks = lib.masks /\ lib'.pool = lib.pool
    BY <2>1 DEF Queued, LibFields
  <2> QED BY <1>3, <2>1, <2>2 DEF Connect
<1>4. CASE ConnectSocket
  <2>1. DOMAIN lib' = LibFields /\ lib'.masks = lib.masks /\ lib'.pool = lib.pool
    BY <1>4 DEF ConnectSocket, Queued, LibFields
  <2>2. DOMAIN own' = OwnFields
    BY <1>4 DEF ConnectSocket
  <2> QED BY <1>4, <2>1, <2>2 DEF ConnectSocket
<1>5. CASE Accept
  <2>1. PICK d \in Int : /\ Returned(X, d)
                         /\ lib' = lib \/ lib' = [WithOpen(d) EXCEPT !.pending = @ \ {fd[Y]}]
    BY <1>0, <1>5, MadeIsFree DEF Accept
  <2>2. DOMAIN lib' = LibFields /\ lib'.masks = lib.masks /\ lib'.pool = lib.pool
    BY <2>1 DEF WithOpen, LibFields
  <2> QED BY <1>5, <2>1, <2>2 DEF Accept
<1>6. CASE Close
  BY <1>6 DEF Close, LibFields
<1>7. CASE Forget
  BY <1>0, <1>7 DEF Forget
<1>8. CASE OpenMany
  BY <1>8 DEF OpenMany, LibFields, OwnFields
<1>9. CASE CloseMany
  BY <1>9 DEF CloseMany, LibFields, OwnFields
<1>10. CASE Dup2Socket
  <2>1. PICK d \in Int : Returned(X, d) /\ lib' = WithOpen(d)
    BY <1>0, <1>10, MadeIsFree DEF Dup2Socket
  <2>2. DOMAIN lib' = LibFields /\ lib'.masks = lib.masks /\ lib'.pool = lib.pool
    BY <2>1 DEF WithOpen, LibFields
  <2> QED BY <1>10, <2>1, <2>2 DEF Dup2Socket
<1>11. CASE ReleaseSocket
  <2>1. PICK id \in {1} \union May({None}) :
          /\ Returned(X, id)
          /\ lib' = IF id = None THEN lib
                    ELSE IF At("release") THEN [lib EXCEPT !.open = @ \ {fd[Y]}, !.pool = @ \union {"socket"}]
                    ELSE [lib EXCEPT !.pool = @ \union {"copy"}]
    BY <1>11 DEF ReleaseSocket
  <2>2. id \in Int
    BY <1>0, <2>1 DEF May
  <2>3. DOMAIN lib' = LibFields /\ lib'.masks = lib.masks /\ lib'.pool \subseteq {"socket", "copy"}
    <3>1. CASE lib' = lib
      BY <3>1
    <3>2. CASE lib' = [lib EXCEPT !.open = @ \ {fd[Y]}, !.pool = @ \union {"socket"}]
      BY <3>2 DEF LibFields
    <3>3. CASE lib' = [lib EXCEPT !.pool = @ \union {"copy"}]
      BY <3>3 DEF LibFields
    <3> QED BY <2>1, <3>1, <3>2, <3>3
  <2> QED BY <1>11, <2>1, <2>2, <2>3 DEF ReleaseSocket
<1>12. CASE ObtainSocket
  <2>1. PICK d \in Int : /\ Returned(X, d)
                         /\ lib' = lib \/ lib' = [WithOpen(d) EXCEPT !.pool = @ \ {"socket"}]
    BY <1>12, MadeIsFree DEF ObtainSocket
  <2>2. DOMAIN lib' = LibFields /\ lib'.masks = lib.masks /\ lib'.pool \subseteq {"socket", "copy"}
    BY <2>1 DEF WithOpen, LibFields
  <2> QED BY <1>12, <2>1, <2>2 DEF ObtainSocket
<1> QED BY <1>1, <1>2, <1>3, <1>4, <1>5, <1>6, <1>7, <1>8, <1>9, <1>10, <1>11, <1>12
        DEF DescriptorStep

LEMMA ShapeOfEvents ==
  ASSUME ShapeInv, EventStep \/ Arrive \/ Spurious
  PROVE  ShapeInv'
<1> USE DEF ShapeInv, Do, At, Same, KeepTask, KeepTest, KeepOwn, runVars
<1>1. CASE AllocSignal
  BY <1>1 DEF AllocSignal
<1>2. CASE FreeSignal
  BY <1>2 DEF FreeSignal
<1>3. CASE SetSignal
  BY <1>3 DEF SetSignal
<1>4. CASE SetMasks
  <2>1. /\ DOMAIN lib' = LibFields /\ DOMAIN lib'.masks = MaskTags /\ lib'.pool = lib.pool
        /\ DOMAIN own' = OwnFields
    BY <1>4 DEF SetMasks, LibFields
  <2> QED BY <1>4, <2>1 DEF SetMasks
<1>5. CASE Watch
  BY <1>5 DEF Watch, LibFields
<1>6. CASE CauseEvent
  BY <1>6 DEF CauseEvent, LibFields
<1>7. CASE Wait
  BY <1>7 DEF Wait
<1>8. CASE GetEvents
  BY <1>8 DEF GetEvents, LibFields
<1>9. CASE RoundEnds
  BY <1>9 DEF RoundEnds
<1>10. CASE Complete
  BY <1>10 DEF Complete
<1>11. CASE Arrive
  BY <1>11 DEF Arrive, Raise, LibFields
<1>12. CASE Spurious
  BY <1>12 DEF Spurious, Raise
<1> QED BY <1>1, <1>2, <1>3, <1>4, <1>5, <1>6, <1>7, <1>8, <1>9, <1>10, <1>11, <1>12 DEF EventStep

LEMMA ShapeOfRest ==
  ASSUME ShapeInv, Branch \/ SetErrnoPtr \/ TableStep \/ Report
  PROVE  ShapeInv'
<1> USE DEF ShapeInv, Do, At, Same, KeepTask, KeepTest, KeepOwn, runVars
<1>1. CASE Branch
  BY <1>1 DEF Branch, Decide
<1>2. CASE SetErrnoPtr
  BY <1>2 DEF SetErrnoPtr, LibFields
<1>3. CASE TableStep
  <2>1. /\ DOMAIN lib' = LibFields /\ lib'.masks = lib.masks /\ lib'.pool = lib.pool
        /\ DOMAIN own' = OwnFields
    BY <1>3 DEF TableStep, Sized, LibFields
  <2> QED BY <1>3, <2>1 DEF TableStep
<1>4. CASE Report
  BY <1>4 DEF Report
<1> QED BY <1>1, <1>2, <1>3, <1>4

LEMMA ShapeOfRun ==
  ASSUME ShapeInv, open_bsdsocket \/ reset_socket_state \/ close_bsdsocket \/ Begin \/ End
  PROVE  ShapeInv'
<1> USE DEF ShapeInv, InLibrary, runVars
<1>1. CASE open_bsdsocket
  BY <1>1 DEF open_bsdsocket, LibFields
<1>2. CASE reset_socket_state
  BY <1>2 DEF reset_socket_state, LibFields
<1>3. CASE close_bsdsocket
  BY <1>3 DEF close_bsdsocket, LibFields
<1>4. CASE Begin
  <2>1. current' \in (Files[category].first - 1)..Files[category].last
    BY <1>4, Ranges DEF Begin
  <2>2. DOMAIN own' = OwnFields
    BY <1>4 DEF Begin
  <2> QED BY <1>4, <2>1, <2>2 DEF Begin
<1>5. CASE End
  BY <1>5 DEF End
<1> QED BY <1>1, <1>2, <1>3, <1>4, <1>5
-----------------------------------------------------------------------------
(***************************************************************************)
(* A test in hand is followed to its end.                                  *)
(***************************************************************************)
Steps == Branch \/ DescriptorStep \/ EventStep \/ SetErrnoPtr \/ TableStep \/ Report

LEMMA StepsInTest ==
  ASSUME Steps
  PROVE  phase = "test" /\ todo # <<>> /\ UNCHANGED <<runVars, phase, current>>
BY DEF Steps, Branch, Decide, DescriptorStep, Socket, Refused, Connect, ConnectSocket, Accept, Close,
       Forget, OpenMany, CloseMany, Dup2Socket, ReleaseSocket, ObtainSocket, EventStep, AllocSignal,
       FreeSignal, SetSignal, SetMasks, Watch, CauseEvent, Wait, GetEvents, RoundEnds, Complete,
       SetErrnoPtr, TableStep, Report, Do, At, Same

LEMMA StepsCarried ==
  ASSUME ShapeInv, ~misclosed, NEW c, Stands(c), Steps
  PROVE  Carried(c) /\ ~misclosed'
<1>1. Carried(c)
  <2>1. CASE DescriptorStep
    BY <2>1, GetsStep, ConnectSocketStep, CloseStep, ForgetStep, ManyStep, ReleaseStep, ObtainStep
       DEF DescriptorStep
  <2>2. CASE EventStep
    BY <2>2, AllocStep, FreeStep, SetSignalStep, MasksStep, WaitStep, UnfollowedStep, BranchStep
       DEF EventStep
  <2> QED BY <2>1, <2>2, BranchStep, ErrnoStep, UnfollowedStep, ReportStep DEF Steps
<1>2. ~misclosed'
  <2>1. CASE Close \/ CloseMany
    BY <2>1, CloseStep, ManyStep
  <2>2. CASE ~(Close \/ CloseMany)
    BY <2>2 DEF Steps, Branch, Decide, DescriptorStep, Socket, Refused, Connect, ConnectSocket, Accept,
         Forget, OpenMany, Dup2Socket, ReleaseSocket, ObtainSocket, EventStep, AllocSignal,
         FreeSignal, SetSignal, SetMasks, Watch, CauseEvent, Wait, GetEvents, RoundEnds, Complete,
         SetErrnoPtr, TableStep, Report, KeepTest, Returned
  <2> QED BY <2>1, <2>2
<1> QED BY <1>1, <1>2

LEMMA TestStep ==
  ASSUME ShapeInv, LedgerInv, Steps
  PROVE  LedgerInv'
<1>1. phase = "test" /\ todo # <<>> /\ UNCHANGED <<runVars, phase, current>>
  BY StepsInTest
<1>2. PICK c : Follows(c)
  BY <1>1 DEF LedgerInv
<1>3. Carried(c) /\ ~misclosed'
  BY <1>2, StepsCarried DEF Follows, LedgerInv
<1>4. \E e : Follows(e)'
  BY <1>1, <1>2, <1>3, Followed DEF LedgerInv
<1> QED BY <1>1, <1>3, <1>4 DEF LedgerInv, runVars

LEMMA BlankKept ==
  ASSUME ShapeInv, LedgerInv, Begin
  PROVE  Kept(Blank)'
<1> USE DEF Begin, runVars
<1>1. Clear /\ lib.open = {}
  BY DEF LedgerInv
<1>2. PICK b : b = Blank
  OBVIOUS
<1>3. /\ \A l \in Locals : b.fd[l] = "old"
      /\ b.many = FALSE /\ b.signal = FALSE /\ b.raised = FALSE /\ b.masks = {} /\ b.orig = FALSE
      /\ b.errno = FALSE /\ b.pooled = FALSE /\ b.said = 0
  BY <1>2 DEF Blank
<1>4. own'.many = {} /\ own'.orig # "sigbit"
  BY <1>1 DEF Clear, ShapeInv, OwnFields
<1>5. DescriptorsKept(b)'
  <2>1. Held(b) = {}
    BY <1>3 DEF Held
  <2> QED BY <1>1, <1>3, <1>4, <2>1 DEF DescriptorsKept
<1>6. SignalKept(b)'
  BY <1>1, <1>3, <1>4 DEF SignalKept, Clear, ShapeInv
<1>7. RestKept(b)'
  BY <1>1, <1>3 DEF RestKept, Clear
<1> QED BY <1>2, <1>5, <1>6, <1>7 DEF Kept

LEMMA BeginStep ==
  ASSUME ShapeInv, LedgerInv, Begin
  PROVE  LedgerInv'
<1> USE DEF Begin, runVars
<1>1. current' \in Tests /\ ~misclosed /\ current' >= Files[category].first
  BY Ranges DEF LedgerInv, ShapeInv
<1>2. PICK c : c = [todo |-> todo', sound |-> sound, book |-> Blank]
  OBVIOUS
<1>3. Script' = todo'
  BY DEF Script
<1>4. c \in LedgersOf(Script') /\ Balanced(c)
  <2>1. c \in Opening(Script')
    BY <1>2, <1>3 DEF Opening, Ledgers, ShapeInv
  <2>2. AllBalanced(Script', LedgersOf(Script'))
    BY <1>1, BooksBalance DEF Script
  <2> QED BY <2>1, <2>2 DEF AllBalanced
<1>5. Follows(c)'
  <2>1. Kept(Blank)'
    BY BlankKept
  <2> QED BY <2>1, <1>2, <1>4 DEF Follows, Stands
<1> QED BY <1>1, <1>5 DEF LedgerInv

LEMMA EndStep ==
  ASSUME ShapeInv, LedgerInv, End
  PROVE  LedgerInv'
<1> USE DEF End, runVars
<1>1. PICK c : Follows(c)
  BY DEF LedgerInv
<1>2. Settled(c.book) /\ Balanced(c) /\ Kept(c.book)
  BY <1>1, Allowed DEF Follows, Stands, End
<1>3. Held(c.book) = {} /\ own.many = {} /\ lib.open = {}
  BY <1>2 DEF Settled, Held, Kept, DescriptorsKept
<1>4. ~allocated /\ ~raised /\ own.orig # "sigbit" /\ \A m \in MaskTags : lib.masks[m] # "sigbit"
  BY <1>2 DEF Settled, Balanced, Kept, SignalKept
<1>5. lib.errno_ptr # "local" /\ Len(said) = 1 /\ (sound => "socket" \notin lib.pool)
  BY <1>2 DEF Settled, Kept, RestKept
<1> QED BY <1>3, <1>4, <1>5 DEF LedgerInv, Clear

LEMMA LibraryStep ==
  ASSUME ShapeInv, LedgerInv, open_bsdsocket \/ reset_socket_state \/ close_bsdsocket
  PROVE  LedgerInv'
<1> USE DEF InLibrary, runVars
<1>0. DOMAIN lib = LibFields /\ Clear /\ Len(said) <= 1 /\ ~misclosed
      /\ Files[category].first \in Nat /\ current \in Int
  BY Ranges DEF ShapeInv, LedgerInv, open_bsdsocket, reset_socket_state, close_bsdsocket
<1>1. CASE open_bsdsocket
  <2>1. /\ lib'.open = lib.open /\ lib'.masks = lib.masks /\ lib'.pool = lib.pool
        /\ lib'.errno_ptr # "local"
    BY <1>0, <1>1 DEF open_bsdsocket, LibFields, Clear
  <2> QED BY <1>0, <1>1, <2>1 DEF open_bsdsocket, LedgerInv, Clear
<1>2. CASE reset_socket_state
  <2>1. /\ lib'.open = {} /\ lib'.masks = lib.masks /\ lib'.pool = lib.pool
        /\ lib'.errno_ptr = lib.errno_ptr
    BY <1>0, <1>2 DEF reset_socket_state, LibFields, LedgerInv
  <2> QED BY <1>0, <1>2, <2>1 DEF reset_socket_state, LedgerInv, Clear
<1>3. CASE close_bsdsocket
  <2>1. lib'.masks = lib.masks /\ lib'.pool = {} /\ lib'.errno_ptr = "none"
    BY <1>0, <1>3 DEF close_bsdsocket, LibFields
  <2> QED BY <1>0, <1>3, <2>1 DEF close_bsdsocket, LedgerInv, Clear
<1> QED BY <1>1, <1>2, <1>3

LEMMA MeanwhileStep ==
  ASSUME ShapeInv, LedgerInv, Arrive \/ Spurious
  PROVE  LedgerInv'
<1>0. DOMAIN lib = LibFields
  BY DEF ShapeInv
<1>1. UNCHANGED <<runVars, phase, current, todo, allocated, fd, own, said, misclosed>>
  BY DEF Arrive, Spurious, KeepOwn, KeepTest
<1>2. CASE phase = "test"
  <2>1. PICK c : Follows(c)
    BY <1>2 DEF LedgerInv
  <2>2. Follows(c)'
    BY <1>1, <2>1, StackStep DEF Follows, Script, runVars
  <2> QED BY <1>1, <1>2, <2>2 DEF LedgerInv, runVars
<1>3. CASE phase # "test"
  <2>1. /\ lib'.open = lib.open /\ lib'.errno_ptr = lib.errno_ptr /\ lib'.pool = lib.pool
        /\ lib'.masks = lib.masks
    BY <1>0 DEF LibFields, Arrive, Spurious
  <2>2. raised' = raised
    BY <1>3 DEF Arrive, Spurious, Raise, LedgerInv, Clear, MaskTags, ShapeInv
  <2> QED BY <1>1, <1>3, <2>1, <2>2 DEF LedgerInv, Clear, runVars
<1> QED BY <1>2, <1>3
-----------------------------------------------------------------------------
LEMMA ResStart == ResInit => ResInv
<1> SUFFICES ASSUME ResInit PROVE ResInv
  OBVIOUS
<1>1. PICK leftover \in SUBSET {0}, table \in {64, 128} :
         lib = [open |-> leftover, pending |-> {}, watched |-> {}, due |-> {}, events |-> <<>>,
                masks |-> [m \in {"BREAKMASK", "SIGEVENTMASK"} |-> IF m = "BREAKMASK" THEN "ctrl_c" ELSE "none"],
                pool |-> {}, errno_ptr |-> "none", dtable |-> table]
  BY DEF ResInit
<1>2. PICK value \in Garbage :
         own = [dtsize |-> value, new_dtsize |-> value, orig |-> "none", many |-> {},
                got |-> <<>>, rc |-> "none", complete |-> FALSE]
  BY DEF ResInit
<1>3. /\ DOMAIN lib = LibFields /\ lib.open = leftover /\ lib.pool = {} /\ lib.errno_ptr = "none"
      /\ DOMAIN lib.masks = MaskTags /\ \A m \in MaskTags : lib.masks[m] # "sigbit"
  BY <1>1 DEF LibFields, MaskTags
<1>4. DOMAIN own = OwnFields /\ own.orig = "none" /\ own.many = {}
  BY <1>2 DEF OwnFields
<1>5. category \in Categories /\ current = Files[category].first - 1
  BY DEF ResInit
<1>6. current \in (Files[category].first - 1)..Files[category].last
  BY <1>5, Ranges
<1>7. ShapeInv
  <2>1. /\ sound \in BOOLEAN /\ allocated \in BOOLEAN /\ raised \in BOOLEAN /\ phase = "closed"
        /\ fd = [l \in Locals |-> None]
    BY DEF ResInit
  <2>2. fd \in [Locals -> Int]
    BY <2>1 DEF None
  <2> QED BY <1>3, <1>4, <1>5, <1>6, <2>1, <2>2 DEF ShapeInv
<1>8. LedgerInv
  BY <1>3, <1>4, <1>5 DEF ResInit, LedgerInv, Clear
<1> QED BY <1>7, <1>8 DEF ResInv

LEMMA ResStep == ResInv /\ [ResNext]_resVars => ResInv'
<1> SUFFICES ASSUME ResInv, [ResNext]_resVars PROVE ResInv'
  OBVIOUS
<1> USE DEF ResInv
<1>1. CASE Steps
  BY <1>1, TestStep, ShapeOfDescriptors, ShapeOfEvents, ShapeOfRest DEF Steps
<1>2. CASE open_bsdsocket \/ reset_socket_state \/ close_bsdsocket \/ Begin \/ End
  BY <1>2, ShapeOfRun, LibraryStep, BeginStep, EndStep
<1>3. CASE Arrive \/ Spurious
  BY <1>3, ShapeOfEvents, MeanwhileStep
<1>4. CASE UNCHANGED resVars
  BY <1>4 DEF resVars, runVars, ShapeInv, LedgerInv, Clear, Follows, Stands, Script, Kept, DescriptorsKept,
              SignalKept, RestKept
<1> QED BY <1>1, <1>2, <1>3, <1>4 DEF ResNext, Run, Steps, AcceptWaits, Exited

LEMMA ResAlways == ResSpec => []ResInv
  BY ResStart, ResStep, PTL DEF ResSpec

(***************************************************************************)
(* Whatever fails on its way, a test gives back all it has taken, each     *)
(* descriptor once, with any number of descriptors and any stack.          *)
(***************************************************************************)
THEOREM AlwaysGivenBack == ResSpec => []GivenBackOnce
<1>1. ResInv => GivenBackOnce
  BY DEF ResInv, ShapeInv, LedgerInv, Clear, GivenBackOnce
<1> QED BY <1>1, ResAlways, PTL

(***************************************************************************)
(* The library never holds on to a signal or a local that was given back,  *)
(* however late the events of the stack come.                              *)
(***************************************************************************)
THEOREM NeverDangling == ResSpec => []NoDanglingReference
<1>1. ResInv => NoDanglingReference
  <2> SUFFICES ASSUME ResInv PROVE NoDanglingReference
    OBVIOUS
  <2>1. CASE phase = "test"
    <3>1. PICK c : Follows(c)
      BY <2>1 DEF ResInv, LedgerInv
    <3>2. Balanced(c) /\ SignalKept(c.book)
      BY <2>1, <3>1, Allowed DEF ResInv, Follows, Stands, Kept
    <3> QED BY <2>1, <3>2 DEF ResInv, ShapeInv, Balanced, SignalKept, NoDanglingReference
  <2>2. CASE phase # "test"
    BY <2>2 DEF ResInv, ShapeInv, LedgerInv, Clear, NoDanglingReference
  <2> QED BY <2>1, <2>2
<1> QED BY <1>1, ResAlways, PTL

(***************************************************************************)
(* Every path through every test reports exactly once, whatever the stack  *)
(* answers and whichever tests are listed as crashes.                      *)
(***************************************************************************)
THEOREM AlwaysReportedOnce == ResSpec => []ReportsOnce
<1>1. ResInv => ReportsOnce
  <2> SUFFICES ASSUME ResInv PROVE ReportsOnce
    OBVIOUS
  <2>1. CASE phase = "test"
    <3>1. PICK c : Follows(c)
      BY <2>1 DEF ResInv, LedgerInv
    <3>2. Balanced(c) /\ RestKept(c.book)
      BY <2>1, <3>1, Allowed DEF ResInv, Follows, Stands, Kept
    <3>3. c.book.said \in {0, 1}
      BY <3>2 DEF Balanced, Books
    <3>4. Len(said) <= 1
      <4>1. Len(<<>>) = 0
        OBVIOUS
      <4>2. said = <<>> \/ Len(said) = 1
        BY <3>2, <3>3 DEF RestKept
      <4>3. Len(said) = 0 \/ Len(said) = 1
        BY <4>1, <4>2
      <4>4. 0 <= 1 /\ 1 <= 1
        OBVIOUS
      <4> QED BY <4>3, <4>4, Zenon
    <3> QED BY <2>1, <3>4 DEF ReportsOnce
  <2>2. CASE phase # "test"
    BY <2>2 DEF ResInv, LedgerInv, ReportsOnce
  <2> QED BY <2>1, <2>2
<1> QED BY <1>1, ResAlways, PTL
-----------------------------------------------------------------------------
(***************************************************************************)
(* A diary is right about the connections and the events,                  *)
(***************************************************************************)
NumbersOf(S) == {fd[l] : l \in S}

MeetingsKept(y) ==
    lib.pending = NumbersOf(y.pending) /\ lib.watched = NumbersOf(y.watched) /\ lib.due = NumbersOf(y.due)

\* about what the test was told of them,
EventsKept(y) ==
    /\ lib.events \in Seq(Int) /\ Len(lib.events) = Len(y.queue)
    /\ \A i \in 1..Len(y.queue) : lib.events[i] = fd[y.queue[i]]
    /\ own.got \in Seq(Int) /\ Len(own.got) = Len(y.got)
    /\ \A i \in 1..Len(y.got) : own.got[i] = IF y.got[i] = "nothing" THEN None ELSE fd[y.got[i]]
    /\ raised = y.raised /\ own.rc = y.rc /\ own.complete = y.complete

\* about the table, and about the verdict
TableKept(y) ==
    /\ y.roomy = Roomy(category)
    /\ y.roomy => lib.dtable \in Int /\ lib.dtable >= 64
    /\ \A x \in y.sized : own[x] \in Int /\ own[x] >= 64

NoFailure == \A i \in DOMAIN said : said[i] # "fail"

VerdictKept(y) == y.spared = (current \in crashes) /\ (current \notin crashes => NoFailure)

DayKept(y) == MeetingsKept(y) /\ EventsKept(y) /\ TableKept(y) /\ VerdictKept(y)

(***************************************************************************)
(* Some diary is right about the test in hand, and between tests there is  *)
(* nothing that a diary would have to say.                                 *)
(***************************************************************************)
Diaries == DiariesOf(category, current, current \in crashes)

Records(e) == e \in Diaries /\ InOrder(e) /\ Stands(e.ledger) /\ DayKept(e.day)

Still ==
    /\ lib.pending = {} /\ lib.watched = {} /\ lib.due = {} /\ lib.events = <<>>
    /\ Roomy(category) => lib.dtable \in Int /\ lib.dtable >= 64

DiaryInv ==
    sound => /\ phase = "test" => \E e : Records(e)
             /\ phase # "test" => Still
             /\ current \notin crashes => NoFailure

\* What is known before a step, of a book and a day that are right
Today(b, y) ==
    /\ b \in Books /\ y \in Days /\ Kept(b) /\ DayKept(y) /\ Busy(y) \subseteq Held(b)
    /\ sound /\ phase = "test" /\ todo # <<>>
    /\ Fits(Head(todo), b) /\ Suits(Head(todo), b, y)

\* A step that the day can follow,
Lived(y) == \E z \in DaysAfter(Head(todo), y) : DayKept(z)'

\* and that goes the way it goes on a sound stack
Smooth(y) ==
    /\ Head(todo).op \in Gets \ {"refused"} => fd'[X] # None
    /\ Head(todo).op = "refused" => fd'[X] = None
    /\ Head(todo).op = "if_event" => todo' = Head(todo).yes \o Tail(todo)
    /\ Head(todo).op = "if_size" /\ Head(todo).least <= 64 /\ X \in y.sized =>
          todo' = Head(todo).yes \o Tail(todo)
    /\ ~Waits(Head(todo), y)
-----------------------------------------------------------------------------
(***************************************************************************)
(* The diaries of the test in hand are in order, which TLC has evaluated.  *)
(***************************************************************************)
LEMMA Order ==
  ASSUME ShapeInv, current >= Files[category].first
  PROVE  AllInOrder(Waking(category, current, current \in crashes), Diaries)
<1>1. category \in DOMAIN Files /\ current \in Files[category].first..Files[category].last
  BY Ranges, ResourcesAssumption DEF ShapeInv
<1>2. \A spared \in BOOLEAN :
         AllInOrder(Waking(category, current, spared), DiariesOf(category, current, spared))
  BY <1>1, DiariesBalance
<1>3. (current \in crashes) \in BOOLEAN
  OBVIOUS
<1> QED BY <1>2, <1>3, Zenon DEF Diaries

(***************************************************************************)
(* A step that both the ledger and the day can follow leads to a diary of  *)
(* the same test.                                                          *)
(***************************************************************************)
LEMMA TurnTaken ==
  ASSUME ShapeInv, current >= Files[category].first, sound, NEW e, Records(e), todo # <<>>,
         UNCHANGED <<runVars, current>>, Carried(e.ledger), Lived(e.day), Smooth(e.day)
  PROVE  \E f : Records(f)'
<1>1. AllInOrder(Waking(category, current, current \in crashes), Diaries)
  BY Order
<1>0. Diaries' = Diaries
  BY DEF Diaries, runVars
<1>2. e.ledger.todo = todo /\ e.ledger.book \in Books /\ Fits(Head(todo), e.ledger.book)
  BY Allowed DEF Records, Stands
<1>3. PICK d \in Moves(e.ledger) : d.todo = todo' /\ d.sound = sound' /\ Kept(d.book)'
  BY DEF Carried
<1>4. PICK z \in DaysAfter(Head(todo), e.day) : DayKept(z)'
  BY DEF Lived
<1>5. Sound(Head(todo), Tail(todo), e.day, d)
  <2>1. ASSUME Head(todo).op \in Gets
        PROVE  /\ d.book.fd[X] = "open" \/ d.book.fd[X] = "none"
               /\ d.book.fd[X] = "none" => fd'[X] = None
               /\ d.book.fd[X] = "open" => fd'[X] >= 0
    <3>1. X \in Locals
      BY <1>2, <2>1 DEF Fits, Overwrites, X
    <3>2. Moves(e.ledger) = Ledgers(Tail(todo), e.ledger.sound, After(Head(todo), e.ledger.book, e.ledger.sound))
      BY <1>2, <2>1 DEF Moves, Gets
    <3>3. d.book \in {Becomes(e.ledger.book, X, "open"), Becomes(e.ledger.book, X, "none")}
      BY <1>3, <2>1, <3>2, AfterGets DEF Ledgers, X
    <3>4. d.book.fd = [e.ledger.book.fd EXCEPT ![X] = "open"] \/ d.book.fd = [e.ledger.book.fd EXCEPT ![X] = "none"]
      BY <1>2, <3>3 DEF Becomes, Books
    <3>5. d.book.fd[X] = "open" \/ d.book.fd[X] = "none"
      BY <1>2, <3>1, <3>4 DEF Books
    <3> QED BY <1>3, <3>1, <3>5 DEF Kept, DescriptorsKept
  <2>2. ~(None >= 0)
    BY DEF None
  <2> QED BY <1>3, <2>1, <2>2 DEF Sound, Smooth, Gets, X
<1>6. ~Waits(Head(todo), e.day)
  BY DEF Smooth
<1>7. PICK f : f = Entry(d, z)
  OBVIOUS
<1>8. f \in Turns(e)
  BY <1>2, <1>3, <1>4, <1>5, <1>6, <1>7 DEF Turns
<1>9. f \in Diaries /\ InOrder(f)
  BY <1>1, <1>8 DEF AllInOrder, Records
<1>10. f.ledger = d /\ f.day = z
  BY <1>7 DEF Entry
<1>11. Stands(f.ledger)'
  BY <1>3, <1>9, <1>10 DEF Stands, InOrder
<1>12. DayKept(f.day)'
  BY <1>4, <1>10
<1> QED BY <1>0, <1>9, <1>11, <1>12 DEF Records

LEMMA NowToday ==
  ASSUME sound, phase = "test", todo # <<>>, NEW e, Records(e)
  PROVE  Today(e.ledger.book, e.day)
<1>1. e.ledger.todo = todo /\ InOrder(e)
  BY DEF Records, Stands
<1>2. Suits(Head(todo), e.ledger.book, e.day) /\ Busy(e.day) \subseteq Held(e.ledger.book)
  BY <1>1 DEF InOrder, OpenLocals, Held
<1> QED BY <1>1, <1>2, Allowed DEF Records, Stands, InOrder, Today
-----------------------------------------------------------------------------
(***************************************************************************)
(* What a step leaves alone a diary need not change.                       *)
(***************************************************************************)
Mentioned(y) == {y.got[i] : i \in DOMAIN y.got}

LEMMA MeetingsStay ==
  ASSUME NEW y \in Days, NEW z, MeetingsKept(y), \A l \in Busy(y) : fd'[l] = fd[l],
         z.pending = y.pending, z.watched = y.watched, z.due = y.due,
         lib'.pending = lib.pending, lib'.watched = lib.watched, lib'.due = lib.due
  PROVE  MeetingsKept(z)'
<1>1. \A l \in y.pending \union y.watched \union y.due : fd'[l] = fd[l]
  BY DEF Busy
<1> QED BY <1>1 DEF MeetingsKept, NumbersOf

LEMMA EventsStay ==
  ASSUME NEW y \in Days, NEW z, EventsKept(y), \A l \in Busy(y) \union (Mentioned(y) \ {"nothing"}) : fd'[l] = fd[l],
         z.queue = y.queue, z.got = y.got, lib'.events = lib.events, own'.got = own.got,
         raised' = z.raised, own'.rc = z.rc, own'.complete = z.complete
  PROVE  EventsKept(z)'
<1>1. y.queue \in Seq(Locals) /\ y.got \in Seq(Locals \union {"nothing"})
  BY DEF Days
<1>2. /\ \A i \in 1..Len(y.queue) : y.queue[i] \in Busy(y)
      /\ \A i \in 1..Len(y.got) : y.got[i] \in Mentioned(y)
  BY <1>1 DEF Busy, Mentioned
<1>3. /\ \A i \in 1..Len(y.queue) : fd'[y.queue[i]] = fd[y.queue[i]]
      /\ \A i \in 1..Len(y.got) : y.got[i] # "nothing" => fd'[y.got[i]] = fd[y.got[i]]
  BY <1>2
<1> QED BY <1>3 DEF EventsKept

LEMMA TableStays ==
  ASSUME NEW y, NEW z, TableKept(y), z.roomy = y.roomy, z.sized = y.sized, y.sized \subseteq Sizes,
         UNCHANGED runVars, lib'.dtable = lib.dtable,
         own'.dtsize = own.dtsize, own'.new_dtsize = own.new_dtsize
  PROVE  TableKept(z)'
<1>1. \A x \in y.sized : own'[x] = own[x]
  BY DEF Sizes
<1> QED BY <1>1 DEF TableKept, runVars

LEMMA VerdictStays ==
  ASSUME NEW y, NEW z, VerdictKept(y), z.spared = y.spared, UNCHANGED <<runVars, current, said>>
  PROVE  VerdictKept(z)'
  BY DEF VerdictKept, NoFailure, runVars

(***************************************************************************)
(* Dull steps: a local that the day does not mention may change.           *)
(***************************************************************************)
LEMMA DullDay ==
  ASSUME NEW y \in Days, DayKept(y), Head(todo).op \in Dull,
         \A l \in Busy(y) \union (Mentioned(y) \ {"nothing"}) : fd'[l] = fd[l],
         lib'.pending = lib.pending, lib'.watched = lib.watched, lib'.due = lib.due,
         lib'.events = lib.events, lib'.dtable = lib.dtable,
         own'.got = own.got, own'.rc = own.rc, own'.complete = own.complete,
         own'.dtsize = own.dtsize, own'.new_dtsize = own.new_dtsize,
         raised' = raised, UNCHANGED <<runVars, current, said>>
  PROVE  Lived(y)
<1>1. y \in DaysAfter(Head(todo), y)
  BY DEF DaysAfter
<1>2. y.sized \subseteq Sizes
  BY DEF Days
<1>3. MeetingsKept(y)'
  BY MeetingsStay DEF DayKept
<1>4. EventsKept(y)'
  BY EventsStay DEF DayKept, EventsKept
<1>5. TableKept(y)'
  BY <1>2, TableStays DEF DayKept
<1>6. VerdictKept(y)'
  BY VerdictStays DEF DayKept
<1> QED BY <1>1, <1>3, <1>4, <1>5, <1>6 DEF Lived, DayKept

(***************************************************************************)
(* Two locals that are open have two numbers.                              *)
(***************************************************************************)
LEMMA NumbersWithout ==
  ASSUME NEW S, NEW x, \A l \in S : fd[l] = fd[x] => l = x
  PROVE  NumbersOf(S \ {x}) = NumbersOf(S) \ {fd[x]}
  BY DEF NumbersOf

LEMMA NumbersWith ==
  ASSUME NEW S, NEW x
  PROVE  NumbersOf(S \union {x}) = NumbersOf(S) \union {fd[x]}
  BY DEF NumbersOf

LEMMA NumbersAmong ==
  ASSUME NEW S, NEW x, \A l \in S : fd[l] = fd[x] => l = x
  PROVE  fd[x] \in NumbersOf(S) => x \in S
  BY DEF NumbersOf

(***************************************************************************)
(* There is a descriptor for every call: no test but those with many       *)
(* sockets has more than six open.                                         *)
(***************************************************************************)
LEMMA LocalsFinite == IsFiniteSet(Locals)
<1>1. IsFiniteSet({"fd"})
  BY FS_Singleton
<1>2. IsFiniteSet({"fd"} \union {"fd2"} \union {"listener"} \union {"client"} \union {"server"})
  BY <1>1, FS_AddElement
<1>3. IsFiniteSet({"fd"} \union {"fd2"} \union {"listener"} \union {"client"} \union {"server"}
                  \union {"listener2"} \union {"client2"} \union {"server2"} \union {"other"} \union {"id"})
  <2> DEFINE Five == {"fd"} \union {"fd2"} \union {"listener"} \union {"client"} \union {"server"}
  <2>1. IsFiniteSet(Five)
    BY <1>2
  <2> HIDE DEF Five
  <2>2. IsFiniteSet(Five \union {"listener2"})
    BY <2>1, FS_AddElement
  <2>3. IsFiniteSet(Five \union {"listener2"} \union {"client2"})
    BY <2>2, FS_AddElement
  <2>4. IsFiniteSet(Five \union {"listener2"} \union {"client2"} \union {"server2"})
    BY <2>3, FS_AddElement
  <2>5. IsFiniteSet(Five \union {"listener2"} \union {"client2"} \union {"server2"} \union {"other"})
    BY <2>4, FS_AddElement
  <2>6. IsFiniteSet(Five \union {"listener2"} \union {"client2"} \union {"server2"} \union {"other"} \union {"id"})
    BY <2>5, FS_AddElement
  <2> QED BY <2>6 DEF Five
<1>4. Locals = {"fd"} \union {"fd2"} \union {"listener"} \union {"client"} \union {"server"}
               \union {"listener2"} \union {"client2"} \union {"server2"} \union {"other"} \union {"id"}
  BY DEF Locals
<1> QED BY <1>3, <1>4

LEMMA RoomLeft ==
  ASSUME NEW b, DescriptorsKept(b), ~b.many, Cardinality(Held(b)) < 6
  PROVE  Descriptors \ lib.open # {}
<1>1. lib.open = {fd[l] : l \in Held(b)}
  BY DEF DescriptorsKept
<1>2. IsFiniteSet(Held(b)) /\ Cardinality(Held(b)) \in Nat
  BY LocalsFinite, FS_Subset, FS_CardinalityType DEF Held
<1>3. PICK g : g = [l \in Held(b) |-> fd[l]]
  OBVIOUS
<1>4. g \in Surjection(Held(b), lib.open)
  BY <1>1, <1>3 DEF Surjection
<1>5. IsFiniteSet(lib.open) /\ Cardinality(lib.open) <= Cardinality(Held(b))
  BY <1>2, <1>4, FS_Surjection
<1>6. Cardinality(lib.open) \in Nat
  BY <1>5, FS_CardinalityType
<1>7. ASSUME Descriptors \subseteq lib.open
      PROVE  FALSE
  <2>1. Cardinality(Descriptors) <= Cardinality(lib.open) /\ Cardinality(Descriptors) \in Nat
    BY <1>5, <1>7, FS_Subset, FS_CardinalityType
  <2> QED BY <2>1, <1>2, <1>5, <1>6, EnoughDescriptors
<1> QED BY <1>7
-----------------------------------------------------------------------------
(***************************************************************************)
(* Descriptors.  No call fails, and what a diary mentions keeps its number.*)
(***************************************************************************)
LEMMA Elsewhere ==
  ASSUME ShapeInv, NEW b, NEW y, Today(b, y), Head(todo).op \in Overwrites,
         NEW d, fd' = [fd EXCEPT ![X] = d]
  PROVE  /\ X \in Locals /\ fd'[X] = d /\ X \notin Busy(y) /\ X \notin Mentioned(y)
         /\ \A l \in Busy(y) \union (Mentioned(y) \ {"nothing"}) : fd'[l] = fd[l]
<1>1. X \in Locals /\ b.fd[X] # "open"
  BY DEF Today, Fits, X
<1>2. X \notin Busy(y) /\ X \notin Mentioned(y)
  BY <1>1 DEF Today, Suits, Held, Mentioned, X
<1>3. fd \in [Locals -> Int]
  BY DEF ShapeInv
<1>4. Busy(y) \union (Mentioned(y) \ {"nothing"}) \subseteq Locals
  BY DEF Today, Held, Mentioned, Days
<1> QED BY <1>1, <1>2, <1>3, <1>4

LEMMA SoundMade ==
  ASSUME NEW b, NEW y, Today(b, y), Head(todo).op \in Gets, NEW d \in Made(lib.open)
  PROVE  d # None
<1>1. ~b.many /\ Cardinality(Held(b)) < 6 /\ DescriptorsKept(b) /\ sound
  BY DEF Today, Suits, OpenLocals, Held, Kept
<1> QED BY <1>1, RoomLeft, MadeIsFree

LEMMA OvertakenDay ==
  ASSUME ShapeInv, NEW b, NEW y, Today(b, y),
         Socket \/ Refused \/ Dup2Socket \/ Forget \/ ReleaseSocket \/ ObtainSocket
  PROVE  Lived(y) /\ Smooth(y)
<1> USE DEF Do, At, Same, KeepTask, KeepTest, Returned
<1>0. DOMAIN lib = LibFields /\ y \in Days /\ DayKept(y) /\ sound
  BY DEF ShapeInv, Today
<1>1. /\ Head(todo).op \in Dull /\ Head(todo).op \in Overwrites
      /\ UNCHANGED <<runVars, current, said, own, raised>>
  BY DEF Socket, Refused, Dup2Socket, Forget, ReleaseSocket, ObtainSocket, Dull, Overwrites, Gets
<1>2. PICK d : fd' = [fd EXCEPT ![X] = d]
  BY DEF Socket, Refused, Dup2Socket, Forget, ReleaseSocket, ObtainSocket
<1>3. /\ lib'.pending = lib.pending /\ lib'.watched = lib.watched /\ lib'.due = lib.due
      /\ lib'.events = lib.events /\ lib'.dtable = lib.dtable
  <2>1. CASE lib' = lib
    BY <2>1
  <2>2. CASE \E e : lib' = WithOpen(e)
    BY <2>2, <1>0 DEF WithOpen, LibFields
  <2>3. CASE ReleaseSocket
    <3>1. CASE lib' = [lib EXCEPT !.open = @ \ {fd[Y]}, !.pool = @ \union {"socket"}]
      BY <3>1, <1>0 DEF LibFields
    <3>2. CASE lib' = [lib EXCEPT !.pool = @ \union {"copy"}]
      BY <3>2, <1>0 DEF LibFields
    <3> QED BY <2>1, <2>3, <3>1, <3>2 DEF ReleaseSocket
  <2>4. CASE ObtainSocket
    <3>1. CASE \E e : lib' = [WithOpen(e) EXCEPT !.pool = @ \ {"socket"}]
      BY <3>1, <1>0 DEF WithOpen, LibFields
    <3> QED BY <2>1, <2>4, <3>1 DEF ObtainSocket
  <2> QED BY <2>1, <2>2, <2>3, <2>4 DEF Socket, Refused, Dup2Socket, Forget
<1>4. Lived(y)
  BY <1>0, <1>1, <1>2, <1>3, Elsewhere, DullDay
<1>5. Smooth(y)
  <2>1. Head(todo).op \in Gets \ {"refused"} => fd'[X] # None
    BY <1>1, <1>2, Elsewhere, SoundMade DEF Socket, Refused, Dup2Socket, Forget, ReleaseSocket, ObtainSocket, Gets
  <2>2. Head(todo).op = "refused" => fd'[X] = None
    <3> SUFFICES ASSUME Head(todo).op = "refused" PROVE fd'[X] = None
      OBVIOUS
    <3>1. Refused
      BY DEF Socket, Dup2Socket, Forget, ReleaseSocket, ObtainSocket
    <3>2. fd' = [fd EXCEPT ![X] = None]
      BY <1>0, <3>1 DEF Refused, May
    <3> QED BY <1>1, <3>2, Elsewhere
  <2>3. Head(todo).op \notin {"if_event", "if_size", "wait", "delay", "wait_writable"}
    BY <1>1 DEF Overwrites, Gets
  <2> QED BY <2>1, <2>2, <2>3 DEF Smooth, Waits
<1> QED BY <1>4, <1>5

(***************************************************************************)
(* Connections.  One that is made queues at a listener, and may be an      *)
(* event for a socket that is watched.                                     *)
(***************************************************************************)
LEMMA Meetings ==
  ASSUME NEW z, NEW S, z.pending \subseteq S, z.watched \subseteq S, z.due \subseteq S,
         \A l \in S : fd'[l] = fd[l],
         lib'.pending = NumbersOf(z.pending), lib'.watched = NumbersOf(z.watched),
         lib'.due = NumbersOf(z.due)
  PROVE  MeetingsKept(z)'
<1>1. /\ NumbersOf(z.pending)' = NumbersOf(z.pending) /\ NumbersOf(z.watched)' = NumbersOf(z.watched)
      /\ NumbersOf(z.due)' = NumbersOf(z.due)
  BY DEF NumbersOf
<1> QED BY <1>1 DEF MeetingsKept

LEMMA MeetingsToday ==
  ASSUME NEW b, NEW y, Today(b, y)
  PROVE  /\ lib.pending = NumbersOf(y.pending) /\ lib.watched = NumbersOf(y.watched)
         /\ lib.due = NumbersOf(y.due)
         /\ y.pending \subseteq Held(b) /\ y.watched \subseteq Held(b) /\ y.due \subseteq Held(b)
         /\ DescriptorsKept(b) /\ DayKept(y) /\ y \in Days /\ y.sized \subseteq Sizes
         /\ \A l \in Held(b) : l \in Locals /\ fd[l] >= 0 /\ fd[l] # None
  BY DEF Today, DayKept, MeetingsKept, Busy, Kept, DescriptorsKept, Held, Days, None

\* The numbers change with the locals, for a local x that is open.
NumbersFit(y, x) ==
    /\ lib.watched = NumbersOf(y.watched) /\ lib.due = NumbersOf(y.due)
    /\ NumbersOf(y.pending \ {x}) = lib.pending \ {fd[x]}
    /\ NumbersOf(y.watched \ {x}) = lib.watched \ {fd[x]}
    /\ NumbersOf(y.due \ {x}) = lib.due \ {fd[x]}
    /\ NumbersOf(y.pending \union {x}) = lib.pending \union {fd[x]}
    /\ NumbersOf(y.watched \union {x}) = lib.watched \union {fd[x]}
    /\ x \in y.watched <=> fd[x] \in lib.watched
    /\ NumbersOf({x} \intersect y.watched) = {fd[x]} \intersect lib.watched
    /\ NumbersOf(y.due \union ({x} \intersect y.watched)) = lib.due \union ({fd[x]} \intersect lib.watched)

LEMMA NumbersToday ==
  ASSUME NEW b, NEW y, Today(b, y), NEW x, x \in Held(b)
  PROVE  NumbersFit(y, x)
<1>1. /\ lib.pending = NumbersOf(y.pending) /\ lib.watched = NumbersOf(y.watched)
      /\ lib.due = NumbersOf(y.due) /\ DescriptorsKept(b)
      /\ y.pending \subseteq Held(b) /\ y.watched \subseteq Held(b) /\ y.due \subseteq Held(b)
  BY MeetingsToday
<1>2. /\ \A l \in y.pending : fd[l] = fd[x] => l = x
      /\ \A l \in y.watched : fd[l] = fd[x] => l = x
      /\ \A l \in y.due : fd[l] = fd[x] => l = x
  BY <1>1 DEF DescriptorsKept
<1>3. /\ NumbersOf(y.pending \ {x}) = lib.pending \ {fd[x]}
      /\ NumbersOf(y.watched \ {x}) = lib.watched \ {fd[x]}
      /\ NumbersOf(y.due \ {x}) = lib.due \ {fd[x]}
  <2>1. NumbersOf(y.pending \ {x}) = NumbersOf(y.pending) \ {fd[x]}
    BY <1>2, NumbersWithout
  <2>2. NumbersOf(y.watched \ {x}) = NumbersOf(y.watched) \ {fd[x]}
    BY <1>2, NumbersWithout
  <2>3. NumbersOf(y.due \ {x}) = NumbersOf(y.due) \ {fd[x]}
    BY <1>2, NumbersWithout
  <2> QED BY <1>1, <2>1, <2>2, <2>3
<1>4. /\ NumbersOf(y.pending \union {x}) = lib.pending \union {fd[x]}
      /\ NumbersOf(y.watched \union {x}) = lib.watched \union {fd[x]}
      /\ NumbersOf(y.due \union {x}) = lib.due \union {fd[x]}
  BY <1>1, NumbersWith
<1>5. fd[x] \in lib.watched <=> x \in y.watched
  BY <1>1, <1>2, NumbersAmong DEF NumbersOf
<1>6. /\ NumbersOf({x} \intersect y.watched) = {fd[x]} \intersect lib.watched
      /\ NumbersOf(y.due \union ({x} \intersect y.watched)) = lib.due \union ({fd[x]} \intersect lib.watched)
  <2>1. CASE x \in y.watched
    <3>1. {x} \intersect y.watched = {x} /\ {fd[x]} \intersect lib.watched = {fd[x]}
      BY <2>1, <1>5
    <3>2. NumbersOf({x}) = {fd[x]}
      BY DEF NumbersOf
    <3> QED BY <3>1, <3>2, <1>4
  <2>2. CASE x \notin y.watched
    <3>1. {x} \intersect y.watched = {} /\ {fd[x]} \intersect lib.watched = {}
      BY <2>2, <1>5
    <3>2. NumbersOf({}) = {}
      BY DEF NumbersOf
    <3> QED BY <3>1, <3>2, <1>1
  <2> QED BY <2>1, <2>2
<1> QED BY <1>1, <1>3, <1>4, <1>5, <1>6 DEF NumbersFit

LEMMA ConnectDay ==
  ASSUME ShapeInv, NEW b, NEW y, Today(b, y), Connect
  PROVE  Lived(y) /\ Smooth(y)
<1> USE DEF Connect, Do, At, Same, KeepTask, KeepTest, Returned
<1>0. DOMAIN lib = LibFields /\ sound
  BY DEF ShapeInv, Today
<1>1. Head(todo).op \in Overwrites /\ Head(todo).op \in Gets
  BY DEF Overwrites, Gets
<1>2. PICK l : l = Y
  OBVIOUS
<1>3. l \in Held(b) /\ l # X
  BY <1>1, <1>2 DEF Today, Suits, Fits, Held, Y, X
<1>4. PICK d : /\ d \in Made(lib.open) \/ d = None
               /\ d = None => d \in Made(lib.open) \/ fd[l] = None
               /\ fd' = [fd EXCEPT ![X] = d]
               /\ lib' = IF d = None THEN lib ELSE [Queued(l) EXCEPT !.open = @ \union {d}]
  BY <1>2
<1>5. d # None
  BY <1>1, <1>3, <1>4, SoundMade, MeetingsToday
<1>6. /\ lib'.pending = lib.pending \union {fd[l]} /\ lib'.watched = lib.watched
      /\ lib'.due = lib.due \union ({fd[l]} \intersect lib.watched)
      /\ lib'.events = lib.events /\ lib'.dtable = lib.dtable
  BY <1>0, <1>4, <1>5 DEF Queued, LibFields
<1>7. PICK z : z = Queues(y, l)
  OBVIOUS
<1>8. /\ z.pending = y.pending \union {l} /\ z.watched = y.watched
      /\ z.due = y.due \union ({l} \intersect y.watched)
      /\ z.queue = y.queue /\ z.got = y.got /\ z.raised = y.raised /\ z.rc = y.rc
      /\ z.complete = y.complete /\ z.sized = y.sized /\ z.roomy = y.roomy /\ z.spared = y.spared
  BY <1>7, MeetingsToday DEF Queues, Days
<1>9. z \in DaysAfter(Head(todo), y)
  BY <1>2, <1>7 DEF DaysAfter, Y
<1>10. NumbersFit(y, l)
  BY <1>3, NumbersToday
<1>11. MeetingsKept(z)'
  <2>1. \A k \in Held(b) : fd'[k] = fd[k]
    BY <1>1, <1>4, MeetingsToday DEF ShapeInv, Today, Fits, Held, X
  <2>2. lib'.pending = NumbersOf(z.pending) /\ lib'.watched = NumbersOf(z.watched)
    BY <1>6, <1>8, <1>10 DEF NumbersFit
  <2>3. lib'.due = NumbersOf(z.due)
    BY <1>6, <1>8, <1>10 DEF NumbersFit
  <2>4. z.pending \subseteq Held(b) /\ z.watched \subseteq Held(b) /\ z.due \subseteq Held(b)
    BY <1>3, <1>8, MeetingsToday
  <2> QED BY <2>1, <2>2, <2>3, <2>4, Meetings
<1>12. EventsKept(z)'
  <2>1. raised' = z.raised /\ own'.rc = z.rc /\ own'.complete = z.complete /\ EventsKept(y)
    BY <1>8, MeetingsToday DEF DayKept, EventsKept
  <2>2. \A k \in Busy(y) \union (Mentioned(y) \ {"nothing"}) : fd'[k] = fd[k]
    BY <1>1, <1>4, Elsewhere
  <2> QED BY <2>1, <2>2, <1>6, <1>8, EventsStay, MeetingsToday
<1>13. TableKept(z)' /\ VerdictKept(z)'
  BY <1>6, <1>8, TableStays, VerdictStays, MeetingsToday DEF DayKept
<1>14. Smooth(y)
  BY <1>1, <1>4, <1>5, Elsewhere DEF Smooth, Waits
<1> QED BY <1>9, <1>11, <1>12, <1>13, <1>14 DEF Lived, DayKept

LEMMA AcceptDay ==
  ASSUME ShapeInv, NEW b, NEW y, Today(b, y), Accept
  PROVE  Lived(y) /\ Smooth(y)
<1> USE DEF Accept, Do, At, Same, KeepTask, KeepTest, Returned
<1>0. DOMAIN lib = LibFields /\ sound
  BY DEF ShapeInv, Today
<1>1. Head(todo).op \in Overwrites /\ Head(todo).op \in Gets
  BY DEF Overwrites, Gets
<1>2. PICK l : l = Y
  OBVIOUS
<1>3. l \in Held(b) /\ l # X
  BY <1>1, <1>2 DEF Today, Suits, Fits, Held, Y, X
<1>4. PICK d \in Made(lib.open) : /\ fd' = [fd EXCEPT ![X] = d]
                                  /\ lib' = [WithOpen(d) EXCEPT !.pending = @ \ {fd[l]}]
  BY <1>0, <1>2, <1>3, MeetingsToday
<1>5. d # None
  BY <1>1, <1>4, SoundMade
<1>6. /\ lib'.pending = lib.pending \ {fd[l]} /\ lib'.watched = lib.watched /\ lib'.due = lib.due
      /\ lib'.events = lib.events /\ lib'.dtable = lib.dtable
  BY <1>0, <1>4 DEF WithOpen, LibFields
<1>7. PICK z : z = [y EXCEPT !.pending = @ \ {l}]
  OBVIOUS
<1>8. /\ z.pending = y.pending \ {l} /\ z.watched = y.watched /\ z.due = y.due
      /\ z.queue = y.queue /\ z.got = y.got /\ z.raised = y.raised /\ z.rc = y.rc
      /\ z.complete = y.complete /\ z.sized = y.sized /\ z.roomy = y.roomy /\ z.spared = y.spared
  BY <1>7, MeetingsToday DEF Days
<1>9. z \in DaysAfter(Head(todo), y)
  BY <1>2, <1>7 DEF DaysAfter, Y
<1>10. NumbersFit(y, l)
  BY <1>3, NumbersToday
<1>11. MeetingsKept(z)'
  <2>1. \A k \in Held(b) : fd'[k] = fd[k]
    BY <1>1, <1>4, MeetingsToday DEF ShapeInv, Today, Fits, Held, X
  <2>2. /\ lib'.pending = NumbersOf(z.pending) /\ lib'.watched = NumbersOf(z.watched)
        /\ lib'.due = NumbersOf(z.due)
    BY <1>6, <1>8, <1>10 DEF NumbersFit
  <2>3. z.pending \subseteq Held(b) /\ z.watched \subseteq Held(b) /\ z.due \subseteq Held(b)
    BY <1>8, MeetingsToday
  <2> QED BY <2>1, <2>2, <2>3, Meetings
<1>12. EventsKept(z)'
  <2>1. raised' = z.raised /\ own'.rc = z.rc /\ own'.complete = z.complete /\ EventsKept(y)
    BY <1>8, MeetingsToday DEF DayKept, EventsKept
  <2>2. \A k \in Busy(y) \union (Mentioned(y) \ {"nothing"}) : fd'[k] = fd[k]
    BY <1>1, <1>4, Elsewhere
  <2> QED BY <2>1, <2>2, <1>6, <1>8, EventsStay, MeetingsToday
<1>13. TableKept(z)' /\ VerdictKept(z)'
  BY <1>6, <1>8, TableStays, VerdictStays, MeetingsToday DEF DayKept
<1>14. Smooth(y)
  BY <1>1, <1>4, <1>5, Elsewhere DEF Smooth, Waits
<1> QED BY <1>9, <1>11, <1>12, <1>13, <1>14 DEF Lived, DayKept

LEMMA ConnectSocketDay ==
  ASSUME ShapeInv, NEW b, NEW y, Today(b, y), ConnectSocket
  PROVE  Lived(y) /\ Smooth(y)
<1> USE DEF Do, At, Same, KeepTask, KeepTest
<1>0. DOMAIN lib = LibFields /\ DOMAIN own = OwnFields /\ sound
  BY DEF ShapeInv, Today
<1>1. Head(todo).op \in {"connect_now", "connect_async"} /\ UNCHANGED <<runVars, current, said, raised, fd>>
  BY DEF ConnectSocket
<1>2. PICK l, x : l = Y /\ x = X
  OBVIOUS
<1>3. l \in Held(b) /\ x \in Held(b)
  BY <1>1, <1>2 DEF Today, Suits, Fits, Held, Y, X
<1>4. PICK rc \in {"ok"} \union (IF At("connect_async") THEN {"progress"} ELSE {}), event \in BOOLEAN :
        /\ own' = [own EXCEPT !.rc = rc] /\ (rc = "progress" => event)
        /\ lib' = [Queued(l) EXCEPT !.due = @ \union ((IF event THEN {fd[x]} ELSE {}) \intersect lib.watched)]
  BY <1>0, <1>2 DEF ConnectSocket, May
<1>5. PICK S : S = IF event THEN {x} \intersect y.watched ELSE {}
  OBVIOUS
<1>6. NumbersFit(y, l) /\ NumbersFit(y, x)
  BY <1>3, NumbersToday
<1>7. NumbersOf(S) = (IF event THEN {fd[x]} ELSE {}) \intersect lib.watched
  <2>1. NumbersOf({}) = {}
    BY DEF NumbersOf
  <2> QED BY <2>1, <1>5, <1>6 DEF NumbersFit
<1>8. /\ lib'.pending = lib.pending \union {fd[l]} /\ lib'.watched = lib.watched
      /\ lib'.due = (lib.due \union ({fd[l]} \intersect lib.watched)) \union NumbersOf(S)
      /\ lib'.events = lib.events /\ lib'.dtable = lib.dtable
  BY <1>0, <1>4, <1>7 DEF Queued, LibFields
<1>9. /\ own'.rc = rc /\ own'.got = own.got /\ own'.complete = own.complete
      /\ own'.dtsize = own.dtsize /\ own'.new_dtsize = own.new_dtsize
  BY <1>0, <1>4 DEF OwnFields
<1>10. PICK z : z = Reaches(Head(todo), y, rc, event)
  OBVIOUS
<1>11. /\ z.pending = y.pending \union {l} /\ z.watched = y.watched
       /\ z.due = (y.due \union ({l} \intersect y.watched)) \union S
       /\ z.queue = y.queue /\ z.got = y.got /\ z.raised = y.raised /\ z.rc = rc
       /\ z.complete = y.complete /\ z.sized = y.sized /\ z.roomy = y.roomy /\ z.spared = y.spared
  BY <1>2, <1>5, <1>10, MeetingsToday DEF Reaches, Queues, Days, X, Y
<1>12. z \in DaysAfter(Head(todo), y)
  <2>1. rc = "ok" \/ (rc = "progress" /\ event = TRUE /\ Head(todo).op = "connect_async")
    BY <1>4
  <2> QED BY <2>1, <1>1, <1>10 DEF DaysAfter
<1>13. MeetingsKept(z)'
  <2>1. S \subseteq Held(b)
    BY <1>3, <1>5
  <2>2. z.pending \subseteq Held(b) /\ z.watched \subseteq Held(b) /\ z.due \subseteq Held(b)
    BY <2>1, <1>3, <1>11, MeetingsToday
  <2>3. NumbersOf((y.due \union ({l} \intersect y.watched)) \union S)
           = NumbersOf(y.due \union ({l} \intersect y.watched)) \union NumbersOf(S)
    BY DEF NumbersOf
  <2>4. /\ lib'.pending = NumbersOf(z.pending) /\ lib'.watched = NumbersOf(z.watched)
        /\ lib'.due = NumbersOf(z.due)
    BY <2>3, <1>6, <1>8, <1>11 DEF NumbersFit
  <2> QED BY <2>2, <2>4, <1>1, Meetings
<1>14. EventsKept(z)'
  <2>1. raised' = z.raised /\ own'.complete = z.complete /\ EventsKept(y)
    BY <1>1, <1>9, <1>11, MeetingsToday DEF DayKept, EventsKept
  <2> QED BY <2>1, <1>1, <1>8, <1>9, <1>11, EventsStay, MeetingsToday
<1>15. TableKept(z)' /\ VerdictKept(z)'
  BY <1>1, <1>8, <1>9, <1>11, TableStays, VerdictStays, MeetingsToday DEF DayKept
<1>16. Smooth(y)
  BY <1>1 DEF Smooth, Waits, Gets
<1> QED BY <1>12, <1>13, <1>14, <1>15, <1>16 DEF Lived, DayKept

LEMMA CloseDay ==
  ASSUME ShapeInv, NEW b, NEW y, Today(b, y), Close
  PROVE  Lived(y) /\ Smooth(y)
<1> USE DEF Close, Do, At, Same, KeepTask
<1>0. DOMAIN lib = LibFields /\ sound
  BY DEF ShapeInv, Today
<1>1. PICK x : x = X
  OBVIOUS
<1>2. x \in Locals /\ b.fd[x] \in {"open", "none"} /\ \A i \in DOMAIN y.queue : y.queue[i] # x
  BY <1>1 DEF Today, Suits, Fits, X
<1>3. x \in Held(b) \/ (x \notin Held(b) /\ fd[x] = None)
  BY <1>2 DEF Held, Today, Kept, DescriptorsKept
<1>4. /\ lib'.pending = lib.pending \ {fd[x]} /\ lib'.watched = lib.watched \ {fd[x]}
      /\ lib'.due = lib.due \ {fd[x]} /\ lib'.events = Without(lib.events, fd[x])
      /\ lib'.dtable = lib.dtable
  BY <1>0, <1>1 DEF LibFields
<1>5. PICK z : z = Gone(y, x)
  OBVIOUS
<1>6. /\ z.pending = y.pending \ {x} /\ z.watched = y.watched \ {x} /\ z.due = y.due \ {x}
      /\ z.queue = y.queue /\ z.got = y.got /\ z.raised = y.raised /\ z.rc = y.rc
      /\ z.complete = y.complete /\ z.sized = y.sized /\ z.roomy = y.roomy /\ z.spared = y.spared
  BY <1>5, MeetingsToday DEF Gone, Days
<1>7. z \in DaysAfter(Head(todo), y)
  BY <1>1, <1>5 DEF DaysAfter, X
<1>8. MeetingsKept(z)'
  <2>1. CASE x \in Held(b)
    <3>1. NumbersFit(y, x)
      BY <2>1, NumbersToday
    <3>2. /\ lib'.pending = NumbersOf(z.pending) /\ lib'.watched = NumbersOf(z.watched)
          /\ lib'.due = NumbersOf(z.due)
      BY <3>1, <1>4, <1>6 DEF NumbersFit
    <3>3. z.pending \subseteq Held(b) /\ z.watched \subseteq Held(b) /\ z.due \subseteq Held(b)
      BY <1>6, MeetingsToday
    <3> QED BY <3>2, <3>3, Meetings
  <2>2. CASE x \notin Held(b) /\ fd[x] = None
    <3>1. z.pending = y.pending /\ z.watched = y.watched /\ z.due = y.due
      BY <2>2, <1>6, MeetingsToday
    <3>2. None \notin NumbersOf(y.pending) /\ None \notin NumbersOf(y.watched) /\ None \notin NumbersOf(y.due)
      BY MeetingsToday DEF NumbersOf
    <3>3. lib'.pending = lib.pending /\ lib'.watched = lib.watched /\ lib'.due = lib.due
      BY <2>2, <3>2, <1>4, MeetingsToday
    <3>4. MeetingsKept(y)
      BY MeetingsToday DEF DayKept
    <3> QED BY <3>1, <3>3, <3>4, MeetingsStay, MeetingsToday
  <2> QED BY <1>3, <2>1, <2>2
<1>9. lib'.events = lib.events
  <2>1. EventsKept(y) /\ y.queue \in Seq(Locals)
    BY MeetingsToday DEF DayKept, Days
  <2>2. \A i \in 1..Len(y.queue) : y.queue[i] \in Held(b) /\ y.queue[i] # x
    BY <2>1, <1>2 DEF Today, Busy
  <2>3. \A i \in 1..Len(y.queue) : fd[y.queue[i]] # fd[x]
    BY <2>2, <1>3, MeetingsToday DEF DescriptorsKept
  <2>4. \A i \in DOMAIN lib.events : lib.events[i] # fd[x]
    <3>1. lib.events \in Seq(Int) /\ Len(lib.events) = Len(y.queue)
      BY <2>1 DEF EventsKept
    <3>2. DOMAIN lib.events = 1..Len(y.queue)
      BY <3>1
    <3> QED BY <2>1, <2>3, <3>2 DEF EventsKept
  <2> QED BY <2>4, <1>4 DEF Without
<1>10. EventsKept(z)'
  <2>1. raised' = z.raised /\ own'.rc = z.rc /\ own'.complete = z.complete /\ EventsKept(y)
    BY <1>6, MeetingsToday DEF DayKept, EventsKept
  <2> QED BY <2>1, <1>6, <1>9, EventsStay, MeetingsToday
<1>11. TableKept(z)' /\ VerdictKept(z)'
  BY <1>4, <1>6, TableStays, VerdictStays, MeetingsToday DEF DayKept
<1>12. Smooth(y)
  BY DEF Smooth, Waits, Gets
<1> QED BY <1>7, <1>8, <1>10, <1>11, <1>12 DEF Lived, DayKept
-----------------------------------------------------------------------------
(***************************************************************************)
(* The signal and the events                                               *)
(***************************************************************************)
LEMMA SignalDay ==
  ASSUME ShapeInv, NEW b, NEW y, Today(b, y), SetSignal \/ Wait
  PROVE  Lived(y) /\ Smooth(y)
<1> USE DEF SetSignal, Wait, Do, At, Same, KeepTest, KeepOwn
<1>0. sound /\ DayKept(y) /\ y \in Days /\ UNCHANGED <<runVars, current, said, fd, own, lib>>
  BY DEF Today
<1>1. y.due = {} <=> lib.due = {}
  <2>1. lib.due = NumbersOf(y.due)
    BY MeetingsToday
  <2>2. y.due # {} => NumbersOf(y.due) # {}
    BY DEF NumbersOf
  <2>3. NumbersOf({}) = {}
    BY DEF NumbersOf
  <2> QED BY <2>1, <2>2, <2>3
<1>2. raised = y.raised
  BY <1>0 DEF DayKept, EventsKept
<1>3. Smooth(y)
  BY <1>0, <1>1, <1>2 DEF Smooth, Waits, InTime, Gets
<1>4. CASE Do("delay") \/ Do("wait_writable")
  <2>1. Head(todo).op \in Dull /\ raised' = raised
    BY <1>4 DEF Dull
  <2> QED BY <2>1, <1>0, <1>3, DullDay
<1>5. CASE Do("signal") \/ Do("clear") \/ Do("wait")
  <2>1. PICK z : z = [y EXCEPT !.raised = (Head(todo).op = "signal")]
    OBVIOUS
  <2>2. /\ z.pending = y.pending /\ z.watched = y.watched /\ z.due = y.due
        /\ z.queue = y.queue /\ z.got = y.got /\ z.raised = (Head(todo).op = "signal") /\ z.rc = y.rc
        /\ z.complete = y.complete /\ z.sized = y.sized /\ z.roomy = y.roomy /\ z.spared = y.spared
    BY <1>0, <2>1 DEF Days
  <2>3. z \in DaysAfter(Head(todo), y)
    <3>1. Head(todo).op = "signal" => z = [y EXCEPT !.raised = TRUE]
      BY <2>1
    <3>2. Head(todo).op \in {"clear", "wait"} => z = [y EXCEPT !.raised = FALSE]
      BY <2>1
    <3> QED BY <1>5, <3>1, <3>2 DEF DaysAfter
  <2>4. raised' = z.raised
    BY <1>5, <2>2
  <2>5. MeetingsKept(z)'
    BY <1>0, <2>2, MeetingsStay DEF DayKept
  <2>6. EventsKept(z)'
    <3>1. own'.rc = z.rc /\ own'.complete = z.complete /\ EventsKept(y)
      BY <1>0, <2>2 DEF DayKept, EventsKept
    <3> QED BY <3>1, <1>0, <2>2, <2>4, EventsStay
  <2>7. TableKept(z)' /\ VerdictKept(z)'
    BY <1>0, <2>2, TableStays, VerdictStays DEF DayKept, Days
  <2> QED BY <1>3, <2>3, <2>5, <2>6, <2>7 DEF Lived, DayKept
<1> QED BY <1>4, <1>5

LEMMA WatchDay ==
  ASSUME ShapeInv, NEW b, NEW y, Today(b, y), Watch \/ CauseEvent
  PROVE  Lived(y) /\ Smooth(y)
<1> USE DEF Watch, CauseEvent, Do, At, Same, KeepTask, KeepTest, KeepOwn
<1>0. DOMAIN lib = LibFields /\ UNCHANGED <<runVars, current, said, fd, own, raised>>
  BY DEF ShapeInv
<1>1. PICK x : x = X
  OBVIOUS
<1>2. x \in Held(b)
  BY <1>1 DEF Today, Suits, Fits, Held, X
<1>3. NumbersFit(y, x)
  BY <1>2, NumbersToday
<1>4. PICK V, D : /\ V = IF Head(todo).op = "watch" THEN y.watched \union {x}
                         ELSE IF Head(todo).op = "unwatch" THEN y.watched \ {x} ELSE y.watched
                  /\ D = IF Head(todo).op = "cause" THEN y.due \union ({x} \intersect y.watched) ELSE y.due
  OBVIOUS
<1>5. PICK z : z = [y EXCEPT !.watched = V, !.due = D]
  OBVIOUS
<1>6. /\ z.pending = y.pending /\ z.watched = V /\ z.due = D
      /\ z.queue = y.queue /\ z.got = y.got /\ z.raised = y.raised /\ z.rc = y.rc
      /\ z.complete = y.complete /\ z.sized = y.sized /\ z.roomy = y.roomy /\ z.spared = y.spared
  BY <1>5, MeetingsToday DEF Days
<1>7. z \in DaysAfter(Head(todo), y)
  <2>1. Head(todo).op = "watch" => z = [y EXCEPT !.watched = @ \union {x}]
    BY <1>4, <1>5, MeetingsToday DEF Days
  <2>2. Head(todo).op = "unwatch" => z = [y EXCEPT !.watched = @ \ {x}]
    BY <1>4, <1>5, MeetingsToday DEF Days
  <2>3. Head(todo).op = "cause" => z = [y EXCEPT !.due = @ \union ({x} \intersect y.watched)]
    BY <1>4, <1>5, MeetingsToday DEF Days
  <2> QED BY <1>1, <2>1, <2>2, <2>3 DEF DaysAfter, X
<1>8. /\ lib'.pending = lib.pending /\ lib'.watched = NumbersOf(V) /\ lib'.due = NumbersOf(D)
      /\ lib'.events = lib.events /\ lib'.dtable = lib.dtable
  <2>1. CASE Do("watch")
    BY <2>1, <1>0, <1>1, <1>3, <1>4 DEF LibFields, NumbersFit
  <2>2. CASE Do("unwatch")
    BY <2>2, <1>0, <1>1, <1>3, <1>4 DEF LibFields, NumbersFit
  <2>3. CASE Do("cause")
    BY <2>3, <1>0, <1>1, <1>3, <1>4 DEF LibFields, NumbersFit
  <2> QED BY <2>1, <2>2, <2>3
<1>9. MeetingsKept(z)'
  <2>1. z.pending \subseteq Held(b) /\ z.watched \subseteq Held(b) /\ z.due \subseteq Held(b)
    BY <1>2, <1>4, <1>6, MeetingsToday
  <2>2. lib'.pending = NumbersOf(z.pending)
    BY <1>6, <1>8, MeetingsToday
  <2> QED BY <2>1, <2>2, <1>0, <1>6, <1>8, Meetings
<1>10. EventsKept(z)'
  <2>1. raised' = z.raised /\ own'.rc = z.rc /\ own'.complete = z.complete /\ EventsKept(y)
    BY <1>0, <1>6, MeetingsToday DEF DayKept, EventsKept
  <2> QED BY <2>1, <1>0, <1>6, <1>8, EventsStay, MeetingsToday
<1>11. TableKept(z)' /\ VerdictKept(z)'
  BY <1>0, <1>6, <1>8, TableStays, VerdictStays, MeetingsToday DEF DayKept
<1>12. Smooth(y)
  BY DEF Smooth, Waits, Gets
<1> QED BY <1>7, <1>9, <1>10, <1>11, <1>12 DEF Lived, DayKept

(***************************************************************************)
(* Steps that set or free something, and branches, leave the day alone.    *)
(***************************************************************************)
LEMMA SettingDay ==
  ASSUME ShapeInv, NEW b, NEW y, Today(b, y),
         OpenMany \/ CloseMany \/ SetErrnoPtr \/ FreeSignal \/ AllocSignal \/ SetMasks
  PROVE  Lived(y) /\ Smooth(y)
<1> USE DEF Do, At, Same, KeepTask, KeepTest, KeepOwn
<1>0. DOMAIN lib = LibFields /\ DOMAIN own = OwnFields /\ y \in Days /\ DayKept(y)
  BY DEF ShapeInv, Today
<1>1. /\ Head(todo).op \in {"open_many", "close_many", "errno_ptr", "free", "alloc", "set_mask", "save_mask"}
      /\ UNCHANGED <<runVars, current, said, fd, raised>>
  BY DEF OpenMany, CloseMany, SetErrnoPtr, FreeSignal, AllocSignal, SetMasks
<1>2. /\ lib'.pending = lib.pending /\ lib'.watched = lib.watched /\ lib'.due = lib.due
      /\ lib'.events = lib.events /\ lib'.dtable = lib.dtable
  <2>1. CASE lib' = lib
    BY <2>1
  <2>2. CASE \E S : lib' = [lib EXCEPT !.open = S]
    BY <2>2, <1>0 DEF LibFields
  <2>3. CASE \E p : lib' = [lib EXCEPT !.errno_ptr = p]
    BY <2>3, <1>0 DEF LibFields
  <2>4. CASE \E m : lib' = [lib EXCEPT !.masks = m]
    BY <2>4, <1>0 DEF LibFields
  <2> QED BY <2>1, <2>2, <2>3, <2>4 DEF OpenMany, CloseMany, SetErrnoPtr, FreeSignal, AllocSignal, SetMasks
<1>3. /\ own'.got = own.got /\ own'.rc = own.rc /\ own'.complete = own.complete
      /\ own'.dtsize = own.dtsize /\ own'.new_dtsize = own.new_dtsize
  <2>1. CASE own' = own
    BY <2>1
  <2>2. CASE \E S : own' = [own EXCEPT !.many = S]
    BY <2>2, <1>0 DEF OwnFields
  <2>3. CASE \E m : own' = [own EXCEPT !.orig = m]
    BY <2>3, <1>0 DEF OwnFields
  <2> QED BY <2>1, <2>2, <2>3 DEF OpenMany, CloseMany, SetErrnoPtr, FreeSignal, AllocSignal, SetMasks
<1>4. Lived(y)
  BY <1>0, <1>1, <1>2, <1>3, DullDay DEF Dull
<1> QED BY <1>1, <1>4 DEF Smooth, Waits, Gets

LEMMA TableReaches ==
  ASSUME NEW n \in Int, NEW k \in Nat, n >= 64, k <= 64
  PROVE  n >= k
  OBVIOUS

LEMMA BranchDay ==
  ASSUME ShapeInv, NEW b, NEW y, Today(b, y), Branch
  PROVE  Lived(y) /\ Smooth(y)
<1> USE DEF Branch, Decide, At, Same, KeepTask, KeepTest
<1>1. /\ Head(todo).op \in {"if", "if_size", "if_rc", "if_helper"}
      /\ UNCHANGED <<runVars, current, said, fd, raised, lib, own>>
  OBVIOUS
<1>2. Lived(y)
  BY <1>1, DullDay DEF Dull, Today
<1>3. Head(todo).op = "if_size" /\ Head(todo).least <= 64 /\ X \in y.sized =>
        todo' = Head(todo).yes \o Tail(todo)
  <2> SUFFICES ASSUME Head(todo).op = "if_size", Head(todo).least <= 64, X \in y.sized
               PROVE  todo' = Head(todo).yes \o Tail(todo)
    OBVIOUS
  <2>1. own[X] \in Int /\ own[X] >= 64 /\ Head(todo).least \in Nat
    BY DEF Today, DayKept, TableKept, Suits
  <2>2. own[X] >= Head(todo).least
    <3>1. \A n \in Int, k \in Nat : n >= 64 /\ k <= 64 => n >= k
      BY TableReaches
    <3> QED BY <2>1, <3>1
  <2> QED BY <2>2
<1> QED BY <1>1, <1>2, <1>3 DEF Smooth, Waits, Gets

(***************************************************************************)
(* The last event was the right one, so a round goes on.                   *)
(***************************************************************************)
LEMMA RoundDay ==
  ASSUME ShapeInv, NEW b, NEW y, Today(b, y), RoundEnds
  PROVE  Lived(y) /\ Smooth(y)
<1> USE DEF RoundEnds, At, Same, KeepTask, KeepTest, KeepOwn
<1>1. Head(todo).op = "if_event" /\ UNCHANGED <<runVars, current, said, fd, raised, lib, own>>
  OBVIOUS
<1>2. Lived(y)
  BY <1>1, DullDay DEF Dull, Today
<1>3. own.got[Len(own.got)] = fd["server"]
  <2>1. y.got \in Seq(Locals \union {"nothing"}) /\ y.got # <<>> /\ y.got[Len(y.got)] = "server"
    BY <1>1 DEF Today, Suits, Days
  <2>2. Len(y.got) \in 1..Len(y.got)
    BY <2>1
  <2>3. Len(own.got) = Len(y.got) /\ own.got[Len(y.got)] = fd["server"]
    BY <2>1, <2>2 DEF Today, DayKept, EventsKept
  <2> QED BY <2>3
<1>4. todo' = Head(todo).yes \o Tail(todo)
  BY <1>3 DEF Today, May
<1> QED BY <1>1, <1>2, <1>4 DEF Smooth, Waits, Gets

LEMMA CompleteDay ==
  ASSUME ShapeInv, NEW b, NEW y, Today(b, y), Complete
  PROVE  Lived(y) /\ Smooth(y)
<1> USE DEF Complete, Do, At, Same, KeepTask, KeepTest
<1>0. /\ DOMAIN own = OwnFields /\ y \in Days /\ DayKept(y)
      /\ UNCHANGED <<runVars, current, said, fd, raised, lib>> /\ Head(todo).op = "complete"
  BY DEF ShapeInv, Today
<1>1. /\ own'.got = own.got /\ own'.rc = own.rc /\ own'.complete = TRUE
      /\ own'.dtsize = own.dtsize /\ own'.new_dtsize = own.new_dtsize
  BY <1>0 DEF OwnFields
<1>2. PICK z : z = [y EXCEPT !.complete = TRUE]
  OBVIOUS
<1>3. /\ z.pending = y.pending /\ z.watched = y.watched /\ z.due = y.due
      /\ z.queue = y.queue /\ z.got = y.got /\ z.raised = y.raised /\ z.rc = y.rc
      /\ z.complete = TRUE /\ z.sized = y.sized /\ z.roomy = y.roomy /\ z.spared = y.spared
  BY <1>0, <1>2 DEF Days
<1>4. z \in DaysAfter(Head(todo), y)
  BY <1>0, <1>2 DEF DaysAfter
<1>5. MeetingsKept(z)'
  BY <1>0, <1>3, MeetingsStay DEF DayKept
<1>6. EventsKept(z)'
  <2>1. raised' = z.raised /\ own'.rc = z.rc /\ EventsKept(y)
    BY <1>0, <1>1, <1>3 DEF DayKept, EventsKept
  <2> QED BY <2>1, <1>0, <1>1, <1>3, EventsStay
<1>7. TableKept(z)' /\ VerdictKept(z)'
  BY <1>0, <1>1, <1>3, TableStays, VerdictStays DEF DayKept, Days
<1>8. Smooth(y)
  BY <1>0 DEF Smooth, Waits, Gets
<1> QED BY <1>4, <1>5, <1>6, <1>7, <1>8 DEF Lived, DayKept

(***************************************************************************)
(* The events of the library are told in the order of the queue.           *)
(***************************************************************************)
LEMMA Appended ==
  ASSUME NEW S, NEW s \in Seq(S), NEW e \in S
  PROVE  /\ Append(s, e) \in Seq(S) /\ Len(s) \in Nat /\ Len(Append(s, e)) = Len(s) + 1
         /\ Append(s, e)[Len(s) + 1] = e
         /\ \A i \in 1..Len(s) : Append(s, e)[i] = s[i]
  OBVIOUS

LEMMA GetEventsDay ==
  ASSUME ShapeInv, NEW b, NEW y, Today(b, y), GetEvents
  PROVE  Lived(y) /\ Smooth(y)
<1> USE DEF GetEvents, Do, At, Same, KeepTask, KeepTest
<1>0. /\ DOMAIN own = OwnFields /\ DOMAIN lib = LibFields /\ y \in Days /\ DayKept(y) /\ fd \in [Locals -> Int]
      /\ UNCHANGED <<runVars, current, said, fd, raised>> /\ Head(todo).op = "get"
  BY DEF ShapeInv, Today
<1>1. /\ own'.got = Append(own.got, IF lib.events = <<>> THEN None ELSE Head(lib.events))
      /\ own'.rc = own.rc /\ own'.complete = own.complete
      /\ own'.dtsize = own.dtsize /\ own'.new_dtsize = own.new_dtsize
  BY <1>0 DEF OwnFields
<1>2. /\ lib'.pending = lib.pending /\ lib'.watched = lib.watched /\ lib'.due = lib.due
      /\ lib'.events = (IF lib.events = <<>> THEN <<>> ELSE Tail(lib.events)) /\ lib'.dtable = lib.dtable
  BY <1>0 DEF LibFields
<1>3. PICK z : z = Told(y)
  OBVIOUS
<1>4. /\ z.pending = y.pending /\ z.watched = y.watched /\ z.due = y.due
      /\ z.queue = (IF y.queue = <<>> THEN <<>> ELSE Tail(y.queue))
      /\ z.got = Append(y.got, IF y.queue = <<>> THEN "nothing" ELSE Head(y.queue))
      /\ z.raised = y.raised /\ z.rc = y.rc
      /\ z.complete = y.complete /\ z.sized = y.sized /\ z.roomy = y.roomy /\ z.spared = y.spared
  BY <1>0, <1>3 DEF Told, Days
<1>5. z \in DaysAfter(Head(todo), y)
  BY <1>0, <1>3 DEF DaysAfter
<1>6. MeetingsKept(z)'
  BY <1>0, <1>2, <1>4, MeetingsStay DEF DayKept
<1>7. EventsKept(z)'
  <2>1. /\ lib.events \in Seq(Int) /\ Len(lib.events) = Len(y.queue)
        /\ \A i \in 1..Len(y.queue) : lib.events[i] = fd[y.queue[i]]
    BY <1>0 DEF DayKept, EventsKept
  <2>2. /\ own.got \in Seq(Int) /\ Len(own.got) = Len(y.got)
        /\ \A i \in 1..Len(y.got) : own.got[i] = IF y.got[i] = "nothing" THEN None ELSE fd[y.got[i]]
        /\ raised = y.raised /\ own.rc = y.rc /\ own.complete = y.complete
    BY <1>0 DEF DayKept, EventsKept
  <2>3. y.queue \in Seq(Locals) /\ y.got \in Seq(Locals \union {"nothing"})
    BY <1>0 DEF Days
  <2>4. PICK told : told = IF y.queue = <<>> THEN "nothing" ELSE Head(y.queue)
    OBVIOUS
  <2>5. PICK event : event = IF lib.events = <<>> THEN None ELSE Head(lib.events)
    OBVIOUS
  <2>6. /\ lib'.events \in Seq(Int) /\ Len(lib'.events) = Len(z.queue)
        /\ \A i \in 1..Len(z.queue) : lib'.events[i] = fd[z.queue[i]]
        /\ told \in Locals \union {"nothing"} /\ event \in Int
        /\ event = IF told = "nothing" THEN None ELSE fd[told]
    <3>1. CASE y.queue = <<>>
      <4>1. lib.events = <<>>
        BY <2>1, <3>1
      <4> QED BY <4>1, <3>1, <2>4, <2>5, <1>2, <1>4 DEF None
    <3>2. CASE y.queue # <<>>
      <4>1. lib.events # <<>> /\ Len(y.queue) \in Nat /\ Len(y.queue) >= 1
        BY <2>1, <2>3, <3>2
      <4>2. told = y.queue[1] /\ event = lib.events[1]
        BY <4>1, <3>2, <2>4, <2>5
      <4>3. told \in Locals /\ told # "nothing" /\ event = fd[told]
        <5>1. 1 \in 1..Len(y.queue)
          BY <4>1
        <5>2. y.queue[1] \in Locals /\ lib.events[1] = fd[y.queue[1]]
          BY <5>1, <2>1, <2>3
        <5> QED BY <5>2, <4>2 DEF Locals
      <4>4. z.queue = Tail(y.queue) /\ lib'.events = Tail(lib.events)
        BY <4>1, <3>2, <1>2, <1>4
      <4>5. /\ lib'.events \in Seq(Int) /\ Len(lib'.events) = Len(y.queue) - 1 /\ Len(z.queue) = Len(y.queue) - 1
            /\ \A i \in 1..(Len(y.queue) - 1) : lib'.events[i] = lib.events[i + 1] /\ z.queue[i] = y.queue[i + 1]
        BY <4>1, <4>4, <3>2, <2>1, <2>3
      <4>6. \A i \in 1..(Len(y.queue) - 1) : lib.events[i + 1] = fd[y.queue[i + 1]]
        <5>1. \A i \in 1..(Len(y.queue) - 1) : i + 1 \in 1..Len(y.queue)
          BY <4>1
        <5> QED BY <5>1, <2>1
      <4> QED BY <4>3, <4>5, <4>6, <1>0
    <3> QED BY <3>1, <3>2
  <2>7. /\ own'.got \in Seq(Int) /\ Len(own'.got) = Len(z.got)
        /\ \A i \in 1..Len(z.got) : own'.got[i] = IF z.got[i] = "nothing" THEN None ELSE fd[z.got[i]]
    <3>1. own'.got = Append(own.got, event) /\ z.got = Append(y.got, told)
      BY <2>4, <2>5, <1>1, <1>4
    <3>2. /\ own'.got \in Seq(Int) /\ Len(own'.got) = Len(y.got) + 1
          /\ own'.got[Len(y.got) + 1] = event
          /\ \A i \in 1..Len(y.got) : own'.got[i] = own.got[i]
      <4>1. own.got \in Seq(Int) /\ event \in Int /\ Len(own.got) = Len(y.got)
        BY <2>2, <2>6
      <4> QED BY <4>1, <3>1, Appended
    <3>3. /\ Len(y.got) \in Nat /\ Len(z.got) = Len(y.got) + 1 /\ z.got[Len(y.got) + 1] = told
          /\ \A i \in 1..Len(y.got) : z.got[i] = y.got[i]
      BY <3>1, <2>3, <2>6, Appended
    <3>4. \A i \in 1..Len(z.got) : i \in 1..Len(y.got) \/ i = Len(y.got) + 1
      BY <3>3
    <3>5. ASSUME NEW i \in 1..Len(z.got)
          PROVE  own'.got[i] = IF z.got[i] = "nothing" THEN None ELSE fd[z.got[i]]
      <4>1. CASE i \in 1..Len(y.got)
        BY <4>1, <3>2, <3>3, <2>2
      <4>2. CASE i = Len(y.got) + 1
        BY <4>2, <3>2, <3>3, <2>6
      <4> QED BY <4>1, <4>2, <3>4
    <3> QED BY <3>2, <3>3, <3>5
  <2>8. raised' = z.raised /\ own'.rc = z.rc /\ own'.complete = z.complete
    BY <2>2, <1>0, <1>1, <1>4
  <2> QED BY <2>6, <2>7, <2>8, <1>0 DEF EventsKept
<1>8. TableKept(z)' /\ VerdictKept(z)'
  BY <1>0, <1>1, <1>2, <1>4, TableStays, VerdictStays DEF DayKept, Days
<1>9. Smooth(y)
  BY <1>0 DEF Smooth, Waits, Gets
<1> QED BY <1>5, <1>6, <1>7, <1>8, <1>9 DEF Lived, DayKept

-----------------------------------------------------------------------------
(***************************************************************************)
(* The size of the table, and the verdict                                  *)
(***************************************************************************)
LEMMA SizedStaysLarge ==
  ASSUME sound, NEW size, NEW l \in Sized(size), DOMAIN lib = LibFields
  PROVE  /\ l.pending = lib.pending /\ l.watched = lib.watched /\ l.due = lib.due /\ l.events = lib.events
         /\ size \in Int /\ size >= 64 /\ lib.dtable \in Int /\ lib.dtable >= 64 =>
               l.dtable \in Int /\ l.dtable >= 64
<1>1. PICK s \in {size} \union (IF size < lib.dtable THEN {lib.dtable} ELSE May({lib.dtable})) :
        l = [lib EXCEPT !.dtable = s]
  BY DEF Sized
<1>2. s = size \/ s = lib.dtable
  BY <1>1 DEF May
<1> QED BY <1>1, <1>2 DEF LibFields

LEMMA SetTableDay ==
  ASSUME ShapeInv, NEW b, NEW y, Today(b, y), TableStep, Head(todo).op \in {"set_dtable", "restore_dtable"}
  PROVE  Lived(y) /\ Smooth(y)
<1> USE DEF TableStep, Do, At, Same, KeepTask, KeepTest
<1>0. /\ DOMAIN lib = LibFields /\ y \in Days /\ DayKept(y) /\ sound
      /\ UNCHANGED <<runVars, current, said, fd, raised, own>>
  BY DEF ShapeInv, Today
<1>1. lib' = lib \/ lib' \in Sized(own[X]) \/ lib' \in Sized(own.dtsize)
  OBVIOUS
<1>2. lib'.pending = lib.pending /\ lib'.watched = lib.watched /\ lib'.due = lib.due /\ lib'.events = lib.events
  BY <1>0, <1>1, SizedStaysLarge
<1>3. y \in DaysAfter(Head(todo), y)
  BY DEF DaysAfter, Dull
<1>4. MeetingsKept(y)'
  BY <1>0, <1>2, MeetingsStay DEF DayKept
<1>5. EventsKept(y)'
  BY <1>0, <1>2, EventsStay DEF DayKept, EventsKept
<1>6. VerdictKept(y)'
  BY <1>0, VerdictStays DEF DayKept
<1>7. TableKept(y)
  BY <1>0 DEF DayKept
<1>8. y.roomy => lib'.dtable \in Int /\ lib'.dtable >= 64
  <2> SUFFICES ASSUME y.roomy PROVE lib'.dtable \in Int /\ lib'.dtable >= 64
    OBVIOUS
  <2>1. Head(todo).op = "set_dtable" /\ X \in y.sized
    BY DEF Today, Suits, X
  <2>2. own[X] \in Int /\ own[X] >= 64 /\ lib.dtable \in Int /\ lib.dtable >= 64
    BY <1>7, <2>1 DEF TableKept
  <2>3. lib' \in Sized(own[X])
    BY <2>1
  <2> QED BY <1>0, <2>2, <2>3, SizedStaysLarge
<1>9. TableKept(y)'
  BY <1>0, <1>7, <1>8 DEF TableKept, runVars
<1>10. Smooth(y)
  BY DEF Smooth, Waits, Gets
<1> QED BY <1>3, <1>4, <1>5, <1>6, <1>9, <1>10 DEF Lived, DayKept

LEMMA GetTableDay ==
  ASSUME ShapeInv, NEW b, NEW y, Today(b, y), TableStep, Head(todo).op \in {"get_dtable", "let", "let_sum"}
  PROVE  Lived(y) /\ Smooth(y)
<1> USE DEF TableStep, Do, At, Same, KeepTask, KeepTest
<1>0. /\ DOMAIN own = OwnFields /\ y \in Days /\ DayKept(y) /\ sound
      /\ UNCHANGED <<runVars, current, said, fd, raised, lib>>
  BY DEF ShapeInv, Today
<1>1. PICK x : x = X
  OBVIOUS
<1>2. x \in Sizes
  BY <1>1 DEF Today, Fits, Sizes, X
<1>3. PICK large, size :
        /\ own' = [own EXCEPT ![x] = size]
        /\ large \in BOOLEAN /\ Knows(y, x, large) \in DaysAfter(Head(todo), y)
        /\ large => size \in Int /\ size >= 64
  <2>0. TableKept(y)
    BY <1>0 DEF DayKept
  <2>1. CASE Head(todo).op = "get_dtable"
    <3>1. own' = [own EXCEPT ![x] = lib.dtable]
      BY <2>1, <1>0, <1>1 DEF May
    <3>2. y.roomy \in BOOLEAN /\ (y.roomy => lib.dtable \in Int /\ lib.dtable >= 64)
      BY <2>0, <1>0 DEF TableKept, Days
    <3>3. Knows(y, x, y.roomy) \in DaysAfter(Head(todo), y)
      BY <2>1, <1>1 DEF DaysAfter, X
    <3> QED BY <3>1, <3>2, <3>3
  <2>2. CASE Head(todo).op = "let"
    <3>1. own' = [own EXCEPT ![x] = Y] /\ Y \in Nat
      BY <2>2, <1>1 DEF Today, Suits, Y
    <3>2. (Y >= 64) \in BOOLEAN /\ ((Y >= 64) => Y \in Int /\ Y >= 64)
      BY <3>1
    <3>3. Knows(y, x, Y >= 64) \in DaysAfter(Head(todo), y)
      BY <2>2, <1>1 DEF DaysAfter, X, Y
    <3> QED BY <3>1, <3>2, <3>3, Zenon
  <2>3. CASE Head(todo).op = "let_sum"
    <3>1. own' = [own EXCEPT ![x] = own[Y] + 64]
      BY <2>3, <1>1
    <3>2. Y \in y.sized => own[Y] + 64 \in Int /\ own[Y] + 64 >= 64
      BY <2>0 DEF TableKept
    <3>3. Knows(y, x, Y \in y.sized) \in DaysAfter(Head(todo), y)
      BY <2>3, <1>1 DEF DaysAfter, X, Y
    <3>4. (Y \in y.sized) \in BOOLEAN
      OBVIOUS
    <3> QED BY <3>1, <3>2, <3>3, <3>4, Zenon
  <2> QED BY <2>1, <2>2, <2>3
<1>4. /\ own'.got = own.got /\ own'.rc = own.rc /\ own'.complete = own.complete /\ own'[x] = size
      /\ \A k \in Sizes \ {x} : own'[k] = own[k]
  BY <1>0, <1>2, <1>3 DEF OwnFields, Sizes
<1>5. PICK z : z = Knows(y, x, large)
  OBVIOUS
<1>6. /\ z.pending = y.pending /\ z.watched = y.watched /\ z.due = y.due
      /\ z.queue = y.queue /\ z.got = y.got /\ z.raised = y.raised /\ z.rc = y.rc
      /\ z.complete = y.complete /\ z.roomy = y.roomy /\ z.spared = y.spared
      /\ z.sized = IF large THEN y.sized \union {x} ELSE y.sized \ {x}
  BY <1>0, <1>5 DEF Knows, Days
<1>7. MeetingsKept(z)'
  BY <1>0, <1>6, MeetingsStay DEF DayKept
<1>8. EventsKept(z)'
  <2>1. raised' = z.raised /\ own'.rc = z.rc /\ own'.complete = z.complete /\ EventsKept(y)
    BY <1>0, <1>4, <1>6 DEF DayKept, EventsKept
  <2> QED BY <2>1, <1>0, <1>4, <1>6, EventsStay
<1>9. VerdictKept(z)'
  BY <1>0, <1>6, VerdictStays DEF DayKept
<1>10. TableKept(z)'
  <2>1. TableKept(y) /\ y.sized \subseteq Sizes
    BY <1>0 DEF DayKept, Days
  <2>2. \A k \in z.sized : own'[k] \in Int /\ own'[k] >= 64
    BY <2>1, <1>3, <1>4, <1>6 DEF TableKept
  <2> QED BY <2>1, <2>2, <1>0, <1>6 DEF TableKept, runVars
<1>11. Smooth(y)
  BY DEF Smooth, Waits, Gets
<1> QED BY <1>3, <1>5, <1>7, <1>8, <1>9, <1>10, <1>11 DEF Lived, DayKept

(***************************************************************************)
(* What a diary calls deserved, the test passes.                           *)
(***************************************************************************)
LEMMA DeservedPasses ==
  ASSUME ShapeInv, NEW b, NEW y, Today(b, y), NEW how, how = X, Head(todo).op = "judge"
  PROVE  /\ how # "refused"
         /\ how \notin {"optional", "refused", "many", "pass"} => Passed(how)
<1>0. /\ EventsKept(y) /\ y.got \in Seq(Locals \union {"nothing"}) /\ Deserved(how, y) /\ DescriptorsKept(b)
      /\ \A i \in DOMAIN y.got : y.got[i] = "nothing" \/ y.got[i] \in Held(b)
  BY DEF Today, DayKept, Days, Suits, X, Held, Kept
<1>1. \A l \in Held(b) : fd[l] \in Int /\ fd[l] # None
  BY <1>0 DEF DescriptorsKept, Held, ShapeInv, None
<1>2. /\ own.got \in Seq(Int) /\ Len(own.got) = Len(y.got) /\ Len(y.got) \in Nat
      /\ \A i \in 1..Len(y.got) : own.got[i] = IF y.got[i] = "nothing" THEN None ELSE fd[y.got[i]]
  BY <1>0 DEF EventsKept
<1>3. \A i \in 1..Len(y.got) : y.got[i] # "nothing" => own.got[i] # None
  BY <1>0, <1>1, <1>2
<1>4. ASSUME Len(y.got) = 1
      PROVE  own.got = <<IF y.got[1] = "nothing" THEN None ELSE fd[y.got[1]]>>
  BY <1>2, <1>4
<1>5. ASSUME NEW l \in Locals \union {"nothing"}, y.got = <<l>>
      PROVE  own.got = <<IF l = "nothing" THEN None ELSE fd[l]>>
  BY <1>4, <1>5
<1>6. CASE how \in {"server", "listener"}
  <2>1. y.got = <<how>> /\ how \in Locals /\ how # "nothing"
    BY <1>0, <1>6 DEF Deserved, Locals
  <2>2. own.got = <<fd[how]>>
    BY <2>1, <1>5
  <2> QED BY <2>2, <1>6 DEF Passed
<1>7. CASE how = "consumed"
  <2>1. Len(y.got) = 2 /\ y.got[1] # "nothing" /\ y.got[2] = "nothing"
    BY <1>0, <1>7 DEF Deserved
  <2>2. own.got[1] # None /\ own.got[2] = None
    BY <2>1, <1>2, <1>3
  <2> QED BY <2>2, <1>7 DEF Passed
<1>8. CASE how = "both"
  <2>1. /\ Len(y.got) = 3 /\ y.got[3] = "nothing"
        /\ y.got[1] \in {"server", "server2"} /\ y.got[2] \in {"server", "server2"}
        /\ y.got[1] # y.got[2]
    BY <1>0, <1>8 DEF Deserved
  <2>2. own.got[1] = fd[y.got[1]] /\ own.got[2] = fd[y.got[2]] /\ own.got[3] = None
    BY <2>1, <1>2
  <2>3. {own.got[1], own.got[2]} = {fd["server"], fd["server2"]}
    BY <2>1, <2>2
  <2> QED BY <2>2, <2>3, <1>8 DEF Passed
<1>9. CASE how = "none"
  <2>1. own.got = <<None>>
    BY <1>0, <1>5, <1>9 DEF Deserved
  <2> QED BY <2>1, <1>9 DEF Passed
<1>10. CASE how = "quiet"
  <2>1. own.got = <<None>> /\ ~raised
    BY <1>0, <1>5, <1>10 DEF Deserved, EventsKept
  <2> QED BY <2>1, <1>10 DEF Passed
<1>11. CASE how = "connected"
  <2>1. own.rc = "progress" => y.got # <<"nothing">>
    BY <1>0, <1>11 DEF Deserved, EventsKept
  <2>2. own.got = <<None>> => y.got = <<"nothing">>
    <3> SUFFICES ASSUME own.got = <<None>> PROVE y.got = <<"nothing">>
      OBVIOUS
    <3>1. Len(y.got) = 1 /\ own.got[1] = None
      BY <1>2
    <3>2. y.got[1] = "nothing"
      BY <3>1, <1>3
    <3> QED BY <3>1, <3>2, <1>0
  <2> QED BY <2>1, <2>2, <1>11 DEF Passed
<1>12. CASE how = "complete"
  BY <1>0, <1>12 DEF Passed, Deserved, EventsKept
<1>13. CASE how = "rc"
  BY <1>0, <1>13 DEF Passed, EventsKept, Today, Days
<1>14. how # "refused"
  BY <1>0 DEF Deserved
<1>15. CASE how \notin {"server", "listener", "consumed", "both", "none", "quiet", "connected", "complete", "rc"}
  BY <1>14, <1>15 DEF Passed
<1> QED BY <1>6, <1>7, <1>8, <1>9, <1>10, <1>11, <1>12, <1>13, <1>14, <1>15

LEMMA ReportDay ==
  ASSUME ShapeInv, NEW b, NEW y, Today(b, y), Report
  PROVE  Lived(y) /\ Smooth(y)
<1> USE DEF Report, Do, At, Same, KeepTask, KeepOwn
<1>0. /\ y \in Days /\ DayKept(y) /\ sound /\ Kept(b)
      /\ UNCHANGED <<runVars, current, fd, raised, own, lib>> /\ Head(todo).op \in {"judge", "say"}
  BY DEF Today
<1>1. y \in DaysAfter(Head(todo), y)
  BY <1>0 DEF DaysAfter, Dull
<1>2. said = <<>>
  BY <1>0 DEF Today, Suits, Kept, RestKept
<1>3. PICK verdict : said' = Append(said, verdict) /\ (current \notin crashes => verdict # "fail")
  <2>1. CASE Head(todo).op = "say"
    BY <2>1, <1>0 DEF Today, Suits, X, DayKept, VerdictKept
  <2>2. CASE Head(todo).op = "judge"
    <3>1. PICK how : how = X
      OBVIOUS
    <3>2. PICK verdict \in Verdicts(how) : said' = Append(said, verdict)
      BY <2>2, <3>1
    <3>3. how # "refused" /\ (how \notin {"optional", "refused", "many", "pass"} => Passed(how))
      BY <2>2, <3>1, DeservedPasses
    <3>4. verdict # "fail"
      <4>1. CASE how = "optional"
        BY <4>1, <3>2, <1>0 DEF Verdicts, May
      <4>2. CASE how = "many"
        BY <4>2, <3>2, <1>0 DEF Verdicts, May
      <4>3. CASE how = "pass"
        BY <4>3, <3>2 DEF Verdicts
      <4>4. CASE how \notin {"optional", "refused", "many", "pass"}
        BY <4>4, <3>2, <3>3, <1>0 DEF Verdicts, May
      <4> QED BY <3>3, <4>1, <4>2, <4>3, <4>4
    <3> QED BY <3>2, <3>4
  <2> QED BY <1>0, <2>1, <2>2
<1>4. DOMAIN said' = {1} /\ said'[1] = verdict
  BY <1>2, <1>3
<1>5. VerdictKept(y)'
  BY <1>0, <1>3, <1>4 DEF DayKept, VerdictKept, NoFailure, runVars
<1>6. MeetingsKept(y)'
  BY <1>0, MeetingsStay DEF DayKept
<1>7. EventsKept(y)'
  BY <1>0, EventsStay DEF DayKept, EventsKept
<1>8. TableKept(y)'
  BY <1>0, TableStays DEF DayKept, Days
<1>9. Smooth(y)
  BY <1>0 DEF Smooth, Waits, Gets
<1> QED BY <1>1, <1>5, <1>6, <1>7, <1>8, <1>9 DEF Lived, DayKept

(***************************************************************************)
(* Every step of a test is one that its day can follow.                    *)
(***************************************************************************)
LEMMA StepsLived ==
  ASSUME ShapeInv, NEW b, NEW y, Today(b, y), Steps
  PROVE  Lived(y) /\ Smooth(y)
<1>1. CASE DescriptorStep
  BY <1>1, OvertakenDay, ConnectDay, AcceptDay, ConnectSocketDay, CloseDay, SettingDay DEF DescriptorStep
<1>2. CASE EventStep
  BY <1>2, SettingDay, SignalDay, WatchDay, GetEventsDay, RoundDay, CompleteDay DEF EventStep
<1>3. CASE TableStep
  <2>1. Head(todo).op \in {"get_dtable", "let", "let_sum", "set_dtable", "restore_dtable"}
    BY <1>3 DEF TableStep, Do, At
  <2> QED BY <1>3, <2>1, SetTableDay, GetTableDay
<1> QED BY <1>1, <1>2, <1>3, BranchDay, SettingDay, ReportDay DEF Steps

-----------------------------------------------------------------------------
(***************************************************************************)
(* A test that is over leaves no connection and no event behind; before    *)
(* that, an event may come at any time.                                    *)
(***************************************************************************)
LEMMA NothingDue ==
  ASSUME NEW e, Records(e), todo = <<>>
  PROVE  lib.pending = {} /\ lib.watched = {} /\ lib.due = {} /\ lib.events = <<>>
<1>1. Settled(e.ledger.book) /\ Busy(e.day) \subseteq OpenLocals(e.ledger.book) /\ e.day \in Days
  BY DEF Records, InOrder, Stands, Balanced
<1>2. Busy(e.day) = {}
  BY <1>1 DEF Settled, OpenLocals
<1>3. e.day.pending = {} /\ e.day.watched = {} /\ e.day.due = {}
  BY <1>2 DEF Busy
<1>4. Len(e.day.queue) = 0
  <2>1. e.day.queue \in Seq(Locals) /\ \A i \in DOMAIN e.day.queue : FALSE
    <3>1. \A i \in DOMAIN e.day.queue : e.day.queue[i] \in Busy(e.day)
      BY DEF Busy
    <3> QED BY <3>1, <1>1, <1>2 DEF Days
  <2>2. Len(e.day.queue) \in Nat /\ DOMAIN e.day.queue = 1..Len(e.day.queue)
    BY <2>1
  <2>3. ~(1 \in 1..Len(e.day.queue))
    BY <2>1, <2>2
  <2> QED BY <2>2, <2>3
<1>5. MeetingsKept(e.day) /\ EventsKept(e.day)
  BY DEF Records, DayKept
<1>6. NumbersOf({}) = {}
  BY DEF NumbersOf
<1>7. lib.pending = {} /\ lib.watched = {} /\ lib.due = {}
  BY <1>3, <1>5, <1>6 DEF MeetingsKept
<1>8. lib.events = <<>>
  BY <1>4, <1>5 DEF EventsKept
<1> QED BY <1>7, <1>8

LEMMA ArriveDay ==
  ASSUME ShapeInv, current >= Files[category].first, sound, phase = "test", NEW e, Records(e), Arrive
  PROVE  \E f : Records(f)'
<1> USE DEF Arrive, KeepOwn, KeepTest
<1>0. /\ DOMAIN lib = LibFields /\ fd \in [Locals -> Int]
      /\ UNCHANGED <<runVars, phase, current, todo, allocated, fd, own, said, misclosed>>
  BY DEF ShapeInv
<1>1. todo # <<>>
  BY NothingDue
<1>2. PICK b, y : b = e.ledger.book /\ y = e.day
  OBVIOUS
<1>3. Today(b, y) /\ InOrder(e) /\ DayKept(y) /\ y \in Days /\ SignalKept(b)
  BY <1>1, <1>2, NowToday DEF Records, InOrder, Stands, Kept
<1>4. PICK d \in lib.due :
         \/ d \in lib.watched /\ Raise /\ lib' = [lib EXCEPT !.due = @ \ {d}, !.events = Append(@, d)]
         \/ d \notin lib.watched /\ UNCHANGED raised /\ lib' = [lib EXCEPT !.due = @ \ {d}]
  OBVIOUS
<1>5. PICK l \in y.due : d = fd[l]
  BY <1>3, <1>4, MeetingsToday DEF NumbersOf
<1>6. l \in Held(b) /\ l \in Locals
  BY <1>3, <1>5, MeetingsToday
<1>7. NumbersFit(y, l)
  BY <1>3, <1>6, NumbersToday
<1>8. d \in lib.watched <=> l \in y.watched
  BY <1>5, <1>7 DEF NumbersFit
<1>9. /\ lib'.pending = lib.pending /\ lib'.watched = lib.watched /\ lib'.due = lib.due \ {d}
      /\ lib'.dtable = lib.dtable /\ lib'.open = lib.open
      /\ lib'.events = IF l \in y.watched THEN Append(lib.events, d) ELSE lib.events
  BY <1>0, <1>4, <1>8 DEF LibFields
<1>10. PICK z : z = Comes(y, l, b.masks)
  OBVIOUS
<1>11. /\ z.pending = y.pending /\ z.watched = y.watched /\ z.due = y.due \ {l}
       /\ z.queue = (IF l \in y.watched THEN Append(y.queue, l) ELSE y.queue)
       /\ z.got = y.got /\ z.rc = y.rc
       /\ z.complete = y.complete /\ z.sized = y.sized /\ z.roomy = y.roomy /\ z.spared = y.spared
  BY <1>3, <1>10 DEF Comes, Days
<1>12. raised' = z.raised
  <2>1. raised = y.raised
    BY <1>3 DEF DayKept, EventsKept
  <2>2. CASE l \in y.watched
    <3>1. raised' = (raised \/ lib.masks["SIGEVENTMASK"] = "sigbit")
      BY <2>2, <1>4, <1>8 DEF Raise
    <3>2. z.raised = (y.raised \/ MayRaise(b.masks))
      BY <2>2, <1>3, <1>10 DEF Comes, Days
    <3>3. lib.masks["SIGEVENTMASK"] = "sigbit" <=> MayRaise(b.masks)
      BY <1>3 DEF SignalKept, MayRaise, MaskTags
    <3> QED BY <3>1, <3>2, <3>3, <2>1
  <2>3. CASE l \notin y.watched
    BY <2>1, <2>3, <1>3, <1>4, <1>8, <1>10 DEF Comes, Days
  <2> QED BY <2>2, <2>3
<1>13. MeetingsKept(z)'
  <2>1. lib'.pending = NumbersOf(z.pending) /\ lib'.watched = NumbersOf(z.watched)
        /\ lib'.due = NumbersOf(z.due)
    <3>1. lib.pending = NumbersOf(y.pending)
      BY <1>3, MeetingsToday
    <3> QED BY <3>1, <1>5, <1>7, <1>9, <1>11 DEF NumbersFit
  <2>2. z.pending \subseteq Held(b) /\ z.watched \subseteq Held(b) /\ z.due \subseteq Held(b)
    BY <1>3, <1>11, MeetingsToday
  <2> QED BY <2>1, <2>2, <1>0, Meetings
<1>14. EventsKept(z)'
  <2>1. CASE l \notin y.watched
    <3>1. own'.rc = z.rc /\ own'.complete = z.complete /\ EventsKept(y)
      BY <1>0, <1>3, <1>11 DEF DayKept, EventsKept
    <3> QED BY <3>1, <2>1, <1>0, <1>3, <1>9, <1>11, <1>12, EventsStay
  <2>2. CASE l \in y.watched
    <3>1. /\ lib.events \in Seq(Int) /\ Len(lib.events) = Len(y.queue)
          /\ \A i \in 1..Len(y.queue) : lib.events[i] = fd[y.queue[i]]
      BY <1>3 DEF DayKept, EventsKept
    <3>2. y.queue \in Seq(Locals) /\ d \in Int
      BY <1>0, <1>3, <1>5, <1>6 DEF Days
    <3>3. /\ lib'.events \in Seq(Int) /\ Len(lib'.events) = Len(y.queue) + 1
          /\ lib'.events[Len(y.queue) + 1] = d
          /\ \A i \in 1..Len(y.queue) : lib'.events[i] = lib.events[i]
      BY <2>2, <3>1, <3>2, <1>9, Appended
    <3>4. /\ Len(y.queue) \in Nat /\ Len(z.queue) = Len(y.queue) + 1 /\ z.queue[Len(y.queue) + 1] = l
          /\ \A i \in 1..Len(y.queue) : z.queue[i] = y.queue[i]
      BY <2>2, <3>2, <1>6, <1>11, Appended
    <3>5. \A i \in 1..Len(z.queue) : i \in 1..Len(y.queue) \/ i = Len(y.queue) + 1
      BY <3>4
    <3>6. \A i \in 1..Len(z.queue) : lib'.events[i] = fd[z.queue[i]]
      BY <3>1, <3>3, <3>4, <3>5, <1>5
    <3>7. EventsKept(y)
      BY <1>3 DEF DayKept
    <3> QED BY <3>3, <3>4, <3>6, <3>7, <1>0, <1>11, <1>12 DEF EventsKept
  <2> QED BY <2>1, <2>2
<1>15. TableKept(z)' /\ VerdictKept(z)'
  BY <1>0, <1>3, <1>9, <1>11, TableStays, VerdictStays DEF DayKept, Days
<1>16. PICK f : f = Entry(e.ledger, z)
  OBVIOUS
<1>17. f.ledger = e.ledger /\ f.day = z /\ f \in Arrivals(e)
  BY <1>2, <1>5, <1>10, <1>16 DEF Entry, Arrivals
<1>18. f \in Diaries /\ InOrder(f)
  BY <1>17, Order DEF AllInOrder, Records
<1>19. Stands(f.ledger)'
  BY <1>17, StackStep DEF Records
<1>20. Diaries' = Diaries
  BY <1>0 DEF Diaries, runVars
<1> QED BY <1>13, <1>14, <1>15, <1>17, <1>18, <1>19, <1>20 DEF Records, DayKept

(***************************************************************************)
(* Some diary is right at every step of a sound run.                       *)
(***************************************************************************)
LEMMA DawnKept ==
  ASSUME ShapeInv, LedgerInv, DiaryInv, sound, Begin,
         NEW y, y = Dawn(Roomy(category), current' \in crashes)
  PROVE  DayKept(y)'
<1> USE DEF Begin, runVars
<1>1. Clear /\ Still
  BY DEF LedgerInv, DiaryInv
<1>2. /\ y.pending = {} /\ y.watched = {} /\ y.due = {} /\ y.queue = <<>> /\ y.got = <<>>
      /\ y.raised = FALSE /\ y.rc = "none" /\ y.complete = FALSE /\ y.sized = {}
      /\ y.roomy = Roomy(category) /\ y.spared = (current' \in crashes)
  BY DEF Dawn
<1>3. own'.got = <<>> /\ own'.rc = "none" /\ own'.complete = FALSE
  BY DEF ShapeInv, OwnFields
<1>4. MeetingsKept(y)'
  <2>1. NumbersOf({})' = {}
    BY DEF NumbersOf
  <2> QED BY <1>1, <1>2, <2>1 DEF MeetingsKept, Still
<1>5. EventsKept(y)'
  <2>1. raised' = y.raised
    BY <1>1, <1>2 DEF Clear, ShapeInv
  <2>2. <<>> \in Seq(Int) /\ Len(<<>>) = 0 /\ \A i \in 1..0 : FALSE
    OBVIOUS
  <2> QED BY <1>1, <1>2, <1>3, <2>1, <2>2 DEF EventsKept, Still
<1>6. TableKept(y)'
  BY <1>1, <1>2 DEF TableKept, Still
<1>7. VerdictKept(y)'
  BY <1>2 DEF VerdictKept, NoFailure
<1> QED BY <1>4, <1>5, <1>6, <1>7 DEF DayKept

LEMMA BeginDay ==
  ASSUME ShapeInv, LedgerInv, DiaryInv, sound, Begin
  PROVE  \E e : Records(e)'
<1> USE DEF Begin, runVars
<1>1. category \in DOMAIN Files /\ current' \in Files[category].first..Files[category].last
  BY Ranges, ResourcesAssumption DEF ShapeInv
<1>2. \A spared \in BOOLEAN :
         AllInOrder(Waking(category, current', spared), DiariesOf(category, current', spared))
  BY <1>1, DiariesBalance
<1>3. PICK e : e = Waking(category, current', current' \in crashes)
  OBVIOUS
<1>4. e \in Diaries' /\ InOrder(e)
  <2>1. (current' \in crashes) \in BOOLEAN
    OBVIOUS
  <2>2. AllInOrder(Waking(category, current', current' \in crashes),
                   DiariesOf(category, current', current' \in crashes))
    BY <1>2, <2>1, Zenon
  <2> QED BY <2>2, <1>3 DEF AllInOrder, Diaries
<1>5. e.ledger.todo = todo' /\ e.ledger.sound = TRUE /\ e.ledger.book = Blank
  BY <1>3 DEF Waking, Entry, Starting
<1>6. e.day = Dawn(Roomy(category), current' \in crashes)
  BY <1>3 DEF Waking, Entry
<1>7. Stands(e.ledger)'
  <2>1. Kept(Blank)'
    BY BlankKept
  <2>2. sound' = TRUE
    BY DEF ShapeInv
  <2> QED BY <1>4, <1>5, <2>1, <2>2 DEF Stands, InOrder
<1>8. DayKept(e.day)'
  BY <1>6, DawnKept
<1> QED BY <1>4, <1>7, <1>8 DEF Records

LEMMA RunKept ==
  ASSUME [ResNext]_resVars
  PROVE  UNCHANGED runVars
<1>1. CASE Steps
  BY <1>1, StepsInTest
<1>2. CASE open_bsdsocket \/ reset_socket_state \/ close_bsdsocket \/ Begin \/ End
  BY <1>2 DEF open_bsdsocket, reset_socket_state, close_bsdsocket, Begin, End, InLibrary
<1>3. CASE Arrive \/ Spurious
  BY <1>3 DEF Arrive, Spurious
<1>4. CASE UNCHANGED resVars
  BY <1>4 DEF resVars
<1> QED BY <1>1, <1>2, <1>3, <1>4 DEF ResNext, Run, Steps, AcceptWaits, Exited

LEMMA DiaryStep == ResInv /\ DiaryInv /\ [ResNext]_resVars => DiaryInv'
<1> SUFFICES ASSUME ResInv, DiaryInv, [ResNext]_resVars PROVE DiaryInv'
  OBVIOUS
<1>0. sound' = sound
  BY RunKept DEF runVars
<1> SUFFICES ASSUME sound, sound' PROVE DiaryInv'
  BY <1>0 DEF DiaryInv
<1> USE DEF ResInv
<1>1. ASSUME phase' = "test", \E e : Records(e)'
      PROVE  DiaryInv'
  <2>1. PICK e : Records(e)'
    BY <1>1
  <2>2. (current \notin crashes => NoFailure)'
    BY <2>1 DEF Records, DayKept, VerdictKept
  <2> QED BY <1>1, <2>2 DEF DiaryInv
<1>2. CASE Steps
  <2>1. phase = "test" /\ todo # <<>> /\ UNCHANGED <<runVars, phase, current>>
    BY <1>2, StepsInTest
  <2>2. PICK e : Records(e)
    BY <2>1 DEF DiaryInv
  <2>3. Lived(e.day) /\ Smooth(e.day)
    BY <1>2, <2>1, <2>2, NowToday, StepsLived
  <2>4. Carried(e.ledger)
    BY <1>2, <2>2, StepsCarried DEF Records, LedgerInv
  <2>5. \E f : Records(f)'
    BY <2>1, <2>2, <2>3, <2>4, TurnTaken DEF LedgerInv
  <2> QED BY <1>1, <2>1, <2>5
<1>3. CASE Begin
  BY <1>1, <1>3, BeginDay DEF Begin
<1>4. CASE End
  <2>1. PICK e : Records(e)
    BY <1>4 DEF End, DiaryInv
  <2>2. lib.pending = {} /\ lib.watched = {} /\ lib.due = {} /\ lib.events = <<>>
    BY <1>4, <2>1, NothingDue DEF End
  <2>3. Roomy(category) => lib.dtable \in Int /\ lib.dtable >= 64
    BY <2>1 DEF Records, DayKept, TableKept
  <2>4. Still
    BY <2>2, <2>3 DEF Still
  <2> QED BY <1>4, <2>4 DEF End, DiaryInv, Still, NoFailure, runVars
<1>5. CASE open_bsdsocket \/ reset_socket_state \/ close_bsdsocket
  <2>1. /\ phase # "test" /\ phase' # "test" /\ UNCHANGED <<runVars, current, said>>
    BY <1>5 DEF open_bsdsocket, reset_socket_state, close_bsdsocket, InLibrary
  <2>2. /\ lib'.pending = lib.pending /\ lib'.watched = lib.watched /\ lib'.due = lib.due
        /\ lib'.events = lib.events /\ lib'.dtable = lib.dtable
    BY <1>5 DEF open_bsdsocket, reset_socket_state, close_bsdsocket, ShapeInv, LibFields
  <2> QED BY <2>1, <2>2 DEF DiaryInv, Still, NoFailure, runVars
<1>6. CASE Arrive
  <2>1. phase = "test"
    BY <1>6 DEF Arrive, DiaryInv, Still
  <2>2. PICK e : Records(e)
    BY <2>1 DEF DiaryInv
  <2>3. \E f : Records(f)'
    BY <1>6, <2>1, <2>2, ArriveDay DEF LedgerInv
  <2>4. phase' = "test"
    BY <1>6, <2>1 DEF Arrive
  <2> QED BY <1>1, <2>3, <2>4
<1>7. CASE Spurious
  BY <1>7 DEF Spurious
<1>8. CASE UNCHANGED resVars
  <2>1. DiaryInv' = DiaryInv
    BY <1>8 DEF resVars, runVars, DiaryInv, Still, NoFailure, Records, Diaries, Stands, Kept, DescriptorsKept,
                SignalKept, RestKept, DayKept, MeetingsKept, NumbersOf, EventsKept, TableKept, VerdictKept
  <2> QED BY <2>1
<1> QED BY <1>2, <1>3, <1>4, <1>5, <1>6, <1>7, <1>8 DEF ResNext, Run, Steps, AcceptWaits, Exited

LEMMA DiaryStart == ResInit => DiaryInv
<1> SUFFICES ASSUME ResInit PROVE DiaryInv
  OBVIOUS
<1>1. PICK leftover \in SUBSET {0}, table \in {64, 128} :
         lib = [open |-> leftover, pending |-> {}, watched |-> {}, due |-> {}, events |-> <<>>,
                masks |-> [m \in {"BREAKMASK", "SIGEVENTMASK"} |-> IF m = "BREAKMASK" THEN "ctrl_c" ELSE "none"],
                pool |-> {}, errno_ptr |-> "none", dtable |-> table]
  BY DEF ResInit
<1>2. Still
  BY <1>1 DEF Still
<1>3. NoFailure /\ phase = "closed"
  BY DEF ResInit, NoFailure
<1> QED BY <1>2, <1>3 DEF DiaryInv

LEMMA DiaryAlways == ResSpec => []DiaryInv
  BY ResStart, ResStep, DiaryStart, DiaryStep, PTL DEF ResSpec

(***************************************************************************)
(* A sound stack passes every test that is not spared as a crash, with six *)
(* descriptors or more and however its events interleave with the test.    *)
(***************************************************************************)
THEOREM SoundTestsAlwaysPass == ResSpec => []SoundTestsPass
<1>1. DiaryInv => SoundTestsPass
  BY DEF DiaryInv, NoFailure, SoundTestsPass
<1> QED BY <1>1, DiaryAlways, PTL

(***************************************************************************)
(* accept() has no timeout (testutil.c:182): on a sound stack a connection *)
(* waits for it whenever a test calls it.                                  *)
(***************************************************************************)
NeverLeftWaiting == sound /\ At("accept") => fd[Y] \in lib.pending

(***************************************************************************)
(* No test waits in accept() for ever, which is the safe half of what      *)
(* SoundTestsEnd asks; the fair half is left to TLC.                       *)
(***************************************************************************)
THEOREM AcceptNeverWaits == ResSpec => []NeverLeftWaiting
<1>1. DiaryInv => NeverLeftWaiting
  <2> SUFFICES ASSUME DiaryInv, sound, At("accept") PROVE fd[Y] \in lib.pending
    BY DEF NeverLeftWaiting
  <2>1. PICK e : Records(e)
    BY DEF DiaryInv, At
  <2>2. Y \in e.day.pending
    BY <2>1, NowToday DEF At, Today, Suits, Y
  <2> QED BY <2>1, <2>2 DEF Records, DayKept, MeetingsKept, NumbersOf
<1> QED BY <1>1, DiaryAlways, PTL
=============================================================================
