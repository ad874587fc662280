--------------------------- MODULE SchedulerProofs ---------------------------
(***************************************************************************)
(* What Scheduler guarantees for every modulus, pool capacity, set of      *)
(* device events, delays and register values: the records keep their       *)
(* types, no pool node is leaked or freed twice, and the SPECIAL_INT and   *)
(* COMPARE_INT events are each queued exactly once whenever guest code     *)
(* runs, also when the pool is exhausted and across resets and savestates; *)
(* and a savestate whose events are in the order of their due times is     *)
(* loaded in that order.                                                   *)
(*                                                                         *)
(* The proof goes bottom-up: facts about sequences of events, one lemma    *)
(* for each operation of the queue, one for each handler, then one step    *)
(* for each action.                                                        *)
(***************************************************************************)
EXTENDS Scheduler, SequenceTheorems, WellFoundedInduction, TLAPS

(* No event of the type is queued. *)
None(q, type) == \A i \in 1..Len(q) : q[i].type # type

Timers(q) == Once(q, "SPECIAL") /\ Once(q, "COMPARE")

(* The node count of a well-formed core is the length of its list. *)
Sound(c) == c \in Cores /\ c.index = Len(c.q)

(* A savestate buffer holds a queue that guest code could run with. *)
FileOK(f) == f.q # << >> => Len(f.q) <= Capacity /\ Timers(f.q)

(* A core on which handlers run. *)
Good(c) == Sound(c) /\ FileOK(c.file) /\ Timers(c.q) /\ ~c.loading

(* The origin from which before_event sees the events of a savestate: its  *)
(* Count, or the due time of its first event when that one is overdue.     *)
LoadOrigin(f) ==
    LET late == Signed(f.count - f.q[1].count)
    IN  IF late > 0 THEN f.count - late ELSE f.count

(* Seen from there, the events of a savestate are in the order in which    *)
(* they are due.                                                           *)
Chronological(f) ==
    \A i, j \in 1..Len(f.q) :
        i < j => (f.q[i].count - LoadOrigin(f)) % W <= (f.q[j].count - LoadOrigin(f)) % W

(* A core into which the first events of its savestate buffer have been    *)
(* inserted: before_event compares from the savestate's own origin, and    *)
(* the events of a chronological one are where they were.                  *)
Restored(c) ==
    /\ c.count = c.file.count
    /\ c.index > 0 => c.cycle = Signed(c.count - c.q[1].count)
    /\ Chronological(c.file) => \A i \in 1..c.index : c.q[i] = c.file.q[i]

(* A core in the middle of load_eventqueue_infos: of each timer event, the *)
(* queue has the one that is among the events inserted so far, if any.     *)
Loading(c) ==
    /\ Sound(c) /\ FileOK(c.file) /\ c.loading
    /\ c.file.q # << >>
    /\ c.index <= Len(c.file.q)
    /\ Restored(c)
    /\ \A t \in {"SPECIAL", "COMPARE"} :
          IF \E i \in 1..c.index : c.file.q[i].type = t
          THEN Once(c.q, t) ELSE None(c.q, t)

(* The inductive invariant. *)
Inv == /\ phase \in {"no", "slot", "done"}
       /\ Good(r4300) \/ Loading(r4300)

-----------------------------------------------------------------------------
(* Arithmetic *)

(* The remainder modulo W is a value of the Count register. *)
LEMMA ModType == ASSUME NEW x \in Int PROVE x % W \in 0..(W-1)
BY WAssumption

(* Half of the modulus is a value of the Count register. *)
LEMMA HalfType == Half \in 0..(W-1) /\ Half > 0
BY WAssumption DEF Half

(* The signed reading of a difference is an integer. *)
LEMMA SignedType == ASSUME NEW x \in Int PROVE Signed(x) \in Int
BY WAssumption, HalfType, ModType DEF Signed

(* Every non-empty set of natural numbers has a least element. *)
LEMMA MinExists ==
  ASSUME NEW S, S \subseteq Nat, S # {}
  PROVE  \E i \in S : \A j \in S : i <= j
<1>1. PICK i \in S : \A j \in S : ~(<<j, i>> \in OpToRel(<, Nat))
  BY NatLessThanWellFounded, WFMin
<1>2. \A j, k \in Nat : j < k => <<j, k>> \in OpToRel(<, Nat)
  BY Zenon DEF OpToRel
<1>3. \A j \in S : ~(j < i)
  BY <1>1, <1>2, Zenon
<1> QED BY <1>3

-----------------------------------------------------------------------------
(* Sequences of events *)

(* Insertion makes the sequence one longer, with the new element at i. *)
LEMMA InsertAtProperties ==
  ASSUME NEW S, NEW s \in Seq(S), NEW i \in 1..(Len(s)+1), NEW e \in S
  PROVE  /\ InsertAt(s, i, e) \in Seq(S)
         /\ Len(InsertAt(s, i, e)) = Len(s) + 1
         /\ \A j \in 1..(Len(s)+1) : InsertAt(s, i, e)[j] =
               IF j < i THEN s[j] ELSE IF j = i THEN e ELSE s[j-1]
<1> DEFINE a == SubSeq(s, 1, i-1)
           b == SubSeq(s, i, Len(s))
<1>0. Len(s) \in Nat /\ \A j \in 1..Len(s) : s[j] \in S
  BY ElementOfSeq, LenProperties
<1>1. /\ a \in Seq(S) /\ Len(a) = i-1
      /\ \A j \in 1..(i-1) : a[j] = s[j]
  <2>1. \A j \in 1..(i-1) : s[j] \in S
    BY <1>0
  <2> QED BY <1>0, <2>1, SubSeqProperties
<1>2. /\ b \in Seq(S) /\ Len(b) = Len(s) - i + 1
      /\ \A j \in 1..(Len(s) - i + 1) : b[j] = s[i+j-1]
  <2>1. \A j \in i..Len(s) : s[j] \in S
    BY <1>0
  <2> QED BY <1>0, <2>1, SubSeqProperties
<1>3. <<e>> \in Seq(S) /\ Len(<<e>>) = 1 /\ <<e>>[1] = e
  OBVIOUS
<1> DEFINE ae == a \o <<e>>
<1>4. /\ ae \in Seq(S) /\ Len(ae) = i
      /\ \A j \in 1..i : ae[j] = IF j <= i-1 THEN s[j] ELSE e
  <2> HIDE DEF a
  <2> QED BY <1>0, <1>1, <1>3, ConcatProperties
<1>5. /\ ae \o b \in Seq(S)
      /\ Len(ae \o b) = Len(s) + 1
      /\ \A j \in 1..(Len(s)+1) : (ae \o b)[j] = IF j <= i THEN ae[j] ELSE b[j-i]
  <2> HIDE DEF ae, b
  <2>1. /\ ae \o b \in Seq(S)
        /\ Len(ae \o b) = Len(ae) + Len(b)
        /\ \A j \in 1..(Len(ae) + Len(b)) : (ae \o b)[j] =
              IF j <= Len(ae) THEN ae[j] ELSE b[j - Len(ae)]
    BY <1>2, <1>4, ConcatProperties
  <2> QED BY <2>1, <1>0, <1>2, <1>4
<1>6. ASSUME NEW j \in 1..(Len(s)+1), j > i
      PROVE  b[j-i] = s[j-1]
  BY <1>0, <1>2, <1>6
<1>7. InsertAt(s, i, e) = ae \o b
  BY DEF InsertAt
<1> HIDE DEF ae, b
<1> QED BY <1>0, <1>4, <1>5, <1>6, <1>7

(* Removal makes the sequence one shorter and closes the gap. *)
LEMMA RemoveAtProperties ==
  ASSUME NEW S, NEW s \in Seq(S), NEW i \in 1..Len(s)
  PROVE  /\ RemoveAt(s, i) \in Seq(S)
         /\ Len(RemoveAt(s, i)) = Len(s) - 1
         /\ \A j \in 1..(Len(s)-1) :
               RemoveAt(s, i)[j] = IF j < i THEN s[j] ELSE s[j+1]
<1> DEFINE a == SubSeq(s, 1, i-1)
           b == SubSeq(s, i+1, Len(s))
<1>0. Len(s) \in Nat /\ \A j \in 1..Len(s) : s[j] \in S
  BY ElementOfSeq, LenProperties
<1>1. /\ a \in Seq(S) /\ Len(a) = i-1
      /\ \A j \in 1..(i-1) : a[j] = s[j]
  <2>1. \A j \in 1..(i-1) : s[j] \in S
    BY <1>0
  <2> QED BY <1>0, <2>1, SubSeqProperties
<1>2. /\ b \in Seq(S) /\ Len(b) = Len(s) - i
      /\ \A j \in 1..(Len(s) - i) : b[j] = s[i+j]
  <2>1. \A j \in (i+1)..Len(s) : s[j] \in S
    BY <1>0
  <2> QED BY <1>0, <2>1, SubSeqProperties
<1>3. RemoveAt(s, i) = a \o b
  BY DEF RemoveAt
<1> HIDE DEF a, b
<1>4. /\ a \o b \in Seq(S)
      /\ Len(a \o b) = Len(a) + Len(b)
      /\ \A j \in 1..(Len(a) + Len(b)) : (a \o b)[j] =
            IF j <= Len(a) THEN a[j] ELSE b[j - Len(a)]
  BY <1>1, <1>2, ConcatProperties
<1>5. ASSUME NEW j \in 1..(Len(s)-1), ~(j < i)
      PROVE  b[j-(i-1)] = s[j+1]
  BY <1>0, <1>2, <1>5
<1> QED BY <1>0, <1>1, <1>2, <1>3, <1>4, <1>5

(* An inserted event changes only how often its own type is queued. *)
LEMMA InsertOccurs ==
  ASSUME NEW q \in Seq(Events), NEW p \in 1..(Len(q)+1), NEW e \in Events, NEW t
  PROVE  LET r == InsertAt(q, p, e) IN
         /\ t # e.type /\ Once(q, t) => Once(r, t)
         /\ t # e.type /\ None(q, t) => None(r, t)
         /\ t = e.type /\ None(q, t) => Once(r, t)
         /\ ~None(q, t) => ~None(r, t)
         /\ q # << >> => r[1] \in {q[1], e}
<1> DEFINE r == InsertAt(q, p, e)
<1>0. Len(q) \in Nat
  BY LenProperties
<1>1. /\ Len(r) = Len(q) + 1
      /\ \A j \in 1..(Len(q)+1) :
            r[j] = IF j < p THEN q[j] ELSE IF j = p THEN e ELSE q[j-1]
  <2> DEFINE S == Events
  <2>1. q \in Seq(S) /\ e \in S
    OBVIOUS
  <2> HIDE DEF S
  <2> QED BY <2>1, InsertAtProperties
<1> HIDE DEF r
<1>2. ASSUME t # e.type, Once(q, t) PROVE Once(r, t)
  <2>1. PICK i \in 1..Len(q) : q[i].type = t /\ \A j \in 1..Len(q) : q[j].type = t => j = i
    BY <1>2 DEF Once
  <2> DEFINE k == IF i < p THEN i ELSE i + 1
  <2>2. k \in 1..Len(r) /\ r[k] = q[i]
    BY <1>0, <1>1
  <2>3. ASSUME NEW j \in 1..Len(r), r[j].type = t PROVE j = k
    <3>1. CASE j < p
      BY <3>1, <2>3, <2>1, <1>0, <1>1
    <3>2. CASE j = p
      BY <3>2, <2>3, <1>2, <1>0, <1>1
    <3>3. CASE j > p
      <4>1. j-1 \in 1..Len(q) /\ q[j-1].type = t
        BY <3>3, <2>3, <1>0, <1>1
      <4> QED BY <4>1, <3>3, <2>1, <1>0
    <3> QED BY <3>1, <3>2, <3>3, <1>0, <1>1
  <2> HIDE DEF k
  <2> QED BY <2>1, <2>2, <2>3 DEF Once
<1>3. ASSUME t # e.type, None(q, t) PROVE None(r, t)
  <2> SUFFICES ASSUME NEW j \in 1..Len(r) PROVE r[j].type # t
    BY DEF None
  <2>1. CASE j < p
    BY <2>1, <1>3, <1>0, <1>1 DEF None
  <2>2. CASE j = p
    BY <2>2, <1>3, <1>0, <1>1
  <2>3. CASE j > p
    BY <2>3, <1>3, <1>0, <1>1 DEF None
  <2> QED BY <2>1, <2>2, <2>3, <1>0, <1>1
<1>4. ASSUME t = e.type, None(q, t) PROVE Once(r, t)
  <2>1. p \in 1..Len(r) /\ r[p].type = t
    BY <1>4, <1>0, <1>1
  <2>2. ASSUME NEW j \in 1..Len(r), r[j].type = t PROVE j = p
    BY <2>2, <1>4, <1>0, <1>1 DEF None
  <2> QED BY <2>1, <2>2 DEF Once
<1>5. ASSUME ~None(q, t) PROVE ~None(r, t)
  <2>1. PICK i \in 1..Len(q) : q[i].type = t
    BY <1>5 DEF None
  <2> DEFINE k == IF i < p THEN i ELSE i + 1
  <2>2. k \in 1..Len(r) /\ r[k] = q[i]
    BY <1>0, <1>1
  <2> HIDE DEF k
  <2> QED BY <2>1, <2>2 DEF None
<1>6. ASSUME q # << >> PROVE r[1] \in {q[1], e}
  BY <1>0, <1>1, <1>6
<1> QED BY <1>2, <1>3, <1>4, <1>5, <1>6 DEF r

(* A removed event changes only how often its own type is queued. *)
LEMMA RemoveOccurs ==
  ASSUME NEW q \in Seq(Events), NEW p \in 1..Len(q), NEW t,
         NEW r, Len(r) = Len(q) - 1,
         \A j \in 1..(Len(q)-1) : r[j] = IF j < p THEN q[j] ELSE q[j+1]
  PROVE  /\ t # q[p].type /\ Once(q, t) => Once(r, t)
         /\ None(q, t) => None(r, t)
         /\ t = q[p].type /\ Once(q, t) => None(r, t)
<1>0. Len(q) \in Nat
  BY LenProperties
<1>1. ASSUME t # q[p].type, Once(q, t) PROVE Once(r, t)
  <2>1. PICK i \in 1..Len(q) : q[i].type = t /\ \A j \in 1..Len(q) : q[j].type = t => j = i
    BY <1>1 DEF Once
  <2>2. i # p
    BY <2>1, <1>1
  <2> DEFINE k == IF i < p THEN i ELSE i - 1
  <2>3. k \in 1..Len(r) /\ r[k] = q[i]
    BY <1>0, <2>2
  <2>4. ASSUME NEW j \in 1..Len(r), r[j].type = t PROVE j = k
    <3>1. CASE j < p
      BY <3>1, <2>4, <2>1, <1>0
    <3>2. CASE j >= p
      <4>1. j+1 \in 1..Len(q) /\ q[j+1].type = t
        BY <3>2, <2>4, <1>0
      <4> QED BY <4>1, <3>2, <2>1, <1>0
    <3> QED BY <3>1, <3>2, <1>0
  <2> HIDE DEF k
  <2> QED BY <2>3, <2>4, <2>1 DEF Once
<1>2. ASSUME None(q, t) PROVE None(r, t)
  BY <1>0, <1>2 DEF None
<1>3. ASSUME t = q[p].type, Once(q, t) PROVE None(r, t)
  <2>1. \A j \in 1..Len(q) : q[j].type = t => j = p
    BY <1>3 DEF Once
  <2> QED BY <2>1, <1>0 DEF None
<1> QED BY <1>1, <1>2, <1>3

(* What is queued once is queued: such a queue is not empty. *)
LEMMA OnceNotEmpty ==
  ASSUME NEW q \in Seq(Events), NEW t, Once(q, t)
  PROVE  q # << >> /\ Len(q) >= 1 /\ q[1] \in Events
<1>1. Len(q) \in Nat /\ Len(q) >= 1
  BY LenProperties DEF Once
<1> QED BY <1>1, ElementOfSeq, EmptySeq

(* The counts of queued events do not matter to Once and None. *)
LEMMA SameTypes ==
  ASSUME NEW q, NEW r, NEW t, Len(r) = Len(q),
         \A i \in 1..Len(q) : r[i].type = q[i].type
  PROVE  (Once(q, t) => Once(r, t)) /\ (None(q, t) => None(r, t))
BY DEF Once, None

-----------------------------------------------------------------------------
(* The operations of the queue *)

(* What the fields of a core are, for the fields the queue uses. *)
LEMMA CoreFields ==
  ASSUME NEW c \in Cores
  PROVE  /\ c.q \in Seq(Events) /\ Len(c.q) \in Nat
         /\ c.index \in 0..Capacity /\ c.count \in 0..(W-1) /\ c.count \in Int
         /\ c.cycle \in Int /\ c.next \in 0..(W-1) /\ c.compare \in 0..(W-1)
         /\ c.file \in SaveStates /\ c.file.q \in Seq(Events) /\ Len(c.file.q) \in Nat
<1>1. /\ c.q \in Seq(Events) /\ c.index \in 0..Capacity /\ c.count \in 0..(W-1)
      /\ c.cycle \in Int /\ c.next \in 0..(W-1) /\ c.compare \in 0..(W-1)
      /\ c.file \in SaveStates
  BY DEF Cores
<1>2. c.file.q \in Seq(Events)
  BY <1>1 DEF SaveStates
<1> QED BY <1>1, <1>2, LenProperties, WAssumption

(* Putting a queue of the right type into a core leaves the rest alone. *)
WithQueue(c, q, index, next, cycle) ==
    [c EXCEPT !.q = q, !.index = index, !.next = next, !.cycle = cycle]

LEMMA WithQueueType ==
  ASSUME NEW c \in Cores, NEW q \in Seq(Events), NEW index \in 0..Capacity,
         NEW next \in 0..(W-1), NEW cycle \in Int
  PROVE  WithQueue(c, q, index, next, cycle) \in Cores
BY DEF Cores, WithQueue

LEMMA WithQueueFields ==
  ASSUME NEW c \in Cores, NEW q, NEW index, NEW next, NEW cycle,
         NEW d, d = WithQueue(c, q, index, next, cycle)
  PROVE  /\ d.q = q /\ d.index = index /\ d.file = c.file /\ d.loading = c.loading
         /\ d.count = c.count /\ d.compare = c.compare
BY DEF Cores, WithQueue

(* The counts of queued events are values of the Count register. *)
LEMMA HeadCount ==
  ASSUME NEW c \in Cores, NEW q \in Seq(Events), q # << >>
  PROVE  /\ Len(q) >= 1 /\ q[1] \in Events
         /\ q[1].count \in 0..(W-1) /\ q[1].left \in Int /\ q[1].type \in Types
         /\ Signed(c.count - q[1].count) \in Int
<1>1. Len(q) \in Nat /\ Len(q) >= 1
  BY EmptySeq, LenProperties
<1>2. q[1] \in Events
  BY <1>1, ElementOfSeq
<1>3. q[1].count \in 0..(W-1) /\ q[1].left \in Int /\ q[1].type \in Types
  BY <1>2 DEF Events
<1>4. c.count - q[1].count \in Int
  BY <1>3, CoreFields, WAssumption
<1> QED BY <1>1, <1>2, <1>3, <1>4, SignedType

(* The insertion walk ends inside the list or just behind it. *)
LEMMA InsertPositionType ==
  ASSUME NEW c \in Cores, NEW count
  PROVE  InsertPosition(c, count) \in 1..(Len(c.q) + 1)
<1> DEFINE later == {i \in 1..Len(c.q) : before_event(c, count, c.q[i].count)}
<1>0. Len(c.q) \in Nat
  BY CoreFields
<1>1. CASE later = {}
  BY <1>0, <1>1 DEF InsertPosition
<1>2. CASE later # {}
  <2>1. \E i \in later : \A j \in later : i <= j
    <3>1. later \subseteq Nat
      BY <1>0
    <3> HIDE DEF later
    <3> QED BY <3>1, <1>2, MinExists
  <2>2. InsertPosition(c, count) = CHOOSE i \in later : \A j \in later : i <= j
    BY <1>2 DEF InsertPosition
  <2> HIDE DEF later
  <2>3. InsertPosition(c, count) \in later
    BY <2>1, <2>2
  <2> QED BY <2>3, <1>0 DEF later
<1> QED BY <1>1, <1>2

(* d is c up to the queue and what goes with it. *)
Frame(c, d) == /\ d.file = c.file /\ d.loading = c.loading
               /\ d.count = c.count /\ d.compare = c.compare

(* d is c with an event of the type put in, if the pool has a node. *)
Adds(c, d, type) ==
    /\ Sound(d) /\ Frame(c, d)
    /\ c.index >= Capacity => d.q = c.q
    /\ c.index < Capacity => d.q # << >> /\ d.index = c.index + 1
    /\ \A t : t # type => (Once(c.q, t) => Once(d.q, t)) /\ (None(c.q, t) => None(d.q, t))
    /\ c.index < Capacity /\ None(c.q, type) => Once(d.q, type)
    /\ \A t : ~None(c.q, t) => ~None(d.q, t)
    /\ c.q # << >> => d.q # << >> /\ d.q[1].type \in {c.q[1].type, type}

(* add_interrupt_event_count inserts an event of that type if the pool has *)
(* a node, and otherwise does nothing.                                     *)
LEMMA AddEvent ==
  ASSUME NEW c, Sound(c), NEW type \in Types, NEW count \in 0..(W-1), NEW left \in Int,
         NEW d, d = add_interrupt_event_count(c, type, count, left)
  PROVE  Adds(c, d, type)
<1> DEFINE e == Event(type, count, left)
           p == InsertPosition(c, count)
           q == InsertAt(c.q, p, e)
<1>0. c \in Cores /\ c.index = Len(c.q)
  BY DEF Sound
<1>1. e \in Events /\ e.type = type
  BY DEF Event, Events
<1>2. p \in 1..(Len(c.q)+1)
  BY <1>0, InsertPositionType
<1>3. CASE c.index >= Capacity
  <2>1. d = c
    BY <1>0, <1>3, CoreFields, CapacityAssumption DEF add_interrupt_event_count, alloc_node_ok
  <2>2. ~(c.index < Capacity)
    BY <1>0, <1>3, CoreFields, CapacityAssumption
  <2> QED BY <2>1, <2>2 DEF Adds, Frame
<1>4. CASE c.index < Capacity
  <2>1. q \in Seq(Events) /\ Len(q) = Len(c.q) + 1
    <3> DEFINE S == Events
    <3>1. c.q \in Seq(S) /\ e \in S
      BY <1>0, <1>1, CoreFields
    <3> HIDE DEF S, e, p
    <3>2. q \in Seq(S) /\ Len(q) = Len(c.q) + 1
      BY <3>1, <1>2, InsertAtProperties
    <3> QED BY <3>2 DEF S
  <2>2. \A t : /\ t # type /\ Once(c.q, t) => Once(q, t)
               /\ t # type /\ None(c.q, t) => None(q, t)
               /\ t = type /\ None(c.q, t) => Once(q, t)
               /\ ~None(c.q, t) => ~None(q, t)
               /\ c.q # << >> => q[1] \in {c.q[1], e}
    <3>1. c.q \in Seq(Events)
      BY <1>0, CoreFields
    <3> HIDE DEF e, p
    <3> QED BY <3>1, <1>1, <1>2, InsertOccurs
  <2> DEFINE first == q[1].count
             late == Signed(c.count - first)
             n == c.index + 1
  <2>3. d = WithQueue(c, q, n, first, late)
    BY <1>4 DEF add_interrupt_event_count, alloc_node_ok, WithQueue
  <2>4. q # << >> /\ n \in 0..Capacity /\ n = Len(q)
    <3> HIDE DEF q
    <3> QED BY <2>1, <1>0, <1>4, CoreFields, EmptySeq, CapacityAssumption
  <2>5. first \in 0..(W-1) /\ late \in Int
    <3> HIDE DEF q
    <3> QED BY <2>1, <2>4, <1>0, HeadCount
  <2> HIDE DEF q, first, late, n, e, p
  <2>6. /\ d \in Cores /\ d.q = q /\ d.index = n
        /\ d.file = c.file /\ d.loading = c.loading
        /\ d.count = c.count /\ d.compare = c.compare
    BY <2>1, <2>3, <2>4, <2>5, <1>0, WithQueueType, WithQueueFields
  <2>7. ~(c.index >= Capacity)
    BY <1>0, <1>4, CoreFields, CapacityAssumption
  <2>8. Sound(d) /\ d.q # << >> /\ d.index = c.index + 1
    BY <2>4, <2>6 DEF Sound, n
  <2>9. \A t : /\ t # type /\ Once(c.q, t) => Once(d.q, t)
               /\ t # type /\ None(c.q, t) => None(d.q, t)
               /\ t = type /\ None(c.q, t) => Once(d.q, t)
               /\ ~None(c.q, t) => ~None(d.q, t)
               /\ c.q # << >> => d.q[1] \in {c.q[1], e}
    BY <2>2, <2>6, Zenon
  <2>10. \A t : t # type => (Once(c.q, t) => Once(d.q, t)) /\ (None(c.q, t) => None(d.q, t))
    BY <2>9, Zenon
  <2>11. None(c.q, type) => Once(d.q, type)
    BY <2>9, Zenon
  <2>12. \A t : ~None(c.q, t) => ~None(d.q, t)
    BY <2>9, Zenon
  <2>13. c.q # << >> => d.q[1].type \in {c.q[1].type, type}
    BY <2>9, <1>1, Zenon
  <2> QED BY <2>6, <2>7, <2>8, <2>10, <2>11, <2>12, <2>13 DEF Adds, Frame
<1>5. c.index >= Capacity \/ c.index < Capacity
  BY <1>0, CoreFields, CapacityAssumption
<1> QED BY <1>3, <1>4, <1>5

(* remove_interrupt_event takes the first event out and frees its node. *)
LEMMA PopEvent ==
  ASSUME NEW c, Sound(c), c.q # << >>, NEW d, d = remove_interrupt_event(c)
  PROVE  /\ Sound(d) /\ d.file = c.file /\ d.loading = c.loading
         /\ d.count = c.count /\ d.compare = c.compare
         /\ d.index = c.index - 1 /\ d.index < Capacity
         /\ \A t : t # c.q[1].type /\ Once(c.q, t) => Once(d.q, t)
         /\ \A t : t = c.q[1].type /\ Once(c.q, t) => None(d.q, t)
<1> DEFINE q == Tail(c.q)
           n == c.index - 1
           first == IF q = << >> THEN 0 ELSE q[1].count
           late == IF q = << >> THEN 0 ELSE Signed(c.count - q[1].count)
<1>0. c \in Cores /\ c.index = Len(c.q) /\ c.q \in Seq(Events)
  BY CoreFields DEF Sound
<1>1. Len(c.q) \in Nat /\ Len(c.q) >= 1
  BY <1>0, HeadCount, LenProperties
<1>2. /\ q \in Seq(Events) /\ Len(q) = Len(c.q) - 1
      /\ \A i \in 1..Len(q) : q[i] = c.q[i+1]
  BY <1>0, HeadTailProperties
<1>3. d = WithQueue(c, q, n, first, late)
  <2>1. free_node(c.index) = n
    BY <1>0, <1>1 DEF free_node
  <2> QED BY <2>1 DEF remove_interrupt_event, WithQueue
<1>4. n \in 0..Capacity /\ n < Capacity /\ n = Len(q)
  BY <1>0, <1>1, <1>2, CoreFields, CapacityAssumption
<1> HIDE DEF q, n
<1>5. first \in 0..(W-1) /\ late \in Int
  BY <1>0, <1>2, HeadCount, WAssumption
<1> HIDE DEF first, late
<1>6. /\ d \in Cores /\ d.q = q /\ d.index = n /\ d.file = c.file
      /\ d.loading = c.loading /\ d.count = c.count /\ d.compare = c.compare
  BY <1>0, <1>2, <1>3, <1>4, <1>5, WithQueueType, WithQueueFields
<1>7. ASSUME NEW t
      PROVE  /\ t # c.q[1].type /\ Once(c.q, t) => Once(q, t)
             /\ t = c.q[1].type /\ Once(c.q, t) => None(q, t)
  <2>1. 1 \in 1..Len(c.q)
    BY <1>1
  <2>2. \A j \in 1..(Len(c.q)-1) : q[j] = IF j < 1 THEN c.q[j] ELSE c.q[j+1]
    BY <1>1, <1>2
  <2> QED BY <1>0, <1>2, <2>1, <2>2, RemoveOccurs
<1>8. Sound(d) /\ d.index < Capacity /\ d.index = c.index - 1
  BY <1>4, <1>6 DEF Sound, n
<1>9. \A t : t # c.q[1].type /\ Once(c.q, t) => Once(d.q, t)
  BY <1>6, <1>7, Zenon
<1>10. \A t : t = c.q[1].type /\ Once(c.q, t) => None(d.q, t)
  BY <1>6, <1>7, Zenon
<1> QED BY <1>6, <1>8, <1>9, <1>10

(* The first event of a type is in the list if one of that type is. *)
LEMMA FirstOfType ==
  ASSUME NEW c, NEW type, c.q \in Seq(Events), \E i \in 1..Len(c.q) : c.q[i].type = type
  PROVE  FirstOf(c, type) \in 1..Len(c.q) /\ c.q[FirstOf(c, type)].type = type
<1> DEFINE S == {i \in 1..Len(c.q) : c.q[i].type = type}
<1>1. Len(c.q) \in Nat /\ S \subseteq Nat /\ S # {}
  BY LenProperties
<1> HIDE DEF S
<1>2. PICK i \in S : \A j \in S : i <= j
  BY <1>1, MinExists
<1>3. i \in 1..Len(c.q) /\ c.q[i].type = type /\ \A j \in 1..(i-1) : c.q[j].type # type
  BY <1>1, <1>2 DEF S
<1> QED BY <1>3 DEF FirstOf

(* What is queued once is queued. *)
LEMMA OncePresent ==
  ASSUME NEW q, NEW t, Once(q, t)
  PROVE  ~None(q, t)
BY DEF Once, None

(* d is c with its first event of the type taken out. *)
Removes(c, d, type) ==
    /\ Sound(d) /\ Frame(c, d)
    /\ d.index = c.index - 1 /\ d.index < Capacity
    /\ Once(c.q, type) => None(d.q, type)
    /\ \A t : t # type /\ Once(c.q, t) => Once(d.q, t)
    /\ \A t : None(c.q, t) => None(d.q, t)

(* remove_event takes the first event of a type out and frees its node. *)
LEMMA RemoveEvent ==
  ASSUME NEW c, Sound(c), NEW type, ~None(c.q, type), NEW d, d = remove_event(c, type)
  PROVE  Removes(c, d, type)
<1> DEFINE p == FirstOf(c, type)
           q == RemoveAt(c.q, p)
           n == c.index - 1
<1>0. c \in Cores /\ c.index = Len(c.q) /\ c.q \in Seq(Events) /\ Len(c.q) \in Nat
  BY CoreFields DEF Sound
<1>1. PICK i \in 1..Len(c.q) : c.q[i].type = type
  BY DEF None
<1>2. p \in 1..Len(c.q) /\ c.q[p].type = type
  BY <1>0, <1>1, FirstOfType
<1> HIDE DEF p
<1>3. /\ q \in Seq(Events) /\ Len(q) = Len(c.q) - 1
      /\ \A j \in 1..(Len(c.q)-1) : q[j] = IF j < p THEN c.q[j] ELSE c.q[j+1]
  <2> DEFINE S == Events
  <2>1. c.q \in Seq(S)
    BY <1>0
  <2> HIDE DEF S
  <2>2. /\ q \in Seq(S) /\ Len(q) = Len(c.q) - 1
        /\ \A j \in 1..(Len(c.q)-1) : q[j] = IF j < p THEN c.q[j] ELSE c.q[j+1]
    BY <2>1, <1>2, RemoveAtProperties
  <2> QED BY <2>2 DEF S
<1>4. d = WithQueue(c, q, n, c.next, c.cycle)
  <2>1. free_node(c.index) = n
    BY <1>0, <1>1 DEF free_node
  <2>2. get_event(c, type)
    BY <1>1 DEF get_event
  <2>3. d = [c EXCEPT !.q = q, !.index = n]
    BY <2>1, <2>2 DEF remove_event, p
  <2> HIDE DEF q, n
  <2> QED BY <2>3, <1>0 DEF WithQueue, Cores
<1>5. n \in 0..Capacity /\ n < Capacity /\ n = Len(q)
  BY <1>0, <1>1, <1>3, CoreFields, CapacityAssumption
<1> HIDE DEF q, n
<1>6. /\ d \in Cores /\ d.q = q /\ d.index = n /\ d.file = c.file
      /\ d.loading = c.loading /\ d.count = c.count /\ d.compare = c.compare
  <2>1. c.next \in 0..(W-1) /\ c.cycle \in Int
    BY <1>0, CoreFields
  <2> QED BY <1>0, <1>3, <1>4, <1>5, <2>1, WithQueueType, WithQueueFields
<1>7. ASSUME NEW t
      PROVE  /\ t # c.q[p].type /\ Once(c.q, t) => Once(q, t)
             /\ t = c.q[p].type /\ Once(c.q, t) => None(q, t)
             /\ None(c.q, t) => None(q, t)
  BY <1>0, <1>2, <1>3, RemoveOccurs
<1>8. Sound(d) /\ d.index < Capacity /\ d.index = c.index - 1
  BY <1>5, <1>6 DEF Sound, n
<1>9. Once(c.q, type) => None(d.q, type)
  BY <1>2, <1>6, <1>7, Zenon
<1>10. \A t : t # type /\ Once(c.q, t) => Once(d.q, t)
  BY <1>2, <1>6, <1>7, Zenon
<1>11. \A t : None(c.q, t) => None(d.q, t)
  BY <1>6, <1>7, Zenon
<1> QED BY <1>6, <1>8, <1>9, <1>10, <1>11 DEF Removes, Frame

(* Moving Count and cycle_count leaves the rest alone. *)
WithCount(c, count, cycle) == [c EXCEPT !.count = count, !.cycle = cycle]

LEMMA WithCountType ==
  ASSUME NEW c \in Cores, NEW count \in 0..(W-1), NEW cycle \in Int
  PROVE  WithCount(c, count, cycle) \in Cores
BY DEF Cores, WithCount

LEMMA WithCountFields ==
  ASSUME NEW c \in Cores, NEW count, NEW cycle, NEW d, d = WithCount(c, count, cycle)
  PROVE  /\ d.q = c.q /\ d.index = c.index /\ d.file = c.file /\ d.loading = c.loading
         /\ d.count = count /\ d.compare = c.compare
BY DEF Cores, WithCount

(* SPECIAL_INT goes into a free node. *)
LEMMA AddSpecial ==
  ASSUME NEW c, Sound(c), NEW d, d = add_special_event(c)
  PROVE  Adds(c, d, "SPECIAL")
<1> DEFINE count == SpecialCount(c)
           left == (count - c.count) % W
<1>1. c.count \in Int
  BY CoreFields DEF Sound
<1>2. count \in 0..(W-1) /\ count \in Int
  BY HalfType, WAssumption DEF SpecialCount
<1>3. left \in Int
  <2> HIDE DEF count
  <2>1. count - c.count \in Int
    BY <1>1, <1>2
  <2> QED BY <2>1, ModType, WAssumption
<1>4. "SPECIAL" \in Types
  BY DEF Types
<1>5. d = add_interrupt_event_count(c, "SPECIAL", count, left)
  BY DEF add_special_event
<1> HIDE DEF count, left
<1> QED BY <1>2, <1>3, <1>4, <1>5, AddEvent, Zenon

(* COMPARE_INT goes into a free node. *)
LEMMA AddCompare ==
  ASSUME NEW c, Sound(c), c.index < Capacity, NEW value \in 0..(W-1),
         NEW d, d = add_compare_event(c, value)
  PROVE  Adds(c, d, "COMPARE")
<1> DEFINE count == (c.count + CountPerOp) % W
           cycle == c.cycle + CountPerOp
           ahead == WithCount(c, count, cycle)
           left == CountPerOp + ((value - count) % W)
           added == add_interrupt_event_count(ahead, "COMPARE", value, left)
           late == Signed(c.count - added.q[1].count)
<1>0. c \in Cores /\ c.index = Len(c.q) /\ c.count \in 0..(W-1) /\ c.count \in Int /\ c.cycle \in Int
  BY CoreFields DEF Sound
<1>1. count \in 0..(W-1) /\ cycle \in Int
  <2>1. c.count + CountPerOp \in Int /\ c.cycle + CountPerOp \in Int
    BY <1>0, CountPerOpAssumption
  <2> QED BY <2>1, ModType
<1>2. left \in Int
  <2> HIDE DEF count
  <2>1. value - count \in Int
    BY <1>1, WAssumption
  <2>2. (value - count) % W \in 0..(W-1)
    BY <2>1, ModType
  <2> QED BY <2>2, WAssumption, CountPerOpAssumption
<1>3. d = WithCount(added, c.count, late)
  <2>1. ahead = [c EXCEPT !.count = count, !.cycle = cycle]
    BY DEF WithCount
  <2>2. ahead.count = count
    BY <1>0, WithCountFields
  <2> QED BY <2>1, <2>2 DEF add_compare_event, WithCount
<1> HIDE DEF count, cycle
<1>4. /\ ahead \in Cores /\ ahead.q = c.q /\ ahead.index = c.index
      /\ ahead.file = c.file /\ ahead.loading = c.loading /\ ahead.compare = c.compare
  <2>1. ahead \in Cores
    BY <1>0, <1>1, WithCountType, Zenon
  <2>2. ahead = WithCount(c, count, cycle)
    OBVIOUS
  <2> HIDE DEF ahead
  <2> QED BY <1>0, <2>1, <2>2, WithCountFields
<1> HIDE DEF ahead, left
<1>5. Adds(ahead, added, "COMPARE")
  <2>1. "COMPARE" \in Types
    BY DEF Types
  <2>2. Sound(ahead)
    BY <1>0, <1>4 DEF Sound
  <2> QED BY <1>2, <2>1, <2>2, AddEvent, Zenon
<1> HIDE DEF added
<1>6. added \in Cores /\ added.index = Len(added.q) /\ added.q # << >>
  BY <1>4, <1>5 DEF Adds, Sound
<1>7. late \in Int
  <2>1. added.q \in Seq(Events)
    BY <1>6, CoreFields
  <2> QED BY <2>1, <1>0, <1>6, HeadCount
<1> HIDE DEF late
<1>8. /\ d \in Cores /\ d.q = added.q /\ d.index = added.index /\ d.file = added.file
      /\ d.loading = added.loading /\ d.count = c.count /\ d.compare = added.compare
  <2>1. d \in Cores
    BY <1>0, <1>3, <1>6, <1>7, WithCountType, Zenon
  <2> QED BY <1>3, <1>6, <2>1, WithCountFields
<1>9. Sound(d) /\ Frame(c, d)
  BY <1>4, <1>5, <1>6, <1>8 DEF Adds, Frame, Sound
<1> QED BY <1>4, <1>5, <1>8, <1>9 DEF Adds

(* clear_queue gives every node back. *)
LEMMA ClearQueue ==
  ASSUME NEW c \in Cores, NEW d, d = clear_queue(c)
  PROVE  Sound(d) /\ Frame(c, d) /\ d.q = << >> /\ d.index = 0
<1>1. 0 \in 0..Capacity /\ << >> \in Seq(Events) /\ Len(<< >>) = 0
  BY CapacityAssumption, EmptySeq
<1>2. d \in Cores
  BY <1>1 DEF clear_queue, Cores
<1>3. Frame(c, d) /\ d.q = << >> /\ d.index = 0
  BY DEF clear_queue, Cores, Frame
<1> QED BY <1>1, <1>2, <1>3 DEF Sound

(* init_interrupt leaves just the two timer events. *)
LEMMA InitInterrupt ==
  ASSUME NEW c \in Cores, NEW d, d = init_interrupt(c)
  PROVE  Sound(d) /\ Frame(c, d) /\ Timers(d.q)
<1> DEFINE e == clear_queue(c)
           left1 == (Half - c.count) % W
           left2 == (0 - c.count) % W
           f == add_interrupt_event_count(e, "SPECIAL", Half, left1)
<1>1. Sound(e) /\ Frame(c, e) /\ e.q = << >> /\ e.index = 0
  BY ClearQueue, Zenon
<1>2. \A t : None(e.q, t)
  <2> HIDE DEF e
  <2> QED BY <1>1 DEF None
<1>3. left1 \in Int /\ left2 \in Int
  <2>1. Half - c.count \in Int /\ 0 - c.count \in Int
    BY CoreFields, HalfType, WAssumption
  <2> QED BY <2>1, ModType, WAssumption
<1>4. "SPECIAL" \in Types /\ "COMPARE" \in Types /\ "COMPARE" # "SPECIAL" /\ 0 \in 0..(W-1)
  BY WAssumption DEF Types
<1>5. d = add_interrupt_event_count(f, "COMPARE", 0, left2)
  BY DEF init_interrupt
<1> HIDE DEF e, left1, left2
<1>6. Adds(e, f, "SPECIAL")
  BY <1>1, <1>3, <1>4, HalfType, AddEvent, Zenon
<1> HIDE DEF f
<1>7. /\ Sound(f) /\ Frame(c, f) /\ f.index = 1
      /\ Once(f.q, "SPECIAL") /\ None(f.q, "COMPARE")
  BY <1>1, <1>2, <1>4, <1>6, CapacityAssumption DEF Adds, Frame
<1>8. Adds(f, d, "COMPARE")
  BY <1>3, <1>4, <1>5, <1>7, AddEvent, Zenon
<1> QED BY <1>4, <1>7, <1>8, CapacityAssumption DEF Adds, Frame, Timers
-----------------------------------------------------------------------------
(* Steps between good cores *)

(* d is c up to fields that no queue operation depends on. *)
Same(c, d) == /\ d \in Cores /\ d.q = c.q /\ d.index = c.index
              /\ d.file = c.file /\ d.loading = c.loading

(* Changing control fields keeps a core good. *)
LEMMA SameGood ==
  ASSUME NEW c, Good(c), NEW d, Same(c, d)
  PROVE  Good(d)
BY DEF Good, Same, Sound

(* Same composes. *)
LEMMA SameTrans ==
  ASSUME NEW c, NEW d, NEW e, Same(c, d), Same(d, e)
  PROVE  Same(c, e)
BY DEF Same

(* Scheduling a one-shot event keeps a core good. *)
LEMMA AddGood ==
  ASSUME NEW c, Good(c), NEW type, type \notin {"SPECIAL", "COMPARE"}, NEW d, Adds(c, d, type)
  PROVE  Good(d) /\ d.q # << >>
<1>1. Sound(d) /\ d.file = c.file /\ d.loading = c.loading
  BY DEF Adds, Frame
<1>2. "SPECIAL" # type /\ "COMPARE" # type
  OBVIOUS
<1>3. Once(d.q, "SPECIAL") /\ Once(d.q, "COMPARE")
  BY <1>2 DEF Adds, Good, Timers
<1>4. d.q # << >>
  BY <1>1, <1>3, CoreFields, OnceNotEmpty DEF Sound
<1> QED BY <1>1, <1>3, <1>4 DEF Good, Timers

(* A good core has a first event. *)
LEMMA GoodHead ==
  ASSUME NEW c, Good(c)
  PROVE  /\ c \in Cores /\ Sound(c) /\ c.q \in Seq(Events) /\ c.q # << >> /\ Len(c.q) >= 1
         /\ c.q[1] \in Events /\ c.q[1].type \in Types /\ c.q[1].count \in 0..(W-1)
         /\ Signed(c.count - c.q[1].count) \in Int
<1>1. c \in Cores /\ Sound(c) /\ c.q \in Seq(Events) /\ Once(c.q, "SPECIAL")
  BY CoreFields DEF Good, Sound, Timers
<1>2. c.q # << >>
  BY <1>1, OnceNotEmpty
<1> QED BY <1>1, <1>2, HeadCount

(* Taking a one-shot event from the front keeps a core good. *)
LEMMA PopGood ==
  ASSUME NEW c, Good(c), c.q[1].type \notin {"SPECIAL", "COMPARE"},
         NEW d, d = remove_interrupt_event(c)
  PROVE  Good(d) /\ d.index < Capacity
<1>1. /\ Sound(d) /\ d.file = c.file /\ d.loading = c.loading /\ d.index < Capacity
      /\ \A t : t # c.q[1].type /\ Once(c.q, t) => Once(d.q, t)
  BY GoodHead, PopEvent
<1>2. "SPECIAL" # c.q[1].type /\ "COMPARE" # c.q[1].type
  OBVIOUS
<1>3. Once(d.q, "SPECIAL") /\ Once(d.q, "COMPARE")
  BY <1>1, <1>2 DEF Good, Timers
<1> QED BY <1>1, <1>3 DEF Good, Timers

(* A core whose two timer events were queued but for one, and that has a   *)
(* free node, is good once that one has been added.                        *)
LEMMA RefillGood ==
  ASSUME NEW c, Sound(c), FileOK(c.file), ~c.loading, c.index < Capacity,
         NEW type \in {"SPECIAL", "COMPARE"}, None(c.q, type),
         \A t \in {"SPECIAL", "COMPARE"} : t # type => Once(c.q, t),
         NEW d, Adds(c, d, type)
  PROVE  Good(d)
<1>1. Sound(d) /\ d.file = c.file /\ d.loading = c.loading /\ Once(d.q, type)
  BY DEF Adds, Frame
<1>2. \A t \in {"SPECIAL", "COMPARE"} : t # type => Once(d.q, t)
  BY DEF Adds
<1> QED BY <1>1, <1>2 DEF Good, Timers

(* MTC0 Compare: COMPARE_INT is taken out and put back at the new value. *)
LEMMA MoveCompareGood ==
  ASSUME NEW c, Good(c), NEW value \in 0..(W-1),
         NEW d, d = add_compare_event(remove_event(c, "COMPARE"), value)
  PROVE  Good(d)
<1> DEFINE e == remove_event(c, "COMPARE")
<1>1. /\ Sound(e) /\ e.file = c.file /\ e.loading = c.loading /\ e.index < Capacity
      /\ None(e.q, "COMPARE") /\ Once(e.q, "SPECIAL")
  <2>1. Sound(c) /\ Once(c.q, "COMPARE") /\ Once(c.q, "SPECIAL")
    BY DEF Good, Timers
  <2>2. Removes(c, e, "COMPARE")
    BY <2>1, OncePresent, RemoveEvent, Zenon
  <2> HIDE DEF e
  <2> QED BY <2>1, <2>2 DEF Removes, Frame
<1> HIDE DEF e
<1>2. Adds(e, d, "COMPARE")
  BY <1>1, AddCompare, Zenon DEF e
<1>3. FileOK(e.file) /\ ~e.loading
  BY <1>1 DEF Good
<1> QED BY <1>1, <1>2, <1>3, RefillGood

(* load_eventqueue_infos ends by replacing SPECIAL_INT. *)
LEMMA ReloadSpecial ==
  ASSUME NEW c, Sound(c), Once(c.q, "SPECIAL"), NEW d, d = reload_special(c)
  PROVE  /\ Sound(d) /\ d.file = c.file /\ d.loading = c.loading
         /\ Once(d.q, "SPECIAL")
         /\ Once(c.q, "COMPARE") => Once(d.q, "COMPARE")
<1> DEFINE e == remove_event(c, "SPECIAL")
<1>0. "SPECIAL" # "COMPARE"
  OBVIOUS
<1>1. /\ Sound(e) /\ e.file = c.file /\ e.loading = c.loading /\ e.index < Capacity
      /\ None(e.q, "SPECIAL") /\ (Once(c.q, "COMPARE") => Once(e.q, "COMPARE"))
  <2>1. Removes(c, e, "SPECIAL")
    BY OncePresent, RemoveEvent, Zenon
  <2> HIDE DEF e
  <2> QED BY <1>0, <2>1 DEF Removes, Frame
<1> HIDE DEF e
<1>2. Adds(e, d, "SPECIAL")
  BY <1>1, AddSpecial, Zenon DEF e, reload_special
<1> QED BY <1>0, <1>1, <1>2 DEF Adds, Frame

(* Relabelling the counts of the queued events leaves the rest alone. *)
WithEvents(c, q, count, cycle) == [c EXCEPT !.count = count, !.cycle = cycle, !.q = q]

(* Relabelled events keep a core a core. *)
LEMMA WithEventsType ==
  ASSUME NEW c \in Cores, NEW q \in Seq(Events), NEW count \in 0..(W-1), NEW cycle \in Int
  PROVE  WithEvents(c, q, count, cycle) \in Cores
BY DEF Cores, WithEvents

(* The fields of a core with relabelled events. *)
LEMMA WithEventsFields ==
  ASSUME NEW c \in Cores, NEW q, NEW count, NEW cycle,
         NEW d, d = WithEvents(c, q, count, cycle)
  PROVE  /\ d.q = q /\ d.index = c.index /\ d.file = c.file /\ d.loading = c.loading
         /\ d.count = count /\ d.compare = c.compare
BY DEF Cores, WithEvents

(* d is c at another Count, with the types of its events as they were. *)
Relabels(c, d) ==
    /\ Sound(d) /\ d.file = c.file /\ d.loading = c.loading /\ d.index = c.index
    /\ \A t : (Once(c.q, t) => Once(d.q, t)) /\ (None(c.q, t) => None(d.q, t))

(* Relabelling that keeps the length and the types changes no occurrence. *)
LEMMA Relabel ==
  ASSUME NEW c, Sound(c), NEW q \in Seq(Events), Len(q) = Len(c.q),
         \A i \in 1..Len(c.q) : q[i].type = c.q[i].type,
         NEW count \in 0..(W-1), NEW cycle \in Int,
         NEW d, d = WithEvents(c, q, count, cycle)
  PROVE  Relabels(c, d)
<1>0. c \in Cores /\ c.index = Len(c.q)
  BY DEF Sound
<1>1. d \in Cores
  BY <1>0, WithEventsType, Zenon
<1>2. /\ d.q = q /\ d.index = c.index /\ d.file = c.file /\ d.loading = c.loading
      /\ d.count = count /\ d.compare = c.compare
  BY <1>0, WithEventsFields
<1>3. Sound(d)
  BY <1>0, <1>1, <1>2 DEF Sound
<1>4. \A t : (Once(c.q, t) => Once(q, t)) /\ (None(c.q, t) => None(q, t))
  BY SameTypes, Zenon
<1> QED BY <1>2, <1>3, <1>4, Zenon DEF Relabels

(* Ageing the events keeps their number and their types. *)
LEMMA AgedType ==
  ASSUME NEW q \in Seq(Events), NEW n \in Int
  PROVE  /\ Aged(q, n) \in Seq(Events) /\ Len(Aged(q, n)) = Len(q)
         /\ \A i \in 1..Len(q) : Aged(q, n)[i].type = q[i].type
<1> DEFINE r == Aged(q, n)
<1>1. Len(q) \in Nat /\ DOMAIN q = 1..Len(q)
  BY LenProperties
<1>2. ASSUME NEW i \in 1..Len(q) PROVE r[i] \in Events /\ r[i].type = q[i].type
  <2>1. q[i] \in Events
    BY ElementOfSeq
  <2>2. Later(q[i].left, n) \in (IF History THEN Int ELSE {0})
    BY <2>1, WAssumption DEF Later, Events
  <2>3. r[i] = [q[i] EXCEPT !.left = Later(q[i].left, n)]
    BY <1>1 DEF Aged
  <2> QED BY <2>1, <2>2, <2>3 DEF Events
<1>3. r \in [1..Len(q) -> Events]
  BY <1>1, <1>2 DEF Aged
<1> HIDE DEF r
<1>4. r \in Seq(Events) /\ Len(r) = Len(q)
  BY <1>1, <1>3, SeqDef, LenProperties
<1> QED BY <1>2, <1>4 DEF r

(* Shifting the events keeps their number and their types. *)
LEMMA ShiftedType ==
  ASSUME NEW q \in Seq(Events), NEW n \in Int
  PROVE  /\ Shifted(q, n) \in Seq(Events) /\ Len(Shifted(q, n)) = Len(q)
         /\ \A i \in 1..Len(q) : Shifted(q, n)[i].type = q[i].type
<1> DEFINE r == Shifted(q, n)
<1>1. Len(q) \in Nat /\ DOMAIN q = 1..Len(q)
  BY LenProperties
<1>2. ASSUME NEW i \in 1..Len(q) PROVE r[i] \in Events /\ r[i].type = q[i].type
  <2>1. q[i] \in Events
    BY ElementOfSeq
  <2>2. (q[i].count + n) % W \in 0..(W-1)
    <3>1. q[i].count + n \in Int
      BY <2>1, WAssumption DEF Events
    <3> QED BY <3>1, ModType
  <2>3. r[i] = [q[i] EXCEPT !.count = (q[i].count + n) % W]
    BY <1>1 DEF Shifted
  <2> QED BY <2>1, <2>2, <2>3 DEF Events
<1>3. r \in [1..Len(q) -> Events]
  BY <1>1, <1>2 DEF Shifted
<1> HIDE DEF r
<1>4. r \in Seq(Events) /\ Len(r) = Len(q)
  BY <1>1, <1>3, SeqDef, LenProperties
<1> QED BY <1>2, <1>4 DEF r

(* cp0_update_count moves Count and ages the events. *)
LEMMA UpdateCount ==
  ASSUME NEW c, Good(c), NEW n \in Int, NEW d, d = cp0_update_count(c, n)
  PROVE  Good(d)
<1> DEFINE q == Aged(c.q, n)
           count == (c.count + n) % W
           cycle == c.cycle + n
<1>0. /\ c \in Cores /\ Sound(c) /\ c.q \in Seq(Events) /\ Len(c.q) \in Nat
      /\ c.count \in Int /\ c.cycle \in Int
  BY GoodHead, CoreFields
<1>3. q \in Seq(Events) /\ Len(q) = Len(c.q) /\ \A i \in 1..Len(c.q) : q[i].type = c.q[i].type
  BY <1>0, AgedType
<1>4. count \in 0..(W-1) /\ cycle \in Int
  <2>1. c.count + n \in Int /\ c.cycle + n \in Int
    BY <1>0
  <2> QED BY <2>1, ModType
<1>5. d = WithEvents(c, q, count, cycle)
  BY Zenon DEF cp0_update_count, WithEvents
<1> HIDE DEF q, count, cycle
<1>7. Relabels(c, d)
  BY <1>0, <1>3, <1>4, <1>5, Relabel, Zenon
<1> QED BY <1>7 DEF Good, Timers, Relabels

(* MTC0 Count: the two timer events are taken out, the others moved, and   *)
(* the two put back into the nodes they left.                              *)
LEMMA TranslateGood ==
  ASSUME NEW c, Good(c), NEW base \in 0..(W-1), NEW compare \in 0..(W-1),
         NEW d, d = translate_event_queue(c, base, compare)
  PROVE  Good(d)
<1> DEFINE a == remove_event(c, "COMPARE")
           b == remove_event(a, "SPECIAL")
           q == Shifted(b.q, base - c.count)
           m == WithEvents(b, q, base, b.cycle)
           s == add_special_event(m)
<1>0. "SPECIAL" # "COMPARE" /\ Sound(c) /\ Once(c.q, "COMPARE") /\ Once(c.q, "SPECIAL")
  BY DEF Good, Timers
<1>1. /\ Sound(a) /\ a.file = c.file /\ a.loading = c.loading
      /\ a.index = c.index - 1 /\ None(a.q, "COMPARE") /\ Once(a.q, "SPECIAL")
  <2>1. Removes(c, a, "COMPARE")
    BY <1>0, OncePresent, RemoveEvent, Zenon
  <2> HIDE DEF a
  <2> QED BY <1>0, <2>1 DEF Removes, Frame
<1> HIDE DEF a
<1>2. /\ Sound(b) /\ b.file = c.file /\ b.loading = c.loading
      /\ b.index = a.index - 1
      /\ None(b.q, "SPECIAL") /\ None(b.q, "COMPARE")
  <2>1. Removes(a, b, "SPECIAL")
    BY <1>1, OncePresent, RemoveEvent, Zenon
  <2> HIDE DEF b
  <2> QED BY <1>1, <2>1 DEF Removes, Frame
<1> HIDE DEF b
<1>4. c.count \in Int /\ b \in Cores /\ b.q \in Seq(Events) /\ Len(b.q) \in Nat /\ b.cycle \in Int
  BY <1>0, <1>2, CoreFields DEF Sound
<1>5. base - c.count \in Int
  BY <1>4, WAssumption
<1>7. q \in Seq(Events) /\ Len(q) = Len(b.q) /\ \A i \in 1..Len(b.q) : q[i].type = b.q[i].type
  BY <1>4, <1>5, ShiftedType
<1>9. d = add_compare_event(s, compare)
  <2>1. m = [b EXCEPT !.count = base, !.q = q]
    <3> HIDE DEF q
    <3> QED BY <1>4 DEF WithEvents, Cores
  <2>2. d = add_compare_event(add_special_event([b EXCEPT !.count = base, !.q = q]), compare)
    BY Zenon DEF translate_event_queue, a, b
  <2> QED BY <2>1, <2>2, Zenon
<1> HIDE DEF q
<1>10. m = WithEvents(b, q, base, b.cycle)
  OBVIOUS
<1> HIDE DEF m
<1>11. /\ Sound(m) /\ m.file = c.file /\ m.loading = c.loading /\ m.index = b.index
       /\ None(m.q, "SPECIAL") /\ None(m.q, "COMPARE")
  <2>1. Relabels(b, m)
    BY <1>2, <1>4, <1>7, <1>10, Relabel, Zenon
  <2> QED BY <2>1, <1>2 DEF Relabels
<1>12. Adds(m, s, "SPECIAL")
  BY <1>11, AddSpecial, Zenon
<1> HIDE DEF s
<1>13. m.index < Capacity - 1 /\ m.index \in Int
  <2>1. c.index \in 0..Capacity
    BY <1>0, CoreFields DEF Sound
  <2> QED BY <2>1, <1>1, <1>2, <1>11, CapacityAssumption
<1>14. /\ Sound(s) /\ s.file = c.file /\ s.loading = c.loading /\ s.index < Capacity
       /\ Once(s.q, "SPECIAL") /\ None(s.q, "COMPARE")
  BY <1>0, <1>11, <1>12, <1>13, CapacityAssumption DEF Adds, Frame
<1>15. Adds(s, d, "COMPARE")
  BY <1>9, <1>14, AddCompare, Zenon
<1>16. FileOK(s.file) /\ ~s.loading
  BY <1>14 DEF Good
<1> QED BY <1>14, <1>15, <1>16, RefillGood

-----------------------------------------------------------------------------
(* Exceptions and interrupt lines *)

(* What exception_general sets may have any value of its type. *)
WithException(c, exl, skip_jump, next, cycle) ==
    [c EXCEPT !.exl = exl, !.skip_jump = skip_jump, !.next = next, !.cycle = cycle]

(* Such a core is a core. *)
LEMMA SetException ==
  ASSUME NEW c \in Cores, NEW exl \in BOOLEAN, NEW skip_jump \in BOOLEAN,
         NEW next \in 0..(W-1), NEW cycle \in Int
  PROVE  WithException(c, exl, skip_jump, next, cycle) \in Cores
BY DEF Cores, WithException

(* exception_general changes no queue. *)
LEMMA ExceptionGeneral ==
  ASSUME NEW c \in Cores, NEW d, d = exception_general(c)
  PROVE  Same(c, d)
<1>0. 0 \in 0..(W-1)
  BY WAssumption
<1>1. CASE c.delay_slot
  <2>1. d = [c EXCEPT !.exl = TRUE, !.skip_jump = TRUE, !.next = 0, !.cycle = 0]
    BY <1>1 DEF exception_general
  <2>2. d \in Cores
    <3>1. TRUE \in BOOLEAN /\ 0 \in Int
      OBVIOUS
    <3>2. d = WithException(c, TRUE, TRUE, 0, 0)
      BY <2>1 DEF WithException
    <3> QED BY <1>0, <3>1, <3>2, SetException
  <2>3. d.q = c.q /\ d.index = c.index /\ d.file = c.file /\ d.loading = c.loading
    BY <2>1 DEF Cores
  <2> QED BY <2>2, <2>3 DEF Same
<1>2. CASE ~c.delay_slot
  <2>1. d = [c EXCEPT !.exl = TRUE]
    BY <1>2 DEF exception_general
  <2> QED BY <2>1 DEF Same, Cores
<1> QED BY <1>1, <1>2

(* The savestate job may be any job. *)
LEMMA SetJob ==
  ASSUME NEW c \in Cores, NEW job \in {"nothing", "load", "save"}, NEW d, d = [c EXCEPT !.job = job]
  PROVE  Same(c, d)
<1>1. d \in Cores
  BY DEF Cores
<1>2. d.q = c.q /\ d.index = c.index /\ d.file = c.file /\ d.loading = c.loading
  BY DEF Cores
<1> QED BY <1>1, <1>2 DEF Same

(* The stop flag may have any value. *)
LEMMA SetStop ==
  ASSUME NEW c \in Cores, NEW stop \in BOOLEAN, NEW d, d = [c EXCEPT !.stop = stop]
  PROVE  Same(c, d)
BY DEF Same, Cores

(* What MTC0 Compare sets may have any value of its type. *)
LEMMA SetCompare ==
  ASSUME NEW c \in Cores, NEW compare \in 0..(W-1), NEW cause \in SUBSET Lines,
         NEW d, d = [c EXCEPT !.compare = compare, !.cause = cause]
  PROVE  Same(c, d)
<1>1. d \in Cores
  BY DEF Cores
<1>2. d.q = c.q /\ d.index = c.index /\ d.file = c.file /\ d.loading = c.loading
  BY DEF Cores
<1> QED BY <1>1, <1>2 DEF Same

(* What MTC0 Status sets. *)
WithStatus(c, ie, exl, erl, im) ==
    [c EXCEPT !.ie = ie, !.exl = exl, !.erl = erl, !.im = im]

(* MTC0 Status changes no queue. *)
LEMMA SetStatus ==
  ASSUME NEW c \in Cores, NEW ie \in BOOLEAN, NEW exl \in BOOLEAN, NEW erl \in BOOLEAN,
         NEW im \in SUBSET Lines, NEW d, d = WithStatus(c, ie, exl, erl, im)
  PROVE  Same(c, d)
<1>1. d \in Cores
  BY ZenonT(30) DEF Cores, WithStatus
<1>2. d.q = c.q /\ d.index = c.index /\ d.file = c.file /\ d.loading = c.loading
  BY DEF Cores, WithStatus
<1> QED BY <1>1, <1>2 DEF Same

(* The delay slot flag may have any value. *)
LEMMA SetSlot ==
  ASSUME NEW c \in Cores, NEW slot \in BOOLEAN, NEW d, d = [c EXCEPT !.delay_slot = slot]
  PROVE  Same(c, d)
BY DEF Same, Cores

(* The exception level may have any value. *)
LEMMA SetLevel ==
  ASSUME NEW c \in Cores, NEW exl \in BOOLEAN, NEW d, d = [c EXCEPT !.exl = exl]
  PROVE  Same(c, d)
BY DEF Same, Cores

(* The flag that a savestate is being loaded may have any value. *)
LEMMA SetLoading ==
  ASSUME NEW c \in Cores, NEW loading \in BOOLEAN, NEW d, d = [c EXCEPT !.loading = loading]
  PROVE  /\ d \in Cores /\ d.q = c.q /\ d.index = c.index /\ d.file = c.file
         /\ d.loading = loading
BY DEF Cores

(* Cause may be any set of lines. *)
LEMMA SetCause ==
  ASSUME NEW c \in Cores, NEW cause \in SUBSET Lines, NEW d, d = [c EXCEPT !.cause = cause]
  PROVE  Same(c, d)
BY DEF Same, Cores

(* The RCP line may have any value. *)
LEMMA SetLine ==
  ASSUME NEW c \in Cores, NEW line \in BOOLEAN, NEW d, d = [c EXCEPT !.line = line]
  PROVE  Same(c, d)
BY DEF Same, Cores

(* Cause and the line are what their types say. *)
LEMMA CauseLine ==
  ASSUME NEW c \in Cores
  PROVE  c.cause \in SUBSET Lines /\ c.line \in BOOLEAN
BY DEF Cores

(* raise_maskable_interrupt changes no queue. *)
LEMMA RaiseMaskable ==
  ASSUME NEW c \in Cores, NEW ip \in Lines, NEW d, d = raise_maskable_interrupt(c, ip)
  PROVE  Same(c, d)
<1> DEFINE e == [c EXCEPT !.cause = c.cause \cup {ip}]
<1>1. c.cause \cup {ip} \in SUBSET Lines
  BY CauseLine
<1>2. Same(c, e)
  BY <1>1, SetCause
<1>3. d = exception_general(e) \/ d = e
  BY DEF raise_maskable_interrupt
<1> HIDE DEF e
<1>4. e \in Cores
  BY <1>2 DEF Same
<1>5. CASE d = exception_general(e)
  <2>1. Same(e, d)
    BY <1>4, <1>5, ExceptionGeneral
  <2> QED BY <1>2, <2>1, SameTrans
<1> QED BY <1>2, <1>3, <1>5

(* raise_rcp_interrupt changes no queue. *)
LEMMA RaiseRcp ==
  ASSUME NEW c \in Cores, NEW unmasked \in BOOLEAN, NEW d, d = raise_rcp_interrupt(c, unmasked)
  PROVE  Same(c, d)
<1> DEFINE e == [c EXCEPT !.line = c.line \/ unmasked]
<1>1. (c.line \/ unmasked) \in BOOLEAN
  OBVIOUS
<1>2. Same(c, e)
  BY <1>1, SetLine
<1>3. d = raise_maskable_interrupt(e, "IP2") \/ d = e
  BY DEF raise_rcp_interrupt
<1> HIDE DEF e
<1>4. e \in Cores /\ "IP2" \in Lines
  BY <1>2 DEF Same, Lines
<1>5. CASE d = raise_maskable_interrupt(e, "IP2")
  <2>1. Same(e, d)
    BY <1>4, <1>5, RaiseMaskable
  <2> QED BY <1>2, <2>1, SameTrans
<1> QED BY <1>2, <1>3, <1>5

(* r4300_check_interrupt may put a CHECK_INT in front, never a timer. *)
LEMMA CheckInterrupt ==
  ASSUME NEW c, Good(c), NEW ip \in Lines, NEW set \in BOOLEAN,
         NEW d, d = r4300_check_interrupt(c, ip, set)
  PROVE  Good(d)
<1> DEFINE cause == IF set THEN c.cause \cup {ip} ELSE c.cause \ {ip}
           e == [c EXCEPT !.cause = cause]
           head == Event("CHECK", e.count, 0)
           q == <<head>> \o e.q
           n == e.index + 1
<1>0. c \in Cores
  BY GoodHead
<1>1. cause \in SUBSET Lines
  BY <1>0, CauseLine
<1>2. d = e \/ (alloc_node_ok(e) /\ d = WithQueue(e, q, n, e.count, 0))
  BY DEF r4300_check_interrupt, WithQueue
<1> HIDE DEF cause
<1>3. Same(c, e)
  BY <1>0, <1>1, SetCause
<1> HIDE DEF e
<1>4. Good(e)
  BY <1>3, SameGood
<1>5. CASE alloc_node_ok(e) /\ d = WithQueue(e, q, n, e.count, 0)
  <2>0. /\ e \in Cores /\ e.q \in Seq(Events) /\ e.index = Len(e.q) /\ e.index < Capacity
        /\ Len(e.q) \in Nat /\ e.count \in 0..(W-1)
    BY <1>4, <1>5, GoodHead, CoreFields DEF alloc_node_ok, Sound
  <2>1. head \in Events /\ head.type = "CHECK"
    BY <2>0 DEF Event, Events, Types
  <2> HIDE DEF head
  <2>2. <<head>> \in Seq(Events) /\ Len(<<head>>) = 1 /\ <<head>>[1] = head
    BY <2>1
  <2>3. /\ q \in Seq(Events) /\ Len(q) = Len(e.q) + 1
        /\ \A j \in 1..(Len(e.q)+1) : q[j] = IF j < 1 THEN e.q[j] ELSE IF j = 1 THEN head ELSE e.q[j-1]
    <3>1. /\ q \in Seq(Events) /\ Len(q) = Len(<<head>>) + Len(e.q)
          /\ \A j \in 1..(Len(<<head>>) + Len(e.q)) : q[j] =
                IF j <= Len(<<head>>) THEN <<head>>[j] ELSE e.q[j - Len(<<head>>)]
      BY <2>0, <2>2, ConcatProperties
    <3> HIDE DEF q
    <3> QED BY <2>0, <2>2, <3>1
  <2> HIDE DEF q
  <2>4. n \in 0..Capacity /\ n = Len(q) /\ 0 \in Int
    BY <2>0, <2>3, CapacityAssumption
  <2> HIDE DEF n
  <2>5. /\ d \in Cores /\ d.q = q /\ d.index = n /\ d.file = e.file /\ d.loading = e.loading
    BY <1>5, <2>0, <2>3, <2>4, WithQueueType, WithQueueFields
  <2>6. ASSUME NEW t, t # "CHECK", Once(e.q, t) PROVE Once(q, t)
    <3>1. PICK i \in 1..Len(e.q) :
             e.q[i].type = t /\ \A j \in 1..Len(e.q) : e.q[j].type = t => j = i
      BY <2>6 DEF Once
    <3>2. i + 1 \in 1..Len(q) /\ q[i+1] = e.q[i]
      BY <2>0, <2>3
    <3>3. ASSUME NEW j \in 1..Len(q), q[j].type = t PROVE j = i + 1
      <4>1. j # 1
        BY <2>0, <2>1, <2>3, <2>6, <3>3
      <4>2. j - 1 \in 1..Len(e.q) /\ q[j] = e.q[j-1]
        BY <2>0, <2>3, <4>1
      <4> QED BY <2>0, <3>1, <3>3, <4>2
    <3> QED BY <3>1, <3>2, <3>3 DEF Once
  <2>7. Once(q, "SPECIAL") /\ Once(q, "COMPARE")
    BY <1>4, <2>6 DEF Good, Timers
  <2> QED BY <1>4, <2>4, <2>5, <2>7 DEF Good, Timers, Sound
<1> QED BY <1>2, <1>4, <1>5

-----------------------------------------------------------------------------
(* The event handlers *)

(* COMPARE_INT is serviced and queued again in the node it leaves. *)
LEMMA CompareHandler ==
  ASSUME NEW c, Good(c), c.q[1].type = "COMPARE",
         NEW d, d = compare_int_handler(remove_interrupt_event(c))
  PROVE  Good(d)
<1> DEFINE e == remove_interrupt_event(c)
           f == add_compare_event(e, e.compare)
<1>1. /\ Sound(e) /\ e.file = c.file /\ e.loading = c.loading /\ e.index < Capacity
      /\ \A t : t # c.q[1].type /\ Once(c.q, t) => Once(e.q, t)
      /\ \A t : t = c.q[1].type /\ Once(c.q, t) => None(e.q, t)
  BY GoodHead, PopEvent
<1> HIDE DEF e
<1>2. /\ FileOK(e.file) /\ ~e.loading /\ None(e.q, "COMPARE")
      /\ \A t \in {"SPECIAL", "COMPARE"} : t # "COMPARE" => Once(e.q, t)
  BY <1>1 DEF Good, Timers
<1>3. e.compare \in 0..(W-1)
  BY <1>1, CoreFields DEF Sound
<1>4. Adds(e, f, "COMPARE")
  BY <1>1, <1>3, AddCompare, Zenon
<1> HIDE DEF f
<1>5. Good(f)
  BY <1>1, <1>2, <1>4, RefillGood
<1>6. Same(f, d)
  <2>1. d = raise_maskable_interrupt(f, "IP7") /\ "IP7" \in Lines
    BY DEF compare_int_handler, e, f, Lines
  <2> QED BY <1>5, <2>1, GoodHead, RaiseMaskable
<1> QED BY <1>5, <1>6, SameGood

(* SPECIAL_INT is serviced and queued again in the node it leaves. *)
LEMMA SpecialHandler ==
  ASSUME NEW c, Good(c), c.q[1].type = "SPECIAL", NEW d, d = special_int_handler(c)
  PROVE  Good(d)
<1> DEFINE e == remove_interrupt_event(c)
<1>1. /\ Sound(e) /\ e.file = c.file /\ e.loading = c.loading /\ e.index < Capacity
      /\ \A t : t # c.q[1].type /\ Once(c.q, t) => Once(e.q, t)
      /\ \A t : t = c.q[1].type /\ Once(c.q, t) => None(e.q, t)
  BY GoodHead, PopEvent
<1>2. d = add_special_event(e)
  BY DEF special_int_handler
<1> HIDE DEF e
<1>3. /\ FileOK(e.file) /\ ~e.loading /\ None(e.q, "SPECIAL")
      /\ \A t \in {"SPECIAL", "COMPARE"} : t # "SPECIAL" => Once(e.q, t)
  BY <1>1 DEF Good, Timers
<1>4. Adds(e, d, "SPECIAL")
  BY <1>1, <1>2, AddSpecial, Zenon
<1> QED BY <1>1, <1>3, <1>4, RefillGood

(* add_interrupt_event adds an event a delay away. *)
LEMMA AddDelayed ==
  ASSUME NEW c, Sound(c), NEW type \in Types, NEW delay \in 0..(W-1),
         NEW d, d = add_interrupt_event(c, type, delay)
  PROVE  Adds(c, d, type)
<1> DEFINE count == (c.count + delay) % W
<1>1. c.count + delay \in Int /\ delay \in Int
  BY CoreFields, WAssumption DEF Sound
<1>2. count \in 0..(W-1)
  BY <1>1, ModType
<1>3. d = add_interrupt_event_count(c, type, count, delay)
  BY DEF add_interrupt_event
<1> HIDE DEF count
<1> QED BY <1>1, <1>2, <1>3, AddEvent, Zenon

(* A soft reset queues HW2 and NMI; the event that was first stays first   *)
(* unless one of those two is.                                             *)
LEMMA SoftReset ==
  ASSUME NEW c, Good(c), NEW d, d = soft_reset_device(c)
  PROVE  /\ Good(d)
         /\ \A t : ~None(c.q, t) => ~None(d.q, t)
         /\ d.q[1].type \in {c.q[1].type, "HW2", "NMI"}
<1> DEFINE e == add_interrupt_event(c, "HW2", 0)
<1>0. /\ "HW2" \in Types /\ "NMI" \in Types /\ 0 \in 0..(W-1) /\ NMIDelay \in 0..(W-1)
      /\ "HW2" \notin {"SPECIAL", "COMPARE"} /\ "NMI" \notin {"SPECIAL", "COMPARE"}
  BY CountsAssumption, WAssumption DEF Types
<1>1. Sound(c) /\ c.q # << >>
  BY GoodHead
<1>2. Adds(c, e, "HW2")
  BY <1>0, <1>1, AddDelayed, Zenon
<1>3. d = add_interrupt_event(e, "NMI", NMIDelay)
  BY DEF soft_reset_device
<1> HIDE DEF e
<1>4. Good(e) /\ e.q # << >> /\ Sound(e)
  BY <1>0, <1>2, AddGood DEF Good
<1>5. Adds(e, d, "NMI")
  BY <1>0, <1>3, <1>4, AddDelayed, Zenon
<1>6. Good(d)
  BY <1>0, <1>4, <1>5, AddGood
<1>7. e.q[1].type \in {c.q[1].type, "HW2"} /\ \A t : ~None(c.q, t) => ~None(e.q, t)
  BY <1>1, <1>2 DEF Adds
<1>8. d.q[1].type \in {e.q[1].type, "NMI"} /\ \A t : ~None(e.q, t) => ~None(d.q, t)
  BY <1>4, <1>5 DEF Adds
<1> QED BY <1>6, <1>7, <1>8

(* Whatever the frontend asks for, the core stays good. *)
LEMMA ServeGood ==
  ASSUME NEW c, Good(c), NEW request \in Requests, NEW d, d = Serve(c, request)
  PROVE  /\ Good(d)
         /\ \A t : ~None(c.q, t) => ~None(d.q, t)
         /\ d.q[1].type \in {c.q[1].type, "HW2", "NMI"}
<1>0. request \in {"none", "soft", "hard", "load", "save", "stop"} /\ c \in Cores
  BY CountsAssumption, GoodHead
<1>1. CASE request = "none"
  BY <1>1 DEF Serve
<1>2. CASE request = "soft"
  <2>1. d = soft_reset_device(c)
    BY <1>2 DEF Serve
  <2> QED BY <2>1, SoftReset
<1>3. ASSUME Same(c, d)
      PROVE  /\ Good(d)
             /\ \A t : ~None(c.q, t) => ~None(d.q, t)
             /\ d.q[1].type \in {c.q[1].type, "HW2", "NMI"}
  BY <1>3, SameGood DEF Same
<1>4. CASE request = "hard"
  <2>1. d = [c EXCEPT !.reset_hard_job = TRUE]
    BY <1>4 DEF Serve
  <2>2. Same(c, d)
    BY <2>1, <1>0 DEF Same, Cores
  <2> QED BY <2>2, <1>3
<1>5. CASE request = "stop"
  <2>1. d = [c EXCEPT !.stop = TRUE]
    BY <1>5 DEF Serve
  <2>2. Same(c, d)
    BY <2>1, <1>0, SetStop
  <2> QED BY <2>2, <1>3
<1>6. CASE request \in {"load", "save"}
  <2>1. d = [c EXCEPT !.job = request]
    BY <1>6 DEF Serve
  <2>2. request \in {"nothing", "load", "save"}
    BY <1>6
  <2>3. Same(c, d)
    BY <2>1, <2>2, <1>0, SetJob
  <2> QED BY <2>3, <1>3
<1> QED BY <1>0, <1>1, <1>2, <1>4, <1>5, <1>6

(* VI_INT: whatever the frontend asked for, the event taken from the front *)
(* is no timer, and the next VI_INT finds a node.                          *)
LEMMA VIHandler ==
  ASSUME NEW c, Good(c), c.q[1].type = "VI", NEW env \in Env,
         NEW d, d = vi_vertical_interrupt_event(c, env)
  PROVE  Good(d)
<1> DEFINE s == Serve(c, env.request)
           vi == s.q[FirstOf(s, "VI")]
           count == (vi.count + VIDelay) % W
           left == vi.left + VIDelay
           e == remove_interrupt_event(s)
           f == add_interrupt_event_count(e, "VI", count, left)
<1>0. /\ env.request \in Requests /\ env.unmasked \in BOOLEAN
      /\ "VI" \in Types /\ "VI" \notin {"SPECIAL", "COMPARE"}
      /\ VIDelay \in 0..(W-1) /\ VIDelay \in Int
  BY CountsAssumption, WAssumption DEF Env, Types
<1>1. d = raise_rcp_interrupt(f, env.unmasked)
  BY DEF vi_vertical_interrupt_event
<1>2. /\ Good(s) /\ s.q[1].type \in {"VI", "HW2", "NMI"}
      /\ \A t : ~None(c.q, t) => ~None(s.q, t)
  BY <1>0, ServeGood
<1> HIDE DEF s
<1>3. ~None(s.q, "VI")
  <2>1. 1 \in 1..Len(c.q)
    BY GoodHead, CoreFields
  <2>2. ~None(c.q, "VI")
    BY <2>1 DEF None
  <2> QED BY <1>2, <2>2
<1>4. vi \in Events
  <2>1. \E i \in 1..Len(s.q) : s.q[i].type = "VI"
    BY <1>3 DEF None
  <2>2. FirstOf(s, "VI") \in 1..Len(s.q)
    BY <1>2, <2>1, GoodHead, FirstOfType
  <2> QED BY <1>2, <2>2, GoodHead, ElementOfSeq
<1> HIDE DEF vi
<1>5. count \in 0..(W-1) /\ left \in Int
  <2>1. vi.count + VIDelay \in Int /\ vi.left + VIDelay \in Int
    BY <1>0, <1>4, WAssumption DEF Events
  <2> QED BY <2>1, ModType
<1>6. Good(e)
  <2>1. s.q[1].type \notin {"SPECIAL", "COMPARE"}
    BY <1>2
  <2> QED BY <1>2, <2>1, PopGood
<1> HIDE DEF e, count, left
<1>7. Adds(e, f, "VI")
  <2>1. Sound(e)
    BY <1>6 DEF Good
  <2> QED BY <1>0, <1>5, <2>1, AddEvent, Zenon
<1> HIDE DEF f
<1>8. Good(f)
  BY <1>0, <1>6, <1>7, AddGood
<1>9. Same(f, d)
  BY <1>0, <1>1, <1>8, GoodHead, RaiseRcp
<1> QED BY <1>8, <1>9, SameGood

(* What a reset does to the interrupt state. *)
Boot(c, bit, im, cause, line, count) ==
    [c EXCEPT !.ie = bit, !.exl = bit, !.erl = bit, !.im = im, !.cause = cause,
              !.line = line, !.count = count, !.delay_slot = bit]

(* A core so reset is a core. *)
LEMMA BootType ==
  ASSUME NEW c \in Cores, NEW bit \in BOOLEAN, NEW im \in SUBSET Lines,
         NEW cause \in SUBSET Lines, NEW line \in BOOLEAN, NEW count \in 0..(W-1)
  PROVE  Boot(c, bit, im, cause, line, count) \in Cores
BY DEF Cores, Boot

(* Such a reset leaves the savestate alone. *)
LEMMA BootFields ==
  ASSUME NEW c \in Cores, NEW bit \in BOOLEAN, NEW im \in SUBSET Lines,
         NEW cause \in SUBSET Lines, NEW line \in BOOLEAN, NEW count \in 0..(W-1)
  PROVE  /\ Boot(c, bit, im, cause, line, count).file = c.file
         /\ Boot(c, bit, im, cause, line, count).loading = c.loading
BY DEF Cores, Boot

(* What only a hard reset does. *)
Reset(c, cycle, next, compare, skip_jump, job) ==
    [c EXCEPT !.cycle = cycle, !.next = next, !.compare = compare,
              !.skip_jump = skip_jump, !.reset_hard_job = job]

(* A core so reset is a core. *)
LEMMA ResetType ==
  ASSUME NEW c \in Cores, NEW cycle \in Int, NEW next \in 0..(W-1),
         NEW compare \in 0..(W-1), NEW skip_jump \in BOOLEAN, NEW job \in BOOLEAN
  PROVE  Reset(c, cycle, next, compare, skip_jump, job) \in Cores
BY DEF Cores, Reset

(* A hard reset leaves the savestate alone. *)
LEMMA ResetFields ==
  ASSUME NEW c \in Cores, NEW cycle \in Int, NEW next \in 0..(W-1),
         NEW compare \in 0..(W-1), NEW skip_jump \in BOOLEAN, NEW job \in BOOLEAN
  PROVE  /\ Reset(c, cycle, next, compare, skip_jump, job).file = c.file
         /\ Reset(c, cycle, next, compare, skip_jump, job).loading = c.loading
BY DEF Cores, Reset

(* The NMI handler starts afresh with the two timer events and a VI_INT. *)
LEMMA NMIHandler ==
  ASSUME NEW c, Sound(c), FileOK(c.file), ~c.loading, NEW unmasked \in BOOLEAN,
         NEW d, d = nmi_int_handler(c, unmasked)
  PROVE  Good(d)
<1> DEFINE line == c.line /\ unmasked
           cause == IF line THEN {"IP2"} ELSE {}
           b == Boot(c, FALSE, {}, cause, line, 0)
           e == init_interrupt(b)
<1>1. /\ line \in BOOLEAN /\ cause \in SUBSET Lines /\ {} \in SUBSET Lines /\ 0 \in 0..(W-1)
      /\ FALSE \in BOOLEAN /\ c \in Cores
  BY WAssumption DEF Lines, Sound
<1>2. b \in Cores /\ b.file = c.file /\ b.loading = c.loading
  <2> HIDE DEF line, cause
  <2>1. b \in Cores
    BY <1>1, BootType
  <2>2. b.file = c.file /\ b.loading = c.loading
    BY <1>1 DEF Boot, Cores
  <2> QED BY <2>1, <2>2
<1>3. d = add_interrupt_event(e, "VI", VIDelay)
  BY DEF nmi_int_handler, Boot
<1> HIDE DEF b
<1>4. Sound(e) /\ Frame(b, e) /\ Timers(e.q)
  BY <1>2, InitInterrupt
<1> HIDE DEF e
<1>5. Good(e)
  BY <1>2, <1>4 DEF Good, Frame
<1>6. "VI" \in Types /\ VIDelay \in 0..(W-1) /\ "VI" \notin {"SPECIAL", "COMPARE"}
  BY CountsAssumption DEF Types
<1>7. Adds(e, d, "VI")
  BY <1>3, <1>4, <1>6, AddDelayed, Zenon
<1> QED BY <1>5, <1>6, <1>7, AddGood

(* poweron_r4300 starts afresh with the two timer events. *)
LEMMA PowerOnCore ==
  ASSUME NEW c \in Cores, FileOK(c.file), ~c.loading, NEW d, d = poweron_r4300(c)
  PROVE  Good(d)
<1> DEFINE a == Boot(c, FALSE, {}, {}, FALSE, PowerOnCount)
           b == Reset(a, 0, 0, 0, FALSE, FALSE)
<1>1. /\ {} \in SUBSET Lines /\ 0 \in 0..(W-1) /\ 0 \in Int /\ FALSE \in BOOLEAN
      /\ PowerOnCount \in 0..(W-1)
  BY WAssumption, CountsAssumption
<1>2. a \in Cores /\ a.file = c.file /\ a.loading = c.loading
  <2>1. a \in Cores
    BY <1>1, BootType
  <2>2. a.file = c.file /\ a.loading = c.loading
    BY <1>1, BootFields, ZenonT(30)
  <2> QED BY <2>1, <2>2
<1>3. d = init_interrupt(b)
  BY DEF poweron_r4300, Boot, Reset
<1> HIDE DEF a
<1>4. b \in Cores /\ b.file = c.file /\ b.loading = c.loading
  <2>1. b \in Cores
    BY <1>1, <1>2, ResetType
  <2>2. b.file = a.file /\ b.loading = a.loading
    BY <1>1, <1>2, ResetFields, ZenonT(30)
  <2> QED BY <1>2, <2>1, <2>2
<1> HIDE DEF b
<1>5. Sound(d) /\ Frame(b, d) /\ Timers(d.q)
  BY <1>3, <1>4, InitInterrupt
<1> QED BY <1>4, <1>5 DEF Good, Frame

(* The history of serviced events may be any sequence of events. *)
LEMMA SetFired ==
  ASSUME NEW c \in Cores, NEW fired \in Seq(Events), NEW d, d = [c EXCEPT !.fired = fired]
  PROVE  Same(c, d)
<1>1. d \in Cores
  BY DEF Cores
<1>2. d.q = c.q /\ d.index = c.index /\ d.file = c.file /\ d.loading = c.loading
  BY DEF Cores
<1> QED BY <1>1, <1>2 DEF Same

(* Whatever the type of the first event, its handler leaves a good core. *)
LEMMA DispatchGood ==
  ASSUME NEW c, Good(c), NEW type, type = c.q[1].type, NEW env \in Env,
         NEW d, d = Dispatch(c, type, env)
  PROVE  Good(d)
<1> DEFINE g == remove_interrupt_event(c)
<1>0. type \in Types /\ env.unmasked \in BOOLEAN
  BY GoodHead DEF Env
<1>1. ASSUME type \notin {"SPECIAL", "COMPARE"} PROVE Good(g) /\ g \in Cores
  BY <1>1, PopGood, GoodHead
<1>2. CASE type \in DeviceTypes
  <2>1. type \notin {"SPECIAL", "COMPARE", "CHECK", "VI", "HW2", "NMI"}
    BY <1>2, TypesAssumption
  <2>2. d = raise_rcp_interrupt(g, env.unmasked)
    <3>1. type \notin DDTypes
      BY <1>2, TypesAssumption
    <3> QED BY <1>2, <2>1, <3>1 DEF Dispatch
  <2> HIDE DEF g
  <2>3. Good(g) /\ Same(g, d)
    BY <1>0, <1>1, <2>1, <2>2, RaiseRcp
  <2> QED BY <2>3, SameGood
<1>3. CASE type \in DDTypes
  <2>1. type \notin {"SPECIAL", "COMPARE", "CHECK", "VI", "HW2", "NMI"}
    BY <1>3, TypesAssumption
  <2>2. d = r4300_check_interrupt(g, "IP3", TRUE) /\ "IP3" \in Lines /\ TRUE \in BOOLEAN
    <3>1. type \notin DeviceTypes
      BY <1>3, TypesAssumption
    <3> QED BY <1>3, <2>1, <3>1 DEF Dispatch, dd_mecha_int_handler, Lines
  <2> HIDE DEF g
  <2> QED BY <1>1, <2>1, <2>2, CheckInterrupt
<1>4. CASE type \notin DeviceTypes \cup DDTypes
  <2>1. CASE type = "VI"
    <3>1. d = vi_vertical_interrupt_event(c, env)
      BY <1>4, <2>1 DEF Dispatch
    <3> QED BY <2>1, <3>1, VIHandler
  <2>2. CASE type = "COMPARE"
    <3>1. d = compare_int_handler(g)
      BY <1>4, <2>2 DEF Dispatch
    <3> QED BY <2>2, <3>1, CompareHandler
  <2>3. CASE type = "CHECK"
    <3>1. d = exception_general(g)
      BY <1>4, <2>3 DEF Dispatch, check_int_handler
    <3> HIDE DEF g
    <3>2. Good(g) /\ Same(g, d)
      BY <1>1, <2>3, <3>1, ExceptionGeneral
    <3> QED BY <3>2, SameGood
  <2>4. CASE type = "SPECIAL"
    <3>1. d = special_int_handler(c)
      BY <1>4, <2>4 DEF Dispatch
    <3> QED BY <2>4, <3>1, SpecialHandler
  <2>5. CASE type = "HW2"
    <3>1. d = raise_maskable_interrupt(g, "IP4") /\ "IP4" \in Lines
      BY <1>4, <2>5 DEF Dispatch, hw2_int_handler, Lines
    <3> HIDE DEF g
    <3>2. Good(g) /\ Same(g, d)
      BY <1>1, <2>5, <3>1, RaiseMaskable
    <3> QED BY <3>2, SameGood
  <2>6. CASE type = "NMI"
    <3>1. d = nmi_int_handler(g, env.unmasked)
      BY <1>4, <2>6 DEF Dispatch
    <3> HIDE DEF g
    <3>2. Sound(g) /\ FileOK(g.file) /\ ~g.loading
      BY <1>1, <2>6 DEF Good
    <3> QED BY <1>0, <3>1, <3>2, NMIHandler
  <2> QED BY <1>0, <1>4, <2>1, <2>2, <2>3, <2>4, <2>5, <2>6 DEF Types
<1> QED BY <1>2, <1>3, <1>4

(* Servicing the first event leaves a good core. *)
LEMMA ServiceGood ==
  ASSUME NEW c, Good(c), NEW env \in Env, NEW d, d = Service(c, env)
  PROVE  Good(d)
<1> DEFINE fired == IF History THEN Append(c.fired, c.q[1]) ELSE c.fired
           f == [c EXCEPT !.fired = fired]
<1>0. c \in Cores /\ c.q[1] \in Events /\ c.fired \in Seq(Events)
  BY GoodHead DEF Cores
<1>1. fired \in Seq(Events)
  BY <1>0, AppendProperties
<1>2. d = Dispatch(f, c.q[1].type, env)
  BY DEF Service
<1> HIDE DEF fired
<1>3. Same(c, f)
  BY <1>0, <1>1, SetFired
<1> HIDE DEF f
<1>4. Good(f) /\ f.q[1].type = c.q[1].type
  BY <1>3, SameGood DEF Same
<1> QED BY <1>2, <1>4, DispatchGood

-----------------------------------------------------------------------------
(* Savestates and gen_interrupt *)

(* A savestate keeps the part of the core that it names. *)
LEMMA SaveGood ==
  ASSUME NEW c, Good(c), NEW d, d = savestates_save(c)
  PROVE  Good(d)
<1> DEFINE f == [q |-> c.q, count |-> c.count, compare |-> c.compare,
                 ie |-> c.ie, exl |-> c.exl, erl |-> c.erl, im |-> c.im,
                 cause |-> c.cause, line |-> c.line]
<1>0. c \in Cores /\ c.index = Len(c.q) /\ c.index \in 0..Capacity /\ Timers(c.q)
  BY GoodHead, CoreFields DEF Good, Sound
<1>1. f \in SaveStates
  BY <1>0 DEF Cores, SaveStates
<1>2. FileOK(f)
  BY <1>0, CapacityAssumption DEF FileOK
<1>3. d = [c EXCEPT !.job = "nothing", !.file = f]
  BY DEF savestates_save
<1> HIDE DEF f
<1>4. d \in Cores
  BY <1>0, <1>1, <1>3 DEF Cores
<1>5. d.q = c.q /\ d.index = c.index /\ d.file = f /\ d.loading = c.loading
  BY <1>0, <1>3 DEF Cores
<1> QED BY <1>0, <1>2, <1>4, <1>5 DEF Good, Sound

(* The registers of a savestate are put into a core. *)
Restore(c, f, loading, job) ==
    [c EXCEPT !.loading = loading, !.job = job,
              !.count = f.count, !.compare = f.compare, !.ie = f.ie,
              !.exl = f.exl, !.erl = f.erl, !.im = f.im,
              !.cause = f.cause, !.line = f.line]

(* A core so restored is a core. *)
LEMMA RestoreType ==
  ASSUME NEW c \in Cores, NEW f \in SaveStates, NEW loading \in BOOLEAN,
         NEW job \in {"nothing", "load", "save"}
  PROVE  Restore(c, f, loading, job) \in Cores
<1>1. /\ f.count \in 0..(W-1) /\ f.compare \in 0..(W-1) /\ f.ie \in BOOLEAN
      /\ f.exl \in BOOLEAN /\ f.erl \in BOOLEAN /\ f.im \in SUBSET Lines
      /\ f.cause \in SUBSET Lines /\ f.line \in BOOLEAN
  BY DEF SaveStates
<1> QED BY <1>1 DEF Cores, Restore

(* savestates_load rejects the buffer or starts to load it. *)
LEMMA LoadInv ==
  ASSUME NEW c, Good(c), NEW d, d = savestates_load(c)
  PROVE  Good(d) \/ Loading(d)
<1>0. c \in Cores /\ FileOK(c.file)
  BY GoodHead DEF Good
<1>1. CASE c.file.q = << >>
  <2>1. d = [c EXCEPT !.job = "nothing"] /\ "nothing" \in {"nothing", "load", "save"}
    BY <1>1 DEF savestates_load
  <2>2. Same(c, d)
    BY <1>0, <2>1, SetJob
  <2> QED BY <2>2, SameGood
<1>2. CASE c.file.q # << >>
  <2> DEFINE e == clear_queue(c)
  <2>1. d = Restore(e, c.file, TRUE, "nothing")
    BY <1>2 DEF savestates_load, Restore
  <2>2. Sound(e) /\ Frame(c, e) /\ e.q = << >> /\ e.index = 0
    BY <1>0, ClearQueue
  <2> HIDE DEF e
  <2>3. /\ e \in Cores /\ c.file \in SaveStates /\ e.file = c.file
        /\ TRUE \in BOOLEAN /\ "nothing" \in {"nothing", "load", "save"}
    BY <1>0, <2>2, CoreFields DEF Sound, Frame
  <2>4. d \in Cores
    BY <2>1, <2>3, RestoreType
  <2>5. d.q = << >> /\ d.index = 0 /\ d.file = c.file /\ d.loading /\ d.count = c.file.count
    BY <2>1, <2>2, <2>3 DEF Restore, Cores
  <2>6. Len(d.q) = 0 /\ Len(c.file.q) \in Nat
    BY <1>0, <2>5, CoreFields, EmptySeq
  <2>7. ASSUME NEW t PROVE ~(\E i \in 1..d.index : d.file.q[i].type = t) /\ None(d.q, t)
    BY <2>5, <2>6 DEF None
  <2>8. Restored(d)
    BY <2>5 DEF Restored
  <2> QED BY <1>0, <1>2, <2>4, <2>5, <2>6, <2>7, <2>8 DEF Loading, Sound
<1> QED BY <1>1, <1>2

(* What consuming skip_jump sets. *)
WithSkip(c, skip_jump, next, cycle) ==
    [c EXCEPT !.skip_jump = skip_jump, !.next = next, !.cycle = cycle]

(* Consuming skip_jump changes no queue. *)
LEMMA SetSkip ==
  ASSUME NEW c \in Cores, NEW skip_jump \in BOOLEAN, NEW next \in 0..(W-1), NEW cycle \in Int,
         NEW d, d = WithSkip(c, skip_jump, next, cycle)
  PROVE  Same(c, d)
<1>1. d \in Cores
  BY DEF Cores, WithSkip
<1>2. d.q = c.q /\ d.index = c.index /\ d.file = c.file /\ d.loading = c.loading
  BY DEF Cores, WithSkip
<1> QED BY <1>1, <1>2 DEF Same

(* gen_interrupt leaves a good core, or starts to load a savestate when    *)
(* that is safe.                                                           *)
LEMMA GenInterrupt ==
  ASSUME NEW c, Good(c), NEW env \in Env, NEW safe \in BOOLEAN,
         NEW d, d = gen_interrupt(c, env, safe)
  PROVE  Good(d) \/ (safe /\ Loading(d))
<1>0. c \in Cores /\ FileOK(c.file) /\ ~c.loading
  BY GoodHead DEF Good
<1>1. CASE safe /\ c.job = "load"
  <2>1. d = savestates_load(c)
    BY <1>1 DEF gen_interrupt
  <2> QED BY <1>1, <2>1, LoadInv
<1>2. CASE ~(safe /\ c.job = "load") /\ safe /\ c.reset_hard_job
  <2>1. d = poweron_r4300(c)
    BY <1>2 DEF gen_interrupt, reset_hard_handler
  <2> QED BY <1>0, <2>1, PowerOnCore
<1>3. CASE ~(safe /\ c.job = "load") /\ ~(safe /\ c.reset_hard_job) /\ c.skip_jump
  <2> DEFINE next == c.q[1].count
             cycle == Signed(c.count - c.q[1].count)
  <2>1. d = WithSkip(c, FALSE, next, cycle)
    BY <1>3 DEF gen_interrupt, skip_the_jump, WithSkip
  <2>2. FALSE \in BOOLEAN /\ next \in 0..(W-1) /\ cycle \in Int
    BY GoodHead
  <2> HIDE DEF next, cycle
  <2>3. Same(c, d)
    BY <1>0, <2>1, <2>2, SetSkip
  <2> QED BY <2>3, SameGood
<1>4. CASE ~(safe /\ c.job = "load") /\ ~(safe /\ c.reset_hard_job) /\ ~c.skip_jump
  <2> DEFINE e == Service(c, env)
  <2>1. Good(e)
    BY ServiceGood
  <2>2. d = savestates_save(e) \/ d = e
    BY <1>4 DEF gen_interrupt
  <2> HIDE DEF e
  <2> QED BY <2>1, <2>2, SaveGood
<1> QED BY <1>1, <1>2, <1>3, <1>4

(* The same for the test that guards the call. *)
LEMMA GenIfDueInv ==
  ASSUME NEW c, Good(c), NEW env \in Env, NEW safe \in BOOLEAN,
         NEW d, d = GenIfDue(c, env, safe)
  PROVE  Good(d) \/ (safe /\ Loading(d))
<1>1. CASE c.cycle >= 0
  <2>1. d = gen_interrupt(c, env, safe)
    BY <1>1 DEF GenIfDue
  <2> QED BY <2>1, GenInterrupt
<1>2. CASE ~(c.cycle >= 0)
  <2>1. d = c
    BY <1>2 DEF GenIfDue
  <2> QED BY <2>1
<1> QED BY <1>1, <1>2

-----------------------------------------------------------------------------
(* The actions *)

(* Power on gives a good core. *)
LEMMA PowerOnGood == Good(PowerOn)
<1> DEFINE c == [q |-> << >>, index |-> 0, count |-> 0, cycle |-> 0, next |-> 0,
        compare |-> 0, ie |-> FALSE, exl |-> FALSE, erl |-> FALSE, im |-> {},
        cause |-> {}, delay_slot |-> FALSE, skip_jump |-> FALSE, line |-> FALSE,
        stop |-> FALSE, job |-> "nothing", reset_hard_job |-> FALSE,
        file |-> NoState, loading |-> FALSE, fired |-> << >>]
<1>1. 0 \in 0..(W-1) /\ 0 \in 0..Capacity /\ << >> \in Seq(Events)
  BY WAssumption, CapacityAssumption
<1>2. NoState \in SaveStates
  BY <1>1 DEF NoState, SaveStates
<1>3. NoState.q = << >>
  BY DEF NoState
<1>4. c \in Cores
  BY <1>1, <1>2 DEF Cores
<1>5. c.file = NoState /\ ~c.loading
  OBVIOUS
<1>6. PowerOn = poweron_r4300(c)
  BY DEF PowerOn
<1> HIDE DEF c
<1>7. FileOK(c.file)
  BY <1>3, <1>5 DEF FileOK
<1> QED BY <1>4, <1>5, <1>6, <1>7, PowerOnCore

(* An instruction starts from a good core. *)
LEMMA NowGood ==
  ASSUME Inv, Ready
  PROVE  /\ Good(r4300) /\ Good(Now) /\ Now \in Cores /\ Now.compare = r4300.compare
         /\ r4300.count \in Int /\ r4300.line \in BOOLEAN
<1>1. Good(r4300)
  BY DEF Inv, Ready, Loading
<1>2. r4300 \in Cores /\ << >> \in Seq(Events)
  BY <1>1, GoodHead
<1>3. Same(r4300, Now)
  BY <1>2, SetFired DEF Now
<1>4. Now.compare = r4300.compare
  BY <1>2 DEF Now, Cores
<1>5. r4300.count \in Int /\ r4300.line \in BOOLEAN
  BY <1>2, CoreFields, CauseLine
<1> QED BY <1>1, <1>3, <1>4, <1>5, SameGood DEF Same

(* An instruction that leaves a good core preserves the invariant. *)
LEMMA InstructionInv ==
  ASSUME Inv, NEW c, Good(c) \/ Loading(c), Instruction(c)
  PROVE  Inv'
BY DEF Inv, Instruction

(* Steps are integers. *)
LEMMA StepsType ==
  /\ \A n \in Steps \cup IdleSteps \cup {0, CountPerOp} : n \in Int
  /\ CountValues \subseteq 0..(W-1)
  /\ \A d \in Delays \cup {VIDelay} : d \in 0..(W-1)
BY CountsAssumption, CountPerOpAssumption

(* ScheduleEvent preserves the invariant. *)
LEMMA ScheduleEventInv ==
  ASSUME Inv, NEW type \in Sources, NEW n \in Steps, NEW delay \in Delays \cup {VIDelay},
         ScheduleEvent(type, n, delay)
  PROVE  Inv'
<1> DEFINE c == cp0_update_count(Now, n)
           d == add_interrupt_event(c, type, delay)
<1>0. Instruction(d) /\ Ready
  BY DEF ScheduleEvent, Instruction
<1>1. n \in Int /\ delay \in 0..(W-1)
  BY StepsType
<1>2. type \in Types /\ type \notin {"SPECIAL", "COMPARE"}
  BY TypesAssumption DEF Types
<1>3. Good(c)
  BY <1>0, <1>1, NowGood, UpdateCount
<1> HIDE DEF c
<1>4. Sound(c)
  BY <1>3 DEF Good
<1>5. Adds(c, d, type)
  BY <1>1, <1>2, <1>4, AddDelayed, Zenon
<1> HIDE DEF d
<1>6. Good(d)
  BY <1>2, <1>3, <1>5, AddGood
<1> QED BY <1>0, <1>6, InstructionInv

(* CancelEvent preserves the invariant. *)
LEMMA CancelEventInv ==
  ASSUME Inv, NEW type \in DDTypes, CancelEvent(type)
  PROVE  Inv'
<1> DEFINE d == remove_event(Now, type)
<1>0. Instruction(d) /\ Ready
  BY DEF CancelEvent, Instruction
<1>1. type # "SPECIAL" /\ type # "COMPARE"
  BY TypesAssumption
<1>2. Good(Now)
  BY <1>0, NowGood
<1>3. ~None(Now.q, type)
  <2>1. Now.q = r4300.q
    BY <1>0, NowGood DEF Now, Cores
  <2> QED BY <2>1 DEF CancelEvent, get_event, None
<1>4. Removes(Now, d, type)
  BY <1>2, <1>3, GoodHead, RemoveEvent
<1> HIDE DEF d
<1>5. Good(d)
  BY <1>1, <1>2, <1>4 DEF Good, Timers, Removes, Frame
<1> QED BY <1>0, <1>5, InstructionInv

(* signal_rcp_interrupt preserves the invariant. *)
LEMMA SignalInv ==
  ASSUME Inv, NEW asserted \in BOOLEAN, signal_rcp_interrupt(asserted)
  PROVE  Inv'
<1> DEFINE c == [Now EXCEPT !.line = asserted]
           d == r4300_check_interrupt(c, "IP2", asserted)
<1>0. Instruction(d) /\ Ready
  BY DEF signal_rcp_interrupt, Instruction
<1>1. Good(c)
  BY <1>0, NowGood, SetLine, SameGood
<1> HIDE DEF c
<1>2. Good(d)
  BY <1>1, CheckInterrupt DEF Lines
<1> QED BY <1>0, <1>2, InstructionInv

(* write_mi_intr_mask preserves the invariant. *)
LEMMA MaskInv ==
  ASSUME Inv, NEW n \in Steps, NEW asserted \in BOOLEAN, NEW env \in Env,
         write_mi_intr_mask(n, asserted, env)
  PROVE  Inv'
<1> DEFINE c == [Now EXCEPT !.line = asserted]
           d == r4300_check_interrupt(c, "IP2", asserted)
           e == cp0_update_count(d, n)
           f == GenIfDue(e, env, TRUE)
<1>0. Instruction(f) /\ Ready /\ n \in Int /\ TRUE \in BOOLEAN
  BY StepsType DEF write_mi_intr_mask, Instruction
<1>1. Good(c)
  BY <1>0, NowGood, SetLine, SameGood
<1> HIDE DEF c
<1>2. Good(d)
  BY <1>1, CheckInterrupt DEF Lines
<1> HIDE DEF d
<1>3. Good(e)
  BY <1>0, <1>2, UpdateCount
<1> HIDE DEF e
<1>4. Good(f) \/ Loading(f)
  BY <1>0, <1>3, GenIfDueInv
<1> QED BY <1>0, <1>4, InstructionInv

(* MTC0 Count preserves the invariant. *)
LEMMA CountInv ==
  ASSUME Inv, NEW n \in Steps, NEW base \in CountValues, NEW env \in Env,
         mtc0_count(n, base, env)
  PROVE  Inv'
<1> DEFINE c == cp0_update_count(Now, n)
           d == GenIfDue(c, env, FALSE)
           e == translate_event_queue(d, base, d.compare)
<1>0. Instruction(e) /\ Ready /\ n \in Int /\ base \in 0..(W-1) /\ FALSE \in BOOLEAN
  BY StepsType DEF mtc0_count, Instruction
<1>1. Good(c)
  BY <1>0, NowGood, UpdateCount
<1> HIDE DEF c
<1>2. Good(d)
  BY <1>0, <1>1, GenIfDueInv
<1> HIDE DEF d
<1>3. d.compare \in 0..(W-1)
  BY <1>2, GoodHead, CoreFields
<1>4. Good(e)
  BY <1>0, <1>2, <1>3, TranslateGood
<1> QED BY <1>0, <1>4, InstructionInv

(* MTC0 Compare preserves the invariant. *)
LEMMA CompareInv ==
  ASSUME Inv, NEW n \in Steps, NEW ahead \in CompareAhead, mtc0_compare(n, ahead)
  PROVE  Inv'
<1> DEFINE value == (r4300.count + n + ahead) % W
           c == cp0_update_count(Now, n)
           d == add_compare_event(remove_event(c, "COMPARE"), value)
           e == [d EXCEPT !.compare = value, !.cause = d.cause \ {"IP7"}]
<1>0. Instruction(e) /\ Ready /\ n \in Int /\ ahead \in Int
  BY StepsType, CountsAssumption, WAssumption DEF mtc0_compare, Instruction
<1>1. value \in 0..(W-1)
  <2>1. r4300.count + n + ahead \in Int
    BY <1>0, NowGood
  <2> QED BY <2>1, ModType
<1>2. Good(c)
  BY <1>0, NowGood, UpdateCount
<1> HIDE DEF c, value
<1>3. Good(d)
  BY <1>1, <1>2, MoveCompareGood
<1> HIDE DEF d
<1>4. d \in Cores /\ d.cause \ {"IP7"} \in SUBSET Lines
  BY <1>3, GoodHead, CauseLine
<1>5. Same(d, e)
  BY <1>1, <1>4, SetCompare
<1> HIDE DEF e
<1>6. Good(e)
  BY <1>3, <1>5, SameGood
<1> QED BY <1>0, <1>6, InstructionInv

(* MTC0 Status preserves the invariant. *)
LEMMA StatusInv ==
  ASSUME Inv, NEW n \in Steps, NEW st \in StatusValues, NEW env \in Env, mtc0_status(n, st, env)
  PROVE  Inv'
<1> DEFINE c == WithStatus(Now, st.ie, st.exl, st.erl, st.im)
           d == cp0_update_count(c, n)
           e == r4300_check_interrupt(d, "IP2", c.line)
           f == GenIfDue(e, env, FALSE)
<1>0. Instruction(f) /\ Ready /\ n \in Int /\ FALSE \in BOOLEAN
  BY StepsType DEF mtc0_status, Instruction, WithStatus
<1>1. st.ie \in BOOLEAN /\ st.exl \in BOOLEAN /\ st.erl \in BOOLEAN /\ st.im \in SUBSET Lines
  BY StatusAssumption DEF Lines
<1>2. Same(Now, c)
  BY <1>0, <1>1, NowGood, SetStatus
<1> HIDE DEF c
<1>3. Good(c) /\ c.line \in BOOLEAN
  BY <1>0, <1>2, NowGood, SameGood, CauseLine DEF Same
<1>4. Good(d)
  BY <1>0, <1>3, UpdateCount
<1> HIDE DEF d
<1>5. Good(e)
  BY <1>3, <1>4, CheckInterrupt DEF Lines
<1> HIDE DEF e
<1>6. Good(f)
  BY <1>0, <1>5, GenIfDueInv
<1> QED BY <1>0, <1>6, InstructionInv

(* ERET preserves the invariant. *)
LEMMA EretInv ==
  ASSUME Inv, NEW n \in Steps, NEW env \in Env, eret(n, env)
  PROVE  Inv'
<1> DEFINE c == IF r4300.erl THEN [Now EXCEPT !.stop = TRUE] ELSE [Now EXCEPT !.exl = FALSE]
           d == cp0_update_count(c, n)
           e == r4300_check_interrupt(d, "IP2", c.line)
           f == GenIfDue(e, env, TRUE)
<1>0. Instruction(f) /\ Ready /\ n \in Int /\ TRUE \in BOOLEAN /\ FALSE \in BOOLEAN
  BY StepsType DEF eret, Instruction
<1>1. Same(Now, c)
  BY <1>0, NowGood, SetStop, SetLevel
<1> HIDE DEF c
<1>2. Good(c) /\ c.line \in BOOLEAN
  BY <1>0, <1>1, NowGood, SameGood, CauseLine DEF Same
<1>3. Good(d)
  BY <1>0, <1>2, UpdateCount
<1> HIDE DEF d
<1>4. Good(e)
  BY <1>2, <1>3, CheckInterrupt DEF Lines
<1> HIDE DEF e
<1>5. Good(f) \/ Loading(f)
  BY <1>0, <1>4, GenIfDueInv
<1> QED BY <1>0, <1>5, InstructionInv

(* SYSCALL preserves the invariant. *)
LEMMA SyscallInv ==
  ASSUME Inv, NEW n \in Steps, syscall(n)
  PROVE  Inv'
<1> DEFINE c == cp0_update_count(Now, n)
           d == [c EXCEPT !.cause = {}]
           e == exception_general(d)
<1>0. Instruction(e) /\ Ready /\ n \in Int /\ {} \in SUBSET Lines
  BY StepsType DEF syscall, Instruction
<1>1. Good(c)
  BY <1>0, NowGood, UpdateCount
<1> HIDE DEF c
<1>2. Good(d) /\ d \in Cores
  BY <1>0, <1>1, GoodHead, SetCause, SameGood
<1> HIDE DEF d
<1>3. Good(e)
  BY <1>2, ExceptionGeneral, SameGood
<1> QED BY <1>0, <1>3, InstructionInv

(* The start of a branch preserves the invariant. *)
LEMMA BeginJumpInv ==
  ASSUME Inv, BeginJump
  PROVE  Inv'
<1>1. Ready /\ phase' = "slot" /\ r4300' = [Now EXCEPT !.delay_slot = TRUE] /\ TRUE \in BOOLEAN
  BY DEF BeginJump
<1>2. Same(Now, r4300')
  BY <1>1, NowGood, SetSlot
<1>3. Good(r4300')
  BY <1>1, <1>2, NowGood, SameGood
<1> QED BY <1>1, <1>3 DEF Inv, Good, Sound, FileOK, Timers, Once, Loading

(* The end of a branch preserves the invariant. *)
LEMMA EndJumpInv ==
  ASSUME Inv, NEW n \in Steps \cup {0}, NEW env \in Env, EndJump(n, env)
  PROVE  Inv'
<1> DEFINE c == cp0_update_count(Now, n)
           d == [c EXCEPT !.delay_slot = FALSE]
           e == GenIfDue(d, env, TRUE)
<1>0. /\ ~r4300.loading /\ phase' = "no" /\ r4300' = e /\ n \in Int
      /\ TRUE \in BOOLEAN /\ FALSE \in BOOLEAN
  BY StepsType DEF EndJump
<1>1. Good(Now)
  <2>1. Good(r4300)
    BY <1>0 DEF Inv, Loading
  <2>2. r4300 \in Cores /\ << >> \in Seq(Events)
    BY <2>1, GoodHead
  <2>3. Same(r4300, Now)
    BY <2>2, SetFired DEF Now
  <2> QED BY <2>1, <2>3, SameGood
<1>2. Good(c)
  BY <1>0, <1>1, UpdateCount
<1> HIDE DEF c
<1>3. Good(d)
  BY <1>0, <1>2, GoodHead, SetSlot, SameGood
<1> HIDE DEF d
<1>4. Good(e) \/ Loading(e)
  BY <1>0, <1>3, GenIfDueInv
<1> HIDE DEF e
<1> QED BY <1>0, <1>4 DEF Inv

(* A branch to itself preserves the invariant. *)
LEMMA IdleLoopInv ==
  ASSUME Inv, NEW n \in IdleSteps, IdleLoop(n)
  PROVE  Inv'
<1> DEFINE c == cp0_update_count(Now, n)
           d == IF c.cycle < 0 THEN cp0_update_count(c, -c.cycle) ELSE c
           e == [d EXCEPT !.delay_slot = TRUE]
<1>0. Ready /\ phase' = "slot" /\ r4300' = e /\ n \in Int /\ TRUE \in BOOLEAN
  BY StepsType DEF IdleLoop
<1>1. Good(c)
  BY <1>0, NowGood, UpdateCount
<1> HIDE DEF c
<1>2. -c.cycle \in Int
  BY <1>1, GoodHead, CoreFields
<1>3. Good(d)
  BY <1>1, <1>2, UpdateCount
<1> HIDE DEF d
<1>4. Good(e)
  BY <1>0, <1>3, GoodHead, SetSlot, SameGood
<1> HIDE DEF e
<1> QED BY <1>0, <1>4 DEF Inv

(* What an insertion that finds a node makes of the queue. *)
LEMMA AddShape ==
  ASSUME NEW c, Sound(c), NEW type \in Types, NEW count \in 0..(W-1), NEW left \in Int,
         c.index < Capacity, NEW d, d = add_interrupt_event_count(c, type, count, left)
  PROVE  /\ d.q = InsertAt(c.q, InsertPosition(c, count), Event(type, count, left))
         /\ d.cycle = Signed(d.count - d.q[1].count)
         /\ Event(type, count, left) \in Events
         /\ InsertPosition(c, count) \in 1..(Len(c.q) + 1)
<1> DEFINE q == InsertAt(c.q, InsertPosition(c, count), Event(type, count, left))
           n == c.index + 1
           first == q[1].count
           late == Signed(c.count - first)
<1>0. c \in Cores
  BY DEF Sound
<1>1. d = WithQueue(c, q, n, first, late)
  BY DEF add_interrupt_event_count, alloc_node_ok, WithQueue
<1>2. d.q = q /\ d.count = c.count /\ d.cycle = late
  <2> HIDE DEF q, n, first, late
  <2> QED BY <1>0, <1>1 DEF WithQueue, Cores
<1>3. d.cycle = Signed(d.count - d.q[1].count)
  <2> HIDE DEF q
  <2> QED BY <1>2
<1>4. Event(type, count, left) \in Events
  BY DEF Event, Events
<1> QED BY <1>0, <1>2, <1>3, <1>4, InsertPositionType

(* The next event of a chronological savestate is inserted behind those    *)
(* before it.                                                              *)
LEMMA InsertsLast ==
  ASSUME NEW c, Sound(c), Restored(c), Chronological(c.file), c.index < Len(c.file.q)
  PROVE  InsertPosition(c, c.file.q[c.index + 1].count) = Len(c.q) + 1
<1> DEFINE count == c.file.q[c.index + 1].count
<1>0. /\ c \in Cores /\ c.index = Len(c.q) /\ c.index \in Nat /\ Len(c.file.q) \in Nat
      /\ \A i \in 1..c.index : c.q[i] = c.file.q[i]
  BY CoreFields, CapacityAssumption DEF Sound, Restored
<1>1. ASSUME NEW i \in 1..Len(c.q) PROVE ~before_event(c, count, c.q[i].count)
  <2>1. c.index > 0 /\ 1 \in 1..c.index /\ i \in 1..Len(c.file.q)
        /\ c.index + 1 \in 1..Len(c.file.q) /\ i < c.index + 1
    BY <1>0
  <2>2. c.q[i] = c.file.q[i] /\ c.q[1] = c.file.q[1]
    BY <1>0, <2>1
  <2>3. c.cycle = Signed(c.file.count - c.file.q[1].count) /\ c.count = c.file.count
    BY <2>1, <2>2 DEF Restored
  <2>4. (IF c.cycle > 0 THEN c.count - c.cycle ELSE c.count) = LoadOrigin(c.file)
    BY <2>3 DEF LoadOrigin
  <2>5. (c.file.q[i].count - LoadOrigin(c.file)) % W <= (count - LoadOrigin(c.file)) % W
    BY <2>1 DEF Chronological
  <2>6. LoadOrigin(c.file) \in Int /\ c.file.q[i].count \in Int /\ count \in Int
    <3>1. c.file.q[i] \in Events /\ c.file.q[c.index + 1] \in Events
      BY <1>0, <2>1, CoreFields, ElementOfSeq
    <3>2. c.file.q[i].count \in Int /\ count \in Int
      BY <3>1, WAssumption DEF Events
    <3>3. c.count \in Int /\ c.cycle \in Int
      BY <1>0, CoreFields
    <3> QED BY <2>4, <3>2, <3>3
  <2> DEFINE a == (c.file.q[i].count - LoadOrigin(c.file)) % W
             b == (count - LoadOrigin(c.file)) % W
  <2>7. a \in Int /\ b \in Int /\ a <= b
    <3>1. c.file.q[i].count - LoadOrigin(c.file) \in Int /\ count - LoadOrigin(c.file) \in Int
      BY <2>6
    <3>2. a \in 0..(W-1) /\ b \in 0..(W-1)
      <4> HIDE DEF count
      <4> QED BY <3>1, ModType
    <3> QED BY <2>5, <3>2, WAssumption
  <2>8. before_event(c, count, c.q[i].count) <=> b < a
    BY <2>2, <2>4 DEF before_event
  <2> HIDE DEF a, b
  <2> QED BY <2>7, <2>8
<1> HIDE DEF count
<1>2. InsertPosition(c, count) = Len(c.q) + 1
  BY <1>1 DEF InsertPosition
<1> QED BY <1>2 DEF count

(* So that it stays a prefix of the savestate. *)
LEMMA NextRestored ==
  ASSUME NEW c, Sound(c), Restored(c), FileOK(c.file), c.index < Len(c.file.q)
  PROVE  LET e == c.file.q[c.index + 1]
         IN  Restored(add_interrupt_event_count(c, e.type, e.count, e.left))
<1> DEFINE e == c.file.q[c.index + 1]
           d == add_interrupt_event_count(c, e.type, e.count, e.left)
<1>0. /\ c \in Cores /\ c.index = Len(c.q) /\ c.index \in Nat /\ Len(c.file.q) \in Nat
      /\ c.q \in Seq(Events) /\ c.file.q \in Seq(Events) /\ c.index + 1 \in 1..Len(c.file.q)
  BY CoreFields, CapacityAssumption DEF Sound
<1>1. c.index < Capacity
  BY <1>0, EmptySeq, CapacityAssumption DEF FileOK
<1>2. e \in Events
  BY <1>0, ElementOfSeq
<1>3. e.type \in Types /\ e.count \in 0..(W-1) /\ e.left \in Int
  BY <1>2 DEF Events
<1> HIDE DEF e
<1>4. Event(e.type, e.count, e.left) = e
  BY <1>2 DEF Events, Event
<1>5. /\ d.q = InsertAt(c.q, InsertPosition(c, e.count), e)
      /\ d.cycle = Signed(d.count - d.q[1].count)
      /\ InsertPosition(c, e.count) \in 1..(Len(c.q) + 1)
  BY <1>1, <1>3, <1>4, AddShape
<1>7. d.file = c.file /\ d.count = c.count /\ d.index = c.index + 1
  BY <1>1, <1>3, AddEvent DEF Adds, Frame
<1> HIDE DEF d
<1>6. ASSUME Chronological(c.file), NEW i \in 1..d.index PROVE d.q[i] = c.file.q[i]
  <2>1. InsertPosition(c, e.count) = Len(c.q) + 1
    BY <1>6, InsertsLast DEF e
  <2>2. d.q[i] = IF i < Len(c.q) + 1 THEN c.q[i] ELSE e
    <3> DEFINE S == Events
               q == c.q
               p == InsertPosition(c, e.count)
    <3>1. q \in Seq(S) /\ e \in S /\ p \in 1..(Len(q) + 1) /\ i \in 1..(Len(q) + 1)
      BY <1>0, <1>2, <1>5, <1>7
    <3>2. p = Len(q) + 1 /\ d.q = InsertAt(q, p, e)
      BY <1>5, <2>1
    <3> HIDE DEF S, q, p
    <3>3. \A j \in 1..(Len(q)+1) :
            InsertAt(q, p, e)[j] = IF j < p THEN q[j] ELSE IF j = p THEN e ELSE q[j-1]
      BY <3>1, InsertAtProperties
    <3>4. Len(q) \in Nat
      BY <3>1, LenProperties
    <3>5. d.q[i] = IF i < Len(q) + 1 THEN q[i] ELSE e
      BY <3>1, <3>2, <3>3, <3>4
    <3> QED BY <3>5 DEF q
  <2>3. CASE i < Len(c.q) + 1
    <3>1. i \in 1..c.index
      BY <1>0, <1>7, <2>3
    <3> QED BY <1>6, <2>2, <2>3, <3>1 DEF Restored
  <2>4. CASE ~(i < Len(c.q) + 1)
    <3>1. i = c.index + 1
      BY <1>0, <1>7, <2>4
    <3> QED BY <2>2, <2>4, <3>1 DEF e
  <2> QED BY <2>3, <2>4
<1>8. d.count = d.file.count
  BY <1>7 DEF Restored
<1>9. Restored(d)
  BY <1>5, <1>6, <1>7, <1>8 DEF Restored
<1> QED BY <1>9 DEF d, e

(* Inserting the next saved event keeps the loading invariant: a timer     *)
(* event that is saved once is inserted once.                              *)
LEMMA LoadEventInv ==
  ASSUME Inv, load_event
  PROVE  Inv'
<1> DEFINE c == r4300
           k == c.index + 1
           e == c.file.q[k]
           d == add_interrupt_event_count(c, e.type, e.count, e.left)
<1>0. c.loading /\ c.index < Len(c.file.q) /\ r4300' = d /\ phase' = phase
  BY DEF load_event
<1>1. Loading(c)
  BY <1>0 DEF Inv, Good
<1>2. /\ Sound(c) /\ c.file.q # << >> /\ Len(c.file.q) <= Capacity /\ Timers(c.file.q)
      /\ c \in Cores /\ c.file.q \in Seq(Events) /\ c.index \in 0..Capacity
      /\ Len(c.file.q) \in Nat
  BY <1>1, CoreFields DEF Loading, FileOK, Sound
<1>3. k \in 1..Len(c.file.q) /\ c.index < Capacity /\ k <= Len(c.file.q)
  BY <1>0, <1>2, CapacityAssumption
<1>4. e.type \in Types /\ e.count \in 0..(W-1) /\ e.left \in Int
  <2>1. e \in Events
    BY <1>2, <1>3, ElementOfSeq
  <2> QED BY <2>1 DEF Events
<1>5. Adds(c, d, e.type)
  BY <1>2, <1>4, AddEvent, Zenon
<1> HIDE DEF d
<1>6. Sound(d) /\ d.file = c.file /\ d.loading = c.loading /\ d.index = k /\ d.count = c.count
  BY <1>3, <1>5 DEF Adds, Frame
<1>7. ASSUME NEW t \in {"SPECIAL", "COMPARE"}
      PROVE  IF \E i \in 1..k : c.file.q[i].type = t
             THEN Once(d.q, t) ELSE None(d.q, t)
  <2>1. IF \E i \in 1..c.index : c.file.q[i].type = t
        THEN Once(c.q, t) ELSE None(c.q, t)
    BY <1>1 DEF Loading
  <2>2. CASE e.type = t
    <3>1. PICK i \in 1..Len(c.file.q) :
             c.file.q[i].type = t /\ \A j \in 1..Len(c.file.q) : c.file.q[j].type = t => j = i
      BY <1>2 DEF Timers, Once
    <3>2. k = i
      BY <1>3, <2>2, <3>1
    <3>3. \A j \in 1..c.index : c.file.q[j].type # t
      BY <1>2, <1>3, <3>1, <3>2
    <3>4. None(c.q, t)
      BY <2>1, <3>3
    <3>5. Once(d.q, t)
      BY <1>3, <1>5, <2>2, <3>4 DEF Adds
    <3>6. \E j \in 1..k : c.file.q[j].type = t
      BY <1>3, <2>2
    <3> QED BY <3>5, <3>6
  <2>3. CASE e.type # t
    <3>1. (\E i \in 1..k : c.file.q[i].type = t) <=> (\E i \in 1..c.index : c.file.q[i].type = t)
      BY <1>2, <2>3
    <3>2. (Once(c.q, t) => Once(d.q, t)) /\ (None(c.q, t) => None(d.q, t))
      BY <1>5, <2>3 DEF Adds
    <3> QED BY <2>1, <3>1, <3>2
  <2> QED BY <2>2, <2>3
<1>8. Restored(d)
  <2>1. Restored(c) /\ FileOK(c.file)
    BY <1>1 DEF Loading
  <2> QED BY <1>0, <1>2, <2>1, NextRestored DEF d
<1>9. Loading(d)
  BY <1>1, <1>3, <1>6, <1>7, <1>8 DEF Loading
<1> QED BY <1>0, <1>9 DEF Inv

(* The end of load_eventqueue_infos leaves a good core. *)
LEMMA LoadEndInv ==
  ASSUME Inv, load_end
  PROVE  Inv'
<1> DEFINE c == r4300
           d == reload_special(c)
           e == [d EXCEPT !.loading = FALSE]
<1>0. c.loading /\ c.index = Len(c.file.q) /\ r4300' = e /\ phase' = phase
  BY DEF load_end
<1>1. Loading(c)
  BY <1>0 DEF Inv, Good
<1>2. Sound(c) /\ FileOK(c.file) /\ Timers(c.file.q)
  BY <1>1 DEF Loading, FileOK
<1>3. Once(c.q, "SPECIAL") /\ Once(c.q, "COMPARE")
  <2>1. ASSUME NEW t, Once(c.file.q, t) PROVE \E i \in 1..c.index : c.file.q[i].type = t
    BY <1>0, <2>1 DEF Once
  <2> QED BY <1>1, <1>2, <2>1 DEF Loading, Timers
<1>4. Sound(d) /\ d.file = c.file /\ Once(d.q, "SPECIAL") /\ Once(d.q, "COMPARE")
  BY <1>2, <1>3, ReloadSpecial
<1> HIDE DEF d
<1>5. FALSE \in BOOLEAN /\ d \in Cores
  BY <1>4 DEF Sound
<1>6. e \in Cores /\ e.q = d.q /\ e.index = d.index /\ e.file = d.file /\ ~e.loading
  BY <1>5, SetLoading
<1> HIDE DEF e
<1>7. Good(e)
  BY <1>2, <1>4, <1>6 DEF Good, Sound, Timers
<1> QED BY <1>0, <1>7 DEF Inv

(* Taking a sequence's inserted element out again. *)
LEMMA RemoveInserted ==
  ASSUME NEW S, NEW s \in Seq(S), NEW i \in 1..(Len(s)+1), NEW e \in S
  PROVE  RemoveAt(InsertAt(s, i, e), i) = s
<1> DEFINE r == InsertAt(s, i, e)
           t == RemoveAt(r, i)
<1>0. Len(s) \in Nat
  BY LenProperties
<1>1. /\ r \in Seq(S) /\ Len(r) = Len(s) + 1
      /\ \A j \in 1..(Len(s)+1) : r[j] = IF j < i THEN s[j] ELSE IF j = i THEN e ELSE s[j-1]
  BY InsertAtProperties
<1> HIDE DEF r
<1>2. i \in 1..Len(r)
  BY <1>0, <1>1
<1>3. /\ t \in Seq(S) /\ Len(t) = Len(r) - 1
      /\ \A j \in 1..(Len(r)-1) : t[j] = IF j < i THEN r[j] ELSE r[j+1]
  BY <1>1, <1>2, RemoveAtProperties
<1> HIDE DEF t
<1>4. Len(t) = Len(s)
  BY <1>0, <1>1, <1>3
<1>5. ASSUME NEW j \in 1..Len(t) PROVE t[j] = s[j]
  <2>1. /\ j \in 1..(Len(s)+1) /\ j + 1 \in 1..(Len(s)+1) /\ j \in 1..(Len(r)-1)
        /\ i \in Int /\ j \in Int /\ (j+1)-1 = j
    BY <1>0, <1>1, <1>4
  <2>2. CASE j < i
    BY <1>1, <1>3, <2>1, <2>2
  <2>3. CASE ~(j < i)
    <3>1. t[j] = r[j+1] /\ ~(j + 1 < i) /\ j + 1 # i
      BY <1>3, <2>1, <2>3
    <3>2. r[j+1] = s[(j+1)-1]
      BY <1>1, <2>1, <3>1
    <3> QED BY <2>1, <3>1, <3>2
  <2> QED BY <2>2, <2>3
<1>6. t = s
  BY <1>3, <1>4, <1>5, SeqEqual
<1> QED BY <1>6 DEF t, r

(* Where an event is the only one of its type, it is the first. *)
LEMMA FirstOfInserted ==
  ASSUME NEW q \in Seq(Events), NEW p \in 1..(Len(q)+1), NEW e \in Events, None(q, e.type),
         NEW c, c.q = InsertAt(q, p, e)
  PROVE  FirstOf(c, e.type) = p
<1> DEFINE S == Events
           r == InsertAt(q, p, e)
<1>0. Len(q) \in Nat
  BY LenProperties
<1>1. /\ r \in Seq(S) /\ Len(r) = Len(q) + 1
      /\ \A j \in 1..(Len(q)+1) : r[j] = IF j < p THEN q[j] ELSE IF j = p THEN e ELSE q[j-1]
  <2>1. q \in Seq(S) /\ e \in S
    OBVIOUS
  <2> HIDE DEF S
  <2> QED BY <2>1, InsertAtProperties
<1> HIDE DEF r
<1>2. c.q \in Seq(Events) /\ Len(c.q) = Len(q) + 1 /\ c.q = r
  BY <1>1 DEF r
<1>3. p \in 1..Len(c.q) /\ c.q[p] = e
  BY <1>0, <1>1, <1>2
<1>4. ASSUME NEW j \in 1..Len(c.q), j # p PROVE c.q[j].type # e.type
  <2>1. j \in 1..(Len(q)+1) /\ j \in Int /\ p \in Int
    BY <1>0, <1>2
  <2>2. CASE j < p
    <3>1. r[j] = q[j] /\ j \in 1..Len(q)
      BY <1>0, <1>1, <2>1, <2>2
    <3> QED BY <1>2, <3>1 DEF None
  <2>3. CASE ~(j < p)
    <3>1. r[j] = q[j-1] /\ j-1 \in 1..Len(q)
      BY <1>0, <1>1, <1>4, <2>1, <2>3
    <3> QED BY <1>2, <3>1 DEF None
  <2> QED BY <2>2, <2>3
<1>5. FirstOf(c, e.type) \in 1..Len(c.q) /\ c.q[FirstOf(c, e.type)].type = e.type
  BY <1>2, <1>3, FirstOfType
<1> QED BY <1>4, <1>5

(* The end of load_eventqueue_infos: SPECIAL_INT moves, and the other      *)
(* events of a chronological savestate are as they were saved.             *)
LEMMA LoadEndKeeps ==
  ASSUME Inv, load_end, Chronological(r4300.file)
  PROVE  Others(r4300') = Others(r4300.file)
<1> DEFINE c == r4300
           b == remove_event(c, "SPECIAL")
           d == add_special_event(b)
<1>0. c.loading /\ c.index = Len(c.file.q) /\ r4300' = [d EXCEPT !.loading = FALSE]
  BY DEF load_end, reload_special
<1>1. Loading(c)
  BY <1>0 DEF Inv, Good
<1>2. /\ Sound(c) /\ c \in Cores /\ c.q \in Seq(Events) /\ c.file.q \in Seq(Events)
      /\ c.index = Len(c.q) /\ Timers(c.file.q)
  BY <1>1, CoreFields DEF Loading, Sound, FileOK
<1>3. c.q = c.file.q
  <2>1. Len(c.q) = Len(c.file.q) /\ \A i \in 1..Len(c.q) : c.q[i] = c.file.q[i]
    BY <1>0, <1>1, <1>2 DEF Loading, Restored
  <2> QED BY <1>2, <2>1, SeqEqual
<1>4. Once(c.q, "SPECIAL") /\ ~None(c.q, "SPECIAL")
  BY <1>2, <1>3, OncePresent DEF Timers
<1>5. FirstOf(c, "SPECIAL") = FirstOf(c.file, "SPECIAL")
  BY <1>3 DEF FirstOf
<1>6. b.q = Others(c.file)
  <2>1. get_event(c, "SPECIAL")
    BY <1>4 DEF None, get_event
  <2>2. b.q = RemoveAt(c.q, FirstOf(c, "SPECIAL"))
    BY <1>2, <2>1 DEF remove_event, Cores
  <2> QED BY <1>3, <1>5, <2>2 DEF Others
<1>7. Sound(b) /\ b.index < Capacity /\ None(b.q, "SPECIAL")
  <2>1. Removes(c, b, "SPECIAL")
    BY <1>2, <1>4, RemoveEvent, Zenon
  <2> QED BY <1>4, <2>1 DEF Removes
<1> HIDE DEF b
<1> DEFINE count == SpecialCount(b)
           left == (count - b.count) % W
           e == Event("SPECIAL", count, left)
           p == InsertPosition(b, count)
<1>8. count \in 0..(W-1) /\ left \in Int /\ "SPECIAL" \in Types
  <2>1. b.count \in Int /\ count \in 0..(W-1)
    BY <1>7, CoreFields, HalfType, WAssumption DEF Sound, SpecialCount
  <2> HIDE DEF count
  <2>2. count - b.count \in Int
    BY <2>1, WAssumption
  <2> QED BY <2>1, <2>2, ModType, WAssumption DEF Types
<1>9. e.type = "SPECIAL"
  BY DEF Event
<1>10. d = add_interrupt_event_count(b, "SPECIAL", count, left)
  BY DEF add_special_event
<1> HIDE DEF count, left, d
<1>11. d.q = InsertAt(b.q, p, e) /\ e \in Events /\ p \in 1..(Len(b.q) + 1)
  BY <1>7, <1>8, <1>10, AddShape
<1>12. d \in Cores /\ b.q \in Seq(Events)
  BY <1>7, <1>10, AddSpecial, CoreFields DEF Adds, Sound, d
<1>13. r4300'.q = d.q
  BY <1>0, <1>12 DEF Cores
<1> HIDE DEF e, p
<1>14. FirstOf(r4300', "SPECIAL") = p
  BY <1>7, <1>9, <1>11, <1>12, <1>13, FirstOfInserted
<1>15. RemoveAt(InsertAt(b.q, p, e), p) = b.q
  BY <1>11, <1>12, RemoveInserted
<1> QED BY <1>6, <1>11, <1>13, <1>14, <1>15 DEF Others

(* No other step ends a load. *)
LEMMA LoadEndsOnce ==
  ASSUME Inv, [Next]_vars, r4300.loading, ~r4300'.loading
  PROVE  load_end
<1>1. ~load_event
  <2> SUFFICES ASSUME load_event PROVE FALSE
    OBVIOUS
  <2> DEFINE c == r4300
             e == c.file.q[c.index + 1]
             d == add_interrupt_event_count(c, e.type, e.count, e.left)
  <2>1. c.index < Len(c.file.q) /\ r4300' = d
    BY DEF load_event
  <2>2. Sound(c) /\ c \in Cores /\ c.file.q \in Seq(Events) /\ c.index + 1 \in 1..Len(c.file.q)
    BY <2>1, CoreFields, CapacityAssumption, SMTT(30) DEF Inv, Good, Loading, Sound
  <2>3. e \in Events
    BY <2>2, ElementOfSeq
  <2>4. e.type \in Types /\ e.count \in 0..(W-1) /\ e.left \in Int
    BY <2>3 DEF Events
  <2> HIDE DEF e
  <2>5. Adds(c, d, e.type)
    BY <2>2, <2>4, AddEvent, Zenon
  <2> HIDE DEF d
  <2>6. d.loading = c.loading
    BY <2>5 DEF Adds, Frame
  <2> QED BY <2>1, <2>6
<1>2. ~UNCHANGED vars
  BY DEF vars
<1> QED
  BY <1>1, <1>2 DEF Next, ScheduleEvent, CancelEvent, signal_rcp_interrupt, write_mi_intr_mask,
     mtc0_count, mtc0_compare, mtc0_status, eret, syscall, Instruction, BeginJump, EndJump,
     IdleLoop, Ready, Stopped

-----------------------------------------------------------------------------
(* The theorems *)

(* The inductive invariant holds initially and every step preserves it. *)
THEOREM Invariance == Spec => []Inv
<1>1. Init => Inv
  BY PowerOnGood DEF Init, Inv
<1>2. Inv /\ [Next]_vars => Inv'
  <2> SUFFICES ASSUME Inv, [Next]_vars PROVE Inv'
    OBVIOUS
  <2>1. CASE \E type \in Sources, n \in Steps, delay \in Delays \cup {VIDelay} :
                ScheduleEvent(type, n, delay)
    BY <2>1, ScheduleEventInv
  <2>2. CASE \E type \in DDTypes : CancelEvent(type)
    BY <2>2, CancelEventInv
  <2>3. CASE \E asserted \in BOOLEAN : signal_rcp_interrupt(asserted)
    BY <2>3, SignalInv
  <2>4. CASE \E n \in Steps, asserted \in BOOLEAN, env \in Env :
                write_mi_intr_mask(n, asserted, env)
    BY <2>4, MaskInv
  <2>5. CASE \E n \in Steps, base \in CountValues, env \in Env : mtc0_count(n, base, env)
    BY <2>5, CountInv
  <2>6. CASE \E n \in Steps, ahead \in CompareAhead : mtc0_compare(n, ahead)
    BY <2>6, CompareInv
  <2>7. CASE \E n \in Steps, s \in StatusValues, env \in Env : mtc0_status(n, s, env)
    BY <2>7, StatusInv
  <2>8. CASE \E n \in Steps, env \in Env : eret(n, env)
    BY <2>8, EretInv
  <2>9. CASE \E n \in Steps : syscall(n)
    BY <2>9, SyscallInv
  <2>10. CASE BeginJump
    BY <2>10, BeginJumpInv
  <2>11. CASE \E n \in Steps \cup {0}, env \in Env : EndJump(n, env)
    BY <2>11, EndJumpInv
  <2>12. CASE \E n \in IdleSteps : IdleLoop(n)
    BY <2>12, IdleLoopInv
  <2>13. CASE load_event
    BY <2>13, LoadEventInv
  <2>14. CASE load_end
    BY <2>14, LoadEndInv
  <2>15. CASE UNCHANGED vars
    BY <2>15 DEF vars, Inv
  <2> QED BY <2>1, <2>2, <2>3, <2>4, <2>5, <2>6, <2>7, <2>8, <2>9, <2>10,
             <2>11, <2>12, <2>13, <2>14, <2>15 DEF Next, Stopped
<1> QED BY <1>1, <1>2, PTL DEF Spec

(* Type correctness: in particular pool.index stays within the pool. *)
THEOREM TypeCorrect == Spec => []TypeOK
<1>1. Inv => TypeOK
  BY DEF Inv, TypeOK, Good, Loading, Sound
<1> QED BY <1>1, Invariance, PTL

(* alloc_node and free_node: every node taken from the pool is in the list. *)
THEOREM PoolSound == Spec => []PoolAccounting
<1>1. Inv => PoolAccounting
  BY DEF Inv, PoolAccounting, Good, Loading, Sound
<1> QED BY <1>1, Invariance, PTL

(* SPECIAL_INT and COMPARE_INT are each queued exactly once whenever guest *)
(* code runs, for every pool of at least two nodes.                        *)
THEOREM TimersAlwaysQueued == Spec => []TimersQueued
<1>1. Inv => TimersQueued
  BY DEF Inv, TimersQueued, Good, Loading, Timers
<1> QED BY <1>1, Invariance, PTL

(* Loading a savestate whose events are in the order of their due times    *)
(* brings them back in that order: load_eventqueue_infos inserts them one  *)
(* by one with add_interrupt_event_count, which compares each with those   *)
(* that are already there.                                                 *)
THEOREM LoadedInOrder ==
  Spec /\ [](r4300.loading => Chronological(r4300.file)) => LoadKeepsOrder
<1> DEFINE Saved == r4300.loading => Chronological(r4300.file)
           Keeps == r4300.loading /\ ~r4300'.loading => Others(r4300') = Others(r4300.file)
<1>1. Inv /\ Saved /\ [Next]_vars => [Keeps]_vars
  BY LoadEndsOnce, LoadEndKeeps
<1>2. LoadKeepsOrder <=> [][Keeps]_vars
  BY PTL DEF LoadKeepsOrder
<1> HIDE DEF Saved, Keeps
<1>3. Spec /\ []Saved => [][Keeps]_vars
  BY <1>1, Invariance, PTL DEF Spec
<1> QED BY <1>2, <1>3 DEF Saved

=============================================================================
