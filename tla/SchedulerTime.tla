---------------------------- MODULE SchedulerTime ----------------------------
(***************************************************************************)
(* The time properties of Scheduler: cycle_count is the true distance to   *)
(* the first event, no event is serviced early, one that is due is         *)
(* serviced by the next branch, and the queue is ordered by due time.      *)
(*                                                                         *)
(* The code compares due times modulo W, from Count or from the due time   *)
(* of an overdue first event, and reads differences as signed numbers.     *)
(* That is right for as long as all events lie within one period of that   *)
(* origin and the first one within half a period of Count.  Regime says    *)
(* what the constants have to satisfy for this, Regular what the guest has *)
(* to do; section 7 of the README has counterexamples to less.             *)
(*                                                                         *)
(* The proof follows SchedulerProofs: arithmetic, queues, the operations   *)
(* of the queue, handlers, actions.                                        *)
(***************************************************************************)
EXTENDS SchedulerCoherence

CONSTANT Lag    \* a bound on how late an event is serviced

(* Delays are short of a period by at least Lag, a frame is longer than    *)
(* Lag, Compare is not set to a time that has just passed, and instructions*)
(* take time.  There is no 64DD, no write of Count and no soft reset, and  *)
(* no savestate is loaded.                                                 *)
Regime ==
    /\ History /\ DDTypes = {} /\ CountValues = {} /\ ~SignalWhenOverdue
    /\ Requests \subseteq {"none", "hard", "save", "stop"}
    /\ Lag \in Nat /\ Lag < Half /\ Lag <= VIDelay
    /\ \A delay \in Delays \cup {VIDelay} : delay + Lag < W
    /\ \A ahead \in CompareAhead : CountPerOp <= ahead /\ ahead + Lag < W
    /\ 0 \notin Steps
    /\ PowerOnCount < Half

(* COMPARE_INT does not coincide with another event. *)
Apart(q) == \A i, j \in 1..Len(q) : i # j /\ q[i].type = "COMPARE" => q[i].count # q[j].count

(* When SPECIAL_INT is first, the next event is due within half a period   *)
(* of it, which a VI_INT is.                                               *)
Spread(q) == q[1].type = "SPECIAL" => (q[2].count - q[1].count) % W <= Half

(* No event is so late that n more counts make it later than Lag. *)
Timely(q, n) == \A i \in 1..Len(q) : q[i].left - n >= -Lag

Regular == /\ Apart(r4300.q) /\ Spread(r4300.q)
           /\ \A n \in Steps \cup IdleSteps \cup {0} : Timely(r4300.q, n)

-----------------------------------------------------------------------------
(* A date is what the history variable says. *)
Due(date, now, left) == date = (now + left) % W

(* The due times of all events are, *)
Dated(q, now) == \A i \in 1..Len(q) : Due(q[i].count, now, q[i].left)

(* the list is ordered by them, *)
Ordered(q) == \A i, j \in 1..Len(q) : i < j => q[i].left <= q[j].left

(* all of them lie within one period from b, *)
Within(q, b) == \A i \in 1..Len(q) : b <= q[i].left /\ q[i].left < b + W

Tidy(q, now, b) == Dated(q, now) /\ Ordered(q) /\ Within(q, b)

(* and none is too far away for its type. *)
Bounded(e, compare) ==
    /\ e.left <= W
    /\ e.type # "COMPARE" => e.left + Lag < W
    /\ e.type = "SPECIAL" => e.left <= Half /\ e.count \in {0, Half}
    /\ e.type = "COMPARE" => e.count = compare
    /\ e.type # "NMI"

AllBounded(q, compare) == \A i \in 1..Len(q) : Bounded(q[i], compare)

Timed(q, now, compare) == Tidy(q, now, q[1].left) /\ AllBounded(q, compare)

(* The queue is timed and cycle_count is the distance to its first event,  *)
(* unless a jump is to be skipped.                                         *)
OnTime(c) == /\ Timed(c.q, c.count, c.compare)
             /\ c.skip_jump \/ c.cycle = -c.q[1].left

NoneEarly(c) == \A i \in DOMAIN c.fired : c.fired[i].left <= 0

TimeInv == OnTime(r4300) /\ NoneEarly(r4300)

-----------------------------------------------------------------------------
(* Arithmetic *)

(* What Regime says of numbers. *)
LEMMA Numbers ==
  ASSUME Regime
  PROVE  /\ W \in Nat /\ W > 0 /\ Half \in Nat /\ W = 2 * Half /\ Half > 0
         /\ Lag \in Nat /\ Lag < Half /\ Lag <= VIDelay
         /\ CountPerOp \in Nat /\ CountPerOp > 0 /\ CountPerOp < Half
         /\ VIDelay \in Nat /\ VIDelay + Lag < W
         /\ PowerOnCount \in Nat /\ PowerOnCount < Half
<1>1. W \in Nat /\ W > 0 /\ Half \in Nat /\ W = 2 * Half /\ Half > 0
  BY WAssumption DEF Half
<1>2. Lag \in Nat /\ Lag < Half /\ Lag <= VIDelay /\ VIDelay + Lag < W
  BY DEF Regime
<1>3. CountPerOp \in Nat /\ CountPerOp > 0 /\ CountPerOp < Half
  BY CountPerOpAssumption DEF Half
<1>4. VIDelay \in Nat /\ PowerOnCount \in Nat /\ PowerOnCount < Half
  BY <1>1, CountsAssumption DEF Regime
<1> QED BY <1>1, <1>2, <1>3, <1>4

(* A number within one period is its own remainder, whatever periods are   *)
(* added to it.                                                            *)
LEMMA Remainder ==
  ASSUME NEW x \in Int, NEW y \in 0..(W-1), NEW k \in Int, x = y + k * W
  PROVE  x % W = y
<1>1. y \in Int /\ y % W = y
  BY WAssumption
<1> QED BY <1>1, PeriodsMod

(* Seen from an origin b counts after now, a date at most one period later *)
(* is where the history variable says.                                     *)
LEMMA Distance ==
  ASSUME NEW now \in Int, NEW left \in Int, NEW b \in Int, b <= left, left < b + W,
         NEW date, Due(date, now, left)
  PROVE  (date - (now + b)) % W = left - b
<1>0. W \in Int
  BY WAssumption
<1>1. PICK k \in Int : (now + left) % W = (now + left) + k * W
  BY ModPeriods
<1>2. date \in Int
  BY ModType, WAssumption DEF Due
<1>3. date - (now + b) = (left - b) + k * W
  BY <1>0, <1>1 DEF Due
<1>4. left - b \in 0..(W-1)
  BY <1>0
<1>5. date - (now + b) \in Int
  BY <1>2
<1> QED BY <1>3, <1>4, <1>5, Remainder

(* A date less than half a period away is read as the signed distance. *)
LEMMA SignedDistance ==
  ASSUME NEW now \in Int, NEW left \in Int, -Half < left, left <= Half,
         NEW date, Due(date, now, left)
  PROVE  Signed(now - date) = -left
<1>0. W \in Int /\ Half \in Int /\ W = 2 * Half /\ Half > 0
  BY WAssumption DEF Half
<1>1. PICK k \in Int : (now + left) % W = (now + left) + k * W
  BY ModPeriods
<1>2. date \in Int /\ now - date \in Int
  BY ModType, WAssumption DEF Due
<1>3. CASE left <= 0
  <2>1. now - date = -left + (-k) * W
    BY <1>0, <1>1 DEF Due
  <2>2. -left \in 0..(W-1)
    BY <1>0, <1>3
  <2>3. (now - date) % W = -left
    BY <1>2, <2>1, <2>2, Remainder
  <2> QED BY <1>0, <1>3, <2>3 DEF Signed
<1>4. CASE left > 0
  <2>1. now - date = (W - left) + (-k - 1) * W
    BY <1>0, <1>1 DEF Due
  <2>2. W - left \in 0..(W-1)
    BY <1>0, <1>4
  <2>3. (now - date) % W = W - left
    BY <1>2, <2>1, <2>2, Remainder
  <2> QED BY <1>0, <1>4, <2>3 DEF Signed
<1> QED BY <1>3, <1>4

(* Dates do not change as time passes. *)
LEMMA Passing ==
  ASSUME NEW now \in Int, NEW left \in Int, NEW n \in Int
  PROVE  (now + left) % W = (((now + n) % W) + (left - n)) % W
<1>0. W \in Int
  BY WAssumption
<1>1. PICK k \in Int : (now + n) % W = (now + n) + k * W
  BY ModPeriods
<1>2. (now + n) % W \in Int
  BY ModType, WAssumption
<1> DEFINE x == ((now + n) % W) + (left - n)
           y == now + left
<1>3. x \in Int /\ y \in Int
  BY <1>2
<1>4. x = y + k * W
  BY <1>0, <1>1
<1> HIDE DEF x, y
<1>5. x % W = y % W
  BY <1>3, <1>4, PeriodsMod
<1> QED BY <1>5 DEF x, y

-----------------------------------------------------------------------------
(* Queues *)

(* What the fields of a queued event are. *)
LEMMA EventFields ==
  ASSUME NEW q \in Seq(Events)
  PROVE  /\ Len(q) \in Nat
         /\ \A i \in 1..Len(q) : /\ q[i] \in Events /\ q[i].left \in Int
                                 /\ q[i].count \in 0..(W-1) /\ q[i].type \in Types
<1>1. Len(q) \in Nat /\ \A i \in 1..Len(q) : q[i] \in Events
  BY LenProperties, ElementOfSeq
<1> QED BY <1>1 DEF Events

(* An event put in front of the first later one keeps the queue tidy. *)
LEMMA Placed ==
  ASSUME NEW q \in Seq(Events), NEW e \in Events, NEW p \in 1..(Len(q)+1),
         NEW now \in Int, NEW b \in Int, Tidy(q, now, b),
         Due(e.count, now, e.left), b <= e.left, e.left < b + W,
         \A j \in 1..Len(q) : (j < p => q[j].left <= e.left) /\ (p <= j => e.left <= q[j].left),
         NEW r, r = InsertAt(q, p, e)
  PROVE  /\ Tidy(r, now, b) /\ Tidy(r, now, r[1].left)
         /\ \A compare : AllBounded(q, compare) /\ Bounded(e, compare) => AllBounded(r, compare)
<1>0. /\ Len(q) \in Nat /\ \A i \in 1..Len(q) : q[i] \in Events /\ q[i].left \in Int
      /\ e.left \in Int /\ W \in Int
  <2>1. Len(q) \in Nat /\ \A i \in 1..Len(q) : q[i] \in Events /\ q[i].left \in Int
    BY EventFields
  <2>2. e.left \in Int /\ W \in Int
    BY WAssumption DEF Events
  <2> QED BY <2>1, <2>2
<1>1. /\ r \in Seq(Events) /\ Len(r) = Len(q) + 1
      /\ \A j \in 1..(Len(q)+1) : r[j] = IF j < p THEN q[j] ELSE IF j = p THEN e ELSE q[j-1]
  <2> DEFINE S == Events
  <2>1. q \in Seq(S) /\ e \in S
    OBVIOUS
  <2> HIDE DEF S
  <2>2. /\ r \in Seq(S) /\ Len(r) = Len(q) + 1
        /\ \A j \in 1..(Len(q)+1) : r[j] = IF j < p THEN q[j] ELSE IF j = p THEN e ELSE q[j-1]
    BY <2>1, InsertAtProperties, SMTT(30)
  <2> QED BY <2>2 DEF S
<1>2. \A i \in 1..Len(r) : r[i] = e \/ \E j \in 1..Len(q) : r[i] = q[j]
  BY <1>0, <1>1
<1>3. Dated(r, now)
  BY <1>2 DEF Dated, Tidy
<1>4. Within(r, b)
  BY <1>2 DEF Within, Tidy
<1>5. Ordered(r)
  <2> SUFFICES ASSUME NEW i \in 1..Len(r), NEW j \in 1..Len(r), i < j
               PROVE  r[i].left <= r[j].left
    BY DEF Ordered
  <2>0. \A k, l \in 1..Len(q) : k < l => q[k].left <= q[l].left
    BY DEF Tidy, Ordered
  <2>1. CASE j < p
    <3>1. r[i] = q[i] /\ r[j] = q[j] /\ i \in 1..Len(q) /\ j \in 1..Len(q)
      BY <1>0, <1>1, <2>1
    <3> QED BY <2>0, <3>1
  <2>2. CASE j = p
    BY <1>0, <1>1, <2>2
  <2>3. CASE p < j /\ i < p
    <3>1. r[i] = q[i] /\ r[j] = q[j-1] /\ i \in 1..Len(q) /\ j-1 \in 1..Len(q) /\ p <= j - 1
      BY <1>0, <1>1, <2>3
    <3>2. q[i].left <= e.left /\ e.left <= q[j-1].left
      BY <3>1, <2>3
    <3>3. q[i].left \in Int /\ q[j-1].left \in Int
      BY <1>0, <3>1
    <3> QED BY <1>0, <3>1, <3>2, <3>3, SMTT(30)
  <2>4. CASE p < j /\ i = p
    <3>1. r[i] = e /\ r[j] = q[j-1] /\ j-1 \in 1..Len(q) /\ p <= j - 1
      BY <1>0, <1>1, <2>4
    <3> QED BY <3>1
  <2>5. CASE p < i
    <3>1. r[i] = q[i-1] /\ r[j] = q[j-1] /\ i-1 \in 1..Len(q) /\ j-1 \in 1..Len(q) /\ i-1 < j-1
      BY <1>0, <1>1, <2>5
    <3> QED BY <2>0, <3>1
  <2> QED BY <1>0, <1>1, <2>1, <2>2, <2>3, <2>4, <2>5
<1>6. Within(r, r[1].left)
  <2>1. 1 \in 1..Len(r) /\ Len(r) \in Nat /\ \A i \in 1..Len(r) : r[i].left \in Int
    <3>1. 1 \in 1..Len(r) /\ Len(r) \in Nat
      BY <1>0, <1>1
    <3>2. \A i \in 1..Len(r) : r[i].left \in Int
      BY <1>1, EventFields
    <3> QED BY <3>1, <3>2
  <2>2. b <= r[1].left
    BY <1>4, <2>1 DEF Within
  <2>3. \A i \in 1..Len(r) : r[1].left <= r[i].left /\ r[i].left < b + W
    BY <1>4, <1>5, <2>1 DEF Within, Ordered
  <2>4. ASSUME NEW i \in 1..Len(r) PROVE r[1].left <= r[i].left /\ r[i].left < r[1].left + W
    <3>1. r[1].left \in Int /\ r[i].left \in Int /\ r[i].left < b + W
      BY <2>1, <2>3
    <3> QED BY <1>0, <2>2, <2>3, <3>1, SMTT(30)
  <2> QED BY <2>4 DEF Within
<1>7. ASSUME NEW compare, AllBounded(q, compare), Bounded(e, compare) PROVE AllBounded(r, compare)
  BY <1>2, <1>7 DEF AllBounded
<1> QED BY <1>3, <1>4, <1>5, <1>6, <1>7 DEF Tidy

(* r is q without its event at p. *)
Without(q, p, r) == /\ Len(r) = Len(q) - 1
                    /\ \A j \in 1..(Len(q)-1) : r[j] = IF j < p THEN q[j] ELSE q[j+1]

(* Taking an event out keeps it tidy. *)
LEMMA Taken ==
  ASSUME NEW q \in Seq(Events), NEW p \in 1..Len(q), NEW now, NEW b, Tidy(q, now, b),
         NEW r, Without(q, p, r)
  PROVE  /\ Tidy(r, now, b)
         /\ \A compare : AllBounded(q, compare) => AllBounded(r, compare)
         /\ \A i \in 1..Len(r) : \E j \in 1..Len(q) : j # p /\ r[i] = q[j]
<1>0. /\ Len(q) \in Nat /\ Len(r) = Len(q) - 1
      /\ \A j \in 1..(Len(q)-1) : r[j] = IF j < p THEN q[j] ELSE q[j+1]
  BY EventFields DEF Without
<1>1. \A i \in 1..Len(r) : \E j \in 1..Len(q) : j # p /\ r[i] = q[j]
  BY <1>0
<1>2. Dated(r, now) /\ Within(r, b)
  BY <1>1 DEF Dated, Within, Tidy
<1>3. Ordered(r)
  <2> SUFFICES ASSUME NEW i \in 1..Len(r), NEW j \in 1..Len(r), i < j
               PROVE  r[i].left <= r[j].left
    BY DEF Ordered
  <2>1. PICK k, l \in 1..Len(q) : k < l /\ r[i] = q[k] /\ r[j] = q[l]
    <3> DEFINE k == IF i < p THEN i ELSE i + 1
               l == IF j < p THEN j ELSE j + 1
    <3>1. k \in 1..Len(q) /\ l \in 1..Len(q) /\ k < l /\ r[i] = q[k] /\ r[j] = q[l]
      BY <1>0
    <3> HIDE DEF k, l
    <3> QED BY <3>1
  <2> QED BY <2>1 DEF Tidy, Ordered
<1>4. ASSUME NEW compare, AllBounded(q, compare) PROVE AllBounded(r, compare)
  BY <1>1, <1>4 DEF AllBounded
<1> QED BY <1>1, <1>2, <1>3, <1>4 DEF Tidy

(* The walk of an insertion looks from b counts after now, up to periods. *)
Origin(c, now, b) == \E k \in Int :
    (IF c.cycle > 0 THEN c.count - c.cycle ELSE c.count) = now + b + k * W

(* What the walk of an insertion compares is how far away the events are,  *)
(* if they all lie within one period from where it looks.                  *)
LEMMA Walk ==
  ASSUME NEW c \in Cores, NEW now \in Int, NEW b \in Int, Tidy(c.q, now, b),
         NEW left \in Int, b <= left, left < b + W,
         NEW count, Due(count, now, left), Origin(c, now, b),
         NEW p, p = InsertPosition(c, count)
  PROVE  /\ p \in 1..(Len(c.q)+1)
         /\ \A j \in 1..Len(c.q) : /\ j < p => c.q[j].left <= left
                                   /\ p <= j => left <= c.q[j].left
<1> DEFINE from == IF c.cycle > 0 THEN c.count - c.cycle ELSE c.count
<1>0. /\ c.q \in Seq(Events) /\ Len(c.q) \in Nat /\ W \in Int
      /\ \A i \in 1..Len(c.q) : c.q[i].left \in Int /\ c.q[i].count \in Int
  BY CoreFields, EventFields, WAssumption
<1>1. ASSUME NEW x \in Int, b <= x, x < b + W, NEW date, Due(date, now, x)
      PROVE  (date - from) % W = x - b
  <2>0. PICK k \in Int : from = now + b + k * W
    BY DEF Origin
  <2>1. (date - (now + b)) % W = x - b
    BY <1>1, Distance
  <2> DEFINE u == date - from
             v == date - (now + b)
  <2>2. date \in Int
    BY <1>0, <1>1, ModType, WAssumption DEF Due
  <2>3. u \in Int /\ v \in Int /\ -k \in Int /\ u = v + (-k) * W
    <3> HIDE DEF from
    <3> QED BY <2>0, <2>2, <1>0, SMTT(30)
  <2> HIDE DEF u, v
  <2>4. u % W = v % W
    BY <2>3, PeriodsMod
  <2> QED BY <2>1, <2>4 DEF u, v
<1>2. (count - from) % W = left - b
  BY <1>1
<1>3. \A i \in 1..Len(c.q) : (c.q[i].count - from) % W = c.q[i].left - b
  BY <1>0, <1>1 DEF Tidy, Dated, Within
<1>4. \A i \in 1..Len(c.q) : before_event(c, count, c.q[i].count) <=> left < c.q[i].left
  <2> SUFFICES ASSUME NEW i \in 1..Len(c.q)
               PROVE  before_event(c, count, c.q[i].count) <=> left < c.q[i].left
    OBVIOUS
  <2>1. before_event(c, count, c.q[i].count) <=> (count - from) % W < (c.q[i].count - from) % W
    BY DEF before_event
  <2> HIDE DEF from
  <2> QED BY <2>1, <1>0, <1>2, <1>3
<1> DEFINE later == {i \in 1..Len(c.q) : before_event(c, count, c.q[i].count)}
<1>5. p \in 1..(Len(c.q)+1)
  BY InsertPositionType
<1>6. \A k1, l \in 1..Len(c.q) : k1 < l => c.q[k1].left <= c.q[l].left
  BY DEF Tidy, Ordered
<1> HIDE DEF from
<1>7. CASE later = {}
  <2>1. p = Len(c.q) + 1
    BY <1>7 DEF InsertPosition
  <2>2. ASSUME NEW j \in 1..Len(c.q) PROVE j < p /\ c.q[j].left <= left
    <3>1. ~(left < c.q[j].left)
      BY <1>4, <1>7
    <3>2. c.q[j].left \in Int
      BY <1>0
    <3> QED BY <1>0, <2>1, <3>1, <3>2
  <2>3. p \in Nat
    BY <1>0, <2>1
  <2> QED BY <1>0, <1>5, <2>2, <2>3
<1>8. CASE later # {}
  <2>1. p = CHOOSE i \in later : \A j \in later : i <= j
    BY <1>8 DEF InsertPosition
  <2>2. later \subseteq Nat
    BY <1>0
  <2>3. p \in later /\ \A j \in later : p <= j
    <3> HIDE DEF later
    <3>1. \E i \in later : \A j \in later : i <= j
      BY <1>8, <2>2, MinExists
    <3> QED BY <2>1, <3>1
  <2>4. p \in 1..Len(c.q) /\ left < c.q[p].left
    BY <1>4, <2>3
  <2>5. ASSUME NEW j \in 1..Len(c.q), j < p PROVE c.q[j].left <= left
    <3>1. j \notin later
      BY <1>0, <2>3, <2>4, <2>5
    <3> QED BY <1>0, <1>4, <3>1
  <2>6. ASSUME NEW j \in 1..Len(c.q), p <= j PROVE left <= c.q[j].left
    BY <1>0, <1>6, <2>4, <2>6, SMTT(30)
  <2> QED BY <1>5, <2>5, <2>6
<1> QED BY <1>7, <1>8

-----------------------------------------------------------------------------
(* The operations of the queue *)

(* d is c as far as Compare, the branch and the serviced events go. *)
Held(c, d) == d.compare = c.compare /\ d.skip_jump = c.skip_jump /\ d.fired = c.fired

(* What an event is made of, with the history variable kept. *)
LEMMA EventParts ==
  ASSUME Regime, NEW type \in Types, NEW count \in 0..(W-1), NEW left \in Int,
         NEW e, e = Event(type, count, left)
  PROVE  e \in Events /\ e.type = type /\ e.count = count /\ e.left = left
BY DEF Regime, Event, Events

(* An insertion that finds a node, seen from now. *)
LEMMA AddTidy ==
  ASSUME Regime, NEW c, Sound(c), c.index < Capacity,
         NEW now \in Int, NEW b \in Int, Tidy(c.q, now, b), Origin(c, now, b),
         NEW left \in Int, b <= left, left < b + W,
         NEW type \in Types, NEW count \in 0..(W-1), Due(count, now, left),
         NEW d, d = add_interrupt_event_count(c, type, count, left)
  PROVE  /\ Tidy(d.q, now, b) /\ Tidy(d.q, now, d.q[1].left)
         /\ \A compare : AllBounded(c.q, compare) /\ Bounded(Event(type, count, left), compare)
                            => AllBounded(d.q, compare)
         /\ d.cycle = Signed(c.count - d.q[1].count)
         /\ d.count = c.count /\ Held(c, d)
<1> DEFINE e == Event(type, count, left)
           p == InsertPosition(c, count)
           q == InsertAt(c.q, p, e)
           first == q[1].count
           late == Signed(c.count - first)
           n == c.index + 1
<1>0. c \in Cores /\ c.q \in Seq(Events)
  BY CoreFields DEF Sound
<1>1. e \in Events /\ e.type = type /\ e.count = count /\ e.left = left
  BY EventParts
<1>2. d = WithQueue(c, q, n, first, late)
  BY DEF add_interrupt_event_count, alloc_node_ok, WithQueue
<1>3. /\ p \in 1..(Len(c.q)+1)
      /\ \A j \in 1..Len(c.q) : (j < p => c.q[j].left <= left) /\ (p <= j => left <= c.q[j].left)
  <2> HIDE DEF e, q
  <2> QED BY <1>0, Walk
<1> HIDE DEF e, p
<1>4. /\ Tidy(q, now, b) /\ Tidy(q, now, q[1].left)
      /\ \A compare : AllBounded(c.q, compare) /\ Bounded(e, compare) => AllBounded(q, compare)
  <2> HIDE DEF q
  <2>1. Due(e.count, now, e.left) /\ b <= e.left /\ e.left < b + W
    BY <1>1
  <2>2. \A j \in 1..Len(c.q) : (j < p => c.q[j].left <= e.left) /\ (p <= j => e.left <= c.q[j].left)
    BY <1>1, <1>3
  <2> QED BY <1>0, <1>1, <1>3, <2>1, <2>2, Placed, SMTT(30) DEF q
<1> HIDE DEF q
<1>5. d.q = q /\ d.cycle = late /\ d.count = c.count /\ d.skip_jump = c.skip_jump
  <2> HIDE DEF first, late, n
  <2> QED BY <1>0, <1>2, WithQueueRest
<1>6. d.compare = c.compare /\ d.fired = c.fired
  <2> HIDE DEF first, late, n
  <2> QED BY <1>0, <1>2 DEF WithQueue, Cores
<1> QED BY <1>4, <1>5, <1>6 DEF Held, e

(* With SPECIAL_INT queued, the first event is at most half a period away, *)
(* and cycle_count, taken from it, is the distance to it.                  *)
LEMMA FirstDistance ==
  ASSUME Regime, NEW q \in Seq(Events), NEW now \in Int, NEW b \in Int, Tidy(q, now, b),
         -Lag <= b, NEW compare, AllBounded(q, compare), ~None(q, "SPECIAL")
  PROVE  /\ 1 \in 1..Len(q) /\ q[1].left \in Int
         /\ b <= q[1].left /\ q[1].left <= Half
         /\ Signed(now - q[1].count) = -q[1].left
<1>1. Len(q) \in Nat /\ \A i \in 1..Len(q) : q[i].left \in Int
  BY EventFields
<1>2. PICK i \in 1..Len(q) : q[i].type = "SPECIAL"
  BY DEF None
<1>3. 1 \in 1..Len(q)
  BY <1>1, <1>2
<1>4. q[i].left <= Half
  BY <1>2 DEF AllBounded, Bounded
<1>5. i = 1 \/ q[1].left <= q[i].left
  BY <1>1, <1>3 DEF Tidy, Ordered
<1>6. q[1].left \in Int /\ q[i].left \in Int /\ Half \in Int /\ Lag \in Int /\ Lag < Half
  BY <1>1, <1>3, Numbers
<1>7. q[1].left <= Half
  BY <1>4, <1>5, <1>6
<1>8. b <= q[1].left /\ Due(q[1].count, now, q[1].left)
  BY <1>3 DEF Tidy, Within, Dated
<1>9. -Half < q[1].left
  BY <1>6, <1>8
<1>10. Signed(now - q[1].count) = -q[1].left
  BY <1>6, <1>7, <1>8, <1>9, SignedDistance
<1> QED BY <1>3, <1>6, <1>7, <1>8, <1>10

(* Where an insertion looks from, when cycle_count is m late: from the     *)
(* time m counts ago, or from Count if nothing is late.                    *)
LEMMA FromLate ==
  ASSUME NEW c \in Cores, NEW m \in Int, c.cycle = -m,
         NEW b, b = IF m < 0 THEN m ELSE 0
  PROVE  Origin(c, c.count, b) /\ b \in Int /\ b <= 0 /\ b <= m
<1>1. c.count \in Int /\ c.cycle \in Int /\ W \in Int
  BY CoreInts
<1>2. (IF c.cycle > 0 THEN c.count - c.cycle ELSE c.count) = c.count + b + 0 * W
  BY <1>1
<1>3. b \in Int /\ b <= 0 /\ b <= m
  OBVIOUS
<1> QED BY <1>2, <1>3 DEF Origin

(* The events lie within a period of that, unless one is a period away. *)
Short(q) == \A i \in 1..Len(q) : q[i].left < W

(* A queue that is tidy from its first event is tidy from there. *)
LEMMA FromFirstLate ==
  ASSUME NEW q \in Seq(Events), NEW now, q # << >>, Tidy(q, now, q[1].left), Short(q),
         NEW b, b = IF q[1].left < 0 THEN q[1].left ELSE 0
  PROVE  Tidy(q, now, b)
<1>1. Len(q) \in Nat /\ Len(q) >= 1 /\ W \in Int /\ \A i \in 1..Len(q) : q[i].left \in Int
  BY EventFields, EmptySeq, WAssumption
<1>2. q[1].left \in Int
  BY <1>1
<1>3. \A i \in 1..Len(q) : q[1].left <= q[i].left /\ q[i].left < q[1].left + W /\ q[i].left < W
  BY DEF Tidy, Within, Short
<1>4. ASSUME NEW i \in 1..Len(q) PROVE b <= q[i].left /\ q[i].left < b + W
  <2>1. q[i].left \in Int /\ q[1].left <= q[i].left /\ q[i].left < q[1].left + W /\ q[i].left < W
    BY <1>1, <1>3
  <2> QED BY <1>1, <1>2, <2>1
<1> QED BY <1>4 DEF Tidy, Within

(* An ordinary insertion keeps a core on time. *)
LEMMA AddOnTime ==
  ASSUME Regime, NEW c, Sound(c), c.q # << >>, OnTime(c), ~c.skip_jump,
         -Lag <= c.q[1].left, Short(c.q),
         NEW left \in Int, 0 <= left \/ c.q[1].left <= left, left + Lag < W,
         NEW type \in Types, NEW count \in 0..(W-1), Due(count, c.count, left),
         Bounded(Event(type, count, left), c.compare),
         NEW d, d = add_interrupt_event_count(c, type, count, left),
         ~None(d.q, "SPECIAL")
  PROVE  OnTime(d) /\ Held(c, d) /\ d.count = c.count
<1> DEFINE m == c.q[1].left
           b == IF m < 0 THEN m ELSE 0
<1>0. c \in Cores /\ c.q \in Seq(Events) /\ c.count \in Int /\ m \in Int /\ W \in Int /\ Lag \in Int
  <2>1. c \in Cores /\ c.q \in Seq(Events) /\ c.count \in Int
    BY CoreFields DEF Sound
  <2>2. m \in Int
    BY <2>1, HeadCount
  <2>3. W \in Int /\ Lag \in Int
    BY Numbers
  <2> QED BY <2>1, <2>2, <2>3
<1>1. CASE ~(c.index < Capacity)
  <2>1. d = c
    BY <1>1 DEF add_interrupt_event_count, alloc_node_ok
  <2> QED BY <2>1 DEF Held
<1>2. CASE c.index < Capacity
  <2>1. c.cycle = -m /\ Tidy(c.q, c.count, m) /\ AllBounded(c.q, c.compare)
    BY DEF OnTime, Timed
  <2>2. Tidy(c.q, c.count, b)
    BY <1>0, <2>1, FromFirstLate
  <2> HIDE DEF m
  <2>3. Origin(c, c.count, b) /\ b \in Int /\ b <= 0 /\ b <= m /\ -Lag <= b
    <3>1. -Lag <= b
      <4>1. Lag >= 0
        BY Numbers
      <4>2. -Lag <= m
        BY DEF m
      <4> QED BY <1>0, <4>1, <4>2
    <3> QED BY <1>0, <2>1, <3>1, FromLate
  <2>4. b <= left /\ left < b + W
    BY <1>0, <2>3 DEF m
  <2> HIDE DEF b
  <2>5. /\ Tidy(d.q, c.count, b) /\ Tidy(d.q, c.count, d.q[1].left)
        /\ AllBounded(d.q, c.compare)
        /\ d.cycle = Signed(c.count - d.q[1].count)
        /\ d.count = c.count /\ Held(c, d)
    BY <1>0, <1>2, <2>1, <2>2, <2>3, <2>4, AddTidy
  <2>6. d.q \in Seq(Events)
    BY AddEvent, CoreFields DEF Adds, Sound
  <2>7. Signed(c.count - d.q[1].count) = -d.q[1].left
    BY <1>0, <2>3, <2>5, <2>6, FirstDistance
  <2> QED BY <2>5, <2>7 DEF OnTime, Timed, Held
<1> QED BY <1>1, <1>2

(* The rest of a queue of two or more. *)
LEMMA TailParts ==
  ASSUME NEW q \in Seq(Events), Len(q) >= 2
  PROVE  /\ Tail(q) \in Seq(Events) /\ Tail(q) # << >> /\ Len(Tail(q)) = Len(q) - 1
         /\ \A j \in 1..(Len(q)-1) : Tail(q)[j] = q[j+1]
         /\ Tail(q)[1] = q[2] /\ Len(q) \in Nat
<1>0. Len(q) \in Nat /\ q # << >>
  BY LenProperties, EmptySeq
<1>1. Tail(q) \in Seq(Events) /\ Len(Tail(q)) = Len(q) - 1
  BY <1>0, HeadTailProperties
<1>2. \A j \in 1..(Len(q)-1) : Tail(q)[j] = q[j+1]
  BY <1>0, HeadTailProperties
<1>3. Tail(q) # << >>
  <2> DEFINE r == Tail(q)
  <2>1. Len(r) # 0 /\ r = Tail(q)
    BY <1>0, <1>1
  <2> HIDE DEF r
  <2>2. r # << >>
    BY <2>1
  <2> QED BY <2>1, <2>2
<1> QED BY <1>0, <1>1, <1>2, <1>3

(* A tidy queue is tidy from its first event. *)
LEMMA Rebase ==
  ASSUME NEW q \in Seq(Events), Len(q) >= 1, NEW now, NEW b \in Int, Tidy(q, now, b)
  PROVE  Tidy(q, now, q[1].left)
<1>1. Len(q) \in Nat /\ W \in Int /\ \A i \in 1..Len(q) : q[i].left \in Int
  BY EventFields, WAssumption
<1>2. q[1].left \in Int /\ b <= q[1].left
  BY <1>1 DEF Tidy, Within
<1>3. ASSUME NEW i \in 1..Len(q) PROVE q[1].left <= q[i].left /\ q[i].left < q[1].left + W
  <2>1. q[i].left \in Int /\ q[i].left < b + W
    BY <1>1 DEF Tidy, Within
  <2>2. i = 1 \/ q[1].left <= q[i].left
    BY <1>1 DEF Tidy, Ordered
  <2> QED BY <1>1, <1>2, <2>1, <2>2
<1> QED BY <1>3 DEF Tidy, Within

(* The rest of a timed queue is timed. *)
LEMMA TailTimed ==
  ASSUME NEW q \in Seq(Events), Len(q) >= 2, NEW now, NEW compare, Timed(q, now, compare)
  PROVE  /\ Timed(Tail(q), now, compare)
         /\ q[1].left \in Int /\ Tail(q)[1].left \in Int /\ q[1].left <= Tail(q)[1].left
         /\ q[1].left <= 0 => Short(Tail(q)) /\ Short(q)
<1> DEFINE r == Tail(q)
<1>1. /\ r \in Seq(Events) /\ Len(r) = Len(q) - 1 /\ \A j \in 1..(Len(q)-1) : r[j] = q[j+1]
      /\ r[1] = q[2] /\ Len(q) \in Nat
  BY TailParts
<1> HIDE DEF r
<1>2. q[1].left \in Int /\ q[2].left \in Int /\ W \in Int /\ \A i \in 1..Len(q) : q[i].left \in Int
  BY <1>1, EventFields, WAssumption
<1>3. Tidy(q, now, q[1].left) /\ AllBounded(q, compare)
  BY DEF Timed
<1>4. /\ Tidy(r, now, q[1].left) /\ AllBounded(r, compare)
      /\ \A i \in 1..Len(r) : \E j \in 1..Len(q) : j # 1 /\ r[i] = q[j]
  <2> DEFINE p == 1
             b == q[1].left
  <2>1. p \in 1..Len(q) /\ Without(q, p, r)
    BY <1>1 DEF Without
  <2>2. Tidy(q, now, b)
    BY <1>3
  <2> HIDE DEF b, p
  <2>3. /\ Tidy(r, now, b)
        /\ \A x : AllBounded(q, x) => AllBounded(r, x)
        /\ \A i \in 1..Len(r) : \E j \in 1..Len(q) : j # p /\ r[i] = q[j]
    BY <2>1, <2>2, Taken
  <2> QED BY <1>3, <2>3 DEF b, p
<1>5. Tidy(r, now, r[1].left)
  BY <1>1, <1>2, <1>4, Rebase
<1>6. q[1].left <= q[2].left
  BY <1>1, <1>3 DEF Tidy, Ordered
<1>7. ASSUME q[1].left <= 0 PROVE Short(r) /\ Short(q)
  <2>1. \A i \in 1..Len(q) : q[i].left < q[1].left + W
    BY <1>3 DEF Tidy, Within
  <2>2. ASSUME NEW i \in 1..Len(q) PROVE q[i].left < W
    <3>1. q[i].left \in Int /\ q[i].left < q[1].left + W
      BY <1>2, <2>1
    <3> QED BY <1>2, <1>7, <3>1
  <2> QED BY <1>4, <2>2 DEF Short
<1> QED BY <1>1, <1>2, <1>4, <1>5, <1>6, <1>7 DEF Timed, r

(* Guest code finds the two timers queued. *)
LEMMA TwoTimers ==
  ASSUME NEW c, Good(c)
  PROVE  /\ Len(c.q) >= 2 /\ c.q \in Seq(Events) /\ c \in Cores /\ c.count \in Int
         /\ Sound(c) /\ c.q # << >> /\ ~None(c.q, "SPECIAL")
<1>1. Len(c.q) \in Nat /\ c.q \in Seq(Events) /\ c \in Cores /\ c.count \in Int
  BY GoodHead, CoreFields
<1>2. PICK i, j \in 1..Len(c.q) : c.q[i].type = "SPECIAL" /\ c.q[j].type = "COMPARE"
  BY DEF Good, Timers, Once
<1>3. i # j
  BY <1>2
<1>4. Len(c.q) >= 2 /\ ~None(c.q, "SPECIAL")
  BY <1>1, <1>2, <1>3 DEF None
<1> QED BY <1>1, <1>4, GoodHead

(* remove_interrupt_event looks at the next event. *)
LEMMA PopShape ==
  ASSUME NEW c, Good(c), NEW d, d = remove_interrupt_event(c)
  PROVE  /\ d.q = Tail(c.q) /\ d.cycle = Signed(c.count - d.q[1].count)
         /\ d.count = c.count /\ Held(c, d) /\ d.q # << >> /\ d.q \in Seq(Events)
         /\ Sound(d) /\ d.index < Capacity /\ d.file = c.file /\ d.loading = c.loading
         /\ d.delay_slot = c.delay_slot /\ d.job = c.job
<1> DEFINE q == Tail(c.q)
           n == free_node(c.index)
           first == IF q = << >> THEN 0 ELSE q[1].count
           late == IF q = << >> THEN 0 ELSE Signed(c.count - q[1].count)
<1>0. c \in Cores /\ q # << >> /\ q \in Seq(Events)
  BY TwoTimers, TailParts
<1>1. d = WithQueue(c, q, n, first, late)
  BY DEF remove_interrupt_event, WithQueue
<1>2. late = Signed(c.count - q[1].count)
  BY <1>0
<1> HIDE DEF n, first, late, q
<1>3. /\ d.q = q /\ d.cycle = late /\ d.count = c.count /\ d.skip_jump = c.skip_jump
      /\ d.delay_slot = c.delay_slot /\ d.job = c.job
  BY <1>0, <1>1, WithQueueRest
<1>4. d.compare = c.compare /\ d.fired = c.fired
  BY <1>0, <1>1 DEF WithQueue, Cores
<1>5. Sound(d) /\ d.index < Capacity /\ d.file = c.file /\ d.loading = c.loading
  BY GoodHead, PopEvent
<1> QED BY <1>0, <1>2, <1>3, <1>4, <1>5 DEF Held, q

(* The core after its first event was taken is on time, if the rest of its *)
(* queue is timed and the next event within reach.                         *)
LEMMA PopOnTime ==
  ASSUME Regime, NEW c, Good(c), Timed(Tail(c.q), c.count, c.compare),
         -Lag <= Tail(c.q)[1].left, Tail(c.q)[1].left <= Half,
         NEW d, d = remove_interrupt_event(c)
  PROVE  OnTime(d) /\ d.cycle = -d.q[1].left
<1>1. /\ d.q = Tail(c.q) /\ d.cycle = Signed(c.count - d.q[1].count) /\ d.q # << >>
      /\ d.count = c.count /\ Held(c, d) /\ d.q \in Seq(Events)
  BY PopShape
<1>2. /\ c.count \in Int /\ Len(d.q) \in Nat /\ Len(d.q) >= 1 /\ d.q[1].left \in Int
      /\ Half \in Int /\ Lag \in Int /\ Lag < Half
  <2>1. c.count \in Int
    BY TwoTimers
  <2>2. Len(d.q) \in Nat /\ Len(d.q) >= 1 /\ \A i \in 1..Len(d.q) : d.q[i].left \in Int
    BY <1>1, EventFields, EmptySeq
  <2>3. Half \in Int /\ Lag \in Int /\ Lag < Half
    BY Numbers
  <2> QED BY <2>1, <2>2, <2>3
<1>3. Due(d.q[1].count, c.count, d.q[1].left)
  <2>1. Dated(d.q, c.count)
    BY <1>1 DEF Timed, Tidy
  <2> QED BY <1>2, <2>1 DEF Dated
<1>4. -Half < d.q[1].left /\ d.q[1].left <= Half
  BY <1>1, <1>2
<1>5. d.cycle = -d.q[1].left
  BY <1>1, <1>2, <1>3, <1>4, SignedDistance
<1> QED BY <1>1, <1>5 DEF OnTime, Held

(* COMPARE_INT is put at its time when it is CountPerOp or more and less   *)
(* than a period from the earliest event away.  m is minus cycle_count,    *)
(* which MTC0 Compare may leave to an event already taken out.             *)
LEMMA AddCompareTimed ==
  ASSUME Regime, NEW c, Sound(c), c.index < Capacity, ~None(c.q, "SPECIAL"),
         NEW m \in Int, c.cycle = -m, -Lag <= m, Tidy(c.q, c.count, m),
         NEW value \in 0..(W-1), AllBounded(c.q, value),
         NEW left \in Int, Due(value, c.count, left),
         CountPerOp <= left, left < W + m, left <= W,
         NEW d, d = add_compare_event(c, value)
  PROVE  /\ Timed(d.q, d.count, value) /\ d.cycle = -d.q[1].left
         /\ Held(c, d) /\ d.count = c.count
<1> DEFINE now == c.count
           count == (now + CountPerOp) % W
           cycle == c.cycle + CountPerOp
           ahead == WithCount(c, count, cycle)
           away == CountPerOp + ((value - count) % W)
           added == add_interrupt_event_count(ahead, "COMPARE", value, away)
           late == Signed(now - added.q[1].count)
           b == IF m < CountPerOp THEN m ELSE CountPerOp
<1>0. /\ c \in Cores /\ c.index = Len(c.q) /\ now \in 0..(W-1) /\ now \in Int /\ c.cycle \in Int
      /\ c.q \in Seq(Events)
  BY CoreFields DEF Sound
<1>1. /\ W \in Int /\ W > 0 /\ CountPerOp \in Int /\ CountPerOp > 0 /\ CountPerOp < W
      /\ Lag \in Int /\ Lag >= 0
  BY Numbers
<1>2. PICK k \in Int : count = now + CountPerOp + k * W
  <2>1. now + CountPerOp \in Int
    BY <1>0, <1>1
  <2> HIDE DEF now
  <2> DEFINE x == now + CountPerOp
  <2> HIDE DEF x
  <2>2. \E i \in Int : x % W = x + i * W
    BY <2>1, ModPeriods DEF x
  <2> QED BY <2>2 DEF x
<1>3. count \in 0..(W-1) /\ cycle \in Int /\ count \in Int
  <2>1. now + CountPerOp \in Int /\ c.cycle + CountPerOp \in Int
    BY <1>0, <1>1
  <2> QED BY <2>1, <1>1, ModType
<1>4. away = left
  <2> HIDE DEF count, now
  <2>1. (value - (now + CountPerOp)) % W = left - CountPerOp
    <3> DEFINE o == CountPerOp
    <3>1. o \in Int /\ o <= left /\ left < o + W
      BY <1>1
    <3>2. Due(value, now, left) /\ now \in Int
      BY <1>0 DEF now
    <3> HIDE DEF o
    <3>3. (value - (now + o)) % W = left - o
      BY <3>1, <3>2, Distance
    <3> QED BY <3>3 DEF o
  <2> DEFINE u == value - count
             v == value - (now + CountPerOp)
  <2>2. u \in Int /\ v \in Int /\ -k \in Int /\ u = v + (-k) * W
    BY <1>0, <1>1, <1>2, <1>3
  <2> HIDE DEF u, v
  <2>3. u % W = v % W
    BY <2>2, PeriodsMod
  <2>4. (value - count) % W = left - CountPerOp
    BY <2>1, <2>3 DEF u, v
  <2> QED BY <1>1, <2>4
<1>5. d = WithCount(added, now, late)
  <2>1. ahead = [c EXCEPT !.count = count, !.cycle = cycle]
    BY DEF WithCount
  <2>2. ahead.count = count
    BY <1>0, WithCountFields
  <2> QED BY <2>1, <2>2 DEF add_compare_event, WithCount
<1>6. b \in Int /\ b <= m /\ b <= CountPerOp /\ -Lag <= b /\ b <= left /\ left < b + W
  BY <1>1
<1>7. Tidy(c.q, now, b)
  <2>1. CASE m < CountPerOp
    BY <2>1
  <2>2. CASE ~(m < CountPerOp)
    <3>1. ASSUME NEW i \in 1..Len(c.q) PROVE b <= c.q[i].left /\ c.q[i].left < b + W
      <4>1. c.q[i].left \in Int
        BY <1>0, EventFields
      <4>2. m <= c.q[i].left /\ c.q[i].left <= W
        BY DEF Tidy, Within, AllBounded, Bounded
      <4>3. b = CountPerOp /\ CountPerOp <= m
        BY <1>1, <2>2
      <4> DEFINE x == c.q[i].left
      <4> HIDE DEF b, x
      <4>4. x \in Int /\ m <= x /\ x <= W
        BY <4>1, <4>2 DEF x
      <4>5. b <= x /\ x < b + W
        BY <1>1, <4>3, <4>4
      <4> QED BY <4>5 DEF x
    <3> QED BY <3>1 DEF Tidy, Within
  <2> QED BY <2>1, <2>2
<1> HIDE DEF cycle
<1>8. /\ ahead \in Cores /\ ahead.q = c.q /\ ahead.index = c.index /\ ahead.count = count
      /\ ahead.cycle = cycle /\ Held(c, ahead)
  <2> HIDE DEF count
  <2>1. ahead \in Cores
    BY <1>0, <1>3, WithCountType, Zenon
  <2>2. ahead = WithCount(c, count, cycle)
    OBVIOUS
  <2>3. ahead.cycle = cycle /\ Held(c, ahead)
    BY <1>0, <1>3 DEF WithCount, Cores, Held
  <2> HIDE DEF ahead
  <2> QED BY <1>0, <2>1, <2>2, <2>3, WithCountFields
<1>9. Origin(ahead, now, b)
  <2>1. cycle = CountPerOp - m
    BY <1>1 DEF cycle
  <2> HIDE DEF ahead, now, count
  <2>2. (IF cycle > 0 THEN count - cycle ELSE count) = now + b + k * W
    BY <1>0, <1>1, <1>2, <2>1
  <2> QED BY <1>8, <2>2 DEF Origin
<1> HIDE DEF ahead, away, b, count
<1>10. "COMPARE" \in Types /\ Sound(ahead) /\ ahead.index < Capacity
  BY <1>0, <1>8 DEF Types, Sound
<1>11. Bounded(Event("COMPARE", value, left), value)
  <2> DEFINE e == Event("COMPARE", value, left)
  <2>1. e.type = "COMPARE" /\ e.count = value /\ e.left = left
    BY <1>10, EventParts
  <2> HIDE DEF e
  <2>2. Bounded(e, value)
    BY <2>1 DEF Bounded
  <2> QED BY <2>2 DEF e
<1>12. added = add_interrupt_event_count(ahead, "COMPARE", value, left)
  BY <1>4
<1> HIDE DEF added
<1>13. /\ Tidy(added.q, now, b) /\ Tidy(added.q, now, added.q[1].left)
       /\ AllBounded(added.q, value) /\ Held(ahead, added)
  <2>1. Tidy(ahead.q, now, b) /\ Due(value, now, left)
    BY <1>7, <1>8
  <2> HIDE DEF now
  <2>2. /\ Tidy(added.q, now, b) /\ Tidy(added.q, now, added.q[1].left)
        /\ \A compare : AllBounded(ahead.q, compare) /\ Bounded(Event("COMPARE", value, left), compare)
                            => AllBounded(added.q, compare)
        /\ Held(ahead, added)
    BY <1>0, <1>6, <1>9, <1>10, <1>12, <2>1, AddTidy
  <2> QED BY <1>8, <1>11, <2>2
<1>14. Adds(ahead, added, "COMPARE")
  BY <1>10, <1>12, AddEvent
<1>15. added \in Cores /\ added.q \in Seq(Events) /\ ~None(added.q, "SPECIAL") /\ added.q # << >>
  <2>1. added \in Cores /\ added.q # << >> /\ ~None(added.q, "SPECIAL")
    BY <1>8, <1>10, <1>14 DEF Adds, Sound
  <2> QED BY <2>1, CoreFields
<1>16. late = -added.q[1].left /\ late \in Int
  <2>1. Signed(now - added.q[1].count) = -added.q[1].left /\ added.q[1].left \in Int
    <3> HIDE DEF now
    <3> QED BY <1>0, <1>6, <1>13, <1>15, FirstDistance
  <2> QED BY <2>1
<1> HIDE DEF late
<1>17. d.q = added.q /\ d.count = now /\ d.cycle = late /\ Held(added, d)
  BY <1>5, <1>15 DEF WithCount, Cores, Held
<1> QED BY <1>8, <1>13, <1>16, <1>17 DEF Timed, Held

(* Ageing by n counts, when no event gets later than Lag. *)
LEMMA AgedTimed ==
  ASSUME Regime, NEW q \in Seq(Events), Len(q) >= 1, NEW now \in Int, NEW n \in Nat,
         NEW compare, Timed(q, now, compare), Timely(q, n),
         NEW r, r = Aged(q, n)
  PROVE  /\ r \in Seq(Events) /\ Len(r) = Len(q)
         /\ \A i \in 1..Len(q) : /\ r[i].type = q[i].type /\ r[i].count = q[i].count
                                 /\ r[i].left = q[i].left - n
         /\ Timed(r, (now + n) % W, compare) /\ Timely(r, 0)
         /\ n > 0 => Short(r)
         /\ Apart(q) => Apart(r)
         /\ Len(q) >= 2 /\ Spread(q) => Spread(r)
<1>0. /\ W \in Int /\ Lag \in Int /\ Lag < W /\ Half \in Int /\ Len(q) \in Nat /\ DOMAIN q = 1..Len(q)
      /\ \A i \in 1..Len(q) : q[i] \in Events /\ q[i].left \in Int
  <2>1. W \in Int /\ Lag \in Int /\ Lag < W /\ Half \in Int
    BY Numbers
  <2>2. Len(q) \in Nat /\ \A i \in 1..Len(q) : q[i] \in Events /\ q[i].left \in Int
    BY EventFields
  <2> QED BY <2>1, <2>2, LenProperties
<1>1. r \in Seq(Events) /\ Len(r) = Len(q)
  BY AgedType
<1>2. ASSUME NEW i \in 1..Len(q)
      PROVE  /\ r[i].type = q[i].type /\ r[i].count = q[i].count /\ r[i].left = q[i].left - n
             /\ r[i].left \in Int
  <2>1. r[i] = [q[i] EXCEPT !.left = Later(q[i].left, n)]
    BY <1>0 DEF Aged
  <2>2. q[i] \in Events /\ q[i].left \in Int /\ q[i].left - n >= -Lag
    BY <1>0 DEF Timely
  <2>3. Later(q[i].left, n) = q[i].left - n
    BY <1>0, <2>2 DEF Later, Regime
  <2>4. r[i].type = q[i].type /\ r[i].count = q[i].count /\ r[i].left = Later(q[i].left, n)
    BY <2>1, <2>2 DEF Events
  <2> QED BY <2>2, <2>3, <2>4
<1>3. Tidy(q, now, q[1].left) /\ AllBounded(q, compare)
  BY DEF Timed
<1>4. Dated(r, (now + n) % W)
  <2> SUFFICES ASSUME NEW i \in 1..Len(q) PROVE Due(r[i].count, (now + n) % W, r[i].left)
    BY <1>1 DEF Dated
  <2>1. Due(q[i].count, now, q[i].left)
    BY <1>3 DEF Tidy, Dated
  <2>2. (now + q[i].left) % W = (((now + n) % W) + (q[i].left - n)) % W
    <3> DEFINE x == q[i].left
    <3>1. x \in Int /\ n \in Int
      BY <1>0
    <3> HIDE DEF x
    <3>2. (now + x) % W = (((now + n) % W) + (x - n)) % W
      BY <3>1, Passing
    <3> QED BY <3>2 DEF x
  <2> QED BY <1>2, <2>1, <2>2 DEF Due
<1>5. Ordered(r)
  <2> SUFFICES ASSUME NEW i \in 1..Len(q), NEW j \in 1..Len(q), i < j
               PROVE  r[i].left <= r[j].left
    BY <1>1 DEF Ordered
  <2>1. q[i].left <= q[j].left /\ q[i].left \in Int /\ q[j].left \in Int
    BY <1>0, <1>3 DEF Tidy, Ordered
  <2>2. r[i].left = q[i].left - n /\ r[j].left = q[j].left - n
    BY <1>2
  <2> QED BY <2>1, <2>2
<1>6. Within(r, r[1].left)
  <2> SUFFICES ASSUME NEW i \in 1..Len(q)
               PROVE  r[1].left <= r[i].left /\ r[i].left < r[1].left + W
    BY <1>1 DEF Within
  <2>1. 1 \in 1..Len(q)
    BY <1>0
  <2>2. q[1].left <= q[i].left /\ q[i].left < q[1].left + W
    BY <1>3 DEF Tidy, Within
  <2>3. r[1].left = q[1].left - n /\ r[i].left = q[i].left - n /\ q[1].left \in Int /\ q[i].left \in Int
    BY <1>0, <1>2, <2>1
  <2> QED BY <1>0, <2>2, <2>3, SMTT(30)
<1>7. AllBounded(r, compare)
  <2> SUFFICES ASSUME NEW i \in 1..Len(q) PROVE Bounded(r[i], compare)
    BY <1>1 DEF AllBounded
  <2>1. Bounded(q[i], compare)
    BY <1>3 DEF AllBounded
  <2>2. /\ r[i].type = q[i].type /\ r[i].count = q[i].count /\ r[i].left = q[i].left - n
        /\ q[i].left \in Int
    BY <1>0, <1>2
  <2>3. \A x \in Int : q[i].left <= x => r[i].left <= x
    BY <2>2
  <2>4. q[i].left + Lag < W => r[i].left + Lag < W
    BY <1>0, <2>2
  <2> QED BY <1>0, <2>1, <2>2, <2>3, <2>4 DEF Bounded
<1>8. Timely(r, 0)
  <2> SUFFICES ASSUME NEW i \in 1..Len(q) PROVE r[i].left - 0 >= -Lag
    BY <1>1 DEF Timely
  <2>1. r[i].left = q[i].left - n /\ r[i].left \in Int /\ q[i].left - n >= -Lag
    BY <1>2 DEF Timely
  <2> QED BY <1>0, <2>1
<1>9. ASSUME n > 0 PROVE Short(r)
  <2> SUFFICES ASSUME NEW i \in 1..Len(q) PROVE r[i].left < W
    BY <1>1 DEF Short
  <2>1. q[i].left <= W /\ q[i].left \in Int /\ r[i].left = q[i].left - n
    BY <1>0, <1>2, <1>3 DEF AllBounded, Bounded
  <2> QED BY <1>0, <1>9, <2>1
<1>10. Apart(q) => Apart(r)
  BY <1>1, <1>2, SMTT(30) DEF Apart
<1>11. ASSUME Len(q) >= 2, Spread(q) PROVE Spread(r)
  <2>1. 1 \in 1..Len(q) /\ 2 \in 1..Len(q)
    BY <1>0, <1>11
  <2>2. r[1].type = q[1].type /\ r[1].count = q[1].count /\ r[2].count = q[2].count
    BY <1>2, <2>1
  <2> QED BY <1>11, <2>2 DEF Spread
<1> QED BY <1>1, <1>2, <1>4, <1>5, <1>6, <1>7, <1>8, <1>9, <1>10, <1>11 DEF Timed, Tidy

(* The guest's progress keeps a core on time. *)
LEMMA UpdateOnTime ==
  ASSUME Regime, NEW c, Good(c), OnTime(c), NEW n \in Nat, Timely(c.q, n),
         NEW d, d = cp0_update_count(c, n)
  PROVE  /\ OnTime(d) /\ Timely(d.q, 0) /\ (n > 0 => Short(d.q)) /\ Held(c, d)
         /\ Apart(c.q) => Apart(d.q)
         /\ Spread(c.q) => Spread(d.q)
         /\ d.q[1].left = c.q[1].left - n /\ d.count = (c.count + n) % W
<1> DEFINE q == Aged(c.q, n)
           count == (c.count + n) % W
<1>0. c \in Cores /\ c.q \in Seq(Events) /\ Len(c.q) >= 2 /\ c.count \in Int /\ c.cycle \in Int
  BY TwoTimers, CoreFields
<1>1. d = [c EXCEPT !.count = count, !.cycle = c.cycle + n, !.q = q]
  BY Zenon DEF cp0_update_count
<1>2. /\ Timed(q, count, c.compare) /\ Timely(q, 0) /\ (n > 0 => Short(q))
      /\ (Apart(c.q) => Apart(q)) /\ (Spread(c.q) => Spread(q))
      /\ \A i \in 1..Len(c.q) : q[i].left = c.q[i].left - n
  <2>1. Timed(c.q, c.count, c.compare) /\ Len(c.q) >= 1
    BY <1>0, LenProperties DEF OnTime
  <2> QED BY <1>0, <2>1, AgedTimed
<1> HIDE DEF q, count
<1>3. d.q = q /\ d.count = count /\ d.cycle = c.cycle + n /\ Held(c, d)
  BY <1>0, <1>1 DEF Cores, Held
<1>4. 1 \in 1..Len(c.q) /\ c.q[1].left \in Int
  BY <1>0, EventFields
<1>5. c.skip_jump \/ d.cycle = -d.q[1].left
  <2>1. c.skip_jump \/ c.cycle = -c.q[1].left
    BY DEF OnTime
  <2>2. q[1].left = c.q[1].left - n
    BY <1>2, <1>4
  <2> QED BY <1>0, <1>3, <1>4, <2>1, <2>2
<1> QED BY <1>2, <1>3, <1>4, <1>5 DEF OnTime, Held, count

-----------------------------------------------------------------------------
(* Exceptions and interrupt lines *)

(* d is c up to control fields; an exception in a delay slot may also set  *)
(* skip_jump and forget cycle_count.                                       *)
Still(c, d) ==
    /\ d.q = c.q /\ d.count = c.count /\ d.compare = c.compare /\ d.fired = c.fired
    /\ d.skip_jump \/ (d.cycle = c.cycle /\ d.skip_jump = c.skip_jump)

(* Such a step keeps a core on time. *)
LEMMA StillOnTime ==
  ASSUME NEW c, NEW d, Still(c, d), OnTime(c)
  PROVE  OnTime(d)
BY DEF Still, OnTime

(* Such steps compose. *)
LEMMA StillTrans ==
  ASSUME NEW c, NEW d, NEW e, Still(c, d), Still(d, e), d.skip_jump => e.skip_jump
  PROVE  Still(c, e)
BY DEF Still

(* An exception. *)
LEMMA ExceptionStill ==
  ASSUME NEW c \in Cores, NEW d, d = exception_general(c)
  PROVE  Still(c, d) /\ (c.skip_jump => d.skip_jump)
<1>1. CASE c.delay_slot
  <2>1. d = [c EXCEPT !.exl = TRUE, !.skip_jump = TRUE, !.next = 0, !.cycle = 0]
    BY <1>1 DEF exception_general
  <2> QED BY <2>1 DEF Still, Cores
<1>2. CASE ~c.delay_slot
  <2>1. d = [c EXCEPT !.exl = TRUE]
    BY <1>2 DEF exception_general
  <2> QED BY <2>1 DEF Still, Cores
<1> QED BY <1>1, <1>2

(* A pending interrupt. *)
LEMMA MaskableStill ==
  ASSUME NEW c \in Cores, NEW ip \in Lines, NEW d, d = raise_maskable_interrupt(c, ip)
  PROVE  Still(c, d) /\ (c.skip_jump => d.skip_jump)
<1> DEFINE cause == c.cause \cup {ip}
           e == [c EXCEPT !.cause = cause]
<1>1. cause \in SUBSET Lines
  BY CauseLine
<1>2. d = exception_general(e) \/ d = e
  BY DEF raise_maskable_interrupt
<1> HIDE DEF cause
<1>3. e \in Cores /\ Still(c, e) /\ e.skip_jump = c.skip_jump
  BY <1>1 DEF Cores, Still
<1> HIDE DEF e
<1> QED BY <1>2, <1>3, ExceptionStill, StillTrans

(* An interrupt of the RCP. *)
LEMMA RcpStill ==
  ASSUME NEW c \in Cores, NEW unmasked \in BOOLEAN, NEW d, d = raise_rcp_interrupt(c, unmasked)
  PROVE  Still(c, d)
<1> DEFINE line == c.line \/ unmasked
           e == [c EXCEPT !.line = line]
<1>1. line \in BOOLEAN
  OBVIOUS
<1>2. d = raise_maskable_interrupt(e, "IP2") \/ d = e
  BY DEF raise_rcp_interrupt
<1> HIDE DEF line
<1>3. e \in Cores /\ Still(c, e) /\ e.skip_jump = c.skip_jump /\ "IP2" \in Lines
  BY <1>1 DEF Cores, Still, Lines
<1> HIDE DEF e
<1> QED BY <1>2, <1>3, MaskableStill, StillTrans

(* r4300_check_interrupt puts a CHECK_INT, due now, in front, or does      *)
(* nothing to the queue.                                                   *)
LEMMA CheckShape ==
  ASSUME NEW c, Good(c), NEW ip \in Lines, NEW set \in BOOLEAN,
         NEW d, d = r4300_check_interrupt(c, ip, set)
  PROVE  /\ Good(d) /\ d.count = c.count /\ Held(c, d)
         /\ \/ d.q = c.q /\ d.cycle = c.cycle
            \/ d.q = <<Event("CHECK", c.count, 0)>> \o c.q /\ d.cycle = 0
<1> DEFINE cause == IF set THEN c.cause \cup {ip} ELSE c.cause \ {ip}
           e == [c EXCEPT !.cause = cause]
           q == <<Event("CHECK", e.count, 0)>> \o e.q
           n == e.index + 1
<1>0. c \in Cores
  BY GoodHead
<1>1. cause \in SUBSET Lines
  BY <1>0, CauseLine
<1>2. d = e \/ d = WithQueue(e, q, n, e.count, 0)
  BY DEF r4300_check_interrupt, WithQueue
<1> HIDE DEF cause
<1>3. /\ e \in Cores /\ e.q = c.q /\ e.count = c.count /\ e.cycle = c.cycle /\ Held(c, e)
  BY <1>0, <1>1 DEF Cores, Held
<1>4. q = <<Event("CHECK", c.count, 0)>> \o c.q
  BY <1>3
<1> HIDE DEF e, q, n
<1>5. ASSUME d = WithQueue(e, q, n, e.count, 0)
      PROVE  d.q = q /\ d.cycle = 0 /\ d.count = e.count /\ Held(e, d)
  BY <1>3, <1>5 DEF WithQueue, Cores, Held
<1>6. Good(d)
  BY CheckInterrupt
<1> QED BY <1>2, <1>3, <1>4, <1>5, <1>6 DEF Held

(* What the frontend asks for, but for a soft reset. *)
LEMMA ServeStill ==
  ASSUME Regime, NEW c \in Cores, NEW request \in Requests, NEW d, d = Serve(c, request)
  PROVE  Still(c, d) /\ d.skip_jump = c.skip_jump
<1>1. request \in {"none", "hard", "save", "stop"}
  BY DEF Regime
<1>2. CASE request = "none"
  BY <1>2 DEF Serve, Still
<1>3. CASE request = "hard"
  <2>1. d = [c EXCEPT !.reset_hard_job = TRUE]
    BY <1>3 DEF Serve
  <2> QED BY <2>1 DEF Cores, Still
<1>4. CASE request = "stop"
  <2>1. d = [c EXCEPT !.stop = TRUE]
    BY <1>4 DEF Serve
  <2> QED BY <2>1 DEF Cores, Still
<1>5. CASE request = "save"
  <2>1. d = [c EXCEPT !.job = request]
    BY <1>5 DEF Serve
  <2> QED BY <2>1 DEF Cores, Still
<1> QED BY <1>1, <1>2, <1>3, <1>4, <1>5

(* A save. *)
LEMMA SaveStill ==
  ASSUME NEW c \in Cores, NEW d, d = savestates_save(c)
  PROVE  Still(c, d)
<1> DEFINE file == [q |-> c.q, count |-> c.count, compare |-> c.compare, ie |-> c.ie,
                    exl |-> c.exl, erl |-> c.erl, im |-> c.im, cause |-> c.cause, line |-> c.line]
<1>1. d = [c EXCEPT !.job = "nothing", !.file = file]
  BY DEF savestates_save
<1> HIDE DEF file
<1> QED BY <1>1 DEF Cores, Still

-----------------------------------------------------------------------------
(* The event handlers *)

(* A core whose first event is due: a CHECK_INT, which may be in front of  *)
(* events that are later still, or the first event of a timed queue.       *)
DueFirst(c) ==
    /\ c.q[1].left <= 0 /\ ~c.skip_jump
    /\ Timed(Tail(c.q), c.count, c.compare) /\ Timely(Tail(c.q), 0)
    /\ c.q[1].type # "CHECK" =>
          /\ Timed(c.q, c.count, c.compare) /\ Timely(c.q, 0)
          /\ Apart(c.q) /\ Spread(c.q)

(* The bounds on lateness. *)
LEMMA TimelyNow ==
  ASSUME Regime, NEW q \in Seq(Events), Timely(q, 0)
  PROVE  \A i \in 1..Len(q) : q[i].left \in Int /\ -Lag <= q[i].left
<1>1. \A i \in 1..Len(q) : q[i].left \in Int /\ q[i].left - 0 >= -Lag
  BY EventFields DEF Timely
<1>2. Lag \in Int
  BY Numbers
<1> QED BY <1>1, <1>2

(* What is left when the first event, not a SPECIAL_INT, is taken. *)
LEMMA PopDue ==
  ASSUME Regime, NEW c, Good(c), DueFirst(c), c.q[1].type # "SPECIAL",
         NEW d, d = remove_interrupt_event(c)
  PROVE  /\ OnTime(d) /\ d.cycle = -d.q[1].left /\ d.q[1].left \in Int
         /\ -Lag <= d.q[1].left /\ d.q[1].left <= Half /\ ~None(d.q, "SPECIAL")
<1>0. c \in Cores /\ c.q \in Seq(Events) /\ Len(c.q) >= 2 /\ c.count \in Int /\ Sound(c) /\ c.q # << >>
  BY TwoTimers
<1> DEFINE r == Tail(c.q)
<1>1. r \in Seq(Events) /\ r # << >> /\ 1 \in 1..Len(r) /\ Len(r) \in Nat
  <2>1. r \in Seq(Events) /\ r # << >>
    BY <1>0, TailParts
  <2> HIDE DEF r
  <2> QED BY <2>1, EmptySeq, LenProperties
<1>2. d.q = r
  BY PopShape
<1>3. ~None(r, "SPECIAL")
  <2>1. Once(d.q, "SPECIAL")
    <3>1. Once(c.q, "SPECIAL") /\ "SPECIAL" # c.q[1].type
      BY DEF Good, Timers
    <3> QED BY <1>0, <3>1, PopEvent
  <2> QED BY <1>2, <2>1, OncePresent
<1>4. Timed(r, c.count, c.compare) /\ Timely(r, 0)
  BY DEF DueFirst
<1> HIDE DEF r
<1>5. r[1].left \in Int /\ -Lag <= r[1].left
  BY <1>1, <1>4, TimelyNow
<1>6. r[1].left <= Half
  <2> DEFINE b == r[1].left
  <2>1. Tidy(r, c.count, b) /\ AllBounded(r, c.compare) /\ b \in Int /\ -Lag <= b
    BY <1>4, <1>5 DEF Timed
  <2> HIDE DEF b
  <2> QED BY <1>0, <1>1, <1>3, <2>1, FirstDistance
<1>7. OnTime(d) /\ d.cycle = -d.q[1].left
  BY <1>2, <1>4, <1>5, <1>6, PopOnTime DEF r
<1> QED BY <1>2, <1>3, <1>5, <1>6, <1>7

(* A date a delay later. *)
LEMMA Postponed ==
  ASSUME NEW now \in Int, NEW left \in Int, NEW delay \in Int, NEW date, Due(date, now, left),
         NEW later, later = (date + delay) % W
  PROVE  Due(later, now, left + delay)
<1>0. W \in Int
  BY WAssumption
<1>1. PICK k \in Int : (now + left) % W = now + left + k * W
  BY ModPeriods
<1> DEFINE x == date + delay
           y == now + (left + delay)
<1>2. x \in Int /\ y \in Int /\ x = y + k * W
  BY <1>0, <1>1 DEF Due
<1> HIDE DEF x, y
<1>3. x % W = y % W
  BY <1>2, PeriodsMod
<1> QED BY <1>3 DEF Due, x, y

(* The first event of a type is the first event if that has the type. *)
LEMMA FirstIsFirst ==
  ASSUME NEW c, c.q \in Seq(Events), Len(c.q) >= 1, NEW type, c.q[1].type = type
  PROVE  FirstOf(c, type) = 1
<1>0. Len(c.q) \in Nat
  BY LenProperties
<1> DEFINE P(i) == c.q[i].type = type /\ \A j \in 1..(i-1) : c.q[j].type # type
<1>1. 1 \in 1..Len(c.q) /\ P(1)
  BY <1>0
<1>2. ASSUME NEW i \in 1..Len(c.q), P(i) PROVE i = 1
  BY <1>0, <1>2
<1>3. FirstOf(c, type) = CHOOSE i \in 1..Len(c.q) : P(i)
  BY DEF FirstOf
<1> HIDE DEF P
<1> QED BY <1>1, <1>2, <1>3

(* VI_INT: the next one is due a frame after this one was due. *)
LEMMA VIOnTime ==
  ASSUME Regime, NEW c, Good(c), DueFirst(c), c.q[1].type = "VI", NEW env \in Env,
         NEW d, d = vi_vertical_interrupt_event(c, env)
  PROVE  OnTime(d) /\ d.fired = c.fired
<1> DEFINE s == Serve(c, env.request)
           vi == s.q[FirstOf(s, "VI")]
           count == (vi.count + VIDelay) % W
           left == vi.left + VIDelay
           e == remove_interrupt_event(s)
           f == add_interrupt_event_count(e, "VI", count, left)
<1>0. /\ env.request \in Requests /\ env.unmasked \in BOOLEAN /\ "VI" \in Types
      /\ VIDelay \in Int /\ c \in Cores
  BY CountsAssumption, WAssumption, TwoTimers DEF Env, Types
<1>1. d = raise_rcp_interrupt(f, env.unmasked)
  BY DEF vi_vertical_interrupt_event
<1>2. Good(s) /\ Still(c, s) /\ s.skip_jump = c.skip_jump
  BY <1>0, ServeGood, ServeStill
<1> HIDE DEF s
<1>3. DueFirst(s) /\ s.q[1].type = "VI"
  BY <1>2 DEF Still, DueFirst
<1>4. s \in Cores /\ s.q \in Seq(Events) /\ Len(s.q) >= 2 /\ s.count \in Int /\ s.count \in 0..(W-1)
  BY <1>2, TwoTimers, CoreFields
<1>5. vi = s.q[1]
  <2>1. Len(s.q) >= 1
    BY <1>4, LenProperties
  <2> QED BY <1>3, <1>4, <2>1, FirstIsFirst
<1> HIDE DEF vi
<1>6. /\ Timed(s.q, s.count, s.compare) /\ Timely(s.q, 0) /\ s.q[1].left <= 0
      /\ ~s.skip_jump
  BY <1>3 DEF DueFirst
<1>7. /\ vi \in Events /\ vi.left \in Int /\ vi.count \in 0..(W-1) /\ -Lag <= vi.left /\ vi.left <= 0
      /\ Due(vi.count, s.count, vi.left)
  <2>1. 1 \in 1..Len(s.q)
    BY <1>4, LenProperties
  <2>2. vi \in Events /\ vi.left \in Int /\ vi.count \in 0..(W-1)
    BY <1>4, <1>5, <2>1, EventFields
  <2>3. -Lag <= vi.left
    BY <1>4, <1>5, <1>6, <2>1, TimelyNow
  <2>4. Due(vi.count, s.count, vi.left)
    BY <1>5, <1>6, <2>1 DEF Timed, Tidy, Dated
  <2> QED BY <1>5, <1>6, <2>2, <2>3, <2>4
<1>8. /\ OnTime(e) /\ e.q[1].left \in Int /\ -Lag <= e.q[1].left /\ ~None(e.q, "SPECIAL")
  BY <1>2, <1>3, PopDue
<1>9. /\ e.q = Tail(s.q) /\ e.count = s.count /\ Held(s, e) /\ e.q # << >> /\ Sound(e)
  BY <1>2, PopShape
<1>10. Short(e.q)
  BY <1>4, <1>6, <1>9, TailTimed
<1> HIDE DEF e
<1>11. count \in 0..(W-1) /\ left \in Int /\ Due(count, s.count, left)
  <2>1. vi.count + VIDelay \in Int /\ vi.left + VIDelay \in Int
    BY <1>0, <1>7, WAssumption
  <2>2. Due(count, s.count, left)
    <3> HIDE DEF count
    <3>1. count = (vi.count + VIDelay) % W
      BY DEF count
    <3> QED BY <1>0, <1>4, <1>7, <3>1, Postponed
  <2> QED BY <2>1, <2>2, ModType
<1>12. 0 <= left /\ left + Lag < W
  <2>1. W \in Int /\ Lag \in Int /\ Lag <= VIDelay /\ VIDelay + Lag < W
    BY Numbers
  <2> QED BY <1>0, <1>7, <2>1
<1> HIDE DEF count, left
<1>13. Bounded(Event("VI", count, left), e.compare)
  <2> DEFINE x == Event("VI", count, left)
  <2>1. x.type = "VI" /\ x.left = left
    BY <1>0, <1>11, EventParts
  <2>2. left <= W
    BY <1>11, <1>12, Numbers
  <2> HIDE DEF x
  <2>3. Bounded(x, e.compare)
    BY <1>12, <2>1, <2>2 DEF Bounded
  <2> QED BY <2>3 DEF x
<1>14. f \in Cores /\ ~None(f.q, "SPECIAL")
  <2>1. Adds(e, f, "VI")
    BY <1>0, <1>9, <1>11, AddEvent, Zenon
  <2> HIDE DEF f
  <2> QED BY <1>8, <2>1 DEF Adds, Sound
<1>15. OnTime(f) /\ Held(e, f)
  <2> DEFINE g == f
  <2>1. ~e.skip_jump /\ Due(count, e.count, left)
    BY <1>6, <1>9, <1>11 DEF Held
  <2>2. g = add_interrupt_event_count(e, "VI", count, left) /\ ~None(g.q, "SPECIAL")
    BY <1>14
  <2> HIDE DEF g, f
  <2>3. OnTime(g) /\ Held(e, g)
    BY <1>0, <1>8, <1>9, <1>10, <1>11, <1>12, <1>13, <2>1, <2>2, AddOnTime
  <2> QED BY <2>3 DEF g
<1> HIDE DEF f
<1>16. Still(f, d)
  BY <1>0, <1>1, <1>14, RcpStill
<1> QED BY <1>2, <1>9, <1>15, <1>16, StillOnTime DEF Held, Still

(* COMPARE_INT: the next one is due a period after this one was due, and   *)
(* behind all other events.                                                *)
LEMMA CompareOnTime ==
  ASSUME Regime, NEW c, Good(c), DueFirst(c), c.q[1].type = "COMPARE",
         NEW d, d = compare_int_handler(remove_interrupt_event(c))
  PROVE  OnTime(d) /\ d.fired = c.fired
<1> DEFINE e == remove_interrupt_event(c)
           value == e.compare
           f == add_compare_event(e, value)
           v == c.q[1].left
           m == e.q[1].left
           left == W + v
<1>0. /\ c \in Cores /\ c.q \in Seq(Events) /\ Len(c.q) >= 2 /\ Len(c.q) \in Nat /\ c.count \in Int
  BY TwoTimers, CoreFields
<1>1. d = raise_maskable_interrupt(f, "IP7") /\ "IP7" \in Lines
  BY DEF compare_int_handler, Lines
<1>2. /\ Timed(c.q, c.count, c.compare) /\ Timely(c.q, 0) /\ Apart(c.q)
      /\ c.q[1].left <= 0
  BY DEF DueFirst
<1>3. /\ OnTime(e) /\ e.cycle = -m /\ m \in Int /\ -Lag <= m /\ ~None(e.q, "SPECIAL")
  BY PopDue
<1>4. /\ e.q = Tail(c.q) /\ e.count = c.count /\ Held(c, e) /\ Sound(e) /\ e.index < Capacity
  BY PopShape
<1>5. m = c.q[2].left
  BY <1>0, <1>4, TailParts
<1> HIDE DEF e, m
<1>6. /\ v \in Int /\ -Lag <= v /\ v <= 0 /\ v <= m
      /\ Due(c.q[1].count, c.count, v) /\ Due(c.q[2].count, c.count, m)
      /\ c.q[1].count = c.compare
  <2>1. 1 \in 1..Len(c.q) /\ 2 \in 1..Len(c.q)
    BY <1>0
  <2>2. v \in Int /\ -Lag <= v
    BY <1>0, <1>2, <2>1, TimelyNow
  <2>3. Due(c.q[1].count, c.count, v) /\ Due(c.q[2].count, c.count, m) /\ v <= m
    BY <1>2, <1>5, <2>1 DEF Timed, Tidy, Dated, Ordered
  <2>4. c.q[1].count = c.compare
    BY <1>2, <2>1 DEF Timed, AllBounded, Bounded
  <2> QED BY <1>2, <2>2, <2>3, <2>4
<1>7. c.q[1].count # c.q[2].count
  <2>1. 1 \in 1..Len(c.q) /\ 2 \in 1..Len(c.q)
    BY <1>0
  <2> QED BY <1>2, <2>1 DEF Apart
<1> HIDE DEF v
<1>8. v < m
  <2>1. v # m
    BY <1>6, <1>7 DEF Due
  <2> QED BY <1>3, <1>6, <2>1
<1>9. value = c.compare /\ value \in 0..(W-1)
  BY <1>0, <1>4, CoreFields DEF Held
<1>10. Due(value, e.count, left)
  <2> DEFINE x == c.count + v
             y == c.count + (W + v)
  <2>1. W \in Int
    BY WAssumption
  <2>2. x \in Int /\ y \in Int /\ -1 \in Int /\ x = y + (-1) * W
    BY <1>0, <1>6, <2>1
  <2> HIDE DEF x, y
  <2>3. x % W = y % W
    BY <2>2, PeriodsMod
  <2> HIDE DEF value
  <2> QED BY <1>4, <1>6, <1>9, <2>3 DEF Due, x, y
<1>11. left \in Int /\ CountPerOp <= left /\ left < W + m /\ left <= W
  <2>1. W \in Int /\ Half \in Int /\ W = 2 * Half /\ CountPerOp \in Int /\ CountPerOp < Half
        /\ Lag \in Int /\ Lag < Half
    BY Numbers
  <2> QED BY <1>3, <1>6, <1>8, <2>1
<1>12. Tidy(e.q, e.count, m) /\ AllBounded(e.q, value)
  BY <1>3 DEF OnTime, Timed, m
<1> HIDE DEF left, value
<1>13. /\ Timed(f.q, f.count, value) /\ f.cycle = -f.q[1].left /\ Held(e, f)
  <2> HIDE DEF f
  <2> QED BY <1>3, <1>4, <1>9, <1>10, <1>11, <1>12, AddCompareTimed DEF f
<1>14. f \in Cores
  BY <1>4, <1>9, AddCompare DEF Adds, Sound
<1> HIDE DEF f
<1>15. OnTime(f)
  BY <1>13 DEF OnTime, Held, value
<1>16. Still(f, d)
  BY <1>1, <1>14, MaskableStill
<1> QED BY <1>4, <1>13, <1>15, <1>16, StillOnTime DEF Held, Still

(* The multiple of Half that follows the one just passed. *)
LEMMA NextHalf ==
  ASSUME Regime, NEW now \in 0..(W-1), NEW v \in Int, -Half < v, v <= 0,
         NEW date \in {0, Half}, Due(date, now, v),
         NEW count, count = IF now < Half THEN Half ELSE 0
  PROVE  (count - now) % W = Half + v /\ Due(count, now, Half + v)
<1>0. W \in Int /\ Half \in Int /\ W = 2 * Half /\ Half > 0 /\ now \in Int
  BY Numbers
<1>1. date = (now + v) % W
  BY DEF Due
<1>2. CASE now + v < 0
  <2>1. now + v + W \in 0..(W-1) /\ now + v = (now + v + W) + (-1) * W /\ now + v \in Int /\ -1 \in Int
    BY <1>0, <1>2
  <2> DEFINE x == now + v
             y == now + v + W
  <2>2. x \in Int /\ y \in 0..(W-1) /\ x = y + (-1) * W
    BY <2>1
  <2> HIDE DEF x, y
  <2>3. x % W = y
    BY <2>1, <2>2, Remainder
  <2>4. date = now + v + W
    BY <1>1, <2>3 DEF x, y
  <2> QED BY <1>0, <1>2, <2>4
<1>3. CASE now + v >= 0
  <2> DEFINE x == now + v
  <2>1. x \in Int /\ x \in 0..(W-1) /\ x = x + 0 * W
    BY <1>0, <1>3
  <2> HIDE DEF x
  <2>2. x % W = x
    BY <2>1, Remainder
  <2>3. now + v = date
    BY <1>1, <2>2 DEF x
  <2> DEFINE u == count - now
             w == Half + v
             z == now + (Half + v)
  <2>4. w \in 0..(W-1)
    BY <1>0
  <2>5. u \in Int /\ \E k \in Int : u = w + k * W
    <3>1. CASE date = 0
      <4>1. now = -v /\ count = Half
        BY <1>0, <2>3, <3>1
      <4>2. u = w + 0 * W /\ u \in Int
        BY <1>0, <4>1
      <4> QED BY <4>2
    <3>2. CASE date = Half
      <4>1. now = Half - v /\ count = 0
        BY <1>0, <2>3, <3>2
      <4>2. u = w + (-1) * W /\ u \in Int /\ -1 \in Int
        BY <1>0, <4>1
      <4> QED BY <4>2
    <3> QED BY <3>1, <3>2
  <2>6. z \in Int /\ count \in 0..(W-1) /\ \E k \in Int : z = count + k * W
    <3>1. CASE date = 0
      <4>1. now = -v /\ count = Half
        BY <1>0, <2>3, <3>1
      <4>2. z = count + 0 * W /\ z \in Int /\ count \in 0..(W-1)
        BY <1>0, <4>1
      <4> QED BY <4>2
    <3>2. CASE date = Half
      <4>1. now = Half - v /\ count = 0
        BY <1>0, <2>3, <3>2
      <4>2. z = count + 1 * W /\ z \in Int /\ count \in 0..(W-1)
        BY <1>0, <4>1
      <4> QED BY <4>2
    <3> QED BY <3>1, <3>2
  <2> HIDE DEF u, w, z
  <2>7. u % W = w
    BY <2>4, <2>5, Remainder
  <2>8. z % W = count
    BY <2>6, Remainder
  <2> QED BY <2>7, <2>8 DEF Due, u, w, z
<1> QED BY <1>0, <1>2, <1>3

(* SPECIAL_INT: half a period after this one was due. *)
LEMMA SpecialOnTime ==
  ASSUME Regime, NEW c, Good(c), DueFirst(c), c.q[1].type = "SPECIAL",
         NEW d, d = special_int_handler(c)
  PROVE  OnTime(d) /\ d.fired = c.fired
<1> DEFINE e == remove_interrupt_event(c)
           count == SpecialCount(e)
           v == c.q[1].left
           m == e.q[1].left
           left == Half + v
<1>0. /\ c \in Cores /\ c.q \in Seq(Events) /\ Len(c.q) >= 2 /\ Len(c.q) \in Nat /\ c.count \in Int
      /\ c.count \in 0..(W-1) /\ Sound(c) /\ c.q # << >>
  BY TwoTimers, CoreFields
<1>1. /\ Timed(c.q, c.count, c.compare) /\ Timely(c.q, 0) /\ Spread(c.q) /\ ~c.skip_jump
      /\ c.q[1].left <= 0 /\ Timed(Tail(c.q), c.count, c.compare)
  BY DEF DueFirst
<1>2. /\ e.q = Tail(c.q) /\ e.count = c.count /\ Held(c, e) /\ Sound(e) /\ e.index < Capacity
      /\ e.q # << >>
  BY PopShape
<1>3. m = c.q[2].left
  BY <1>0, <1>2, TailParts
<1>4. Short(e.q)
  BY <1>0, <1>1, <1>2, TailTimed
<1>5. /\ v \in Int /\ m \in Int /\ -Lag <= v /\ v <= 0 /\ v <= m /\ m < v + W
      /\ Due(c.q[1].count, c.count, v) /\ Due(c.q[2].count, c.count, m)
      /\ c.q[1].count \in {0, Half} /\ (c.q[2].count - c.q[1].count) % W <= Half
      /\ c.q[1].count \in Int /\ c.q[2].count \in Int
  <2>1. 1 \in 1..Len(c.q) /\ 2 \in 1..Len(c.q)
    BY <1>0
  <2>2. v \in Int /\ -Lag <= v /\ m \in Int
    BY <1>0, <1>1, <1>3, <2>1, TimelyNow
  <2>3. Due(c.q[1].count, c.count, v) /\ Due(c.q[2].count, c.count, m) /\ v <= m
    BY <1>1, <1>3, <2>1 DEF Timed, Tidy, Dated, Ordered
  <2>4. c.q[1].count \in {0, Half}
    BY <1>1, <2>1 DEF Timed, AllBounded, Bounded
  <2>5. m < v + W
    BY <1>1, <1>3, <2>1 DEF Timed, Tidy, Within
  <2>6. (c.q[2].count - c.q[1].count) % W <= Half
    BY <1>1 DEF Spread
  <2>7. c.q[1].count \in Int /\ c.q[2].count \in Int
    BY <1>0, <2>1, EventFields, WAssumption
  <2> QED BY <1>1, <2>2, <2>3, <2>4, <2>5, <2>6, <2>7
<1> HIDE DEF v
<1>6. W \in Int /\ Half \in Int /\ W = 2 * Half /\ Lag \in Int /\ Lag < Half
  BY Numbers
<1> HIDE DEF e, m
<1>7. m <= Half + v
  <2> DEFINE x == c.q[2].count
             y == c.q[1].count
             now == c.count
  <2>1. PICK k \in Int : (now + v) % W = now + v + k * W
    <3> DEFINE z == now + v
    <3>1. z \in Int
      BY <1>0, <1>5
    <3> HIDE DEF z
    <3>2. \E i \in Int : z % W = z + i * W
      BY <3>1, ModPeriods
    <3> QED BY <3>2 DEF z
  <2>2. y = now + v + k * W /\ x \in Int /\ y \in Int /\ now \in Int
    BY <1>0, <1>5, <2>1 DEF Due
  <2>3. Due(x, now, m) /\ (x - y) % W <= Half
    BY <1>5
  <2> HIDE DEF x, y, now
  <2>4. (x - (now + v)) % W = m - v
    BY <1>5, <2>2, <2>3, Distance
  <2> DEFINE a == x - y
             b == x - (now + v)
  <2>5. a \in Int /\ b \in Int /\ -k \in Int /\ a = b + (-k) * W
    BY <1>5, <1>6, <2>2
  <2> HIDE DEF a, b
  <2>6. a % W = b % W
    BY <2>5, PeriodsMod
  <2>7. m - v <= Half
    BY <2>3, <2>4, <2>6 DEF a, b
  <2> QED BY <1>5, <1>6, <2>7
<1>8. OnTime(e) /\ ~e.skip_jump /\ -Lag <= m
  <2>1. -Lag <= m /\ m <= Half
    BY <1>5, <1>6, <1>7
  <2>2. OnTime(e)
    BY <1>1, <1>2, <2>1, PopOnTime DEF e, m
  <2> QED BY <1>1, <1>2, <2>1, <2>2 DEF Held
<1>9. (count - c.count) % W = left /\ Due(count, c.count, left)
  <2>1. count = IF c.count < Half THEN Half ELSE 0
    BY <1>2 DEF SpecialCount
  <2>2. -Half < v
    BY <1>5, <1>6
  <2> DEFINE now == c.count
             date == c.q[1].count
  <2>3. now \in 0..(W-1) /\ date \in {0, Half} /\ Due(date, now, v)
    BY <1>0, <1>5
  <2> HIDE DEF now, date, count
  <2>4. (count - now) % W = Half + v /\ Due(count, now, Half + v)
    BY <1>5, <2>1, <2>2, <2>3, NextHalf DEF now
  <2> QED BY <2>4 DEF now
<1>10. count \in {0, Half} /\ count \in 0..(W-1)
  BY HalfType, WAssumption DEF SpecialCount
<1>11. d = add_interrupt_event_count(e, "SPECIAL", count, left)
  BY <1>2, <1>9 DEF special_int_handler, add_special_event, e
<1>12. left \in Int /\ 0 <= left /\ left + Lag < W /\ left <= Half /\ left <= W
  BY <1>5, <1>6
<1> HIDE DEF left, count
<1>13. "SPECIAL" \in Types
  BY DEF Types
<1>14. Bounded(Event("SPECIAL", count, left), e.compare)
  <2> DEFINE x == Event("SPECIAL", count, left)
  <2>1. x.type = "SPECIAL" /\ x.left = left /\ x.count = count
    BY <1>10, <1>12, <1>13, EventParts
  <2> HIDE DEF x
  <2>2. Bounded(x, e.compare)
    BY <1>10, <1>12, <2>1 DEF Bounded
  <2> QED BY <2>2 DEF x
<1>15. ~None(d.q, "SPECIAL")
  <2>1. None(e.q, "SPECIAL")
    <3>1. Once(c.q, "SPECIAL")
      BY DEF Good, Timers
    <3> QED BY <1>0, <3>1, PopEvent DEF e
  <2>2. Adds(e, d, "SPECIAL")
    BY <1>2, <1>10, <1>11, <1>12, <1>13, AddEvent, Zenon
  <2>3. Once(d.q, "SPECIAL")
    BY <1>2, <2>1, <2>2 DEF Adds
  <2> QED BY <2>3, OncePresent
<1>16. OnTime(d) /\ Held(e, d)
  <2>1. Due(count, e.count, left) /\ -Lag <= e.q[1].left
    BY <1>2, <1>8, <1>9 DEF m
  <2> QED BY <1>2, <1>4, <1>8, <1>10, <1>11, <1>12, <1>13, <1>14, <1>15, <2>1, AddOnTime
<1> QED BY <1>2, <1>16 DEF Held

(* The handler of the first event, whatever its type. *)
LEMMA DispatchOnTime ==
  ASSUME Regime, NEW c, Good(c), DueFirst(c), NEW type, type = c.q[1].type, NEW env \in Env,
         NEW d, d = Dispatch(c, type, env)
  PROVE  OnTime(d) /\ d.fired = c.fired
<1> DEFINE g == remove_interrupt_event(c)
<1>0. type \in Types /\ env.unmasked \in BOOLEAN /\ DDTypes = {} /\ type # "NMI"
  <2>1. type \in Types /\ env.unmasked \in BOOLEAN /\ DDTypes = {}
    BY GoodHead DEF Env, Regime
  <2>2. 1 \in 1..Len(c.q)
    BY TwoTimers, LenProperties
  <2>3. type # "NMI"
    BY <2>2 DEF DueFirst, Timed, AllBounded, Bounded
  <2> QED BY <2>1, <2>3
<1>1. ASSUME type # "SPECIAL" PROVE OnTime(g)
  BY <1>1, PopDue
<1>2. g.fired = c.fired /\ g \in Cores
  BY PopShape DEF Held, Sound
<1>3. ASSUME type # "SPECIAL", Still(g, d) PROVE OnTime(d) /\ d.fired = c.fired
  BY <1>1, <1>2, <1>3, StillOnTime DEF Still
<1>4. CASE type \in DeviceTypes
  <2>1. type \notin {"SPECIAL", "COMPARE", "CHECK", "VI", "HW2", "NMI"}
    BY <1>4, TypesAssumption
  <2>2. d = raise_rcp_interrupt(g, env.unmasked)
    <3>1. type \notin DDTypes
      BY <1>0
    <3> QED BY <1>4, <2>1, <3>1 DEF Dispatch
  <2> HIDE DEF g
  <2>3. Still(g, d)
    BY <1>0, <1>2, <2>2, RcpStill
  <2> QED BY <1>3, <2>1, <2>3
<1>5. CASE type \notin DeviceTypes \cup DDTypes
  <2>1. CASE type = "VI"
    <3>1. d = vi_vertical_interrupt_event(c, env)
      BY <1>5, <2>1 DEF Dispatch
    <3> QED BY <2>1, <3>1, VIOnTime
  <2>2. CASE type = "COMPARE"
    <3>1. d = compare_int_handler(g)
      BY <1>5, <2>2 DEF Dispatch
    <3> QED BY <2>2, <3>1, CompareOnTime
  <2>3. CASE type = "CHECK"
    <3>1. d = exception_general(g)
      BY <1>5, <2>3 DEF Dispatch, check_int_handler
    <3> HIDE DEF g
    <3>2. Still(g, d)
      BY <1>2, <3>1, ExceptionStill
    <3> QED BY <1>3, <2>3, <3>2
  <2>4. CASE type = "SPECIAL"
    <3>1. d = special_int_handler(c)
      BY <1>5, <2>4 DEF Dispatch
    <3> QED BY <2>4, <3>1, SpecialOnTime
  <2>5. CASE type = "HW2"
    <3>1. d = raise_maskable_interrupt(g, "IP4") /\ "IP4" \in Lines
      BY <1>5, <2>5 DEF Dispatch, hw2_int_handler, Lines
    <3> HIDE DEF g
    <3>2. Still(g, d)
      BY <1>2, <3>1, MaskableStill
    <3> QED BY <1>3, <2>5, <3>2
  <2> QED BY <1>0, <1>5, <2>1, <2>2, <2>3, <2>4, <2>5 DEF Types
<1> QED BY <1>0, <1>4, <1>5

(* Servicing an event that is due. *)
LEMMA ServiceOnTime ==
  ASSUME Regime, NEW c, Good(c), DueFirst(c), c.fired = << >>, NEW env \in Env,
         NEW d, d = Service(c, env)
  PROVE  OnTime(d) /\ NoneEarly(d)
<1> DEFINE fired == Append(c.fired, c.q[1])
           f == [c EXCEPT !.fired = fired]
<1>0. c \in Cores /\ c.q[1] \in Events /\ c.fired \in Seq(Events)
  BY GoodHead DEF Cores
<1>1. fired \in Seq(Events) /\ fired = << c.q[1] >>
  BY <1>0
<1>2. d = Dispatch(f, c.q[1].type, env)
  BY DEF Service, Regime
<1> HIDE DEF fired
<1>3. Same(c, f)
  BY <1>0, <1>1, SetFired
<1>4. f.q = c.q /\ f.count = c.count /\ f.compare = c.compare /\ f.skip_jump = c.skip_jump /\ f.fired = fired
  BY <1>0, <1>1 DEF Cores
<1> HIDE DEF f
<1>5. Good(f) /\ DueFirst(f)
  BY <1>3, <1>4, SameGood DEF DueFirst
<1>6. OnTime(d) /\ d.fired = << c.q[1] >>
  BY <1>1, <1>2, <1>4, <1>5, DispatchOnTime
<1>7. c.q[1].left <= 0
  BY DEF DueFirst
<1> QED BY <1>6, <1>7 DEF NoneEarly

-----------------------------------------------------------------------------
(* Resets and gen_interrupt *)

(* Power on queues the two timers at their times. *)
LEMMA InitOnTime ==
  ASSUME Regime, NEW c \in Cores, c.count = PowerOnCount, c.cycle = 0, c.compare = 0,
         ~c.skip_jump, NEW d, d = init_interrupt(c)
  PROVE  OnTime(d) /\ Held(c, d) /\ d.count = c.count
<1> DEFINE now == c.count
           e == clear_queue(c)
           left1 == (Half - now) % W
           left2 == (0 - now) % W
           f == add_interrupt_event_count(e, "SPECIAL", Half, left1)
<1>0. /\ now \in Int /\ now >= 0 /\ now < Half /\ W \in Int /\ Half \in Int /\ W = 2 * Half
      /\ Lag \in Int /\ Lag >= 0 /\ Lag < Half
  BY Numbers
<1>1. Sound(e) /\ Frame(c, e) /\ e.q = << >> /\ e.index = 0
  BY ClearQueue, Zenon
<1>2. e.count = now /\ e.cycle = 0 /\ Held(c, e)
  BY DEF clear_queue, Cores, Held
<1>3. left1 = Half - now /\ left1 \in Int
  <2> DEFINE x == Half - now
  <2>1. x \in Int /\ x \in 0..(W-1) /\ x = x + 0 * W
    BY <1>0
  <2> HIDE DEF x
  <2>2. x % W = x
    BY <2>1, Remainder
  <2> QED BY <2>1, <2>2 DEF x
<1>4. left2 \in 0..(W-1) /\ left2 \in Int /\ Due(0, now, left2)
  <2> DEFINE x == 0 - now
             z == x % W
             y == now + z
  <2>1. x \in Int /\ x = 0 - now
    BY <1>0
  <2>2. left2 = z
    OBVIOUS
  <2> HIDE DEF x, left2
  <2>3. \E k \in Int : z = x + k * W
    BY <2>1, ModPeriods
  <2>4. z \in 0..(W-1)
    BY <2>1, ModType
  <2> HIDE DEF z
  <2>5. z \in Int /\ y \in Int /\ 0 \in 0..(W-1)
    BY <1>0, <2>4
  <2>6. PICK k \in Int : z = x + k * W
    BY <2>3
  <2>7. y = 0 + k * W
    BY <1>0, <2>1, <2>5, <2>6
  <2> HIDE DEF y
  <2>8. y % W = 0
    BY <2>5, <2>7, Remainder
  <2>9. (now + left2) % W = 0
    BY <2>2, <2>8 DEF y
  <2> QED BY <2>2, <2>4, <2>5, <2>9 DEF Due
<1>5. d = add_interrupt_event_count(f, "COMPARE", 0, left2)
  BY DEF init_interrupt
<1> HIDE DEF e
<1>6. Adds(e, f, "SPECIAL") /\ "SPECIAL" \in Types /\ "COMPARE" \in Types /\ Half \in 0..(W-1) /\ 0 \in 0..(W-1)
  <2>1. "SPECIAL" \in Types /\ "COMPARE" \in Types /\ Half \in 0..(W-1) /\ 0 \in 0..(W-1)
    BY HalfType, WAssumption DEF Types
  <2> HIDE DEF left1
  <2> QED BY <1>1, <1>3, <2>1, AddEvent, Zenon
<1>7. Due(Half, now, left1)
  <2> DEFINE x == now + left1
  <2>1. x = Half + 0 * W /\ x \in Int
    BY <1>0, <1>3
  <2> HIDE DEF x
  <2>2. x % W = Half
    BY <1>6, <2>1, Remainder
  <2> QED BY <2>2 DEF x, Due
<1> HIDE DEF left1, left2, now
<1> DEFINE b == 0
<1>8. Origin(e, now, b) /\ b \in Int
  <2>1. (IF e.cycle > 0 THEN e.count - e.cycle ELSE e.count) = now + b + 0 * W
    BY <1>0, <1>2
  <2> QED BY <2>1 DEF Origin
<1>9. Tidy(e.q, now, b) /\ AllBounded(e.q, 0)
  BY <1>1 DEF Tidy, Dated, Ordered, Within, AllBounded
<1>10. b <= left1 /\ left1 < b + W /\ b <= left2 /\ left2 < b + W /\ -Lag <= b
  BY <1>0, <1>3, <1>4
<1> HIDE DEF b
<1>11. Bounded(Event("SPECIAL", Half, left1), 0) /\ Bounded(Event("COMPARE", 0, left2), 0)
  <2> DEFINE x == Event("SPECIAL", Half, left1)
             y == Event("COMPARE", 0, left2)
  <2>1. /\ x.type = "SPECIAL" /\ x.count = Half /\ x.left = left1
        /\ y.type = "COMPARE" /\ y.count = 0 /\ y.left = left2
    BY <1>3, <1>4, <1>6, EventParts
  <2> HIDE DEF x, y
  <2>2. left1 <= Half /\ left1 <= W /\ left1 + Lag < W /\ left2 <= W
    BY <1>0, <1>3, <1>4
  <2>3. Bounded(x, 0)
    BY <2>1, <2>2 DEF Bounded
  <2>4. Bounded(y, 0)
    BY <2>1, <2>2 DEF Bounded
  <2> QED BY <2>3, <2>4 DEF x, y
<1>12. /\ Tidy(f.q, now, b) /\ AllBounded(f.q, 0) /\ f.cycle = Signed(e.count - f.q[1].count)
       /\ f.count = now /\ Held(e, f)
  <2>1. e.index < Capacity
    BY <1>1, CapacityAssumption
  <2> DEFINE g == f
  <2>2. g = add_interrupt_event_count(e, "SPECIAL", Half, left1)
    OBVIOUS
  <2> HIDE DEF g, f
  <2>3. /\ Tidy(g.q, now, b)
        /\ \A compare : AllBounded(e.q, compare) /\ Bounded(Event("SPECIAL", Half, left1), compare)
                           => AllBounded(g.q, compare)
        /\ g.cycle = Signed(e.count - g.q[1].count) /\ g.count = e.count /\ Held(e, g)
    <3> DEFINE h == Half
    <3>1. h \in 0..(W-1) /\ Due(h, now, left1) /\ g = add_interrupt_event_count(e, "SPECIAL", h, left1)
      BY <1>6, <1>7, <2>2
    <3>2. now \in Int
      BY <1>0
    <3> HIDE DEF h
    <3>3. /\ Tidy(g.q, now, b)
          /\ \A compare : AllBounded(e.q, compare) /\ Bounded(Event("SPECIAL", h, left1), compare)
                             => AllBounded(g.q, compare)
          /\ g.cycle = Signed(e.count - g.q[1].count) /\ g.count = e.count /\ Held(e, g)
      BY <1>1, <1>3, <1>6, <1>8, <1>9, <1>10, <2>1, <3>1, <3>2, AddTidy
    <3> QED BY <3>3 DEF h
  <2> QED BY <1>2, <1>9, <1>11, <2>3 DEF g
<1> HIDE DEF f
<1>13. Sound(f) /\ f \in Cores /\ f.q \in Seq(Events) /\ f.index < Capacity /\ ~None(f.q, "SPECIAL")
  <2>1. None(e.q, "SPECIAL")
    BY <1>1 DEF None
  <2>2. Once(f.q, "SPECIAL") /\ Sound(f) /\ f.index < Capacity
    BY <1>1, <1>6, <2>1, CapacityAssumption DEF Adds
  <2>3. ~None(f.q, "SPECIAL")
    BY <2>2, OncePresent
  <2> QED BY <2>2, <2>3, CoreFields DEF Sound
<1>14. Origin(f, now, b)
  <2>1. /\ f.cycle = -f.q[1].left /\ b <= f.q[1].left /\ f.q[1].left \in Int
    BY <1>0, <1>2, <1>8, <1>10, <1>12, <1>13, FirstDistance
  <2>2. (IF f.cycle > 0 THEN f.count - f.cycle ELSE f.count) = now + b + 0 * W
    BY <1>0, <1>12, <2>1 DEF b
  <2> QED BY <2>2 DEF Origin
<1>15. /\ Tidy(d.q, now, b) /\ Tidy(d.q, now, d.q[1].left) /\ AllBounded(d.q, 0)
       /\ d.cycle = Signed(f.count - d.q[1].count) /\ d.count = now /\ Held(f, d)
  <2>1. /\ Tidy(d.q, now, b) /\ Tidy(d.q, now, d.q[1].left)
        /\ \A compare : AllBounded(f.q, compare) /\ Bounded(Event("COMPARE", 0, left2), compare)
                           => AllBounded(d.q, compare)
        /\ d.cycle = Signed(f.count - d.q[1].count) /\ d.count = f.count /\ Held(f, d)
    <3> DEFINE z == 0
    <3>1. /\ z \in 0..(W-1) /\ Due(z, now, left2) /\ now \in Int
          /\ d = add_interrupt_event_count(f, "COMPARE", z, left2)
      BY <1>0, <1>4, <1>5, <1>6
    <3> HIDE DEF z
    <3>2. /\ Tidy(d.q, now, b) /\ Tidy(d.q, now, d.q[1].left)
          /\ \A compare : AllBounded(f.q, compare) /\ Bounded(Event("COMPARE", z, left2), compare)
                             => AllBounded(d.q, compare)
          /\ d.cycle = Signed(f.count - d.q[1].count) /\ d.count = f.count /\ Held(f, d)
      BY <1>4, <1>6, <1>8, <1>10, <1>12, <1>13, <1>14, <3>1, AddTidy
    <3> QED BY <3>2 DEF z
  <2> QED BY <1>11, <1>12, <2>1
<1>16. Adds(f, d, "COMPARE")
  BY <1>4, <1>5, <1>6, <1>13, AddEvent, Zenon
<1>17. d.q \in Seq(Events) /\ ~None(d.q, "SPECIAL")
  BY <1>13, <1>16, CoreFields DEF Adds, Sound
<1>18. Signed(now - d.q[1].count) = -d.q[1].left
  BY <1>0, <1>8, <1>10, <1>15, <1>17, FirstDistance
<1> QED BY <1>2, <1>12, <1>15, <1>18 DEF OnTime, Timed, Held, now

(* Power on, and the hard reset. *)
LEMMA PowerOnOnTime ==
  ASSUME Regime, NEW c \in Cores, NEW d, d = poweron_r4300(c)
  PROVE  OnTime(d) /\ d.fired = c.fired
<1> DEFINE a == Boot(c, FALSE, {}, {}, FALSE, PowerOnCount)
           b == Reset(a, 0, 0, 0, FALSE, FALSE)
<1>1. /\ {} \in SUBSET Lines /\ 0 \in 0..(W-1) /\ 0 \in Int /\ FALSE \in BOOLEAN
      /\ PowerOnCount \in 0..(W-1)
  BY WAssumption, CountsAssumption
<1>2. a \in Cores /\ a.count = PowerOnCount /\ a.fired = c.fired
  <2>1. a \in Cores
    BY <1>1, BootType
  <2>2. a.count = PowerOnCount /\ a.fired = c.fired
    BY <1>1 DEF Boot, Cores
  <2> QED BY <2>1, <2>2
<1>3. d = init_interrupt(b)
  BY DEF poweron_r4300, Boot, Reset
<1> HIDE DEF a
<1>4. /\ b \in Cores /\ b.count = PowerOnCount /\ b.cycle = 0 /\ b.compare = 0
      /\ ~b.skip_jump /\ b.fired = c.fired
  <2>1. b \in Cores
    BY <1>1, <1>2, ResetType
  <2>2. /\ ~b.skip_jump /\ b.count = a.count /\ b.cycle = 0 /\ b.compare = 0
        /\ b.fired = a.fired
    BY <1>1, <1>2 DEF Reset, Cores
  <2> QED BY <1>2, <2>1, <2>2
<1> HIDE DEF b
<1> QED BY <1>3, <1>4, InitOnTime DEF Held

(* gen_interrupt services an event that is due, or skips a jump and looks  *)
(* at the queue again.                                                     *)
LEMMA GenOnTime ==
  ASSUME Regime, NEW c, Good(c), c.fired = << >>, c.job # "load",
         NEW env \in Env, NEW safe \in BOOLEAN,
         c.skip_jump => OnTime(c) /\ Timely(c.q, 0),
         ~c.skip_jump => DueFirst(c),
         NEW d, d = gen_interrupt(c, env, safe)
  PROVE  OnTime(d) /\ NoneEarly(d)
<1>0. c \in Cores /\ c.q \in Seq(Events) /\ Len(c.q) >= 2 /\ c.count \in Int /\ ~None(c.q, "SPECIAL")
  BY TwoTimers
<1>1. CASE safe /\ c.reset_hard_job
  <2>1. d = poweron_r4300(c)
    BY <1>1 DEF gen_interrupt, reset_hard_handler
  <2>2. OnTime(d) /\ d.fired = << >>
    BY <1>0, <2>1, PowerOnOnTime
  <2> QED BY <2>2 DEF NoneEarly
<1>2. CASE ~(safe /\ c.reset_hard_job) /\ c.skip_jump
  <2> DEFINE next == c.q[1].count
             cycle == Signed(c.count - c.q[1].count)
             b == c.q[1].left
  <2>1. d = WithSkip(c, FALSE, next, cycle)
    BY <1>2 DEF gen_interrupt, skip_the_jump, WithSkip
  <2>2. Tidy(c.q, c.count, b) /\ AllBounded(c.q, c.compare)
    BY <1>2 DEF OnTime, Timed
  <2>3. b \in Int /\ -Lag <= b
    BY <1>0, <1>2, TimelyNow
  <2>4. cycle = -b
    <3> HIDE DEF b
    <3>1. Signed(c.count - c.q[1].count) = -c.q[1].left
      BY <1>0, <2>2, <2>3, FirstDistance
    <3> QED BY <3>1 DEF b
  <2> HIDE DEF next, cycle
  <2>5. /\ ~d.skip_jump /\ d.cycle = cycle /\ d.q = c.q /\ d.count = c.count
        /\ d.compare = c.compare /\ d.fired = c.fired
    BY <1>0, <2>1 DEF WithSkip, Cores
  <2> QED BY <2>2, <2>4, <2>5 DEF OnTime, Timed, NoneEarly
<1>3. CASE ~(safe /\ c.reset_hard_job) /\ ~c.skip_jump
  <2> DEFINE e == Service(c, env)
  <2>1. OnTime(e) /\ NoneEarly(e)
    BY <1>3, ServiceOnTime
  <2>2. e \in Cores
    BY ServiceGood, GoodHead
  <2>3. d = savestates_save(e) \/ d = e
    BY <1>3 DEF gen_interrupt
  <2> HIDE DEF e
  <2>4. CASE d = savestates_save(e)
    <3>1. Still(e, d)
      BY <2>2, <2>4, SaveStill
    <3>2. OnTime(d) /\ d.fired = e.fired
      BY <2>1, <3>1, StillOnTime DEF Still
    <3> QED BY <2>1, <3>2 DEF NoneEarly
  <2> QED BY <2>1, <2>3, <2>4
<1> QED BY <1>1, <1>2, <1>3

(* If cycle_count says that an event is due, the first one is. *)
LEMMA FirstDue ==
  ASSUME Regime, NEW c, Good(c), OnTime(c), Timely(c.q, 0), Apart(c.q), Spread(c.q),
         c.cycle >= 0, ~c.skip_jump
  PROVE  DueFirst(c)
<1>0. c \in Cores /\ c.q \in Seq(Events) /\ Len(c.q) >= 2 /\ c.count \in Int
  BY TwoTimers
<1>1. Timed(c.q, c.count, c.compare) /\ c.cycle = -c.q[1].left
  BY DEF OnTime
<1>2. Timed(Tail(c.q), c.count, c.compare) /\ c.q[1].left \in Int
  BY <1>0, <1>1, TailTimed
<1>3. c.q[1].left <= 0
  BY <1>1, <1>2
<1>4. Timely(Tail(c.q), 0)
  <2>1. /\ Len(Tail(c.q)) = Len(c.q) - 1 /\ Len(c.q) \in Nat
        /\ \A j \in 1..(Len(c.q)-1) : Tail(c.q)[j] = c.q[j+1]
    BY <1>0, TailParts
  <2> QED BY <2>1 DEF Timely
<1> QED BY <1>1, <1>2, <1>3, <1>4 DEF DueFirst

(* The test of cycle_count and the call it guards. *)
LEMMA GenIfDueOnTime ==
  ASSUME Regime, NEW c, Good(c), c.fired = << >>, c.job # "load",
         OnTime(c), Timely(c.q, 0), Apart(c.q), Spread(c.q),
         NEW env \in Env, NEW safe \in BOOLEAN, NEW d, d = GenIfDue(c, env, safe)
  PROVE  OnTime(d) /\ NoneEarly(d)
<1>1. CASE c.cycle >= 0
  <2>1. d = gen_interrupt(c, env, safe)
    BY <1>1 DEF GenIfDue
  <2>2. ~c.skip_jump => DueFirst(c)
    BY <1>1, FirstDue
  <2> QED BY <2>1, <2>2, GenOnTime
<1>2. CASE ~(c.cycle >= 0)
  <2>1. d = c
    BY <1>2 DEF GenIfDue
  <2> QED BY <2>1 DEF NoneEarly
<1> QED BY <1>1, <1>2

-----------------------------------------------------------------------------
(* The instructions *)

(* A core that may call gen_interrupt. *)
Prepared(c) ==
    /\ Good(c) /\ OnTime(c) /\ Timely(c.q, 0) /\ Apart(c.q) /\ Spread(c.q)
    /\ c.fired = << >> /\ c.job # "load"

(* An instruction that sets control fields only leaves it prepared. *)
LEMMA SetPrepared ==
  ASSUME NEW c, Prepared(c), NEW d, Same(c, d), Still(c, d), d.job = c.job
  PROVE  Prepared(d)
BY SameGood, StillOnTime DEF Prepared, Still

(* Time passes. *)
LEMMA UpdatePrepared ==
  ASSUME Regime, NEW c, Prepared(c), NEW n \in Nat, Timely(c.q, n),
         NEW d, d = cp0_update_count(c, n)
  PROVE  /\ Prepared(d) /\ Held(c, d) /\ (n > 0 => Short(d.q))
         /\ d.q[1].left = c.q[1].left - n /\ d.count = (c.count + n) % W
<1>1. /\ OnTime(d) /\ Timely(d.q, 0) /\ (n > 0 => Short(d.q)) /\ Held(c, d)
      /\ Apart(c.q) => Apart(d.q)
      /\ Spread(c.q) => Spread(d.q)
      /\ d.q[1].left = c.q[1].left - n /\ d.count = (c.count + n) % W
  BY UpdateOnTime DEF Prepared
<1>2. n \in Int /\ Good(c)
  BY DEF Prepared
<1>3. Good(d) /\ d.job = c.job
  BY <1>2, UpdateCount, UpdateMoves DEF Kept
<1> QED BY <1>1, <1>3 DEF Prepared, Held

(* The core in front of every step of the guest. *)
LEMMA NowPrepared ==
  ASSUME Regime, Inv, SkipInv, TimeInv, Regular
  PROVE  /\ Prepared(Now) /\ Now \in Cores /\ ~r4300.loading
         /\ \A n \in Steps \cup IdleSteps \cup {0} : n \in Nat /\ Timely(Now.q, n)
         /\ phase # "done" => ~Now.skip_jump
         /\ Now.count = r4300.count /\ Now.cycle = r4300.cycle /\ Now.line = r4300.line
         /\ Now.q = r4300.q
<1>1. ~r4300.loading /\ r4300.job # "load" /\ (phase # "done" => ~r4300.skip_jump)
  BY DEF SkipInv
<1>2. Good(Now) /\ Now \in Cores /\ r4300 \in Cores
  BY <1>1, NowMoves
<1>3. /\ Now.q = r4300.q /\ Now.count = r4300.count /\ Now.cycle = r4300.cycle
      /\ Now.compare = r4300.compare /\ Now.skip_jump = r4300.skip_jump
      /\ Now.job = r4300.job /\ Now.line = r4300.line /\ Now.fired = << >>
  BY <1>2 DEF Now, Cores
<1>4. OnTime(Now)
  BY <1>3 DEF TimeInv, OnTime
<1>5. \A n \in Steps \cup IdleSteps \cup {0} : n \in Nat
  BY CountsAssumption
<1>6. /\ Apart(Now.q) /\ Spread(Now.q)
      /\ \A n \in Steps \cup IdleSteps \cup {0} : Timely(Now.q, n)
  BY <1>3 DEF Regular
<1>7. Timely(Now.q, 0)
  BY <1>6
<1> HIDE DEF Now
<1>8. Prepared(Now)
  BY <1>1, <1>2, <1>3, <1>4, <1>6, <1>7 DEF Prepared
<1> QED BY <1>1, <1>2, <1>3, <1>5, <1>6, <1>8

(* A step that services nothing. *)
LEMMA QuietStep ==
  ASSUME NEW d, r4300' = d, OnTime(d), d.fired = << >>
  PROVE  TimeInv'
BY DEF TimeInv, NoneEarly

(* A step that may have serviced an event. *)
LEMMA ServiceStep ==
  ASSUME NEW d, r4300' = d, OnTime(d), NoneEarly(d)
  PROVE  TimeInv'
BY DEF TimeInv

(* ScheduleEvent *)
LEMMA ScheduleOnTime ==
  ASSUME Regime, Inv, SkipInv, TimeInv, Regular,
         NEW type \in Sources, NEW n \in Steps, NEW delay \in Delays \cup {VIDelay},
         ScheduleEvent(type, n, delay)
  PROVE  TimeInv'
<1> DEFINE c == cp0_update_count(Now, n)
           count == (c.count + delay) % W
           d == add_interrupt_event_count(c, type, count, delay)
<1>0. r4300' = d /\ phase # "done"
  BY DEF ScheduleEvent, Instruction, add_interrupt_event
<1>1. n \in Nat /\ n > 0 /\ Timely(Now.q, n) /\ Prepared(Now) /\ ~Now.skip_jump
  <2>1. n \in Nat /\ Timely(Now.q, n) /\ Prepared(Now) /\ ~Now.skip_jump
    BY <1>0, NowPrepared
  <2>2. n # 0
    BY DEF Regime
  <2> QED BY <2>1, <2>2
<1>2. Prepared(c) /\ Held(Now, c) /\ Short(c.q)
  BY <1>1, UpdatePrepared
<1> HIDE DEF c
<1>3. /\ Sound(c) /\ c.q # << >> /\ OnTime(c) /\ ~c.skip_jump /\ c.fired = << >>
      /\ c.count \in Int /\ -Lag <= c.q[1].left /\ ~None(c.q, "SPECIAL")
  <2>1. /\ Sound(c) /\ c.q # << >> /\ c.q \in Seq(Events) /\ Len(c.q) >= 2 /\ c.count \in Int
        /\ ~None(c.q, "SPECIAL")
    BY <1>2, TwoTimers DEF Prepared
  <2>2. -Lag <= c.q[1].left
    BY <1>2, <2>1, TimelyNow DEF Prepared
  <2> QED BY <1>1, <1>2, <2>1, <2>2 DEF Prepared, Held
<1>4. /\ delay \in Int /\ delay >= 0 /\ delay + Lag < W
  BY StepsType, Numbers DEF Regime
<1>5. type \in Types /\ type \notin {"SPECIAL", "COMPARE", "NMI"}
  BY TypesAssumption DEF Types, Regime
<1>6. count \in 0..(W-1) /\ Due(count, c.count, delay)
  <2> DEFINE x == c.count + delay
  <2>1. x \in Int
    BY <1>3, <1>4
  <2> HIDE DEF x
  <2>2. x % W \in 0..(W-1)
    BY <2>1, ModType
  <2> QED BY <2>2 DEF x, Due
<1> HIDE DEF count
<1>7. Bounded(Event(type, count, delay), c.compare)
  <2> DEFINE e == Event(type, count, delay)
  <2>1. e.type = type /\ e.left = delay
    BY <1>4, <1>5, <1>6, EventParts
  <2> HIDE DEF e
  <2>2. delay <= W
    BY <1>4, Numbers
  <2>3. Bounded(e, c.compare)
    BY <1>4, <1>5, <2>1, <2>2 DEF Bounded
  <2> QED BY <2>3 DEF e
<1>8. ~None(d.q, "SPECIAL")
  BY <1>3, <1>4, <1>5, <1>6, AddEvent, ZenonT(30) DEF Adds
<1> HIDE DEF d
<1>9. d = add_interrupt_event_count(c, type, count, delay)
  BY DEF d
<1>10. OnTime(d) /\ Held(c, d)
  BY <1>2, <1>3, <1>4, <1>5, <1>6, <1>7, <1>8, <1>9, AddOnTime
<1> QED BY <1>0, <1>3, <1>10, QuietStep DEF Held

(* CHECK_INT is put in front of a queue. *)
LEMMA CheckParts ==
  ASSUME Regime, NEW c, Good(c), NEW q, q = <<Event("CHECK", c.count, 0)>> \o c.q
  PROVE  /\ q[1].type = "CHECK" /\ q[1].count = c.count /\ q[1].left = 0
         /\ Tail(q) = c.q /\ q \in Seq(Events) /\ Len(q) = Len(c.q) + 1
         /\ \A i \in 1..Len(c.q) : q[i+1] = c.q[i]
<1> DEFINE e == Event("CHECK", c.count, 0)
<1>0. c \in Cores /\ c.q \in Seq(Events) /\ Len(c.q) >= 2 /\ c.count \in 0..(W-1) /\ Len(c.q) \in Nat
  BY TwoTimers, CoreFields
<1>1. e \in Events /\ e.type = "CHECK" /\ e.count = c.count /\ e.left = 0
  <2>1. "CHECK" \in Types /\ 0 \in Int
    BY DEF Types
  <2> QED BY <1>0, <2>1, EventParts
<1> HIDE DEF e
<1>2. q = <<e>> \o c.q
  BY DEF e
<1>3. <<e>> \in Seq(Events) /\ Len(<<e>>) = 1 /\ <<e>>[1] = e
  BY <1>1
<1>4. /\ q \in Seq(Events) /\ Len(q) = Len(c.q) + 1
      /\ \A i \in 1..(1 + Len(c.q)) : q[i] = IF i <= 1 THEN <<e>>[i] ELSE c.q[i - 1]
  <2>1. /\ q \in Seq(Events) /\ Len(q) = 1 + Len(c.q)
        /\ \A i \in 1..(1 + Len(c.q)) : q[i] = IF i <= 1 THEN <<e>>[i] ELSE c.q[i - 1]
    BY <1>0, <1>2, <1>3, ConcatProperties
  <2> QED BY <1>0, <2>1
<1>5. q[1] = e /\ \A i \in 1..Len(c.q) : q[i+1] = c.q[i]
  <2>1. q[1] = e
    BY <1>0, <1>3, <1>4
  <2>2. ASSUME NEW i \in 1..Len(c.q) PROVE q[i+1] = c.q[i]
    <3>1. i + 1 \in 1..(1 + Len(c.q)) /\ ~(i + 1 <= 1) /\ (i + 1) - 1 = i
      BY <1>0
    <3> QED BY <1>4, <3>1
  <2> QED BY <2>1, <2>2
<1>6. Tail(q) = c.q
  <2>1. /\ Tail(q) \in Seq(Events) /\ Len(Tail(q)) = Len(c.q)
        /\ \A j \in 1..Len(c.q) : Tail(q)[j] = q[j+1]
    <3>1. /\ Tail(q) \in Seq(Events) /\ Len(Tail(q)) = Len(q) - 1
          /\ \A j \in 1..(Len(q)-1) : Tail(q)[j] = q[j+1]
      BY <1>0, <1>4, TailParts
    <3>2. Len(q) - 1 = Len(c.q)
      BY <1>0, <1>4
    <3> QED BY <3>1, <3>2
  <2>2. \A j \in 1..Len(c.q) : Tail(q)[j] = c.q[j]
    BY <1>5, <2>1
  <2> QED BY <1>0, <2>1, <2>2, SeqEqual
<1> QED BY <1>1, <1>4, <1>5, <1>6

(* The interrupt that r4300_check_interrupt delivers is taken at once. *)
LEMMA CheckTaken ==
  ASSUME Regime, NEW c, Prepared(c), ~c.skip_jump, NEW set \in BOOLEAN,
         NEW env \in Env, NEW safe \in BOOLEAN,
         NEW e, e = r4300_check_interrupt(c, "IP2", set),
         NEW d, d = GenIfDue(e, env, safe)
  PROVE  OnTime(d) /\ NoneEarly(d)
<1>0. Good(c) /\ "IP2" \in Lines /\ "load" \notin Requests
  BY DEF Prepared, Lines, Regime
<1>1. /\ Good(e) /\ e.count = c.count /\ Held(c, e)
      /\ \/ e.q = c.q /\ e.cycle = c.cycle
         \/ e.q = <<Event("CHECK", c.count, 0)>> \o c.q /\ e.cycle = 0
  BY <1>0, CheckShape
<1>2. e.job # "load"
  BY <1>0, CheckMoves DEF Moves, Tracks, Prepared
<1>3. CASE e.q = c.q /\ e.cycle = c.cycle
  <2>1. OnTime(e) /\ e.fired = << >> /\ Timely(e.q, 0) /\ Apart(e.q) /\ Spread(e.q)
    BY <1>1, <1>3 DEF Prepared, OnTime, Held
  <2> QED BY <1>1, <1>2, <2>1, GenIfDueOnTime
<1>4. CASE e.q = <<Event("CHECK", c.count, 0)>> \o c.q /\ e.cycle = 0
  <2>1. e.q[1].type = "CHECK" /\ e.q[1].left = 0 /\ Tail(e.q) = c.q
    <3> DEFINE q == e.q
    <3>1. q = <<Event("CHECK", c.count, 0)>> \o c.q
      BY <1>4
    <3> HIDE DEF q
    <3>2. q[1].type = "CHECK" /\ q[1].left = 0 /\ Tail(q) = c.q
      BY <1>0, <3>1, CheckParts
    <3> QED BY <3>2 DEF q
  <2>2. DueFirst(e)
    BY <1>1, <2>1 DEF DueFirst, Prepared, OnTime, Held
  <2>3. d = gen_interrupt(e, env, safe)
    BY <1>4 DEF GenIfDue
  <2>4. e.fired = << >> /\ ~e.skip_jump
    BY <1>1 DEF Held, Prepared
  <2> QED BY <1>1, <1>2, <2>2, <2>3, <2>4, GenOnTime
<1> QED BY <1>1, <1>3, <1>4

(* MTC0 to Status *)
LEMMA StatusOnTime ==
  ASSUME Regime, Inv, SkipInv, TimeInv, Regular,
         NEW n \in Steps, NEW st \in StatusValues, NEW env \in Env, mtc0_status(n, st, env)
  PROVE  TimeInv'
<1> DEFINE c == WithStatus(Now, st.ie, st.exl, st.erl, st.im)
           d == cp0_update_count(c, n)
           e == r4300_check_interrupt(d, "IP2", c.line)
           f == GenIfDue(e, env, FALSE)
<1>0. r4300' = f /\ phase # "done" /\ FALSE \in BOOLEAN
  BY DEF mtc0_status, Instruction, WithStatus
<1>1. /\ n \in Nat /\ Timely(Now.q, n) /\ Prepared(Now) /\ ~Now.skip_jump
      /\ Now \in Cores
  BY <1>0, NowPrepared
<1>2. st.ie \in BOOLEAN /\ st.exl \in BOOLEAN /\ st.erl \in BOOLEAN /\ st.im \in SUBSET Lines
  BY StatusAssumption DEF Lines
<1>3. Same(Now, c) /\ Still(Now, c) /\ c.job = Now.job /\ c.skip_jump = Now.skip_jump
  <2>1. Same(Now, c)
    BY <1>1, <1>2, SetStatus
  <2>2. Still(Now, c) /\ c.job = Now.job /\ c.skip_jump = Now.skip_jump
    BY <1>1 DEF WithStatus, Still, Cores
  <2> QED BY <2>1, <2>2
<1> HIDE DEF c
<1>4. Prepared(c) /\ Timely(c.q, n) /\ c.line \in BOOLEAN
  BY <1>1, <1>3, SetPrepared, CauseLine DEF Still, Same
<1>5. Prepared(d) /\ Held(c, d)
  BY <1>1, <1>4, UpdatePrepared
<1> HIDE DEF d
<1>6. OnTime(f) /\ NoneEarly(f)
  BY <1>0, <1>1, <1>3, <1>4, <1>5, CheckTaken DEF Held
<1> QED BY <1>0, <1>6, ServiceStep

(* ERET *)
LEMMA EretOnTime ==
  ASSUME Regime, Inv, SkipInv, TimeInv, Regular,
         NEW n \in Steps, NEW env \in Env, eret(n, env)
  PROVE  TimeInv'
<1> DEFINE c == IF r4300.erl THEN [Now EXCEPT !.stop = TRUE] ELSE [Now EXCEPT !.exl = FALSE]
           d == cp0_update_count(c, n)
           e == r4300_check_interrupt(d, "IP2", c.line)
           f == GenIfDue(e, env, TRUE)
<1>0. r4300' = f /\ phase # "done" /\ TRUE \in BOOLEAN /\ FALSE \in BOOLEAN
  BY DEF eret, Instruction
<1>1. /\ n \in Nat /\ Timely(Now.q, n) /\ Prepared(Now) /\ ~Now.skip_jump
      /\ Now \in Cores
  BY <1>0, NowPrepared
<1>2. Same(Now, c) /\ Still(Now, c) /\ c.job = Now.job /\ c.skip_jump = Now.skip_jump
  <2>1. CASE r4300.erl
    <3>1. c = [Now EXCEPT !.stop = TRUE]
      BY <2>1
    <3> HIDE DEF c
    <3>2. Same(Now, c)
      BY <1>0, <1>1, <3>1, SetStop
    <3>3. Still(Now, c) /\ c.job = Now.job /\ c.skip_jump = Now.skip_jump
      BY <1>1, <3>1 DEF Still, Cores
    <3> QED BY <3>2, <3>3
  <2>2. CASE ~r4300.erl
    <3>1. c = [Now EXCEPT !.exl = FALSE]
      BY <2>2
    <3> HIDE DEF c
    <3>2. Same(Now, c)
      BY <1>0, <1>1, <3>1, SetLevel
    <3>3. Still(Now, c) /\ c.job = Now.job /\ c.skip_jump = Now.skip_jump
      BY <1>1, <3>1 DEF Still, Cores
    <3> QED BY <3>2, <3>3
  <2> QED BY <2>1, <2>2
<1> HIDE DEF c
<1>3. Prepared(c) /\ Timely(c.q, n) /\ c.line \in BOOLEAN
  BY <1>1, <1>2, SetPrepared, CauseLine DEF Still, Same
<1>4. Prepared(d) /\ Held(c, d)
  BY <1>1, <1>3, UpdatePrepared
<1> HIDE DEF d
<1>5. OnTime(f) /\ NoneEarly(f)
  BY <1>0, <1>1, <1>2, <1>3, <1>4, CheckTaken DEF Held
<1> QED BY <1>0, <1>5, ServiceStep

(* Zero is its own negative. *)
LEMMA MinusZero == \A x : x = 0 => -x = 0
<1>1. \A x \in Int : -x = 0 - x
  OBVIOUS
<1>2. 0 \in Int /\ 0 - 0 = 0
  OBVIOUS
<1> QED BY <1>1, <1>2

(* An interrupt of the RCP, signalled while no event is overdue. *)
LEMMA SignalOnTime ==
  ASSUME Regime, Inv, SkipInv, TimeInv, Regular, Regular',
         NEW asserted \in BOOLEAN, signal_rcp_interrupt(asserted)
  PROVE  TimeInv'
<1> DEFINE c == [Now EXCEPT !.line = asserted]
           d == r4300_check_interrupt(c, "IP2", asserted)
<1>0. r4300' = d /\ phase # "done" /\ r4300.cycle < 0 /\ "IP2" \in Lines
  BY DEF signal_rcp_interrupt, Instruction, Regime, Lines
<1>1. Prepared(Now) /\ ~Now.skip_jump /\ Now \in Cores /\ Now.cycle < 0
  BY <1>0, NowPrepared
<1>2. /\ Same(Now, c) /\ Still(Now, c) /\ c.job = Now.job /\ c.skip_jump = Now.skip_jump
      /\ c.cycle = Now.cycle
  <2>1. Same(Now, c)
    BY <1>1, SetLine
  <2>2. Still(Now, c) /\ c.job = Now.job /\ c.skip_jump = Now.skip_jump /\ c.cycle = Now.cycle
    BY <1>1 DEF Still, Cores
  <2> QED BY <2>1, <2>2
<1> HIDE DEF c
<1>3. Prepared(c) /\ Good(c)
  BY <1>1, <1>2, SetPrepared DEF Prepared
<1>4. /\ d.count = c.count /\ Held(c, d)
      /\ \/ d.q = c.q /\ d.cycle = c.cycle
         \/ d.q = <<Event("CHECK", c.count, 0)>> \o c.q /\ d.cycle = 0
  BY <1>0, <1>3, CheckShape
<1> HIDE DEF d
<1>5. d.fired = << >> /\ ~d.skip_jump /\ d.compare = c.compare
  BY <1>1, <1>2, <1>3, <1>4 DEF Held, Prepared
<1>6. CASE d.q = c.q /\ d.cycle = c.cycle
  <2>1. OnTime(d)
    BY <1>3, <1>4, <1>6 DEF Prepared, OnTime, Held
  <2> QED BY <1>0, <1>5, <2>1, QuietStep
<1>7. CASE d.q = <<Event("CHECK", c.count, 0)>> \o c.q /\ d.cycle = 0
  <2> DEFINE q == c.q
             r == d.q
             now == c.count
             compare == c.compare
  <2>1. q \in Seq(Events) /\ Len(q) >= 2 /\ now \in 0..(W-1) /\ now \in Int /\ Len(q) \in Nat
    BY <1>3, TwoTimers, CoreFields
  <2>2. /\ r[1].type = "CHECK" /\ r[1].count = now /\ r[1].left = 0
        /\ Len(r) = Len(q) + 1 /\ \A i \in 1..Len(q) : r[i+1] = q[i]
    <3>1. r = <<Event("CHECK", c.count, 0)>> \o c.q
      BY <1>7
    <3> HIDE DEF r
    <3> QED BY <1>3, <3>1, CheckParts
  <2>3. Apart(r)
    BY <1>0 DEF Regular
  <2>4. Dated(q, now) /\ Ordered(q) /\ AllBounded(q, compare) /\ c.cycle = -q[1].left
    BY <1>1, <1>2, <1>3 DEF Prepared, OnTime, Timed, Tidy
  <2>5. \A i \in 1..Len(q) : q[i].left \in Int /\ q[i].count \in 0..(W-1)
    BY <2>1, EventFields
  <2>6. q[1].left > 0
    BY <1>1, <1>2, <2>1, <2>4, <2>5
  <2> HIDE DEF q, r, now, compare
  <2>7. ASSUME NEW i \in 1..Len(q)
        PROVE  0 <= q[i].left /\ q[i].left < W
    <3>1. q[i].left > 0
      <4>1. 1 \in 1..Len(q)
        BY <2>1
      <4>2. q[1].left <= q[i].left
        <5>1. CASE i = 1
          BY <2>5, <4>1, <5>1
        <5>2. CASE 1 < i
          BY <2>4, <4>1, <5>2 DEF Ordered
        <5> QED BY <2>1, <5>1, <5>2
      <4> QED BY <2>5, <2>6, <4>1, <4>2
    <3>2. q[i].left <= W /\ (q[i].type # "COMPARE" => q[i].left + Lag < W)
      BY <2>4 DEF AllBounded, Bounded
    <3>3. CASE q[i].type # "COMPARE"
      BY <2>5, <3>1, <3>2, <3>3, Numbers, SMTT(30)
    <3>4. CASE q[i].type = "COMPARE"
      <4>1. 1 \in 1..Len(r) /\ i + 1 \in 1..Len(r) /\ i + 1 # 1 /\ r[i+1] = q[i]
        BY <2>1, <2>2
      <4>2. q[i].count # now
        BY <2>2, <2>3, <3>4, <4>1 DEF Apart
      <4>3. q[i].left # W
        <5> SUFFICES ASSUME q[i].left = W PROVE FALSE
          OBVIOUS
        <5> DEFINE x == now + W
        <5>1. x \in Int /\ x = now + 1 * W /\ 1 \in Int
          BY <2>1, Numbers, SMTT(30)
        <5> HIDE DEF x
        <5>2. x % W = now
          BY <2>1, <5>1, Remainder
        <5>3. q[i].count = (now + q[i].left) % W
          BY <2>4 DEF Dated, Due
        <5> QED BY <4>2, <5>2, <5>3 DEF x
      <4> QED BY <2>5, <3>1, <3>2, <4>3, Numbers
    <3> QED BY <3>3, <3>4
  <2>8. Due(r[1].count, now, r[1].left)
    <3> DEFINE x == now + 0
    <3>1. x \in Int /\ x = now + 0 * W /\ 0 \in Int
      BY <2>1, Numbers
    <3> HIDE DEF x
    <3>2. x % W = now
      BY <2>1, <3>1, Remainder
    <3>3. now = (now + 0) % W
      BY <3>2 DEF x
    <3> QED BY <2>2, <3>3 DEF Due
  <2>9. Bounded(r[1], compare)
    BY <2>2, Numbers DEF Bounded
  <2>10. ASSUME NEW j \in 1..Len(r), j # 1
         PROVE  j - 1 \in 1..Len(q) /\ r[j] = q[j-1]
    BY <2>1, <2>2, <2>10
  <2>11. Dated(r, now)
    <3> SUFFICES ASSUME NEW j \in 1..Len(r) PROVE Due(r[j].count, now, r[j].left)
      BY DEF Dated
    <3>1. CASE j # 1
      BY <2>4, <2>10, <3>1 DEF Dated
    <3> QED BY <2>8, <3>1
  <2>12. AllBounded(r, compare)
    <3> SUFFICES ASSUME NEW j \in 1..Len(r) PROVE Bounded(r[j], compare)
      BY DEF AllBounded
    <3>1. CASE j # 1
      BY <2>4, <2>10, <3>1 DEF AllBounded
    <3> QED BY <2>9, <3>1
  <2>13. Within(r, 0)
    <3> SUFFICES ASSUME NEW j \in 1..Len(r) PROVE 0 <= r[j].left /\ r[j].left < 0 + W
      BY DEF Within
    <3>0. 0 + W = W /\ 0 < W
      BY Numbers
    <3>1. CASE j # 1
      <4>1. 0 <= q[j-1].left /\ q[j-1].left < W /\ r[j] = q[j-1]
        BY <2>7, <2>10, <3>1
      <4> QED BY <3>0, <4>1
    <3> QED BY <2>2, <3>0, <3>1
  <2>14. Ordered(r)
    <3> SUFFICES ASSUME NEW i \in 1..Len(r), NEW j \in 1..Len(r), i < j
                 PROVE  r[i].left <= r[j].left
      BY DEF Ordered
    <3>1. j # 1
      OBVIOUS
    <3>2. CASE i = 1
      BY <2>2, <2>7, <2>10, <3>1, <3>2
    <3>3. CASE i # 1
      <4>1. i - 1 < j - 1
        OBVIOUS
      <4> QED BY <2>4, <2>10, <3>1, <3>3, <4>1 DEF Ordered
    <3> QED BY <3>2, <3>3
  <2>15. Timed(r, now, compare)
    BY <2>2, <2>11, <2>12, <2>13, <2>14 DEF Timed, Tidy
  <2>16. d.cycle = -r[1].left
    <3>1. d.cycle = 0
      BY <1>7
    <3>2. r[1].left = 0
      BY <2>2
    <3> QED BY <3>1, <3>2, MinusZero, Zenon
  <2>17. OnTime(d)
    BY <1>4, <1>5, <2>15, <2>16 DEF OnTime, q, r, now, compare
  <2> QED BY <1>0, <1>5, <2>17, QuietStep
<1> QED BY <1>4, <1>6, <1>7

(* The rest of a queue whose first event is a CHECK_INT ages with it. *)
LEMMA CheckAged ==
  ASSUME Regime, NEW c, Prepared(c), NEW n \in Nat, Timely(c.q, n),
         NEW q, q = <<Event("CHECK", c.count, 0)>> \o c.q, NEW r, r = Aged(q, n)
  PROVE  /\ r[1].type = "CHECK" /\ r[1].left <= 0
         /\ Timed(Tail(r), (c.count + n) % W, c.compare) /\ Timely(Tail(r), 0)
<1>0. /\ Good(c) /\ c.q \in Seq(Events) /\ Len(c.q) >= 2 /\ c.count \in Int /\ Len(c.q) \in Nat
      /\ Timed(c.q, c.count, c.compare) /\ n \in Int /\ Len(c.q) >= 1
  BY TwoTimers, CoreFields DEF Prepared, OnTime
<1>1. /\ q[1].type = "CHECK" /\ q[1].left = 0 /\ q \in Seq(Events) /\ Len(q) = Len(c.q) + 1
      /\ \A i \in 1..Len(c.q) : q[i+1] = c.q[i]
  BY <1>0, CheckParts
<1>2. r \in Seq(Events) /\ Len(r) = Len(q) /\ \A i \in 1..Len(q) : r[i].type = q[i].type
  BY <1>0, <1>1, AgedType
<1>3. \A i \in 1..Len(q) : r[i] = [q[i] EXCEPT !.left = Later(q[i].left, n)]
  BY <1>1, LenProperties DEF Aged
<1> DEFINE a == Aged(c.q, n)
<1>4. a \in Seq(Events) /\ Len(a) = Len(c.q) /\ Timed(a, (c.count + n) % W, c.compare) /\ Timely(a, 0)
  BY <1>0, AgedTimed
<1>5. \A i \in 1..Len(c.q) : a[i] = [c.q[i] EXCEPT !.left = Later(c.q[i].left, n)]
  BY <1>0, LenProperties DEF Aged
<1> HIDE DEF a
<1>6. Tail(r) = a
  <2>1. /\ Tail(r) \in Seq(Events) /\ Len(Tail(r)) = Len(r) - 1
        /\ \A j \in 1..(Len(r)-1) : Tail(r)[j] = r[j+1]
    BY <1>0, <1>1, <1>2, TailParts
  <2>2. Len(r) - 1 = Len(c.q)
    BY <1>0, <1>1, <1>2
  <2>3. ASSUME NEW j \in 1..Len(c.q) PROVE Tail(r)[j] = a[j]
    <3>1. j + 1 \in 1..Len(q)
      BY <1>0, <1>1
    <3>2. Tail(r)[j] = r[j+1] /\ q[j+1] = c.q[j]
      BY <1>1, <2>1, <2>2
    <3>3. r[j+1] = [q[j+1] EXCEPT !.left = Later(q[j+1].left, n)]
      BY <1>3, <3>1
    <3>4. a[j] = [c.q[j] EXCEPT !.left = Later(c.q[j].left, n)]
      BY <1>5
    <3> QED BY <3>2, <3>3, <3>4, Zenon
  <2> QED BY <1>4, <2>1, <2>2, <2>3, SeqEqual
<1>7. r[1].type = "CHECK" /\ r[1].left <= 0
  <2>1. 1 \in 1..Len(q) /\ q[1] \in Events
    BY <1>0, <1>1, EventFields
  <2>2. r[1].left = Later(q[1].left, n)
    BY <1>3, <2>1 DEF Events
  <2>3. Later(0, n) <= 0
    BY WAssumption DEF Later, Regime
  <2> QED BY <1>1, <1>2, <2>1, <2>2, <2>3
<1> QED BY <1>4, <1>6, <1>7

(* A store to MI_INTR_MASK_REG *)
LEMMA MaskOnTime ==
  ASSUME Regime, Inv, SkipInv, TimeInv, Regular,
         NEW n \in Steps, NEW asserted \in BOOLEAN, NEW env \in Env,
         write_mi_intr_mask(n, asserted, env)
  PROVE  TimeInv'
<1> DEFINE c == [Now EXCEPT !.line = asserted]
           e == r4300_check_interrupt(c, "IP2", asserted)
           f == cp0_update_count(e, n)
           d == GenIfDue(f, env, TRUE)
<1>0. /\ r4300' = d /\ phase # "done" /\ TRUE \in BOOLEAN
      /\ "IP2" \in Lines /\ "load" \notin Requests
  BY DEF write_mi_intr_mask, Instruction, Lines, Regime
<1>1. /\ n \in Nat /\ Timely(Now.q, n) /\ Prepared(Now) /\ ~Now.skip_jump
      /\ Now \in Cores
  BY <1>0, NowPrepared
<1>2. /\ Same(Now, c) /\ Still(Now, c) /\ c.job = Now.job /\ c.skip_jump = Now.skip_jump
  <2>1. Same(Now, c)
    BY <1>1, SetLine
  <2>2. Still(Now, c) /\ c.job = Now.job /\ c.skip_jump = Now.skip_jump
    BY <1>1 DEF Still, Cores
  <2> QED BY <2>1, <2>2
<1> HIDE DEF c
<1>3. Prepared(c) /\ Good(c) /\ Timely(c.q, n) /\ ~c.skip_jump
  BY <1>1, <1>2, SetPrepared DEF Prepared, Still
<1>4. /\ Good(e) /\ e.count = c.count /\ Held(c, e)
      /\ \/ e.q = c.q /\ e.cycle = c.cycle
         \/ e.q = <<Event("CHECK", c.count, 0)>> \o c.q /\ e.cycle = 0
  BY <1>0, <1>3, CheckShape
<1>5. e.job # "load" /\ e.fired = << >> /\ ~e.skip_jump /\ e.compare = c.compare
  <2>1. e.job # "load"
    BY <1>0, <1>3, CheckMoves DEF Moves, Tracks, Prepared
  <2> QED BY <1>3, <1>4, <2>1 DEF Held, Prepared
<1> HIDE DEF e
<1>6. CASE e.q = c.q /\ e.cycle = c.cycle
  <2>1. Prepared(e) /\ Timely(e.q, n)
    BY <1>3, <1>4, <1>5, <1>6 DEF Prepared, OnTime, Held
  <2>2. Prepared(f)
    BY <1>1, <2>1, UpdatePrepared
  <2> HIDE DEF f
  <2>3. OnTime(d) /\ NoneEarly(d)
    BY <1>0, <2>2, GenIfDueOnTime DEF Prepared
  <2> QED BY <1>0, <2>3, ServiceStep
<1>7. CASE e.q = <<Event("CHECK", c.count, 0)>> \o c.q /\ e.cycle = 0
  <2>0. n \in Int /\ e \in Cores
    BY <1>1, <1>4, GoodHead
  <2>1. Good(f) /\ f.job = e.job /\ f.skip_jump = e.skip_jump /\ f.cycle = e.cycle + n
    BY <1>4, <2>0, UpdateCount, UpdateMoves DEF Kept
  <2>2. f.q = Aged(e.q, n) /\ f.count = (e.count + n) % W /\ f.compare = e.compare /\ f.fired = e.fired
    BY <2>0 DEF cp0_update_count, Cores
  <2> HIDE DEF f
  <2>3. /\ f.q[1].type = "CHECK" /\ f.q[1].left <= 0
        /\ Timed(Tail(f.q), (c.count + n) % W, c.compare) /\ Timely(Tail(f.q), 0)
    <3> DEFINE q == e.q
               r == f.q
    <3>1. q = <<Event("CHECK", c.count, 0)>> \o c.q /\ r = Aged(q, n)
      BY <1>7, <2>2
    <3> HIDE DEF q, r
    <3>2. /\ r[1].type = "CHECK" /\ r[1].left <= 0
          /\ Timed(Tail(r), (c.count + n) % W, c.compare) /\ Timely(Tail(r), 0)
      BY <1>1, <1>3, <3>1, CheckAged
    <3> QED BY <3>2 DEF r
  <2>4. DueFirst(f) /\ ~f.skip_jump
    BY <1>4, <1>5, <2>1, <2>2, <2>3 DEF DueFirst
  <2>5. f.cycle >= 0
    <3>1. e.cycle = 0
      BY <1>7
    <3> QED BY <1>1, <2>1, <3>1
  <2>6. d = gen_interrupt(f, env, TRUE)
    BY <2>5 DEF GenIfDue
  <2> HIDE DEF d
  <2>7. f.fired = << >> /\ f.job # "load"
    BY <1>5, <2>1, <2>2
  <2>8. OnTime(d) /\ NoneEarly(d)
    BY <1>0, <2>1, <2>4, <2>6, <2>7, GenOnTime
  <2> QED BY <1>0, <2>8, ServiceStep
<1> QED BY <1>4, <1>6, <1>7

(* MTC0 to Compare *)
LEMMA CompareRegisterOnTime ==
  ASSUME Regime, Inv, SkipInv, TimeInv, Regular,
         NEW n \in Steps, NEW ahead \in CompareAhead, mtc0_compare(n, ahead)
  PROVE  TimeInv'
<1> DEFINE value == (r4300.count + n + ahead) % W
           c == cp0_update_count(Now, n)
           g == remove_event(c, "COMPARE")
           h == add_compare_event(g, value)
           d == [h EXCEPT !.compare = value, !.cause = @ \ {"IP7"}]
<1>0. r4300' = d /\ phase # "done"
  BY DEF mtc0_compare, Instruction
<1>1. /\ n \in Nat /\ Timely(Now.q, n) /\ Prepared(Now) /\ ~Now.skip_jump
      /\ Now \in Cores /\ Now.count = r4300.count /\ Now.count \in Int /\ n \in Int /\ n > 0
  <2>1. /\ n \in Nat /\ Timely(Now.q, n) /\ Prepared(Now) /\ ~Now.skip_jump
        /\ Now \in Cores /\ Now.count = r4300.count
    BY <1>0, NowPrepared
  <2>2. n # 0
    BY DEF Regime
  <2>3. Now.count \in Int
    BY <2>1, CoreFields
  <2> QED BY <2>1, <2>2, <2>3
<1>2. ahead \in Int /\ CountPerOp <= ahead /\ ahead + Lag < W /\ Lag \in Int /\ W \in Int /\ Lag >= 0
  BY CountsAssumption, Numbers DEF Regime
<1>3. /\ Prepared(c) /\ Held(Now, c) /\ c.count = (Now.count + n) % W
  BY <1>1, UpdatePrepared
<1>4. value \in 0..(W-1) /\ Due(value, c.count, ahead)
  <2> DEFINE x == Now.count + (n + ahead)
             y == r4300.count + n + ahead
             z == (Now.count + n) % W
             left == n + ahead
  <2>1. x \in Int /\ y = x /\ left \in Int /\ left - n = ahead
    BY <1>1, <1>2
  <2>2. value = y % W /\ y % W \in 0..(W-1)
    <3> HIDE DEF x, y
    <3>1. y % W \in 0..(W-1)
      BY <2>1, ModType
    <3> QED BY <3>1 DEF y
  <2>3. x = Now.count + left
    OBVIOUS
  <2> HIDE DEF left, value, c, x, y
  <2>4. (Now.count + left) % W = (z + (left - n)) % W
    BY <1>1, <2>1, Passing
  <2> QED BY <1>3, <2>1, <2>2, <2>3, <2>4 DEF Due
<1> HIDE DEF value, c
<1> DEFINE m == c.q[1].left
<1>5. /\ Good(c) /\ Sound(c) /\ c \in Cores /\ c.q \in Seq(Events) /\ c.count \in Int
      /\ ~c.skip_jump /\ c.fired = << >>
      /\ Tidy(c.q, c.count, m) /\ AllBounded(c.q, c.compare) /\ c.cycle = -m
      /\ m \in Int /\ -Lag <= m
  <2>1. Good(c) /\ OnTime(c) /\ Timely(c.q, 0) /\ c.fired = << >> /\ ~c.skip_jump
    BY <1>1, <1>3 DEF Prepared, Held
  <2>2. /\ Sound(c) /\ c \in Cores /\ c.q \in Seq(Events) /\ c.count \in Int /\ Len(c.q) >= 2
    BY <2>1, TwoTimers
  <2>3. m \in Int /\ -Lag <= m
    BY <2>1, <2>2, TimelyNow
  <2> QED BY <2>1, <2>2, <2>3 DEF OnTime, Timed
<1> HIDE DEF m
<1>6. Once(c.q, "COMPARE") /\ Once(c.q, "SPECIAL") /\ ~None(c.q, "COMPARE")
  BY <1>5, OncePresent DEF Good, Timers
<1>7. Removes(c, g, "COMPARE") /\ g.cycle = c.cycle /\ g.count = c.count /\ Kept(c, g)
  BY <1>5, <1>6, RemoveEvent, RemoveKept
<1>8. /\ Sound(g) /\ g.index < Capacity /\ None(g.q, "COMPARE") /\ ~None(g.q, "SPECIAL")
  BY <1>6, <1>7, OncePresent DEF Removes
<1>9. Tidy(g.q, c.count, m) /\ AllBounded(g.q, c.compare) /\ g.fired = c.fired
  <2> DEFINE p == FirstOf(c, "COMPARE")
             r == RemoveAt(c.q, p)
  <2>1. get_event(c, "COMPARE") /\ \E i \in 1..Len(c.q) : c.q[i].type = "COMPARE"
    BY <1>6 DEF get_event, None
  <2>2. p \in 1..Len(c.q)
    BY <1>5, <2>1, FirstOfType
  <2>3. g = [c EXCEPT !.q = r, !.index = free_node(@)]
    BY <2>1 DEF remove_event
  <2> HIDE DEF p, g
  <2>4. Len(r) = Len(c.q) - 1 /\ \A j \in 1..(Len(c.q)-1) : r[j] = IF j < p THEN c.q[j] ELSE c.q[j+1]
    BY <1>5, <2>2, RemoveAtProperties
  <2> HIDE DEF r
  <2>5. g.q = r /\ g.fired = c.fired
    BY <1>5, <2>3 DEF Cores
  <2>6. Without(c.q, p, r)
    BY <2>4 DEF Without
  <2>7. Tidy(r, c.count, m) /\ AllBounded(r, c.compare)
    BY <1>5, <2>2, <2>6, Taken
  <2> QED BY <2>5, <2>7
<1> HIDE DEF g
<1>10. AllBounded(g.q, value)
  BY <1>8, <1>9 DEF AllBounded, Bounded, None
<1>11. /\ Timed(h.q, h.count, value) /\ h.cycle = -h.q[1].left
       /\ Held(g, h) /\ h.count = g.count
  <2>1. ahead < W + m /\ ahead <= W /\ g.cycle = -m /\ Tidy(g.q, g.count, m) /\ Due(value, g.count, ahead)
    BY <1>2, <1>4, <1>5, <1>7, <1>9
  <2> QED BY <1>2, <1>4, <1>5, <1>8, <1>10, <2>1, AddCompareTimed
<1>12. h \in Cores
  BY <1>4, <1>8, AddCompare DEF Adds, Sound
<1> HIDE DEF h
<1>13. /\ d.q = h.q /\ d.count = h.count /\ d.cycle = h.cycle /\ d.compare = value
       /\ d.skip_jump = h.skip_jump /\ d.fired = h.fired
  BY <1>12 DEF Cores
<1> HIDE DEF d
<1>14. OnTime(d)
  BY <1>11, <1>13 DEF OnTime
<1>15. d.fired = << >>
  BY <1>5, <1>9, <1>11, <1>13 DEF Held
<1> QED BY <1>0, <1>14, <1>15, QuietStep

(* SYSCALL *)
LEMMA SyscallOnTime ==
  ASSUME Regime, Inv, SkipInv, TimeInv, Regular, NEW n \in Steps, syscall(n)
  PROVE  TimeInv'
<1> DEFINE c == cp0_update_count(Now, n)
           e == [c EXCEPT !.cause = {}]
           d == exception_general(e)
<1>0. r4300' = d /\ phase # "done"
  BY DEF syscall, Instruction
<1>1. n \in Nat /\ Timely(Now.q, n) /\ Prepared(Now)
  BY <1>0, NowPrepared
<1>2. Prepared(c) /\ c \in Cores
  BY <1>1, UpdatePrepared, GoodHead DEF Prepared
<1> HIDE DEF c
<1>3. e \in Cores /\ Still(c, e)
  <2>1. {} \in SUBSET Lines
    OBVIOUS
  <2>2. e \in Cores
    BY <1>2, <2>1, SetCause DEF Same
  <2>3. Still(c, e)
    BY <1>2 DEF Still, Cores
  <2> QED BY <2>2, <2>3
<1> HIDE DEF e
<1>4. Still(e, d)
  BY <1>3, ExceptionStill
<1> HIDE DEF d
<1>5. OnTime(d) /\ d.fired = << >>
  BY <1>2, <1>3, <1>4, StillOnTime DEF Prepared, Still
<1> QED BY <1>0, <1>5, QuietStep

(* The beginning of a branch *)
LEMMA BeginJumpOnTime ==
  ASSUME Regime, Inv, SkipInv, TimeInv, Regular, BeginJump
  PROVE  TimeInv'
<1> DEFINE d == [Now EXCEPT !.delay_slot = TRUE]
<1>0. r4300' = d
  BY DEF BeginJump
<1>1. Prepared(Now) /\ Now \in Cores
  BY NowPrepared
<1>2. Still(Now, d)
  BY <1>1 DEF Still, Cores
<1> HIDE DEF d
<1>3. OnTime(d) /\ d.fired = << >>
  BY <1>1, <1>2, StillOnTime DEF Prepared, Still
<1> QED BY <1>0, <1>3, QuietStep

(* The end of a branch *)
LEMMA EndJumpOnTime ==
  ASSUME Regime, Inv, SkipInv, TimeInv, Regular,
         NEW n \in Steps \cup {0}, NEW env \in Env, EndJump(n, env)
  PROVE  TimeInv'
<1> DEFINE c == cp0_update_count(Now, n)
           e == [c EXCEPT !.delay_slot = FALSE]
           d == GenIfDue(e, env, TRUE)
<1>0. r4300' = d /\ TRUE \in BOOLEAN /\ FALSE \in BOOLEAN
  BY DEF EndJump
<1>1. n \in Nat /\ Timely(Now.q, n) /\ Prepared(Now)
  BY NowPrepared
<1>2. Prepared(c) /\ c \in Cores
  BY <1>1, UpdatePrepared, GoodHead DEF Prepared
<1> HIDE DEF c
<1>3. Same(c, e) /\ Still(c, e) /\ e.job = c.job
  <2>1. Same(c, e)
    BY <1>0, <1>2, SetSlot
  <2>2. Still(c, e) /\ e.job = c.job
    BY <1>2 DEF Still, Cores
  <2> QED BY <2>1, <2>2
<1> HIDE DEF e
<1>4. Prepared(e)
  BY <1>2, <1>3, SetPrepared
<1>5. OnTime(d) /\ NoneEarly(d)
  BY <1>0, <1>4, GenIfDueOnTime DEF Prepared
<1> QED BY <1>0, <1>5, ServiceStep

(* A branch to itself: Count is moved to the first event, not past it. *)
LEMMA IdleLoopOnTime ==
  ASSUME Regime, Inv, SkipInv, TimeInv, Regular, NEW n \in IdleSteps, IdleLoop(n)
  PROVE  TimeInv'
<1> DEFINE c == cp0_update_count(Now, n)
           e == IF c.cycle < 0 THEN cp0_update_count(c, -c.cycle) ELSE c
           d == [e EXCEPT !.delay_slot = TRUE]
<1>0. r4300' = d /\ phase # "done"
  BY DEF IdleLoop
<1>1. n \in Nat /\ Timely(Now.q, n) /\ Prepared(Now) /\ ~Now.skip_jump
  BY <1>0, NowPrepared
<1>2. Prepared(c) /\ c \in Cores /\ ~c.skip_jump
  BY <1>1, UpdatePrepared, GoodHead DEF Prepared, Held
<1> HIDE DEF c
<1>3. Prepared(e)
  <2>1. CASE c.cycle < 0
    <3> DEFINE m == -c.cycle
    <3>1. c.q \in Seq(Events) /\ Len(c.q) >= 2 /\ Len(c.q) \in Nat /\ c.cycle \in Int
      BY <1>2, TwoTimers, CoreFields DEF Prepared
    <3>2. m \in Nat /\ \A i \in 1..Len(c.q) : c.q[i].left \in Int
      BY <2>1, <3>1, EventFields
    <3>3. Ordered(c.q) /\ c.cycle = -c.q[1].left
      BY <1>2 DEF Prepared, OnTime, Timed, Tidy
    <3>4. 1 \in 1..Len(c.q) /\ m = c.q[1].left
      BY <3>1, <3>2, <3>3
    <3>5. Timely(c.q, m)
      <4> SUFFICES ASSUME NEW i \in 1..Len(c.q) PROVE c.q[i].left - m >= -Lag
        BY DEF Timely
      <4>1. c.q[1].left <= c.q[i].left
        <5>1. CASE i = 1
          BY <3>2, <3>4, <5>1
        <5>2. CASE 1 < i
          BY <3>3, <3>4, <5>2 DEF Ordered
        <5> QED BY <3>1, <5>1, <5>2
      <4> DEFINE x == c.q[i].left
      <4>2. x \in Int /\ m \in Int /\ m <= x /\ Lag \in Int /\ Lag >= 0
        BY <3>2, <3>4, <4>1, Numbers
      <4> HIDE DEF m, x
      <4>3. x - m >= -Lag
        BY <4>2
      <4> QED BY <4>3 DEF x
    <3>6. e = cp0_update_count(c, m)
      BY <2>1
    <3> HIDE DEF e, m
    <3> QED BY <1>2, <3>2, <3>5, <3>6, UpdatePrepared
  <2> QED BY <1>2, <2>1
<1> HIDE DEF e
<1>4. e \in Cores
  BY <1>3, GoodHead DEF Prepared
<1>5. Still(e, d)
  BY <1>4 DEF Still, Cores
<1> HIDE DEF d
<1>6. OnTime(d) /\ d.fired = << >>
  BY <1>3, <1>5, StillOnTime DEF Prepared, Still
<1> QED BY <1>0, <1>6, QuietStep

-----------------------------------------------------------------------------
(* The theorems *)

LEMMA InitTime ==
  ASSUME Regime, Init
  PROVE  TimeInv
<1> DEFINE c == [q |-> << >>, index |-> 0, count |-> 0, cycle |-> 0, next |-> 0,
        compare |-> 0, ie |-> FALSE, exl |-> FALSE, erl |-> FALSE, im |-> {},
        cause |-> {}, delay_slot |-> FALSE, skip_jump |-> FALSE, line |-> FALSE,
        stop |-> FALSE, job |-> "nothing", reset_hard_job |-> FALSE,
        file |-> NoState, loading |-> FALSE, fired |-> << >>]
<1>1. 0 \in 0..(W-1) /\ 0 \in 0..Capacity /\ << >> \in Seq(Events)
  BY WAssumption, CapacityAssumption
<1>2. NoState \in SaveStates
  BY <1>1 DEF NoState, SaveStates
<1>3. c \in Cores
  BY <1>1, <1>2 DEF Cores
<1>4. c.fired = << >>
  OBVIOUS
<1>5. r4300 = poweron_r4300(c)
  BY DEF Init, PowerOn
<1> HIDE DEF c
<1>6. OnTime(r4300) /\ r4300.fired = << >>
  BY <1>3, <1>4, <1>5, PowerOnOnTime
<1> QED BY <1>6 DEF TimeInv, NoneEarly

(* Every step keeps the queue on time, if the guest is regular in front of *)
(* it and after it.                                                        *)
LEMMA NextTime ==
  ASSUME Regime, Inv, SkipInv, TimeInv, Regular, Regular', [Next]_vars
  PROVE  TimeInv'
<1>1. CASE \E type \in Sources, n \in Steps, delay \in Delays \cup {VIDelay} :
              ScheduleEvent(type, n, delay)
  BY <1>1, ScheduleOnTime
<1>2. CASE \E type \in DDTypes : CancelEvent(type)
  BY <1>2 DEF Regime
<1>3. CASE \E asserted \in BOOLEAN : signal_rcp_interrupt(asserted)
  BY <1>3, SignalOnTime
<1>4. CASE \E n \in Steps, asserted \in BOOLEAN, env \in Env : write_mi_intr_mask(n, asserted, env)
  BY <1>4, MaskOnTime
<1>5. CASE \E n \in Steps, base \in CountValues, env \in Env : mtc0_count(n, base, env)
  BY <1>5 DEF Regime
<1>6. CASE \E n \in Steps, ahead \in CompareAhead : mtc0_compare(n, ahead)
  BY <1>6, CompareRegisterOnTime
<1>7. CASE \E n \in Steps, s \in StatusValues, env \in Env : mtc0_status(n, s, env)
  BY <1>7, StatusOnTime
<1>8. CASE \E n \in Steps, env \in Env : eret(n, env)
  BY <1>8, EretOnTime
<1>9. CASE \E n \in Steps : syscall(n)
  BY <1>9, SyscallOnTime
<1>10. CASE BeginJump
  BY <1>10, BeginJumpOnTime
<1>11. CASE \E n \in Steps \cup {0}, env \in Env : EndJump(n, env)
  BY <1>11, EndJumpOnTime
<1>12. CASE \E n \in IdleSteps : IdleLoop(n)
  BY <1>12, IdleLoopOnTime
<1>13. CASE load_event \/ load_end
  BY <1>13 DEF SkipInv, load_event, load_end
<1>14. CASE UNCHANGED vars
  BY <1>14 DEF vars, TimeInv, OnTime, NoneEarly
<1> QED BY <1>1, <1>2, <1>3, <1>4, <1>5, <1>6, <1>7, <1>8, <1>9, <1>10, <1>11, <1>12,
           <1>13, <1>14 DEF Next, Stopped

(* The core of r4300_core stays on time: Count, the queue and cycle_count  *)
(* agree with the time that has really passed, for every period, pool and  *)
(* set of delays in Regime and every guest that is Regular.                *)
THEOREM TimeInvariance ==
  ASSUME Regime
  PROVE  Spec /\ []Regular => [](Inv /\ SkipInv /\ TimeInv)
<1>1. Init => TimeInv
  BY InitTime
<1>2. Inv /\ SkipInv /\ TimeInv /\ Regular /\ Regular' /\ [Next]_vars => TimeInv'
  BY NextTime
<1>3. Spec => []SkipInv
  <2>1. CountValues = {} /\ "load" \notin Requests
    BY DEF Regime
  <2> QED BY <2>1, SkipInvariant
<1> QED BY <1>1, <1>2, <1>3, Invariance, PTL DEF Spec

(* cp0_update_count and add_interrupt_event_count: the signed cycle_count  *)
(* is the true distance to the first event, in a game and machine of       *)
(* Regime and Regular; the next event is never more than half a period     *)
(* away.                                                                   *)
THEOREM CycleCountTrue ==
  ASSUME Regime
  PROVE  Spec /\ []Regular => []CycleCountExact
<1>1. TimeInv /\ Coherent => CycleCountExact
  BY DEF TimeInv, OnTime, Coherent, CycleCountExact, Regime
<1> QED BY <1>1, TimeInvariance, CoherentAlways, PTL

(* gen_interrupt: no event is serviced before its time. *)
THEOREM NoEventEarly ==
  ASSUME Regime
  PROVE  Spec /\ []Regular => []NoEarlyService
<1>1. TimeInv => NoEarlyService
  BY DEF TimeInv, NoneEarly, NoEarlyService
<1> QED BY <1>1, TimeInvariance, PTL

(* The test of cycle_count at the end of a branch: when any event is due,  *)
(* the next branch calls gen_interrupt.                                    *)
THEOREM OverdueNoticed ==
  ASSUME Regime
  PROVE  Spec /\ []Regular => []OverdueIsServiced
<1>1. Inv /\ SkipInv /\ TimeInv => OverdueIsServiced
  <2> SUFFICES ASSUME Inv, SkipInv, TimeInv,
                      NEW i \in 1..Len(r4300.q), r4300.q[i].left <= 0
               PROVE  r4300.cycle >= 0
    BY DEF OverdueIsServiced
  <2>1. Good(r4300) /\ (r4300.skip_jump => r4300.cycle >= 0)
    BY DEF Inv, Loading, SkipInv
  <2>2. r4300.q \in Seq(Events) /\ Len(r4300.q) >= 2 /\ r4300 \in Cores
    BY <2>1, TwoTimers
  <2>3. \A j \in 1..Len(r4300.q) : r4300.q[j].left \in Int
    BY <2>2, EventFields
  <2>4. 1 \in 1..Len(r4300.q) /\ Len(r4300.q) \in Nat
    BY <2>2, CoreFields
  <2>5. Ordered(r4300.q) /\ (r4300.skip_jump \/ r4300.cycle = -r4300.q[1].left)
    BY DEF TimeInv, OnTime, Timed, Tidy
  <2>6. r4300.q[1].left <= r4300.q[i].left
    <3>1. CASE i = 1
      BY <2>3, <2>4, <3>1
    <3>2. CASE 1 < i
      BY <2>4, <2>5, <3>2 DEF Ordered
    <3> QED BY <2>4, <3>1, <3>2
  <2> QED BY <2>1, <2>3, <2>4, <2>5, <2>6
<1> QED BY <1>1, TimeInvariance, PTL

(* The insertion walk of add_interrupt_event_count: the list is ordered by *)
(* due time.                                                               *)
THEOREM QueueOrdered ==
  ASSUME Regime
  PROVE  Spec /\ []Regular => []OrderedByDue
<1>1. TimeInv => OrderedByDue
  BY DEF TimeInv, OnTime, Timed, Tidy, Ordered, OrderedByDue
<1> QED BY <1>1, TimeInvariance, PTL
=============================================================================
