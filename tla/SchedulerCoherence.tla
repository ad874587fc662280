------------------------- MODULE SchedulerCoherence -------------------------
(***************************************************************************)
(* Two facts about the cached state of Scheduler, next to those of         *)
(* SchedulerProofs.  For every value of the constants, next_interrupt and  *)
(* cycle_count together give Count whenever guest code runs; and a jump    *)
(* that an exception in a delay slot cancels is skipped by the branch it   *)
(* belongs to, for games that do not write Count and frontends that do not *)
(* load a savestate (with either, TLC finds a run in which it is not).     *)
(*                                                                         *)
(* The invariant is carried through every handler by the relation Tracks,  *)
(* one lemma for each operation and each handler, on top of the lemmas of  *)
(* SchedulerProofs that say that the handler leaves a Good core.           *)
(***************************************************************************)
EXTENDS SchedulerProofs

(* cycle_count is Count less next_interrupt, up to periods of Count. *)
Linked(c) == \E k \in Int : c.cycle = c.count - c.next + k * W

(* The core is linked, and by way of the first event unless the 64DD may   *)
(* have cancelled the one that was first.                                  *)
Exact(c) == Linked(c) /\ (DDTypes = {} => c.next = c.q[1].count)

(* An exception in a delay slot zeroes both until the jump is skipped. *)
Coh(c) == c.skip_jump \/ Exact(c)

(* What a step of the core from c to d does to the branch state: an        *)
(* exception in a delay slot, and only that, sets skip_jump, and with it   *)
(* cycle_count to 0; a load begins only if one was asked for.              *)
Tracks(c, d) ==
    /\ Coh(c) => d.loading \/ Coh(d)
    /\ d.skip_jump => c.skip_jump \/ (c.delay_slot /\ d.cycle = 0)
    /\ d.delay_slot => c.delay_slot
    /\ d.loading => c.loading \/ c.job = "load" \/ "load" \in Requests
    /\ d.job = "load" => c.job = "load" \/ "load" \in Requests

(* A step that raises no exception leaves skip_jump alone or clears it. *)
Moves(c, d) == Tracks(c, d) /\ (d.skip_jump => c.skip_jump)

-----------------------------------------------------------------------------
(* Arithmetic *)

(* A remainder differs from its dividend by periods. *)
LEMMA ModPeriods ==
  ASSUME NEW x \in Int
  PROVE  \E k \in Int : x % W = x + k * W
<1>1. x = W * (x \div W) + (x % W) /\ x \div W \in Int /\ x % W \in Int
  BY WAssumption
<1>2. x % W = x + (-(x \div W)) * W
  BY <1>1, WAssumption
<1> QED BY <1>1, <1>2

(* The signed reading of a difference differs from it by periods. *)
LEMMA SignedPeriods ==
  ASSUME NEW x \in Int
  PROVE  \E k \in Int : Signed(x) = x + k * W
<1>1. PICK k \in Int : x % W = x + k * W
  BY ModPeriods
<1>2. x % W \in Int /\ W \in Int
  BY ModType, WAssumption
<1>3. Signed(x) = x % W \/ Signed(x) = (x % W) - W
  BY DEF Signed
<1>4. (x % W) - W = x + (k - 1) * W /\ k - 1 \in Int
  BY <1>1, <1>2
<1> QED BY <1>1, <1>3, <1>4

(* Numbers that differ by periods have the same remainder. *)
LEMMA PeriodsMod ==
  ASSUME NEW x \in Int, NEW y \in Int, NEW k \in Int, x = y + k * W
  PROVE  x % W = y % W
<1>1. PICK i \in Int : x % W = x + i * W
  BY ModPeriods
<1>2. PICK j \in Int : y % W = y + j * W
  BY ModPeriods
<1>3. x % W \in 0..(W-1) /\ y % W \in 0..(W-1) /\ W \in Nat /\ W > 1
  BY ModType, WAssumption
<1> DEFINE a == x % W
           b == y % W
           n == k + i - j
<1>4. a = b + n * W /\ n \in Int
  BY <1>1, <1>2, <1>3
<1> HIDE DEF a, b, n
<1>5. a \in 0..(W-1) /\ b \in 0..(W-1)
  BY <1>3 DEF a, b
<1>6. CASE n = 0
  BY <1>4, <1>5, <1>6, <1>3 DEF a, b
<1>7. CASE n >= 1
  <2>1. n * W >= W
    BY <1>3, <1>4, <1>7
  <2> QED BY <2>1, <1>3, <1>4, <1>5
<1>8. CASE n <= -1
  <2>1. n * W <= -W
    BY <1>3, <1>4, <1>8
  <2> QED BY <2>1, <1>3, <1>4, <1>5
<1> QED BY <1>4, <1>6, <1>7, <1>8

-----------------------------------------------------------------------------
(* Composition *)

(* Steps without an exception, and then one that may raise one. *)
LEMMA TracksTrans ==
  ASSUME NEW c, NEW d, NEW e, Moves(c, d), ~d.loading, Tracks(d, e)
  PROVE  Tracks(c, e)
BY DEF Moves, Tracks

(* Steps without an exception compose. *)
LEMMA MovesTrans ==
  ASSUME NEW c, NEW d, NEW e, Moves(c, d), ~d.loading, Moves(d, e)
  PROVE  Moves(c, e)
BY DEF Moves, Tracks

(* d is c up to fields that the properties here do not depend on. *)
Quiet(c, d) ==
    /\ d.q = c.q /\ d.count = c.count /\ d.cycle = c.cycle /\ d.next = c.next
    /\ d.skip_jump = c.skip_jump /\ d.delay_slot = c.delay_slot
    /\ d.loading = c.loading /\ d.job = c.job

(* Setting other fields is such a step. *)
LEMMA QuietMoves ==
  ASSUME NEW c, NEW d, Quiet(c, d)
  PROVE  Moves(c, d)
<1>1. Coh(c) => Coh(d)
  BY DEF Quiet, Coh, Exact, Linked
<1> QED BY <1>1 DEF Quiet, Moves, Tracks

(* The difference of Count and a queued event is an integer. *)
LEMMA CoreInts ==
  ASSUME NEW c \in Cores
  PROVE  /\ c.count \in Int /\ c.cycle \in Int /\ c.next \in Int /\ W \in Int
         /\ c.skip_jump \in BOOLEAN /\ c.delay_slot \in BOOLEAN /\ c.loading \in BOOLEAN
<1>1. /\ c.count \in 0..(W-1) /\ c.cycle \in Int /\ c.next \in 0..(W-1)
      /\ c.skip_jump \in BOOLEAN /\ c.delay_slot \in BOOLEAN /\ c.loading \in BOOLEAN
  BY DEF Cores
<1> QED BY <1>1, WAssumption

(* Taking both from the first event makes a core exact. *)
LEMMA FromFirst ==
  ASSUME NEW d \in Cores, d.q # << >>, d.next = d.q[1].count,
         d.cycle = Signed(d.count - d.q[1].count)
  PROVE  Exact(d)
<1>1. d.count \in Int /\ d.next \in Int
  BY CoreInts
<1> DEFINE x == d.count - d.next
<1>2. x \in Int /\ d.cycle = Signed(x)
  BY <1>1
<1> HIDE DEF x
<1>3. PICK k \in Int : Signed(x) = x + k * W
  BY <1>2, SignedPeriods
<1> QED BY <1>2, <1>3 DEF Exact, Linked, x

-----------------------------------------------------------------------------
(* The operations of the queue *)

(* The fields that WithQueue sets, and those that it leaves alone. *)
LEMMA WithQueueRest ==
  ASSUME NEW c \in Cores, NEW q, NEW index, NEW next, NEW cycle,
         NEW d, d = WithQueue(c, q, index, next, cycle)
  PROVE  /\ d.q = q /\ d.next = next /\ d.cycle = cycle /\ d.count = c.count
         /\ d.skip_jump = c.skip_jump /\ d.delay_slot = c.delay_slot
         /\ d.loading = c.loading /\ d.job = c.job
<1>1. d.q = q /\ d.next = next /\ d.cycle = cycle /\ d.count = c.count
  BY DEF WithQueue, Cores
<1>2. d.skip_jump = c.skip_jump /\ d.delay_slot = c.delay_slot
  BY DEF WithQueue, Cores
<1>3. d.loading = c.loading /\ d.job = c.job
  BY DEF WithQueue, Cores
<1> QED BY <1>1, <1>2, <1>3

(* An insertion that finds a node makes the core exact; one that does not  *)
(* changes nothing.                                                        *)
LEMMA AddMoves ==
  ASSUME NEW c, Sound(c), NEW type \in Types, NEW count \in 0..(W-1), NEW left \in Int,
         NEW d, d = add_interrupt_event_count(c, type, count, left)
  PROVE  /\ Moves(c, d)
         /\ c.index < Capacity => Exact(d)
         /\ d.next = d.q[1].count \/ d = c
         /\ c.index < Capacity => d.next = d.q[1].count
         /\ d.skip_jump = c.skip_jump /\ d.delay_slot = c.delay_slot /\ d.job = c.job
<1> DEFINE q == InsertAt(c.q, InsertPosition(c, count), Event(type, count, left))
           n == c.index + 1
           first == q[1].count
           late == Signed(c.count - q[1].count)
<1>0. c \in Cores /\ Adds(c, d, type)
  BY AddEvent DEF Sound
<1>1. CASE c.index < Capacity
  <2>1. d = WithQueue(c, q, n, first, late)
    BY <1>1 DEF add_interrupt_event_count, alloc_node_ok, WithQueue
  <2>2. d \in Cores /\ d.q # << >> /\ d.loading = c.loading
    BY <1>0, <1>1 DEF Adds, Sound, Frame
  <2> HIDE DEF n
  <2>3. /\ d.q = q /\ d.next = first /\ d.cycle = late /\ d.count = c.count
        /\ d.skip_jump = c.skip_jump /\ d.delay_slot = c.delay_slot
        /\ d.loading = c.loading /\ d.job = c.job
    <3> HIDE DEF first, late, q
    <3> QED BY <1>0, <2>1, WithQueueRest
  <2>4. d.next = d.q[1].count /\ d.cycle = Signed(d.count - d.q[1].count)
    <3> HIDE DEF q
    <3> QED BY <2>3
  <2> HIDE DEF q, first, late
  <2>5. Exact(d)
    BY <2>2, <2>4, FromFirst
  <2> QED BY <2>3, <2>4, <2>5 DEF Moves, Tracks, Coh
<1>2. CASE ~(c.index < Capacity)
  <2>1. d = c
    BY <1>2 DEF add_interrupt_event_count, alloc_node_ok
  <2>2. Quiet(c, d)
    BY <2>1 DEF Quiet
  <2> QED BY <1>2, <2>1, <2>2, QuietMoves
<1> QED BY <1>1, <1>2

(* d is c as far as branches and jobs are concerned. *)
Kept(c, d) == /\ d.skip_jump = c.skip_jump /\ d.delay_slot = c.delay_slot
              /\ d.loading = c.loading /\ d.job = c.job

(* Such a step that leaves the core exact. *)
LEMMA ExactMoves ==
  ASSUME NEW c, NEW d, Kept(c, d), Exact(d)
  PROVE  Moves(c, d)
BY DEF Kept, Moves, Tracks, Coh

(* Kept composes. *)
LEMMA KeptTrans ==
  ASSUME NEW c, NEW d, NEW e, Kept(c, d), Kept(d, e)
  PROVE  Kept(c, e)
BY DEF Kept

(* An insertion keeps the branch state. *)
LEMMA AddKept ==
  ASSUME NEW c, Sound(c), NEW type \in Types, NEW count \in 0..(W-1), NEW left \in Int,
         NEW d, d = add_interrupt_event_count(c, type, count, left)
  PROVE  Kept(c, d)
<1>1. d.skip_jump = c.skip_jump /\ d.delay_slot = c.delay_slot /\ d.job = c.job
  BY AddMoves
<1>2. d.loading = c.loading
  BY AddEvent DEF Adds, Frame
<1> QED BY <1>1, <1>2 DEF Kept

(* Taking the first of several events leaves the core exact. *)
LEMMA PopExact ==
  ASSUME NEW c, Sound(c), c.q # << >>, NEW d, d = remove_interrupt_event(c), d.q # << >>
  PROVE  Exact(d) /\ Kept(c, d)
<1> DEFINE q == Tail(c.q)
           n == free_node(c.index)
           first == IF q = << >> THEN 0 ELSE q[1].count
           late == IF q = << >> THEN 0 ELSE Signed(c.count - q[1].count)
<1>0. c \in Cores /\ d \in Cores
  BY PopEvent DEF Sound
<1>1. d = WithQueue(c, q, n, first, late)
  BY DEF remove_interrupt_event, WithQueue
<1> HIDE DEF n
<1>2. /\ d.q = q /\ d.next = first /\ d.cycle = late /\ d.count = c.count
      /\ d.skip_jump = c.skip_jump /\ d.delay_slot = c.delay_slot
      /\ d.loading = c.loading /\ d.job = c.job
  <2> HIDE DEF first, late, q
  <2> QED BY <1>0, <1>1, WithQueueRest
<1>3. d.next = d.q[1].count /\ d.cycle = Signed(d.count - d.q[1].count)
  <2> HIDE DEF q
  <2> QED BY <1>2
<1> HIDE DEF first, late, q
<1> QED BY <1>0, <1>2, <1>3, FromFirst DEF Kept

(* A good core has two events, so its first one can be taken. *)
LEMMA PopMoves ==
  ASSUME NEW c, Good(c), NEW d, d = remove_interrupt_event(c)
  PROVE  Exact(d) /\ Kept(c, d) /\ Moves(c, d) /\ Sound(d) /\ ~d.loading
<1>1. /\ Sound(d) /\ d.loading = c.loading
      /\ \A t : t # c.q[1].type /\ Once(c.q, t) => Once(d.q, t)
  BY GoodHead, PopEvent
<1>2. \E t : Once(d.q, t)
  <2>1. "SPECIAL" # c.q[1].type \/ "COMPARE" # c.q[1].type
    OBVIOUS
  <2> QED BY <1>1, <2>1 DEF Good, Timers
<1>3. d.q # << >>
  BY <1>1, <1>2, OnceNotEmpty, CoreFields DEF Sound
<1>4. Exact(d) /\ Kept(c, d)
  BY <1>3, GoodHead, PopExact
<1> QED BY <1>1, <1>4, ExactMoves DEF Good

(* remove_event leaves next_interrupt and cycle_count as they were. *)
LEMMA RemoveKept ==
  ASSUME NEW c, Sound(c), NEW type, NEW d, d = remove_event(c, type)
  PROVE  Kept(c, d) /\ d.next = c.next /\ d.cycle = c.cycle /\ d.count = c.count
<1> DEFINE q == RemoveAt(c.q, FirstOf(c, type))
           n == free_node(c.index)
<1>0. c \in Cores
  BY DEF Sound
<1>1. d = c \/ d = WithQueue(c, q, n, c.next, c.cycle)
  <2>1. d = c \/ d = [c EXCEPT !.q = q, !.index = n]
    BY DEF remove_event
  <2> HIDE DEF q, n
  <2> QED BY <2>1, <1>0 DEF WithQueue, Cores
<1> HIDE DEF q, n
<1> QED BY <1>0, <1>1, WithQueueRest DEF Kept

(* The 64DD cancels an event: the core stays linked. *)
LEMMA CancelMoves ==
  ASSUME NEW c, Sound(c), NEW type \in DDTypes, NEW d, d = remove_event(c, type)
  PROVE  Moves(c, d)
<1>1. Kept(c, d) /\ d.next = c.next /\ d.cycle = c.cycle /\ d.count = c.count
  BY RemoveKept
<1>2. Exact(c) => Exact(d)
  BY <1>1 DEF Exact, Linked
<1> QED BY <1>1, <1>2 DEF Moves, Tracks, Kept, Coh

(* SPECIAL_INT put into a free node leaves the core exact. *)
LEMMA AddSpecialMoves ==
  ASSUME NEW c, Sound(c), c.index < Capacity, NEW d, d = add_special_event(c)
  PROVE  Exact(d) /\ Kept(c, d)
<1> DEFINE count == SpecialCount(c)
           left == (count - c.count) % W
<1>1. c.count \in Int /\ count \in 0..(W-1) /\ count \in Int
  BY CoreFields, HalfType, WAssumption DEF Sound, SpecialCount
<1>2. left \in Int /\ "SPECIAL" \in Types
  <2> HIDE DEF count
  <2>1. count - c.count \in Int
    BY <1>1
  <2> QED BY <2>1, ModType, WAssumption DEF Types
<1>3. d = add_interrupt_event_count(c, "SPECIAL", count, left)
  BY DEF add_special_event
<1> HIDE DEF count, left
<1> QED BY <1>1, <1>2, <1>3, AddMoves, AddKept

(* COMPARE_INT put into a free node leaves the core exact: the Count that  *)
(* the insertion looks ahead to is put back, and cycle_count with it.      *)
LEMMA AddCompareMoves ==
  ASSUME NEW c, Sound(c), c.index < Capacity, NEW value \in 0..(W-1),
         NEW d, d = add_compare_event(c, value)
  PROVE  Exact(d) /\ Kept(c, d)
<1> DEFINE count == (c.count + CountPerOp) % W
           cycle == c.cycle + CountPerOp
           ahead == WithCount(c, count, cycle)
           left == CountPerOp + ((value - count) % W)
           added == add_interrupt_event_count(ahead, "COMPARE", value, left)
           late == Signed(c.count - added.q[1].count)
<1>0. /\ c \in Cores /\ c.index = Len(c.q) /\ c.count \in Int /\ c.cycle \in Int
      /\ c.count \in 0..(W-1)
  BY CoreFields DEF Sound
<1>1. count \in 0..(W-1) /\ cycle \in Int
  <2>1. c.count + CountPerOp \in Int /\ c.cycle + CountPerOp \in Int
    BY <1>0, CountPerOpAssumption
  <2> QED BY <2>1, ModType
<1>2. left \in Int /\ "COMPARE" \in Types
  <2> HIDE DEF count
  <2>1. value - count \in Int
    BY <1>1, WAssumption
  <2>2. (value - count) % W \in 0..(W-1)
    BY <2>1, ModType
  <2> QED BY <2>2, WAssumption, CountPerOpAssumption DEF Types
<1>3. d = WithCount(added, c.count, late)
  <2>1. ahead = [c EXCEPT !.count = count, !.cycle = cycle]
    BY DEF WithCount
  <2>2. ahead.count = count
    BY <1>0, WithCountFields
  <2> QED BY <2>1, <2>2 DEF add_compare_event, WithCount
<1> HIDE DEF count, cycle
<1>4. ahead \in Cores /\ ahead.q = c.q /\ ahead.index = c.index /\ Kept(c, ahead)
  <2>1. ahead \in Cores
    BY <1>0, <1>1, WithCountType, Zenon
  <2> QED BY <1>0, <2>1 DEF WithCount, Cores, Kept
<1>5. Sound(ahead) /\ ahead.index < Capacity
  BY <1>0, <1>4 DEF Sound
<1> HIDE DEF ahead, left
<1>6. Kept(ahead, added) /\ added.next = added.q[1].count
  BY <1>2, <1>5, AddMoves, AddKept
<1>7. added \in Cores /\ added.q # << >> /\ added.q \in Seq(Events)
  <2>1. Adds(ahead, added, "COMPARE")
    BY <1>2, <1>5, AddEvent, Zenon
  <2> QED BY <2>1, <1>5, CoreFields DEF Adds, Sound
<1> HIDE DEF added
<1>8. late \in Int
  BY <1>0, <1>7, HeadCount
<1>9. d.q = added.q /\ d.next = added.next /\ d.count = c.count /\ d.cycle = late /\ Kept(added, d)
  <2> HIDE DEF late
  <2> QED BY <1>3, <1>7 DEF WithCount, Cores, Kept
<1>10. d \in Cores
  <2> HIDE DEF late
  <2> QED BY <1>0, <1>3, <1>7, <1>8, WithCountType, Zenon
<1>11. Exact(d)
  BY <1>6, <1>7, <1>9, <1>10, FromFirst
<1> QED BY <1>4, <1>6, <1>9, <1>11, KeptTrans

(* MTC0 Compare moves COMPARE_INT and leaves the core exact. *)
LEMMA MoveCompareMoves ==
  ASSUME NEW c, Good(c), NEW value \in 0..(W-1),
         NEW d, d = add_compare_event(remove_event(c, "COMPARE"), value)
  PROVE  Exact(d) /\ Kept(c, d)
<1> DEFINE e == remove_event(c, "COMPARE")
<1>1. Sound(e) /\ e.index < Capacity
  <2>1. Sound(c) /\ ~None(c.q, "COMPARE")
    BY OncePresent DEF Good, Timers
  <2> HIDE DEF e
  <2> QED BY <2>1, RemoveEvent DEF Removes, e
<1>2. Kept(c, e)
  BY GoodHead, RemoveKept
<1>3. d = add_compare_event(e, value)
  OBVIOUS
<1> HIDE DEF e
<1> QED BY <1>1, <1>2, <1>3, AddCompareMoves, KeptTrans

(* load_eventqueue_infos ends with a core that is exact. *)
LEMMA ReloadMoves ==
  ASSUME NEW c, Sound(c), Once(c.q, "SPECIAL"), NEW d, d = reload_special(c)
  PROVE  Exact(d) /\ Kept(c, d)
<1> DEFINE e == remove_event(c, "SPECIAL")
<1>1. Sound(e) /\ e.index < Capacity
  <2>1. ~None(c.q, "SPECIAL")
    BY OncePresent
  <2> HIDE DEF e
  <2> QED BY <2>1, RemoveEvent DEF Removes, e
<1>2. Kept(c, e)
  BY RemoveKept
<1>3. d = add_special_event(e)
  BY DEF reload_special
<1> HIDE DEF e
<1> QED BY <1>1, <1>2, <1>3, AddSpecialMoves, KeptTrans

(* init_interrupt leaves an exact core. *)
LEMMA InitMoves ==
  ASSUME NEW c \in Cores, NEW d, d = init_interrupt(c)
  PROVE  Exact(d) /\ Kept(c, d)
<1> DEFINE e == clear_queue(c)
           left1 == (Half - c.count) % W
           left2 == (0 - c.count) % W
           f == add_interrupt_event_count(e, "SPECIAL", Half, left1)
<1>1. Sound(e) /\ e.index = 0
  BY ClearQueue, Zenon
<1>2. Kept(c, e)
  BY DEF clear_queue, Kept, Cores
<1>3. left1 \in Int /\ left2 \in Int
  <2>1. Half - c.count \in Int /\ 0 - c.count \in Int
    BY CoreFields, HalfType, WAssumption
  <2> QED BY <2>1, ModType, WAssumption
<1>4. "SPECIAL" \in Types /\ "COMPARE" \in Types /\ 0 \in 0..(W-1) /\ Half \in 0..(W-1)
  BY WAssumption, HalfType DEF Types
<1>5. d = add_interrupt_event_count(f, "COMPARE", 0, left2)
  BY DEF init_interrupt
<1> HIDE DEF e, left1, left2
<1>6. Adds(e, f, "SPECIAL") /\ Kept(e, f)
  BY <1>1, <1>3, <1>4, AddEvent, AddKept
<1> HIDE DEF f
<1>7. Sound(f) /\ f.index < Capacity
  BY <1>1, <1>6, CapacityAssumption DEF Adds
<1>8. Exact(d) /\ Kept(f, d)
  BY <1>3, <1>4, <1>5, <1>7, AddMoves, AddKept
<1> QED BY <1>2, <1>6, <1>8, KeptTrans

(* The guest's progress moves Count and cycle_count alike. *)
LEMMA UpdateMoves ==
  ASSUME NEW c, Good(c), NEW n \in Int, NEW d, d = cp0_update_count(c, n)
  PROVE  Moves(c, d) /\ Kept(c, d) /\ d.cycle = c.cycle + n
<1> DEFINE q == Aged(c.q, n)
           count == (c.count + n) % W
<1>0. /\ c \in Cores /\ c.q \in Seq(Events) /\ Len(c.q) >= 1 /\ Len(c.q) \in Nat
      /\ c.count \in Int /\ c.cycle \in Int /\ c.next \in Int /\ W \in Int
  BY GoodHead, CoreFields, CoreInts
<1>1. d = [c EXCEPT !.count = count, !.cycle = c.cycle + n, !.q = q]
  BY Zenon DEF cp0_update_count
<1>2. q[1].count = c.q[1].count
  <2>1. 1 \in DOMAIN c.q /\ c.q[1] \in Events
    BY <1>0, GoodHead
  <2>2. q[1] = [c.q[1] EXCEPT !.left = Later(c.q[1].left, n)]
    BY <2>1 DEF Aged
  <2> QED BY <2>1, <2>2 DEF Events
<1>3. PICK i \in Int : count = c.count + n + i * W
  <2>1. c.count + n \in Int
    BY <1>0
  <2> DEFINE x == c.count + n
  <2> HIDE DEF x
  <2>2. \E i \in Int : x % W = x + i * W
    BY <2>1, ModPeriods DEF x
  <2> QED BY <2>2 DEF x
<1> HIDE DEF q, count
<1>4. d.q = q /\ d.count = count /\ d.cycle = c.cycle + n /\ d.next = c.next /\ Kept(c, d)
  BY <1>0, <1>1 DEF Cores, Kept
<1>5. ASSUME Linked(c) PROVE Linked(d)
  <2>1. PICK k \in Int : c.cycle = c.count - c.next + k * W
    BY <1>5 DEF Linked
  <2>2. c.cycle + n = count - c.next + (k - i) * W /\ k - i \in Int
    BY <2>1, <1>0, <1>3, SMTT(30)
  <2> QED BY <2>2, <1>4 DEF Linked
<1>6. Exact(c) => Exact(d)
  BY <1>2, <1>4, <1>5 DEF Exact
<1> QED BY <1>4, <1>6 DEF Kept, Moves, Tracks, Coh

(* MTC0 Count: with the timers put back, the moved queue is exact again,   *)
(* also when the event it was called on has just set skip_jump.            *)
LEMMA TranslateMoves ==
  ASSUME NEW c, Good(c), NEW base \in 0..(W-1), NEW compare \in 0..(W-1),
         NEW d, d = translate_event_queue(c, base, compare)
  PROVE  Exact(d) /\ Kept(c, d)
<1> DEFINE a == remove_event(c, "COMPARE")
           b == remove_event(a, "SPECIAL")
           q == Shifted(b.q, base - c.count)
           m == WithEvents(b, q, base, b.cycle)
           s == add_special_event(m)
<1>0. /\ "SPECIAL" # "COMPARE" /\ Sound(c) /\ ~None(c.q, "COMPARE") /\ Once(c.q, "SPECIAL")
      /\ c.index \in 0..Capacity /\ c.count \in Int
  BY OncePresent, GoodHead, CoreFields DEF Good, Timers
<1>1. Removes(c, a, "COMPARE") /\ Kept(c, a)
  BY <1>0, RemoveEvent, RemoveKept
<1> HIDE DEF a
<1>2. Sound(a) /\ ~None(a.q, "SPECIAL") /\ a.index = c.index - 1
  BY <1>0, <1>1, OncePresent DEF Removes
<1>3. Removes(a, b, "SPECIAL") /\ Kept(a, b)
  BY <1>2, RemoveEvent, RemoveKept
<1> HIDE DEF b
<1>4. /\ Sound(b) /\ b.index = a.index - 1 /\ b \in Cores /\ b.q \in Seq(Events)
      /\ b.cycle \in Int /\ base - c.count \in Int
  BY <1>0, <1>3, CoreFields, WAssumption DEF Removes, Sound
<1>5. q \in Seq(Events) /\ Len(q) = Len(b.q) /\ \A i \in 1..Len(b.q) : q[i].type = b.q[i].type
  BY <1>4, ShiftedType
<1>6. d = add_compare_event(s, compare)
  <2>1. m = [b EXCEPT !.count = base, !.q = q]
    <3> HIDE DEF q
    <3> QED BY <1>4 DEF WithEvents, Cores
  <2>2. d = add_compare_event(add_special_event([b EXCEPT !.count = base, !.q = q]), compare)
    BY Zenon DEF translate_event_queue, a, b
  <2> QED BY <2>1, <2>2, Zenon
<1> HIDE DEF q
<1>7. m = WithEvents(b, q, base, b.cycle)
  OBVIOUS
<1>8. Kept(b, m)
  BY <1>4 DEF WithEvents, Cores, Kept
<1> HIDE DEF m
<1>9. Relabels(b, m)
  BY <1>4, <1>5, <1>7, Relabel, Zenon
<1>10. Sound(m) /\ m.index < Capacity - 1 /\ m.index \in Int
  BY <1>0, <1>2, <1>4, <1>9, CapacityAssumption DEF Relabels
<1>11. Adds(m, s, "SPECIAL") /\ Kept(m, s)
  BY <1>10, CapacityAssumption, AddSpecial, AddSpecialMoves
<1> HIDE DEF s
<1>12. Sound(s) /\ s.index < Capacity
  BY <1>10, <1>11, CapacityAssumption DEF Adds
<1>13. Exact(d) /\ Kept(s, d)
  BY <1>6, <1>12, AddCompareMoves
<1> QED BY <1>1, <1>3, <1>8, <1>11, <1>13, KeptTrans

-----------------------------------------------------------------------------
(* Exceptions and interrupt lines *)

(* An exception in a delay slot, and only there, sets skip_jump. *)
LEMMA ExceptionTracks ==
  ASSUME NEW c \in Cores, NEW d, d = exception_general(c)
  PROVE  Tracks(c, d)
<1>1. CASE c.delay_slot
  <2>1. d = [c EXCEPT !.exl = TRUE, !.skip_jump = TRUE, !.next = 0, !.cycle = 0]
    BY <1>1 DEF exception_general
  <2>2. /\ d.skip_jump /\ d.cycle = 0 /\ d.delay_slot = c.delay_slot
        /\ d.loading = c.loading /\ d.job = c.job
    BY <2>1 DEF Cores
  <2> QED BY <1>1, <2>2 DEF Tracks, Coh
<1>2. CASE ~c.delay_slot
  <2>1. d = [c EXCEPT !.exl = TRUE]
    BY <1>2 DEF exception_general
  <2>2. Quiet(c, d)
    BY <2>1 DEF Quiet, Cores
  <2> QED BY <2>2, QuietMoves DEF Moves
<1> QED BY <1>1, <1>2

(* raise_maskable_interrupt may take such an exception. *)
LEMMA MaskableTracks ==
  ASSUME NEW c \in Cores, ~c.loading, NEW ip \in Lines, NEW d, d = raise_maskable_interrupt(c, ip)
  PROVE  Tracks(c, d)
<1> DEFINE e == [c EXCEPT !.cause = c.cause \cup {ip}]
<1>1. c.cause \cup {ip} \in SUBSET Lines
  BY CauseLine
<1>2. e \in Cores /\ e.loading = c.loading
  BY <1>1, SetCause DEF Same
<1>3. Moves(c, e)
  <2>1. Quiet(c, e)
    BY DEF Quiet, Cores
  <2> QED BY <2>1, QuietMoves
<1>4. d = exception_general(e) \/ d = e
  BY DEF raise_maskable_interrupt
<1> HIDE DEF e
<1>5. CASE d = exception_general(e)
  BY <1>2, <1>3, <1>5, ExceptionTracks, TracksTrans
<1>6. CASE d = e
  BY <1>3, <1>6 DEF Moves
<1> QED BY <1>4, <1>5, <1>6

(* raise_rcp_interrupt likewise. *)
LEMMA RcpTracks ==
  ASSUME NEW c \in Cores, ~c.loading, NEW unmasked \in BOOLEAN,
         NEW d, d = raise_rcp_interrupt(c, unmasked)
  PROVE  Tracks(c, d)
<1> DEFINE e == [c EXCEPT !.line = c.line \/ unmasked]
<1>1. (c.line \/ unmasked) \in BOOLEAN
  OBVIOUS
<1>2. e \in Cores /\ e.loading = c.loading
  BY <1>1, SetLine DEF Same
<1>3. Moves(c, e)
  <2>1. Quiet(c, e)
    BY DEF Quiet, Cores
  <2> QED BY <2>1, QuietMoves
<1>4. d = raise_maskable_interrupt(e, "IP2") \/ d = e
  BY DEF raise_rcp_interrupt
<1> HIDE DEF e
<1>5. CASE d = raise_maskable_interrupt(e, "IP2")
  <2>1. "IP2" \in Lines
    BY DEF Lines
  <2> QED BY <1>2, <1>3, <1>5, <2>1, MaskableTracks, TracksTrans
<1>6. CASE d = e
  BY <1>3, <1>6 DEF Moves
<1> QED BY <1>4, <1>5, <1>6

(* A CHECK_INT put in front is due at Count: next_interrupt is Count and   *)
(* cycle_count 0, which is exact.                                          *)
LEMMA CheckMoves ==
  ASSUME NEW c, Good(c), NEW ip \in Lines, NEW set \in BOOLEAN,
         NEW d, d = r4300_check_interrupt(c, ip, set)
  PROVE  Moves(c, d) /\ Good(d)
<1> DEFINE cause == IF set THEN c.cause \cup {ip} ELSE c.cause \ {ip}
           e == [c EXCEPT !.cause = cause]
           head == Event("CHECK", e.count, 0)
           q == <<head>> \o e.q
           n == e.index + 1
<1>0. c \in Cores /\ Good(d)
  BY GoodHead, CheckInterrupt
<1>1. d = e \/ (alloc_node_ok(e) /\ d = WithQueue(e, q, n, e.count, 0))
  BY DEF r4300_check_interrupt, WithQueue
<1>2. e \in Cores /\ Quiet(c, e) /\ ~e.loading
  <2>1. cause \in SUBSET Lines
    BY <1>0, CauseLine
  <2> HIDE DEF cause
  <2>2. Same(c, e) /\ Quiet(c, e)
    BY <1>0, <2>1, SetCause DEF Quiet, Cores
  <2> QED BY <2>2 DEF Same, Good
<1>3. head.count = e.count
  BY DEF Event
<1> HIDE DEF e, head, n
<1>4. CASE d = WithQueue(e, q, n, e.count, 0)
  <2>1. d.q = q /\ d.next = e.count /\ d.cycle = 0 /\ d.count = e.count /\ Kept(e, d)
    <3> HIDE DEF q
    <3> QED BY <1>2, <1>4, WithQueueRest DEF Kept
  <2>2. q[1] = head
    <3>1. e.q \in Seq(Events)
      BY <1>2, CoreFields
    <3> QED BY <3>1
  <2>3. Linked(d)
    <3>1. d.count \in Int /\ 0 \in Int /\ 0 = d.count - d.count + 0 * W
      BY <1>2, <2>1, CoreInts
    <3> QED BY <2>1, <3>1 DEF Linked
  <2>4. Exact(d)
    BY <1>3, <2>1, <2>2, <2>3 DEF Exact
  <2> QED BY <1>0, <1>2, <2>1, <2>4, ExactMoves, QuietMoves, MovesTrans
<1>5. CASE d = e
  BY <1>0, <1>2, <1>5, QuietMoves
<1> QED BY <1>1, <1>4, <1>5

-----------------------------------------------------------------------------
(* The event handlers *)

(* COMPARE_INT *)
LEMMA CompareTracks ==
  ASSUME NEW c, Good(c), NEW d, d = compare_int_handler(remove_interrupt_event(c))
  PROVE  Tracks(c, d)
<1> DEFINE e == remove_interrupt_event(c)
           f == add_compare_event(e, e.compare)
<1>1. Sound(e) /\ ~e.loading /\ Kept(c, e) /\ e.index < Capacity
  BY GoodHead, PopEvent, PopMoves
<1>2. d = raise_maskable_interrupt(f, "IP7") /\ "IP7" \in Lines
  BY DEF compare_int_handler, Lines
<1> HIDE DEF e
<1>3. e.compare \in 0..(W-1)
  BY <1>1, CoreFields DEF Sound
<1>4. Exact(f) /\ Kept(e, f) /\ Adds(e, f, "COMPARE")
  BY <1>1, <1>3, AddCompareMoves, AddCompare
<1> HIDE DEF f
<1>5. Moves(c, f) /\ ~f.loading /\ f \in Cores
  BY <1>1, <1>4, KeptTrans, ExactMoves DEF Kept, Adds, Sound
<1>6. Tracks(f, d)
  BY <1>2, <1>5, MaskableTracks
<1> QED BY <1>5, <1>6, TracksTrans

(* SPECIAL_INT *)
LEMMA SpecialTracks ==
  ASSUME NEW c, Good(c), NEW d, d = special_int_handler(c)
  PROVE  Tracks(c, d)
<1> DEFINE e == remove_interrupt_event(c)
<1>1. Sound(e) /\ Kept(c, e) /\ e.index < Capacity
  BY GoodHead, PopEvent, PopMoves
<1>2. d = add_special_event(e)
  BY DEF special_int_handler
<1> HIDE DEF e
<1>3. Exact(d) /\ Kept(e, d)
  BY <1>1, <1>2, AddSpecialMoves
<1> QED BY <1>1, <1>3, KeptTrans, ExactMoves DEF Moves

(* An event a delay away is inserted without touching the branch state. *)
LEMMA DelayedMoves ==
  ASSUME NEW c, Sound(c), NEW type \in Types, NEW delay \in 0..(W-1),
         NEW d, d = add_interrupt_event(c, type, delay)
  PROVE  Moves(c, d)
<1> DEFINE count == (c.count + delay) % W
<1>1. c.count + delay \in Int /\ delay \in Int
  BY CoreFields, WAssumption DEF Sound
<1>2. count \in 0..(W-1)
  BY <1>1, ModType
<1>3. d = add_interrupt_event_count(c, type, count, delay)
  BY DEF add_interrupt_event
<1> HIDE DEF count
<1> QED BY <1>1, <1>2, <1>3, AddMoves, Zenon

(* A soft reset queues two events. *)
LEMMA SoftMoves ==
  ASSUME NEW c, Good(c), NEW d, d = soft_reset_device(c)
  PROVE  Moves(c, d)
<1> DEFINE e == add_interrupt_event(c, "HW2", 0)
<1>0. /\ "HW2" \in Types /\ "NMI" \in Types /\ 0 \in 0..(W-1) /\ NMIDelay \in 0..(W-1)
      /\ Sound(c) /\ ~c.loading
  BY CountsAssumption, WAssumption DEF Types, Good
<1>1. Adds(c, e, "HW2") /\ Moves(c, e)
  BY <1>0, AddDelayed, DelayedMoves
<1>2. d = add_interrupt_event(e, "NMI", NMIDelay)
  BY DEF soft_reset_device
<1> HIDE DEF e
<1>3. Sound(e) /\ ~e.loading
  BY <1>0, <1>1 DEF Adds, Frame
<1>4. Moves(e, d)
  BY <1>0, <1>2, <1>3, DelayedMoves
<1> QED BY <1>1, <1>3, <1>4, MovesTrans

(* What the frontend asks for touches no branch state. *)
LEMMA ServeMoves ==
  ASSUME NEW c, Good(c), NEW request \in Requests, NEW d, d = Serve(c, request)
  PROVE  Moves(c, d)
<1>0. request \in {"none", "soft", "hard", "load", "save", "stop"} /\ c \in Cores
  BY CountsAssumption, GoodHead
<1>1. CASE request = "soft"
  BY <1>1, SoftMoves DEF Serve
<1>2. CASE request \in {"none", "hard", "stop"}
  <2>1. \/ d = c \/ d = [c EXCEPT !.reset_hard_job = TRUE] \/ d = [c EXCEPT !.stop = TRUE]
    BY <1>2 DEF Serve
  <2>2. Quiet(c, d)
    BY <1>0, <2>1 DEF Quiet, Cores
  <2> QED BY <2>2, QuietMoves
<1>3. CASE request \in {"load", "save"}
  <2>1. d = [c EXCEPT !.job = request]
    BY <1>3 DEF Serve
  <2>2. /\ d.q = c.q /\ d.count = c.count /\ d.cycle = c.cycle /\ d.next = c.next
        /\ d.skip_jump = c.skip_jump /\ d.delay_slot = c.delay_slot
        /\ d.loading = c.loading /\ d.job = request
    BY <1>0, <2>1 DEF Cores
  <2>3. Coh(c) => Coh(d)
    BY <2>2 DEF Coh, Exact, Linked
  <2> QED BY <2>2, <2>3 DEF Moves, Tracks
<1> QED BY <1>0, <1>1, <1>2, <1>3

(* VI_INT *)
LEMMA VITracks ==
  ASSUME NEW c, Good(c), c.q[1].type = "VI", NEW env \in Env,
         NEW d, d = vi_vertical_interrupt_event(c, env)
  PROVE  Tracks(c, d)
<1> DEFINE s == Serve(c, env.request)
           vi == s.q[FirstOf(s, "VI")]
           count == (vi.count + VIDelay) % W
           left == vi.left + VIDelay
           e == remove_interrupt_event(s)
           f == add_interrupt_event_count(e, "VI", count, left)
<1>0. /\ env.request \in Requests /\ env.unmasked \in BOOLEAN /\ "VI" \in Types
      /\ VIDelay \in 0..(W-1) /\ VIDelay \in Int
  BY CountsAssumption, WAssumption DEF Env, Types
<1>1. d = raise_rcp_interrupt(f, env.unmasked)
  BY DEF vi_vertical_interrupt_event
<1>2. Good(s) /\ Moves(c, s) /\ \A t : ~None(c.q, t) => ~None(s.q, t)
  BY <1>0, ServeGood, ServeMoves
<1> HIDE DEF s
<1>3. vi \in Events
  <2>1. ~None(c.q, "VI")
    <3>1. 1 \in 1..Len(c.q)
      BY GoodHead, CoreFields
    <3> QED BY <3>1 DEF None
  <2>2. \E i \in 1..Len(s.q) : s.q[i].type = "VI"
    BY <1>2, <2>1 DEF None
  <2>3. FirstOf(s, "VI") \in 1..Len(s.q)
    BY <1>2, <2>2, GoodHead, FirstOfType
  <2> QED BY <1>2, <2>3, GoodHead, ElementOfSeq
<1> HIDE DEF vi
<1>4. count \in 0..(W-1) /\ left \in Int
  <2>1. vi.count + VIDelay \in Int /\ vi.left + VIDelay \in Int
    BY <1>0, <1>3, WAssumption DEF Events
  <2> QED BY <2>1, ModType
<1>5. Moves(s, e) /\ Sound(e) /\ ~e.loading
  BY <1>2, PopMoves
<1> HIDE DEF e, count, left
<1>6. Moves(e, f) /\ Adds(e, f, "VI")
  BY <1>0, <1>4, <1>5, AddMoves, AddEvent
<1> HIDE DEF f
<1>7. f \in Cores /\ ~f.loading
  BY <1>5, <1>6 DEF Adds, Sound, Frame
<1>8. Tracks(f, d)
  BY <1>0, <1>1, <1>7, RcpTracks
<1>9. Moves(c, f) /\ ~s.loading
  BY <1>2, <1>5, <1>6, MovesTrans DEF Good
<1> QED BY <1>7, <1>8, <1>9, TracksTrans

(* NMI_INT: the queue starts afresh, outside any branch. *)
LEMMA NMIMoves ==
  ASSUME NEW c, Sound(c), ~c.loading, NEW unmasked \in BOOLEAN,
         NEW d, d = nmi_int_handler(c, unmasked)
  PROVE  Moves(c, d)
<1> DEFINE line == c.line /\ unmasked
           cause == IF line THEN {"IP2"} ELSE {}
           b == Boot(c, FALSE, {}, cause, line, 0)
           e == init_interrupt(b)
<1>1. /\ line \in BOOLEAN /\ cause \in SUBSET Lines /\ {} \in SUBSET Lines /\ 0 \in 0..(W-1)
      /\ FALSE \in BOOLEAN /\ c \in Cores
  BY WAssumption DEF Lines, Sound
<1>2. /\ b \in Cores /\ b.skip_jump = c.skip_jump /\ ~b.delay_slot
      /\ b.loading = c.loading /\ b.job = c.job
  <2> HIDE DEF line, cause
  <2>1. b \in Cores
    BY <1>1, BootType
  <2>2. b.skip_jump = c.skip_jump /\ ~b.delay_slot
    BY <1>1 DEF Boot, Cores
  <2>3. b.loading = c.loading /\ b.job = c.job
    BY <1>1 DEF Boot, Cores
  <2> QED BY <2>1, <2>2, <2>3
<1>3. d = add_interrupt_event(e, "VI", VIDelay)
  BY DEF nmi_int_handler, Boot
<1> HIDE DEF b
<1>4. Sound(e) /\ Exact(e) /\ Kept(b, e)
  BY <1>2, InitInterrupt, InitMoves
<1> HIDE DEF e
<1>5. "VI" \in Types /\ VIDelay \in 0..(W-1)
  BY CountsAssumption DEF Types
<1>6. Moves(e, d) /\ Adds(e, d, "VI")
  BY <1>3, <1>4, <1>5, DelayedMoves, AddDelayed
<1>7. Moves(c, e) /\ ~e.loading
  BY <1>2, <1>4 DEF Moves, Tracks, Kept, Coh
<1> QED BY <1>6, <1>7, MovesTrans

(* A hard reset also clears skip_jump. *)
LEMMA PowerOnMoves ==
  ASSUME NEW c \in Cores, ~c.loading, NEW d, d = poweron_r4300(c)
  PROVE  Moves(c, d) /\ Coh(d) /\ ~d.skip_jump
<1> DEFINE a == Boot(c, FALSE, {}, {}, FALSE, PowerOnCount)
           b == Reset(a, 0, 0, 0, FALSE, FALSE)
<1>1. /\ {} \in SUBSET Lines /\ 0 \in 0..(W-1) /\ 0 \in Int /\ FALSE \in BOOLEAN
      /\ PowerOnCount \in 0..(W-1)
  BY WAssumption, CountsAssumption
<1>2. a \in Cores /\ ~a.delay_slot /\ a.loading = c.loading /\ a.job = c.job
  <2>1. a \in Cores
    BY <1>1, BootType
  <2>2. ~a.delay_slot /\ a.loading = c.loading /\ a.job = c.job
    BY <1>1 DEF Boot, Cores
  <2> QED BY <2>1, <2>2
<1>3. d = init_interrupt(b)
  BY DEF poweron_r4300, Boot, Reset
<1> HIDE DEF a
<1>4. b \in Cores /\ ~b.delay_slot /\ ~b.skip_jump /\ b.loading = a.loading /\ b.job = a.job
  <2>1. b \in Cores
    BY <1>1, <1>2, ResetType
  <2>2. ~b.skip_jump /\ b.delay_slot = a.delay_slot /\ b.loading = a.loading /\ b.job = a.job
    BY <1>1, <1>2 DEF Reset, Cores
  <2> QED BY <1>2, <2>1, <2>2
<1> HIDE DEF b
<1>5. Exact(d) /\ Kept(b, d)
  BY <1>3, <1>4, InitMoves
<1> QED BY <1>2, <1>4, <1>5 DEF Moves, Tracks, Kept, Coh

(* The handler of the first event, whatever its type. *)
LEMMA DispatchTracks ==
  ASSUME NEW c, Good(c), NEW type, type = c.q[1].type, NEW env \in Env,
         NEW d, d = Dispatch(c, type, env)
  PROVE  Tracks(c, d)
<1> DEFINE g == remove_interrupt_event(c)
<1>0. type \in Types /\ env.unmasked \in BOOLEAN
  BY GoodHead DEF Env
<1>1. Moves(c, g) /\ Sound(g) /\ ~g.loading /\ g \in Cores
  BY PopMoves DEF Sound
<1>2. ASSUME type \notin {"SPECIAL", "COMPARE"} PROVE Good(g)
  BY <1>2, PopGood
<1>3. CASE type \in DeviceTypes
  <2>1. type \notin {"SPECIAL", "COMPARE", "CHECK", "VI", "HW2", "NMI"} /\ type \notin DDTypes
    BY <1>3, TypesAssumption
  <2>2. d = raise_rcp_interrupt(g, env.unmasked)
    BY <1>3, <2>1 DEF Dispatch
  <2> HIDE DEF g
  <2>3. Tracks(g, d)
    BY <1>0, <1>1, <2>2, RcpTracks
  <2> QED BY <1>1, <2>3, TracksTrans
<1>4. CASE type \in DDTypes
  <2>1. type \notin {"SPECIAL", "COMPARE", "CHECK", "VI", "HW2", "NMI"} /\ type \notin DeviceTypes
    BY <1>4, TypesAssumption
  <2>2. d = r4300_check_interrupt(g, "IP3", TRUE) /\ "IP3" \in Lines /\ TRUE \in BOOLEAN
    BY <1>4, <2>1 DEF Dispatch, dd_mecha_int_handler, Lines
  <2> HIDE DEF g
  <2>3. Moves(g, d)
    BY <1>2, <2>1, <2>2, CheckMoves
  <2> QED BY <1>1, <2>3, MovesTrans DEF Moves
<1>5. CASE type \notin DeviceTypes \cup DDTypes
  <2>1. CASE type = "VI"
    <3>1. d = vi_vertical_interrupt_event(c, env)
      BY <1>5, <2>1 DEF Dispatch
    <3> QED BY <2>1, <3>1, VITracks
  <2>2. CASE type = "COMPARE"
    <3>1. d = compare_int_handler(g)
      BY <1>5, <2>2 DEF Dispatch
    <3> QED BY <3>1, CompareTracks
  <2>3. CASE type = "CHECK"
    <3>1. d = exception_general(g)
      BY <1>5, <2>3 DEF Dispatch, check_int_handler
    <3> HIDE DEF g
    <3>2. Tracks(g, d)
      BY <1>1, <3>1, ExceptionTracks
    <3> QED BY <1>1, <3>2, TracksTrans
  <2>4. CASE type = "SPECIAL"
    <3>1. d = special_int_handler(c)
      BY <1>5, <2>4 DEF Dispatch
    <3> QED BY <3>1, SpecialTracks
  <2>5. CASE type = "HW2"
    <3>1. d = raise_maskable_interrupt(g, "IP4") /\ "IP4" \in Lines
      BY <1>5, <2>5 DEF Dispatch, hw2_int_handler, Lines
    <3> HIDE DEF g
    <3>2. Tracks(g, d)
      BY <1>1, <3>1, MaskableTracks
    <3> QED BY <1>1, <3>2, TracksTrans
  <2>6. CASE type = "NMI"
    <3>1. d = nmi_int_handler(g, env.unmasked)
      BY <1>5, <2>6 DEF Dispatch
    <3> HIDE DEF g
    <3>2. Moves(g, d)
      BY <1>0, <1>1, <3>1, NMIMoves
    <3> QED BY <1>1, <3>2, MovesTrans DEF Moves
  <2> QED BY <1>0, <1>5, <2>1, <2>2, <2>3, <2>4, <2>5, <2>6 DEF Types
<1> QED BY <1>3, <1>4, <1>5

(* Servicing the first event. *)
LEMMA ServiceTracks ==
  ASSUME NEW c, Good(c), NEW env \in Env, NEW d, d = Service(c, env)
  PROVE  Tracks(c, d)
<1> DEFINE fired == IF History THEN Append(c.fired, c.q[1]) ELSE c.fired
           f == [c EXCEPT !.fired = fired]
<1>0. c \in Cores /\ c.q[1] \in Events /\ c.fired \in Seq(Events)
  BY GoodHead DEF Cores
<1>1. fired \in Seq(Events)
  BY <1>0, AppendProperties
<1>2. d = Dispatch(f, c.q[1].type, env)
  BY DEF Service
<1> HIDE DEF fired
<1>3. Same(c, f) /\ Quiet(c, f)
  BY <1>0, <1>1, SetFired DEF Quiet, Cores
<1> HIDE DEF f
<1>4. Good(f) /\ f.q[1].type = c.q[1].type /\ ~f.loading
  BY <1>3, SameGood DEF Same, Good
<1>5. Tracks(f, d)
  BY <1>2, <1>4, DispatchTracks
<1> QED BY <1>3, <1>4, <1>5, QuietMoves, TracksTrans

-----------------------------------------------------------------------------
(* Savestates and gen_interrupt *)

(* Saving after an event was serviced changes only the job and the file. *)
LEMMA SaveTracks ==
  ASSUME NEW c, NEW e \in Cores, Tracks(c, e), NEW d, d = savestates_save(e)
  PROVE  Tracks(c, d)
<1> DEFINE f == [q |-> e.q, count |-> e.count, compare |-> e.compare,
                 ie |-> e.ie, exl |-> e.exl, erl |-> e.erl, im |-> e.im,
                 cause |-> e.cause, line |-> e.line]
<1>1. d = [e EXCEPT !.job = "nothing", !.file = f]
  BY DEF savestates_save
<1> HIDE DEF f
<1>2. /\ d.q = e.q /\ d.count = e.count /\ d.cycle = e.cycle /\ d.next = e.next
      /\ d.skip_jump = e.skip_jump /\ d.delay_slot = e.delay_slot
      /\ d.loading = e.loading /\ d.job = "nothing"
  BY <1>1 DEF Cores
<1>3. Coh(e) => Coh(d)
  BY <1>2 DEF Coh, Exact, Linked
<1> QED BY <1>2, <1>3 DEF Tracks

(* A load keeps the branch state: skip_jump too, and then a jump of the    *)
(* state that was left is still to be skipped.                             *)
LEMMA LoadMoves ==
  ASSUME NEW c \in Cores, c.job = "load", NEW d, d = savestates_load(c)
  PROVE  Moves(c, d)
<1>1. CASE c.file.q = << >>
  <2>1. d = [c EXCEPT !.job = "nothing"]
    BY <1>1 DEF savestates_load
  <2>2. /\ d.q = c.q /\ d.count = c.count /\ d.cycle = c.cycle /\ d.next = c.next
        /\ d.skip_jump = c.skip_jump /\ d.delay_slot = c.delay_slot
        /\ d.loading = c.loading /\ d.job = "nothing"
    BY <2>1 DEF Cores
  <2>3. Coh(c) => Coh(d)
    BY <2>2 DEF Coh, Exact, Linked
  <2> QED BY <2>2, <2>3 DEF Moves, Tracks
<1>2. CASE c.file.q # << >>
  <2> DEFINE e == clear_queue(c)
  <2>1. d = Restore(e, c.file, TRUE, "nothing")
    BY <1>2 DEF savestates_load, Restore
  <2>2. e \in Cores /\ e.skip_jump = c.skip_jump /\ e.delay_slot = c.delay_slot
    BY ClearQueue DEF clear_queue, Cores, Sound
  <2> HIDE DEF e
  <2>3. d.loading /\ d.job = "nothing" /\ d.skip_jump = e.skip_jump /\ d.delay_slot = e.delay_slot
    BY <2>1, <2>2 DEF Restore, Cores
  <2> QED BY <2>2, <2>3 DEF Moves, Tracks
<1> QED BY <1>1, <1>2

(* gen_interrupt consumes skip_jump, unless it is to load a savestate.  *)
LEMMA GenTracks ==
  ASSUME NEW c, Good(c), NEW env \in Env, NEW safe \in BOOLEAN,
         NEW d, d = gen_interrupt(c, env, safe)
  PROVE  Tracks(c, d) /\ (c.skip_jump /\ c.job # "load" => ~d.skip_jump)
<1>0. c \in Cores /\ ~c.loading
  BY GoodHead DEF Good
<1>1. CASE safe /\ c.job = "load"
  <2>1. d = savestates_load(c)
    BY <1>1 DEF gen_interrupt
  <2> QED BY <1>0, <1>1, <2>1, LoadMoves DEF Moves
<1>2. CASE ~(safe /\ c.job = "load") /\ safe /\ c.reset_hard_job
  <2>1. d = poweron_r4300(c)
    BY <1>2 DEF gen_interrupt, reset_hard_handler
  <2> QED BY <1>0, <2>1, PowerOnMoves DEF Moves
<1>3. CASE ~(safe /\ c.job = "load") /\ ~(safe /\ c.reset_hard_job) /\ c.skip_jump
  <2> DEFINE next == c.q[1].count
             cycle == Signed(c.count - c.q[1].count)
  <2>1. d = WithSkip(c, FALSE, next, cycle)
    BY <1>3 DEF gen_interrupt, skip_the_jump, WithSkip
  <2>2. FALSE \in BOOLEAN /\ next \in 0..(W-1) /\ cycle \in Int /\ c.q # << >>
    BY GoodHead
  <2> HIDE DEF next, cycle
  <2>3. Same(c, d)
    BY <1>0, <2>1, <2>2, SetSkip
  <2>4. /\ ~d.skip_jump /\ d.next = next /\ d.cycle = cycle /\ d.q = c.q
        /\ d.count = c.count /\ d.delay_slot = c.delay_slot
        /\ d.loading = c.loading /\ d.job = c.job
    BY <1>0, <2>1 DEF WithSkip, Cores
  <2>5. Exact(d)
    BY <2>2, <2>3, <2>4, FromFirst DEF Same, next, cycle
  <2> QED BY <2>4, <2>5 DEF Tracks, Coh
<1>4. CASE ~(safe /\ c.job = "load") /\ ~(safe /\ c.reset_hard_job) /\ ~c.skip_jump
  <2> DEFINE e == Service(c, env)
  <2>1. Tracks(c, e) /\ Good(e) /\ e \in Cores
    BY ServiceTracks, ServiceGood, GoodHead
  <2>2. d = savestates_save(e) \/ d = e
    BY <1>4 DEF gen_interrupt
  <2> HIDE DEF e
  <2> QED BY <1>4, <2>1, <2>2, SaveTracks
<1> QED BY <1>1, <1>2, <1>3, <1>4

(* The same for the test that guards the call. *)
LEMMA GenIfDueTracks ==
  ASSUME NEW c, Good(c), NEW env \in Env, NEW safe \in BOOLEAN,
         NEW d, d = GenIfDue(c, env, safe)
  PROVE  /\ Tracks(c, d)
         /\ c.skip_jump /\ c.cycle >= 0 /\ c.job # "load" => ~d.skip_jump
<1>1. CASE c.cycle >= 0
  <2>1. d = gen_interrupt(c, env, safe)
    BY <1>1 DEF GenIfDue
  <2> QED BY <2>1, GenTracks
<1>2. CASE ~(c.cycle >= 0)
  <2>1. d = c
    BY <1>2 DEF GenIfDue
  <2>2. Quiet(c, d)
    BY <2>1 DEF Quiet
  <2> QED BY <1>2, <2>2, QuietMoves DEF Moves
<1> QED BY <1>1, <1>2

-----------------------------------------------------------------------------
(* The instructions *)

(* An instruction starts from the core as it is, with fired emptied. *)
LEMMA NowMoves ==
  ASSUME Inv, ~r4300.loading
  PROVE  Moves(r4300, Now) /\ Good(Now) /\ ~Now.loading /\ Now \in Cores /\ r4300 \in Cores
<1>1. Good(r4300)
  BY DEF Inv, Loading
<1>2. r4300 \in Cores /\ << >> \in Seq(Events)
  BY <1>1, GoodHead
<1>3. Same(r4300, Now)
  BY <1>2, SetFired DEF Now
<1>4. Quiet(r4300, Now)
  BY <1>2 DEF Now, Quiet, Cores
<1> QED BY <1>1, <1>2, <1>3, <1>4, SameGood, QuietMoves DEF Same, Good

(* ScheduleEvent *)
LEMMA ScheduleEventTracks ==
  ASSUME Inv, NEW type \in Sources, NEW n \in Steps, NEW delay \in Delays \cup {VIDelay},
         ScheduleEvent(type, n, delay)
  PROVE  Tracks(r4300, r4300')
<1> DEFINE c == cp0_update_count(Now, n)
           d == add_interrupt_event(c, type, delay)
<1>0. r4300' = d /\ ~r4300.loading /\ n \in Int /\ delay \in 0..(W-1) /\ type \in Types
  BY StepsType, TypesAssumption DEF ScheduleEvent, Instruction, Ready, Types
<1>1. Moves(Now, c) /\ Good(c)
  BY <1>0, NowMoves, UpdateMoves, UpdateCount
<1> HIDE DEF c
<1>2. Moves(c, d)
  BY <1>0, <1>1, DelayedMoves DEF Good
<1> HIDE DEF d
<1>3. Moves(r4300, c) /\ ~c.loading
  BY <1>0, <1>1, NowMoves, MovesTrans DEF Good
<1>4. Moves(r4300, d)
  BY <1>2, <1>3, MovesTrans
<1> QED BY <1>0, <1>4 DEF Moves

(* CancelEvent *)
LEMMA CancelEventTracks ==
  ASSUME Inv, NEW type \in DDTypes, CancelEvent(type)
  PROVE  Tracks(r4300, r4300')
<1> DEFINE d == remove_event(Now, type)
<1>0. r4300' = d /\ ~r4300.loading
  BY DEF CancelEvent, Instruction, Ready
<1>1. Moves(Now, d)
  BY <1>0, NowMoves, CancelMoves DEF Good
<1> HIDE DEF d
<1>2. Moves(r4300, d)
  BY <1>0, <1>1, NowMoves, MovesTrans
<1> QED BY <1>0, <1>2 DEF Moves

(* signal_rcp_interrupt *)
LEMMA SignalTracks ==
  ASSUME Inv, NEW asserted \in BOOLEAN, signal_rcp_interrupt(asserted)
  PROVE  Tracks(r4300, r4300')
<1> DEFINE c == [Now EXCEPT !.line = asserted]
           d == r4300_check_interrupt(c, "IP2", asserted)
<1>0. r4300' = d /\ ~r4300.loading
  BY DEF signal_rcp_interrupt, Instruction, Ready
<1>1. Same(Now, c) /\ Quiet(Now, c)
  BY <1>0, NowMoves, SetLine DEF Quiet, Cores
<1> HIDE DEF c
<1>2. Good(c) /\ Moves(Now, c) /\ ~c.loading
  BY <1>0, <1>1, NowMoves, SameGood, QuietMoves DEF Good
<1>3. Moves(c, d)
  BY <1>2, CheckMoves DEF Lines
<1> HIDE DEF d
<1>4. Moves(r4300, c)
  BY <1>0, <1>2, NowMoves, MovesTrans
<1>5. Moves(r4300, d)
  BY <1>2, <1>3, <1>4, MovesTrans
<1> QED BY <1>0, <1>5 DEF Moves

(* write_mi_intr_mask *)
LEMMA MaskTracks ==
  ASSUME Inv, NEW n \in Steps, NEW asserted \in BOOLEAN, NEW env \in Env,
         write_mi_intr_mask(n, asserted, env)
  PROVE  Tracks(r4300, r4300')
<1> DEFINE c == [Now EXCEPT !.line = asserted]
           d == r4300_check_interrupt(c, "IP2", asserted)
           e == cp0_update_count(d, n)
           f == GenIfDue(e, env, TRUE)
<1>0. r4300' = f /\ ~r4300.loading /\ n \in Int /\ TRUE \in BOOLEAN
  BY StepsType DEF write_mi_intr_mask, Instruction, Ready
<1>1. Same(Now, c) /\ Quiet(Now, c)
  BY <1>0, NowMoves, SetLine DEF Quiet, Cores
<1> HIDE DEF c
<1>2. Good(c) /\ Moves(Now, c) /\ ~c.loading
  BY <1>0, <1>1, NowMoves, SameGood, QuietMoves DEF Good
<1>3. Moves(c, d) /\ Good(d) /\ ~d.loading
  BY <1>2, CheckMoves DEF Lines, Good
<1> HIDE DEF d
<1>4. Moves(d, e) /\ Good(e) /\ ~e.loading
  BY <1>0, <1>3, UpdateMoves, UpdateCount DEF Good
<1> HIDE DEF e
<1>5. Tracks(e, f)
  BY <1>0, <1>4, GenIfDueTracks
<1> HIDE DEF f
<1>6. Moves(r4300, c)
  BY <1>0, <1>2, NowMoves, MovesTrans
<1>7. Moves(r4300, d)
  BY <1>2, <1>3, <1>6, MovesTrans
<1>8. Moves(r4300, e)
  BY <1>3, <1>4, <1>7, MovesTrans
<1> QED BY <1>0, <1>4, <1>5, <1>8, TracksTrans

(* MTC0 Count: exact again after whatever was serviced. *)
LEMMA CountCoh ==
  ASSUME Inv, NEW n \in Steps, NEW base \in CountValues, NEW env \in Env,
         mtc0_count(n, base, env)
  PROVE  Coh(r4300')
<1> DEFINE c == cp0_update_count(Now, n)
           d == GenIfDue(c, env, FALSE)
           e == translate_event_queue(d, base, d.compare)
<1>0. r4300' = e /\ ~r4300.loading /\ n \in Int /\ base \in 0..(W-1) /\ FALSE \in BOOLEAN
  BY StepsType DEF mtc0_count, Instruction, Ready
<1>1. Good(c)
  BY <1>0, NowMoves, UpdateCount
<1> HIDE DEF c
<1>2. Good(d)
  BY <1>0, <1>1, GenIfDueInv
<1> HIDE DEF d
<1>3. d.compare \in 0..(W-1)
  BY <1>2, GoodHead, CoreFields
<1>4. Exact(e)
  BY <1>0, <1>2, <1>3, TranslateMoves
<1> QED BY <1>0, <1>4 DEF Coh

(* MTC0 Compare *)
LEMMA CompareRegisterTracks ==
  ASSUME Inv, NEW n \in Steps, NEW ahead \in CompareAhead, mtc0_compare(n, ahead)
  PROVE  Tracks(r4300, r4300')
<1> DEFINE value == (r4300.count + n + ahead) % W
           c == cp0_update_count(Now, n)
           d == add_compare_event(remove_event(c, "COMPARE"), value)
           e == [d EXCEPT !.compare = value, !.cause = d.cause \ {"IP7"}]
<1>0. r4300' = e /\ ~r4300.loading /\ n \in Int /\ ahead \in Int
  BY StepsType, CountsAssumption, WAssumption DEF mtc0_compare, Instruction, Ready
<1>1. value \in 0..(W-1)
  <2>1. r4300.count + n + ahead \in Int
    BY <1>0, NowMoves, CoreInts
  <2> QED BY <2>1, ModType
<1>2. Moves(Now, c) /\ Good(c) /\ ~c.loading
  BY <1>0, NowMoves, UpdateMoves, UpdateCount DEF Good
<1> HIDE DEF c, value
<1>3. Moves(c, d) /\ Good(d) /\ d \in Cores /\ ~d.loading
  BY <1>1, <1>2, MoveCompareMoves, MoveCompareGood, ExactMoves, GoodHead DEF Good
<1> HIDE DEF d
<1>4. Moves(d, e)
  <2>1. Quiet(d, e)
    BY <1>3 DEF Quiet, Cores
  <2> QED BY <2>1, QuietMoves
<1> HIDE DEF e
<1>5. Moves(r4300, c)
  BY <1>0, <1>2, NowMoves, MovesTrans
<1>6. Moves(r4300, d)
  BY <1>2, <1>3, <1>5, MovesTrans
<1>7. Moves(r4300, e)
  BY <1>3, <1>4, <1>6, MovesTrans
<1> QED BY <1>0, <1>7 DEF Moves

(* MTC0 Status *)
LEMMA StatusTracks ==
  ASSUME Inv, NEW n \in Steps, NEW st \in StatusValues, NEW env \in Env, mtc0_status(n, st, env)
  PROVE  Tracks(r4300, r4300')
<1> DEFINE c == WithStatus(Now, st.ie, st.exl, st.erl, st.im)
           d == cp0_update_count(c, n)
           e == r4300_check_interrupt(d, "IP2", c.line)
           f == GenIfDue(e, env, FALSE)
<1>0. r4300' = f /\ ~r4300.loading /\ n \in Int /\ FALSE \in BOOLEAN
  BY StepsType DEF mtc0_status, Instruction, Ready, WithStatus
<1>1. st.ie \in BOOLEAN /\ st.exl \in BOOLEAN /\ st.erl \in BOOLEAN /\ st.im \in SUBSET Lines
  BY StatusAssumption DEF Lines
<1>2. Same(Now, c) /\ Quiet(Now, c)
  <2>1. Same(Now, c)
    BY <1>0, <1>1, NowMoves, SetStatus
  <2>2. Quiet(Now, c)
    BY <1>0, NowMoves DEF WithStatus, Quiet, Cores
  <2> QED BY <2>1, <2>2
<1> HIDE DEF c
<1>3. Good(c) /\ Moves(Now, c) /\ ~c.loading /\ c.line \in BOOLEAN
  BY <1>0, <1>2, NowMoves, SameGood, QuietMoves, CauseLine DEF Good, Same
<1>4. Moves(c, d) /\ Good(d) /\ ~d.loading
  BY <1>0, <1>3, UpdateMoves, UpdateCount DEF Good
<1> HIDE DEF d
<1>5. Moves(d, e) /\ Good(e) /\ ~e.loading
  BY <1>3, <1>4, CheckMoves DEF Lines, Good
<1> HIDE DEF e
<1>6. Tracks(e, f)
  BY <1>0, <1>5, GenIfDueTracks
<1> HIDE DEF f
<1>7. Moves(r4300, c)
  BY <1>0, <1>3, NowMoves, MovesTrans
<1>8. Moves(r4300, d)
  BY <1>3, <1>4, <1>7, MovesTrans
<1>9. Moves(r4300, e)
  BY <1>4, <1>5, <1>8, MovesTrans
<1> QED BY <1>0, <1>5, <1>6, <1>9, TracksTrans

(* ERET *)
LEMMA EretTracks ==
  ASSUME Inv, NEW n \in Steps, NEW env \in Env, eret(n, env)
  PROVE  Tracks(r4300, r4300')
<1> DEFINE c == IF r4300.erl THEN [Now EXCEPT !.stop = TRUE] ELSE [Now EXCEPT !.exl = FALSE]
           d == cp0_update_count(c, n)
           e == r4300_check_interrupt(d, "IP2", c.line)
           f == GenIfDue(e, env, TRUE)
<1>0. r4300' = f /\ ~r4300.loading /\ n \in Int /\ TRUE \in BOOLEAN /\ FALSE \in BOOLEAN
  BY StepsType DEF eret, Instruction, Ready
<1>1. Same(Now, c) /\ Quiet(Now, c)
  <2>1. Same(Now, c)
    BY <1>0, NowMoves, SetStop, SetLevel
  <2>2. Quiet(Now, c)
    BY <1>0, NowMoves DEF Quiet, Cores
  <2> QED BY <2>1, <2>2
<1> HIDE DEF c
<1>2. Good(c) /\ Moves(Now, c) /\ ~c.loading /\ c.line \in BOOLEAN
  BY <1>0, <1>1, NowMoves, SameGood, QuietMoves, CauseLine DEF Good, Same
<1>3. Moves(c, d) /\ Good(d) /\ ~d.loading
  BY <1>0, <1>2, UpdateMoves, UpdateCount DEF Good
<1> HIDE DEF d
<1>4. Moves(d, e) /\ Good(e) /\ ~e.loading
  BY <1>2, <1>3, CheckMoves DEF Lines, Good
<1> HIDE DEF e
<1>5. Tracks(e, f)
  BY <1>0, <1>4, GenIfDueTracks
<1> HIDE DEF f
<1>6. Moves(r4300, c)
  BY <1>0, <1>2, NowMoves, MovesTrans
<1>7. Moves(r4300, d)
  BY <1>2, <1>3, <1>6, MovesTrans
<1>8. Moves(r4300, e)
  BY <1>3, <1>4, <1>7, MovesTrans
<1> QED BY <1>0, <1>4, <1>5, <1>8, TracksTrans

(* SYSCALL *)
LEMMA SyscallTracks ==
  ASSUME Inv, NEW n \in Steps, syscall(n)
  PROVE  Tracks(r4300, r4300')
<1> DEFINE c == cp0_update_count(Now, n)
           d == [c EXCEPT !.cause = {}]
           e == exception_general(d)
<1>0. r4300' = e /\ ~r4300.loading /\ n \in Int /\ {} \in SUBSET Lines
  BY StepsType DEF syscall, Instruction, Ready
<1>1. Moves(Now, c) /\ Good(c) /\ c \in Cores /\ ~c.loading
  BY <1>0, NowMoves, UpdateMoves, UpdateCount, GoodHead DEF Good
<1> HIDE DEF c
<1>2. d \in Cores /\ Moves(c, d) /\ ~d.loading
  <2>1. Same(c, d)
    BY <1>0, <1>1, SetCause
  <2>2. Quiet(c, d)
    BY <1>1 DEF Quiet, Cores
  <2> QED BY <1>1, <2>1, <2>2, QuietMoves DEF Same
<1> HIDE DEF d
<1>3. Tracks(d, e)
  BY <1>2, ExceptionTracks
<1> HIDE DEF e
<1>4. Moves(r4300, c)
  BY <1>0, <1>1, NowMoves, MovesTrans
<1>5. Moves(r4300, d)
  BY <1>1, <1>2, <1>4, MovesTrans
<1> QED BY <1>0, <1>2, <1>3, <1>5, TracksTrans

-----------------------------------------------------------------------------
(* Branches and the loading of a savestate *)

(* Entering a delay slot changes nothing else. *)
LEMMA EnterSlot ==
  ASSUME NEW c \in Cores, NEW d, d = [c EXCEPT !.delay_slot = TRUE]
  PROVE  /\ Coh(c) => Coh(d)
         /\ d.skip_jump = c.skip_jump /\ d.loading = c.loading /\ d.job = c.job
<1>1. /\ d.q = c.q /\ d.count = c.count /\ d.cycle = c.cycle /\ d.next = c.next
      /\ d.skip_jump = c.skip_jump /\ d.loading = c.loading /\ d.job = c.job
  BY DEF Cores
<1> QED BY <1>1 DEF Coh, Exact, Linked

(* What entering a delay slot, from whichever kind of branch, does. *)
Enters == /\ Coh(r4300) => Coh(r4300')
          /\ r4300'.skip_jump => r4300.skip_jump
          /\ ~r4300'.loading
          /\ r4300'.job = "load" => r4300.job = "load" \/ "load" \in Requests

(* The start of a branch. *)
LEMMA BeginJumpEnters ==
  ASSUME Inv, BeginJump
  PROVE  Enters
<1>1. r4300' = [Now EXCEPT !.delay_slot = TRUE] /\ ~r4300.loading
  BY DEF BeginJump, Ready
<1>2. Moves(r4300, Now) /\ ~Now.loading /\ Now \in Cores
  BY <1>1, NowMoves
<1>3. /\ Coh(Now) => Coh(r4300')
      /\ r4300'.skip_jump = Now.skip_jump /\ r4300'.loading = Now.loading /\ r4300'.job = Now.job
  BY <1>1, <1>2, EnterSlot
<1> QED BY <1>2, <1>3 DEF Enters, Moves, Tracks

(* A branch to itself, with Count moved on to the next event. *)
LEMMA IdleLoopEnters ==
  ASSUME Inv, NEW n \in IdleSteps, IdleLoop(n)
  PROVE  Enters
<1> DEFINE c == cp0_update_count(Now, n)
           d == IF c.cycle < 0 THEN cp0_update_count(c, -c.cycle) ELSE c
           e == [d EXCEPT !.delay_slot = TRUE]
<1>0. r4300' = e /\ ~r4300.loading /\ n \in Int
  BY StepsType DEF IdleLoop, Ready
<1>1. Moves(Now, c) /\ Good(c) /\ ~c.loading /\ -c.cycle \in Int
  <2>1. Moves(Now, c) /\ Good(c)
    BY <1>0, NowMoves, UpdateMoves, UpdateCount
  <2> HIDE DEF c
  <2> QED BY <2>1, GoodHead, CoreInts DEF Good
<1> HIDE DEF c
<1>2. Moves(c, d) /\ Good(d) /\ d \in Cores /\ ~d.loading
  <2>1. CASE c.cycle < 0
    BY <1>1, <2>1, UpdateMoves, UpdateCount, GoodHead DEF Good
  <2>2. CASE ~(c.cycle < 0)
    <3>1. d = c /\ Quiet(c, d)
      BY <2>2 DEF Quiet
    <3> QED BY <1>1, <3>1, QuietMoves, GoodHead
  <2> QED BY <2>1, <2>2
<1> HIDE DEF d
<1>3. /\ Coh(d) => Coh(e)
      /\ e.skip_jump = d.skip_jump /\ e.loading = d.loading /\ e.job = d.job
  BY <1>2, EnterSlot
<1> HIDE DEF e
<1>4. Moves(r4300, c)
  BY <1>0, <1>1, NowMoves, MovesTrans
<1>5. Moves(r4300, d)
  BY <1>1, <1>2, <1>4, MovesTrans
<1> QED BY <1>0, <1>2, <1>3, <1>5 DEF Enters, Moves, Tracks

(* The end of a branch: outside the delay slot no exception cancels a      *)
(* jump, and a jump that was cancelled is skipped if an event is due,      *)
(* which the exception has seen to.                                        *)
LEMMA EndJumpTracks ==
  ASSUME Inv, NEW n \in Steps \cup {0}, NEW env \in Env, EndJump(n, env)
  PROVE  /\ Tracks(r4300, r4300') /\ ~r4300'.delay_slot
         /\ ~r4300.skip_jump => ~r4300'.skip_jump
         /\ r4300.skip_jump /\ r4300.cycle >= 0 /\ r4300.job # "load" => ~r4300'.skip_jump
<1> DEFINE c == cp0_update_count(Now, n)
           d == [c EXCEPT !.delay_slot = FALSE]
           e == GenIfDue(d, env, TRUE)
<1>0. r4300' = e /\ ~r4300.loading /\ n \in Nat /\ n \in Int /\ TRUE \in BOOLEAN /\ FALSE \in BOOLEAN
  BY CountsAssumption DEF EndJump
<1>1. /\ Moves(Now, c) /\ Kept(Now, c) /\ Good(c) /\ c \in Cores /\ ~c.loading
      /\ c.cycle = Now.cycle + n
  BY <1>0, NowMoves, UpdateMoves, UpdateCount, GoodHead DEF Good
<1> HIDE DEF c
<1>2. /\ Good(d) /\ ~d.delay_slot /\ ~d.loading /\ d.skip_jump = c.skip_jump
      /\ d.cycle = c.cycle /\ d.job = c.job /\ Moves(c, d)
  <2>1. Good(d)
    BY <1>0, <1>1, SetSlot, SameGood
  <2>2. /\ d.q = c.q /\ d.count = c.count /\ d.cycle = c.cycle /\ d.next = c.next
        /\ d.skip_jump = c.skip_jump /\ ~d.delay_slot /\ d.loading = c.loading /\ d.job = c.job
    BY <1>1 DEF Cores
  <2>3. Coh(c) => Coh(d)
    BY <2>2 DEF Coh, Exact, Linked
  <2> QED BY <1>1, <2>1, <2>2, <2>3 DEF Moves, Tracks
<1> HIDE DEF d
<1>3. Tracks(d, e) /\ (d.skip_jump /\ d.cycle >= 0 /\ d.job # "load" => ~e.skip_jump)
  BY <1>0, <1>2, GenIfDueTracks
<1> HIDE DEF e
<1>4. Moves(r4300, c)
  BY <1>0, <1>1, NowMoves, MovesTrans
<1>5. Moves(r4300, d)
  BY <1>1, <1>2, <1>4, MovesTrans
<1>6. Tracks(r4300, e)
  BY <1>2, <1>3, <1>5, TracksTrans
<1>7. Now.skip_jump = r4300.skip_jump /\ Now.cycle = r4300.cycle /\ Now.job = r4300.job
  BY <1>0, NowMoves DEF Now, Cores
<1>8. ~e.delay_slot /\ (~d.skip_jump => ~e.skip_jump)
  BY <1>2, <1>3 DEF Tracks
<1>9. d.skip_jump = r4300.skip_jump /\ d.job = r4300.job /\ d.cycle = r4300.cycle + n
  BY <1>1, <1>2, <1>7 DEF Kept
<1>10. r4300.cycle >= 0 => d.cycle >= 0
  <2>1. r4300.cycle \in Int
    BY <1>0, NowMoves, CoreInts
  <2> QED BY <1>0, <1>9, <2>1
<1> QED BY <1>0, <1>3, <1>6, <1>8, <1>9, <1>10

(* The loop of load_eventqueue_infos is left with an exact core. *)
LEMMA LoadCoh ==
  /\ Inv /\ load_event => r4300'.loading
  /\ Inv /\ load_end => Coh(r4300')
<1>1. ASSUME Inv, load_event PROVE r4300'.loading
  <2> DEFINE c == r4300
             e == c.file.q[c.index + 1]
             d == add_interrupt_event_count(c, e.type, e.count, e.left)
  <2>1. r4300' = d /\ c.loading /\ c.index < Len(c.file.q)
    BY <1>1 DEF load_event
  <2>2. Sound(c) /\ c.file.q \in Seq(Events) /\ c.index \in Nat /\ Len(c.file.q) \in Nat
    BY <1>1, <2>1, CoreFields, CapacityAssumption DEF Inv, Good, Loading, Sound
  <2>3. e \in Events
    <3>1. c.index + 1 \in 1..Len(c.file.q)
      BY <2>1, <2>2
    <3> QED BY <2>2, <3>1, ElementOfSeq
  <2>4. e.type \in Types /\ e.count \in 0..(W-1) /\ e.left \in Int
    BY <2>3 DEF Events
  <2> HIDE DEF e
  <2>5. Kept(c, d)
    BY <2>2, <2>4, AddKept
  <2> QED BY <2>1, <2>5 DEF Kept
<1>2. ASSUME Inv, load_end PROVE Coh(r4300')
  <2> DEFINE d == reload_special(r4300)
  <2>1. r4300.loading /\ r4300.index = Len(r4300.file.q) /\ r4300' = [d EXCEPT !.loading = FALSE]
    BY <1>2 DEF load_end
  <2>2. Loading(r4300) /\ Sound(r4300)
    BY <1>2, <2>1 DEF Inv, Good, Loading
  <2>3. Once(r4300.q, "SPECIAL")
    <3>1. Once(r4300.file.q, "SPECIAL")
      BY <2>2 DEF Loading, FileOK, Timers
    <3>2. \E i \in 1..r4300.index : r4300.file.q[i].type = "SPECIAL"
      BY <2>1, <3>1 DEF Once
    <3> QED BY <2>2, <3>2 DEF Loading
  <2>4. Exact(d) /\ d \in Cores
    BY <2>2, <2>3, ReloadMoves, ReloadSpecial DEF Sound
  <2> HIDE DEF d
  <2>5. /\ r4300'.q = d.q /\ r4300'.count = d.count /\ r4300'.cycle = d.cycle
        /\ r4300'.next = d.next
    BY <2>1, <2>4 DEF Cores
  <2>6. Exact(r4300')
    BY <2>4, <2>5 DEF Exact, Linked
  <2> QED BY <2>6 DEF Coh
<1> QED BY <1>1, <1>2

-----------------------------------------------------------------------------
(* The theorems *)

(* Every instruction but MTC0 Count. *)
Instructions ==
    \/ \E type \in Sources, n \in Steps, delay \in Delays \cup {VIDelay} :
            ScheduleEvent(type, n, delay)
    \/ \E type \in DDTypes : CancelEvent(type)
    \/ \E asserted \in BOOLEAN : signal_rcp_interrupt(asserted)
    \/ \E n \in Steps, asserted \in BOOLEAN, env \in Env : write_mi_intr_mask(n, asserted, env)
    \/ \E n \in Steps, ahead \in CompareAhead : mtc0_compare(n, ahead)
    \/ \E n \in Steps, s \in StatusValues, env \in Env : mtc0_status(n, s, env)
    \/ \E n \in Steps, env \in Env : eret(n, env)
    \/ \E n \in Steps : syscall(n)

(* Such an instruction tracks the branch state and moves on in the branch. *)
LEMMA InstructionTracks ==
  ASSUME Inv, Instructions
  PROVE  /\ Tracks(r4300, r4300') /\ phase # "done" /\ ~r4300.loading
         /\ phase' = IF phase = "slot" THEN "done" ELSE phase
<1>1. Tracks(r4300, r4300')
  BY ScheduleEventTracks, CancelEventTracks, SignalTracks, MaskTracks,
     CompareRegisterTracks, StatusTracks, EretTracks, SyscallTracks DEF Instructions
<1>2. \E c : Instruction(c)
  BY DEF Instructions, ScheduleEvent, CancelEvent, signal_rcp_interrupt, write_mi_intr_mask,
         mtc0_compare, mtc0_status, eret, syscall
<1> QED BY <1>1, <1>2 DEF Instruction, Ready

(* What next_interrupt and cycle_count are when guest code runs. *)
CoherentInv == r4300.loading \/ Coh(r4300)

(* The core as it is allocated, before power on. *)
LEMMA PowerOnState ==
  Coh(PowerOn) /\ ~PowerOn.skip_jump /\ ~PowerOn.delay_slot /\ ~PowerOn.loading
  /\ PowerOn.job # "load"
<1> DEFINE c == [q |-> << >>, index |-> 0, count |-> 0, cycle |-> 0, next |-> 0,
        compare |-> 0, ie |-> FALSE, exl |-> FALSE, erl |-> FALSE, im |-> {},
        cause |-> {}, delay_slot |-> FALSE, skip_jump |-> FALSE, line |-> FALSE,
        stop |-> FALSE, job |-> "nothing", reset_hard_job |-> FALSE,
        file |-> NoState, loading |-> FALSE, fired |-> << >>]
<1>1. 0 \in 0..(W-1) /\ 0 \in 0..Capacity /\ << >> \in Seq(Events)
  BY WAssumption, CapacityAssumption
<1>2. NoState \in SaveStates
  BY <1>1 DEF NoState, SaveStates
<1>3. c \in Cores
  BY <1>1, <1>2 DEF Cores
<1>4. ~c.loading /\ ~c.delay_slot /\ c.job = "nothing"
  OBVIOUS
<1>5. PowerOn = poweron_r4300(c)
  BY DEF PowerOn
<1> HIDE DEF c
<1>6. Coh(PowerOn) /\ ~PowerOn.skip_jump
  BY <1>3, <1>4, <1>5, PowerOnMoves
<1>7. ~PowerOn.delay_slot /\ ~PowerOn.loading /\ PowerOn.job = c.job
  <2> DEFINE a == Boot(c, FALSE, {}, {}, FALSE, PowerOnCount)
             b == Reset(a, 0, 0, 0, FALSE, FALSE)
  <2>1. /\ {} \in SUBSET Lines /\ 0 \in Int /\ FALSE \in BOOLEAN
        /\ PowerOnCount \in 0..(W-1)
    BY CountsAssumption
  <2>2. a \in Cores /\ ~a.delay_slot /\ a.loading = c.loading /\ a.job = c.job
    <3>1. a \in Cores
      BY <1>3, <2>1, BootType
    <3>2. ~a.delay_slot /\ a.loading = c.loading /\ a.job = c.job
      BY <1>3, <2>1 DEF Boot, Cores
    <3> QED BY <3>1, <3>2
  <2>3. PowerOn = init_interrupt(b)
    BY <1>5 DEF poweron_r4300, Boot, Reset
  <2> HIDE DEF a
  <2>4. b \in Cores
    BY <1>1, <2>1, <2>2, ResetType
  <2>5. b.delay_slot = a.delay_slot /\ b.loading = a.loading /\ b.job = a.job
    BY <1>1, <2>1, <2>2 DEF Reset, Cores
  <2> HIDE DEF b
  <2>6. Kept(b, PowerOn)
    BY <2>3, <2>4, InitMoves
  <2> QED BY <1>4, <2>2, <2>5, <2>6 DEF Kept
<1> QED BY <1>4, <1>6, <1>7

(* next_interrupt and cycle_count: whenever guest code runs and no jump is *)
(* to be skipped, their sum is Count, and both are of the first event      *)
(* unless the 64DD has cancelled the one they are of.                      *)
THEOREM CoherentAlways == Spec => []Coherent
<1>1. Init => CoherentInv
  BY PowerOnState DEF Init, CoherentInv
<1>2. Inv /\ CoherentInv /\ [Next]_vars => CoherentInv'
  <2> SUFFICES ASSUME Inv, CoherentInv, [Next]_vars PROVE r4300'.loading \/ Coh(r4300')
    BY DEF CoherentInv
  <2>1. CASE Instructions
    BY <2>1, InstructionTracks DEF CoherentInv, Tracks
  <2>2. CASE \E n \in Steps, base \in CountValues, env \in Env : mtc0_count(n, base, env)
    BY <2>2, CountCoh
  <2>3. CASE BeginJump \/ \E n \in IdleSteps : IdleLoop(n)
    <3>1. Enters /\ ~r4300.loading
      BY <2>3, BeginJumpEnters, IdleLoopEnters DEF BeginJump, IdleLoop, Ready
    <3> QED BY <3>1 DEF CoherentInv, Enters
  <2>4. CASE \E n \in Steps \cup {0}, env \in Env : EndJump(n, env)
    <3>1. Tracks(r4300, r4300') /\ ~r4300.loading
      BY <2>4, EndJumpTracks DEF EndJump
    <3> QED BY <3>1 DEF CoherentInv, Tracks
  <2>5. CASE load_event \/ load_end
    BY <2>5, LoadCoh
  <2>6. CASE UNCHANGED vars
    BY <2>6 DEF vars, CoherentInv
  <2> QED BY <2>1, <2>2, <2>3, <2>4, <2>5, <2>6 DEF Next, Stopped, Instructions
<1>3. Inv /\ CoherentInv => Coherent
  <2> SUFFICES ASSUME Inv, CoherentInv, ~r4300.skip_jump, ~r4300.loading
               PROVE  /\ r4300.cycle % W = (r4300.count - r4300.next) % W
                      /\ DDTypes = {} => r4300.next = r4300.q[1].count
    BY DEF Coherent
  <2>1. Exact(r4300)
    BY DEF CoherentInv, Coh
  <2>2. PICK k \in Int : r4300.cycle = r4300.count - r4300.next + k * W
    BY <2>1 DEF Exact, Linked
  <2>3. r4300.cycle \in Int /\ r4300.count - r4300.next \in Int
    BY NowMoves, CoreInts
  <2>4. r4300.cycle % W = (r4300.count - r4300.next) % W
    <3> DEFINE x == r4300.cycle
               y == r4300.count - r4300.next
    <3>1. x \in Int /\ y \in Int /\ x = y + k * W
      BY <2>2, <2>3
    <3> HIDE DEF x, y
    <3>2. x % W = y % W
      BY <3>1, PeriodsMod
    <3> QED BY <3>2 DEF x, y
  <2> QED BY <2>1, <2>4 DEF Exact
<1> QED BY <1>1, <1>2, <1>3, Invariance, PTL DEF Spec

(* Where a cancelled jump can be, while no state is loaded. *)
SkipInv ==
    /\ ~r4300.loading /\ r4300.job # "load"
    /\ phase \in {"no", "slot", "done"}
    /\ phase = "no" => ~r4300.skip_jump /\ ~r4300.delay_slot
    /\ phase = "slot" => ~r4300.skip_jump
    /\ phase = "done" => (r4300.skip_jump => r4300.cycle >= 0)

(* Cancelled jumps are nowhere else. *)
THEOREM SkipInvariant ==
  ASSUME CountValues = {}, "load" \notin Requests
  PROVE  Spec => []SkipInv
<1>1. Init => SkipInv
  BY PowerOnState DEF Init, SkipInv
<1>2. Inv /\ SkipInv /\ [Next]_vars => SkipInv'
  <2> SUFFICES ASSUME Inv, SkipInv, [Next]_vars PROVE SkipInv'
    OBVIOUS
  <2>1. CASE Instructions
    <3>1. /\ Tracks(r4300, r4300') /\ phase # "done"
          /\ phase' = IF phase = "slot" THEN "done" ELSE phase
      BY <2>1, InstructionTracks
    <3>2. /\ ~r4300'.loading /\ r4300'.job # "load"
          /\ r4300'.skip_jump => r4300.delay_slot /\ r4300'.cycle = 0
          /\ r4300'.delay_slot => r4300.delay_slot
      BY <3>1 DEF SkipInv, Tracks
    <3> QED BY <3>1, <3>2 DEF SkipInv
  <2>2. CASE \E n \in Steps, base \in CountValues, env \in Env : mtc0_count(n, base, env)
    BY <2>2
  <2>3. CASE BeginJump \/ \E n \in IdleSteps : IdleLoop(n)
    <3>1. Enters /\ phase = "no" /\ phase' = "slot"
      BY <2>3, BeginJumpEnters, IdleLoopEnters DEF BeginJump, IdleLoop
    <3> QED BY <3>1 DEF SkipInv, Enters
  <2>4. CASE \E n \in Steps \cup {0}, env \in Env : EndJump(n, env)
    <3>1. /\ Tracks(r4300, r4300') /\ ~r4300'.delay_slot /\ phase # "no" /\ phase' = "no"
          /\ ~r4300.skip_jump => ~r4300'.skip_jump
          /\ r4300.skip_jump /\ r4300.cycle >= 0 /\ r4300.job # "load" => ~r4300'.skip_jump
      BY <2>4, EndJumpTracks DEF EndJump
    <3> QED BY <3>1 DEF SkipInv, Tracks
  <2>5. CASE load_event \/ load_end
    BY <2>5 DEF SkipInv, load_event, load_end
  <2>6. CASE UNCHANGED vars
    BY <2>6 DEF vars, SkipInv
  <2> QED BY <2>1, <2>2, <2>3, <2>4, <2>5, <2>6 DEF Next, Stopped, Instructions
<1> QED BY <1>1, <1>2, Invariance, PTL DEF Spec

(* skip_jump: a jump cancelled by an exception in its delay slot is        *)
(* skipped at the end of the branch and never after, in a game that does   *)
(* not write Count and while no savestate is loaded.                       *)
THEOREM JumpSkippedOnce ==
  ASSUME CountValues = {}, "load" \notin Requests
  PROVE  Spec => []SkipJumpConsumed
<1>1. SkipInv => SkipJumpConsumed
  BY DEF SkipInv, SkipJumpConsumed
<1> QED BY <1>1, SkipInvariant, PTL

=============================================================================
