----------------------------- MODULE EventQueue -----------------------------
(***************************************************************************)
(* The interrupt queue of the R4300 core (device/r4300/interrupt.c) and    *)
(* the part of coprocessor 0 that it reads and writes (cp0.c), as          *)
(* functions on one record c, the way the C functions work on one          *)
(* struct cp0:                                                             *)
(*                                                                         *)
(*   q      the linked list of queued events, first event first            *)
(*   index  pool.index, the number of nodes taken from the pool            *)
(*   count  CP0_COUNT_REG, a counter modulo W (2^32 in the code)           *)
(*   cycle  cycle_count, signed: counts since the next event was due       *)
(*   next   next_interrupt                                                 *)
(*                                                                         *)
(* An event is [type, count, left].  The field left is a history variable: *)
(* the true number of counts until the event is due, negative when it is   *)
(* overdue.  No function of the code reads it; the properties compare the  *)
(* code's modular arithmetic with it.                                      *)
(*                                                                         *)
(* Definitions named Faulty_... are seeded faults: the specification does  *)
(* not use them, and each is known to violate a property if it did.        *)
(***************************************************************************)
EXTENDS Integers, Sequences, SequencesExt

CONSTANTS
    W,          \* modulus of the Count register: 2^32 in the code
    Capacity,   \* INTERRUPT_NODES_POOL_CAPACITY
    CountPerOp, \* cp0->count_per_op
    History     \* is the history variable left kept?

ASSUME WAssumption == W \in Nat /\ W > 1 /\ W % 2 = 0
ASSUME CapacityAssumption == Capacity \in Nat /\ Capacity > 1
ASSUME CountPerOpAssumption == CountPerOp \in Nat \ {0} /\ CountPerOp < W \div 2

ASSUME HistoryAssumption == History \in BOOLEAN

Half == W \div 2

(* A C conversion of an unsigned difference to int. *)
Signed(x) == LET y == x % W IN IF y >= Half THEN y - W ELSE y

-----------------------------------------------------------------------------
(* The fixed-size pool of list nodes: only how many are out matters.       *)

alloc_node_ok(c) == c.index < Capacity

free_node(index) == IF index = 0 THEN 0 ELSE index - 1

clear_queue(c) == [c EXCEPT !.q = << >>, !.index = 0]

-----------------------------------------------------------------------------
Faulty_before_event(c, evt1, evt2) == (evt1 - c.count) % W < (evt2 - c.count) % W

(* Is an event at evt1 before one at evt2, both seen from Count, or from   *)
(* the due time of the first event when that one is already overdue?       *)
before_event(c, evt1, evt2) ==
    LET from == IF c.cycle > 0 THEN c.count - c.cycle ELSE c.count
    IN  (evt1 - from) % W < (evt2 - from) % W

Event(type, count, left) ==
    [type |-> type, count |-> count, left |-> IF History THEN left ELSE 0]

Faulty_InsertPosition(c, count) ==
    IF c.q # << >> /\ before_event(c, count, c.q[1].count) THEN 1 ELSE Len(c.q) + 1

(* The position the insertion walk stops at: in front of the first event   *)
(* that the new one is before, else at the end.                            *)
InsertPosition(c, count) ==
    LET later == {i \in 1..Len(c.q) : before_event(c, count, c.q[i].count)}
    IN  IF later = {} THEN Len(c.q) + 1
        ELSE CHOOSE i \in later : \A j \in later : i <= j

add_interrupt_event_count(c, type, count, left) ==
    IF ~alloc_node_ok(c) THEN c
    ELSE LET q == InsertAt(c.q, InsertPosition(c, count),
                           Event(type, count, left))
         IN  [c EXCEPT !.q = q, !.index = @ + 1, !.next = q[1].count,
                       !.cycle = Signed(c.count - q[1].count)]

add_interrupt_event(c, type, delay) ==
    add_interrupt_event_count(c, type, (c.count + delay) % W, delay)

Faulty_remove_interrupt_event(c) ==
    [c EXCEPT !.q = Tail(@), !.index = free_node(@)]

(* Drop the first event and look at the next one. *)
remove_interrupt_event(c) ==
    LET q == Tail(c.q)
    IN  [c EXCEPT !.q = q, !.index = free_node(@),
                  !.next  = IF q = << >> THEN 0 ELSE q[1].count,
                  !.cycle = IF q = << >> THEN 0 ELSE Signed(c.count - q[1].count)]

get_event(c, type) == \E i \in 1..Len(c.q) : c.q[i].type = type

(* The position of the first event of a type that is queued. *)
FirstOf(c, type) == CHOOSE i \in 1..Len(c.q) :
                       /\ c.q[i].type = type
                       /\ \A j \in 1..(i-1) : c.q[j].type # type

Faulty_remove_event(c, type) ==
    IF ~get_event(c, type) THEN c
    ELSE [c EXCEPT !.q = RemoveAt(@, FirstOf(c, type))]

(* remove_event takes a node out of the list and leaves next_interrupt and *)
(* cycle_count as they were.                                               *)
remove_event(c, type) ==
    IF ~get_event(c, type) THEN c
    ELSE [c EXCEPT !.q = RemoveAt(@, FirstOf(c, type)), !.index = free_node(@)]

-----------------------------------------------------------------------------
(* The two events that are always queued.                                  *)

(* SPECIAL_INT at the next multiple of W/2: the top bit of Count flipped.  *)
SpecialCount(c) == IF c.count < Half THEN Half ELSE 0

add_special_event(c) ==
    add_interrupt_event_count(c, "SPECIAL", SpecialCount(c),
                              (SpecialCount(c) - c.count) % W)

(* COMPARE_INT, added with Count moved on by count_per_op so that a value  *)
(* equal to Count is a whole period away; Count is then put back.          *)
add_compare_event(c, value) ==
    LET ahead == [c EXCEPT !.count = (@ + CountPerOp) % W, !.cycle = @ + CountPerOp]
        added == add_interrupt_event_count(ahead, "COMPARE", value,
                     CountPerOp + ((value - ahead.count) % W))
    IN  [added EXCEPT !.count = c.count,
                      !.cycle = Signed(c.count - added.q[1].count)]

Faulty_init_interrupt(c) ==
    add_interrupt_event_count(
        add_interrupt_event_count(c, "SPECIAL", Half, (Half - c.count) % W),
        "COMPARE", 0, (0 - c.count) % W)

init_interrupt(c) ==
    add_interrupt_event_count(
        add_interrupt_event_count(clear_queue(c), "SPECIAL", Half, (Half - c.count) % W),
        "COMPARE", 0, (0 - c.count) % W)

Shifted(q, n) == [i \in DOMAIN q |-> [q[i] EXCEPT !.count = (@ + n) % W]]

(* A write of Count: every other event keeps its distance. *)
translate_event_queue(c, base, compare) ==
    LET kept  == remove_event(remove_event(c, "COMPARE"), "SPECIAL")
        moved == [kept EXCEPT !.count = base, !.q = Shifted(kept.q, base - c.count)]
    IN  add_compare_event(add_special_event(moved), compare)

(* The end of load_eventqueue_infos: the saved SPECIAL_INT is replaced. *)
reload_special(c) == add_special_event(remove_event(c, "SPECIAL"))

(* The history variable after n counts; it saturates at one period late.   *)
Later(left, n) == IF ~History THEN 0 ELSE IF left - n < -W THEN -W ELSE left - n

Aged(q, n) == [i \in DOMAIN q |-> [q[i] EXCEPT !.left = Later(@, n)]]

Faulty_cp0_update_count(c, n) == [c EXCEPT !.count = (@ + n) % W, !.q = Aged(c.q, n)]

(* The guest has run for n counts since the last update. *)
cp0_update_count(c, n) ==
    [c EXCEPT !.count = (@ + n) % W, !.cycle = @ + n, !.q = Aged(c.q, n)]
=============================================================================
