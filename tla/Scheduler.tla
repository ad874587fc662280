------------------------------ MODULE Scheduler ------------------------------
(***************************************************************************)
(* The R4300 core as the rest of the machine sees it: guest instructions   *)
(* move Count, devices put events in the queue, and a branch that finds    *)
(* cycle_count >= 0 calls gen_interrupt, which services one event.         *)
(*                                                                         *)
(* The record r4300 holds the fields of EventQueue and                     *)
(*   compare         CP0_COMPARE_REG                                       *)
(*   ie, exl, erl    the bits of CP0_STATUS_REG that gate interrupts       *)
(*   im, cause       sets of interrupt lines: Status.IM and Cause.IP       *)
(*   delay_slot      r4300->delay_slot # 0                                 *)
(*   skip_jump       r4300->skip_jump # 0                                  *)
(*   line            MI_INTR_REG & MI_INTR_MASK_REG # 0                    *)
(*   stop            r4300->stop                                           *)
(*   job             the savestate job the frontend has asked for          *)
(*   reset_hard_job  r4300->reset_hard_job                                 *)
(*   file            the frontend's savestate buffer; no events in it      *)
(*                   while nothing has been saved                          *)
(*   loading         load_eventqueue_infos is running: index tells how     *)
(*                   many events of the file it has inserted               *)
(*   fired           history variable: the events serviced by this step    *)
(* and phase says where in a branch instruction the core is: "no" branch,  *)
(* the delay "slot" about to execute, or the slot "done".                  *)
(* The interpreters' code is modelled; the recompilers call the same       *)
(* functions.                                                              *)
(***************************************************************************)
EXTENDS EventQueue

CONSTANTS
    DeviceTypes,    \* one-shot events of the RCP devices (PI_INT, SI_INT, ...)
    DDTypes,        \* events of the 64DD mechanism (DD_MC_INT), which the guest may cancel
    Sources,        \* the types the guest schedules
    Steps,          \* counts that a stretch of guest code may take
    IdleSteps,      \* the same, ahead of a branch to itself
    Delays,         \* delays with which devices schedule events
    VIDelay,        \* vi->delay
    NMIDelay,       \* counts from a soft reset to the NMI
    Requests,       \* what the frontend may ask for while it has control
    PowerOnCount,   \* Count at power on
    CountValues,    \* values the guest writes to Count
    CompareAhead,   \* how far ahead of Count the guest sets Compare
    StatusValues,   \* values the guest writes to Status: records [ie, exl, erl, im]
    MaxLate,        \* straight-line code ends at most this long after the next event is due
    SignalWhenOverdue \* may straight-line code move the RCP line while an event is overdue?

ASSUME TypesAssumption ==
    /\ Sources \subseteq DeviceTypes \cup DDTypes \cup {"VI"}
    /\ DeviceTypes \cap DDTypes = {}
    /\ (DeviceTypes \cup DDTypes) \cap {"SPECIAL", "COMPARE", "CHECK", "VI", "HW2", "NMI"} = {}
ASSUME CountsAssumption ==
    /\ Delays \cup {VIDelay, NMIDelay, PowerOnCount} \subseteq 0..(W-1)
    /\ CountValues \cup CompareAhead \subseteq 0..(W-1)
    /\ Steps \cup IdleSteps \subseteq Nat
    /\ MaxLate \in Nat
    /\ Requests \subseteq {"none", "soft", "hard", "load", "save", "stop"}
ASSUME StatusAssumption ==
    StatusValues \subseteq [ie : BOOLEAN, exl : BOOLEAN, erl : BOOLEAN,
                            im : SUBSET {"IP2", "IP3", "IP4", "IP7"}]

VARIABLES r4300, phase

vars == <<r4300, phase>>

Lines == {"IP2", "IP3", "IP4", "IP7"}
Types == DeviceTypes \cup DDTypes \cup {"SPECIAL", "COMPARE", "CHECK", "VI", "HW2", "NMI"}

-----------------------------------------------------------------------------
(* exception_general followed by exception_epilog: in a delay slot the     *)
(* interpreters note that the jump is to be skipped and force the branch   *)
(* to call gen_interrupt.                                                  *)
exception_general(c) ==
    IF c.delay_slot
    THEN [c EXCEPT !.exl = TRUE, !.skip_jump = TRUE, !.next = 0, !.cycle = 0]
    ELSE [c EXCEPT !.exl = TRUE]

Interruptible(c) == c.ie /\ ~c.exl /\ ~c.erl

(* The cause bit follows the line; an unmasked interrupt is delivered by a *)
(* CHECK_INT event put in front of the queue, if the pool has a node.      *)
r4300_check_interrupt(c, ip, set_cause) ==
    LET d == [c EXCEPT !.cause = IF set_cause THEN @ \cup {ip} ELSE @ \ {ip}]
    IN  IF Interruptible(d) /\ d.im \cap d.cause # {} /\ alloc_node_ok(d)
        THEN [d EXCEPT !.q = <<Event("CHECK", d.count, 0)>> \o @,
                       !.index = @ + 1, !.next = d.count, !.cycle = 0]
        ELSE d

raise_maskable_interrupt(c, ip) ==
    LET d == [c EXCEPT !.cause = @ \cup {ip}]
    IN  IF Interruptible(d) /\ d.im \cap d.cause # {} THEN exception_general(d) ELSE d

(* raise_rcp_interrupt, with unmasked saying whether the device's bit is   *)
(* in MI_INTR_MASK_REG.                                                    *)
raise_rcp_interrupt(c, unmasked) ==
    LET d == [c EXCEPT !.line = @ \/ unmasked]
    IN  IF d.line THEN raise_maskable_interrupt(d, "IP2") ELSE d

-----------------------------------------------------------------------------
(* The event handlers. *)

compare_int_handler(c) == raise_maskable_interrupt(add_compare_event(c, c.compare), "IP7")

check_int_handler(c) == exception_general(c)

special_int_handler(c) == add_special_event(remove_interrupt_event(c))

hw2_int_handler(c) == raise_maskable_interrupt(c, "IP4")

dd_mecha_int_handler(c) == r4300_check_interrupt(c, "IP3", TRUE)

(* soft_reset_device: an HW2 interrupt now, an NMI later. *)
soft_reset_device(c) ==
    add_interrupt_event(add_interrupt_event(c, "HW2", 0), "NMI", NMIDelay)

(* What the frontend does before it gives control back: retro_reset,       *)
(* retro_serialize, retro_unserialize, or the core's reset and stop.       *)
Serve(c, request) ==
    CASE request = "none" -> c
      [] request = "soft" -> soft_reset_device(c)
      [] request = "hard" -> [c EXCEPT !.reset_hard_job = TRUE]
      [] request = "stop" -> [c EXCEPT !.stop = TRUE]
      [] request \in {"load", "save"} -> [c EXCEPT !.job = request]

(* vi_vertical_interrupt_event: the frontend runs inside new_vi, while the *)
(* VI_INT being serviced is still queued; the next one is due a frame      *)
(* after this one was due, not a frame after it is serviced.               *)
vi_vertical_interrupt_event(c, env) ==
    LET d  == Serve(c, env.request)
        vi == d.q[FirstOf(d, "VI")]
    IN  raise_rcp_interrupt(
            add_interrupt_event_count(remove_interrupt_event(d), "VI",
                (vi.count + VIDelay) % W, vi.left + VIDelay),
            env.unmasked)

Faulty_nmi_int_handler(c, unmasked) ==
    [add_interrupt_event(init_interrupt(c), "VI", VIDelay) EXCEPT
        !.ie = FALSE, !.exl = FALSE, !.erl = FALSE, !.im = {}, !.cause = {},
        !.line = c.line /\ unmasked, !.count = 0, !.delay_slot = FALSE]

(* nmi_int_handler, with the Status that the emulated boot ROM leaves.     *)
(* That ROM clears some of the bits of MI_INTR_REG: unmasked says whether  *)
(* one that asserts the line is left.                                      *)
nmi_int_handler(c, unmasked) ==
    LET asserted == c.line /\ unmasked
        booted == [c EXCEPT !.ie = FALSE, !.exl = FALSE, !.erl = FALSE, !.im = {},
                            !.cause = IF asserted THEN {"IP2"} ELSE {},
                            !.line = asserted,
                            !.count = 0, !.delay_slot = FALSE]
    IN  add_interrupt_event(init_interrupt(booted), "VI", VIDelay)

Faulty_poweron_r4300(c) ==
    init_interrupt([c EXCEPT !.count = PowerOnCount, !.cycle = 0, !.next = 0,
        !.compare = 0, !.ie = FALSE, !.exl = FALSE, !.erl = FALSE, !.im = {},
        !.cause = {}, !.line = FALSE, !.delay_slot = FALSE, !.reset_hard_job = FALSE])

(* poweron_r4300 and poweron_cp0 reset the core; the rest of c is not theirs. *)
poweron_r4300(c) ==
    init_interrupt([c EXCEPT !.count = PowerOnCount, !.cycle = 0, !.next = 0,
        !.compare = 0, !.ie = FALSE, !.exl = FALSE, !.erl = FALSE, !.im = {},
        !.cause = {}, !.line = FALSE, !.delay_slot = FALSE, !.skip_jump = FALSE,
        !.reset_hard_job = FALSE])

(* reset_hard_handler *)
reset_hard_handler(c) == poweron_r4300(c)

NoState == [q |-> << >>, count |-> 0, compare |-> 0, ie |-> FALSE, exl |-> FALSE,
            erl |-> FALSE, im |-> {}, cause |-> {}, line |-> FALSE]

PowerOn ==
    poweron_r4300([q |-> << >>, index |-> 0, count |-> 0, cycle |-> 0, next |-> 0,
        compare |-> 0, ie |-> FALSE, exl |-> FALSE, erl |-> FALSE, im |-> {},
        cause |-> {}, delay_slot |-> FALSE, skip_jump |-> FALSE, line |-> FALSE,
        stop |-> FALSE, job |-> "nothing", reset_hard_job |-> FALSE,
        file |-> NoState, loading |-> FALSE, fired |-> << >>])

-----------------------------------------------------------------------------
(* Savestates, with the part of the machine that this module keeps.  A     *)
(* state has no cycle_count, delay_slot or skip_jump, and next_interrupt   *)
(* is overwritten when the queue is loaded.                                *)

savestates_save(c) ==
    [c EXCEPT !.job = "nothing",
              !.file = [q |-> c.q, count |-> c.count, compare |-> c.compare,
                        ie |-> c.ie, exl |-> c.exl, erl |-> c.erl, im |-> c.im,
                        cause |-> c.cause, line |-> c.line]]

Faulty_savestates_load(c) ==
    IF c.file.q = << >> THEN [c EXCEPT !.job = "nothing"]
    ELSE [clear_queue(c) EXCEPT
              !.loading = TRUE, !.job = "nothing", !.compare = c.file.compare,
              !.ie = c.file.ie, !.exl = c.file.exl, !.erl = c.file.erl,
              !.im = c.file.im, !.cause = c.file.cause, !.line = c.file.line]

(* savestates_load, up to the loop of load_eventqueue_infos; the steps of  *)
(* that loop are actions of their own, during which nothing else happens.  *)
(* A buffer that holds no savestate is rejected.                           *)
savestates_load(c) ==
    IF c.file.q = << >> THEN [c EXCEPT !.job = "nothing"]
    ELSE [clear_queue(c) EXCEPT
              !.loading = TRUE, !.job = "nothing",
              !.count = c.file.count, !.compare = c.file.compare, !.ie = c.file.ie,
              !.exl = c.file.exl, !.erl = c.file.erl, !.im = c.file.im,
              !.cause = c.file.cause, !.line = c.file.line]

-----------------------------------------------------------------------------
(* The switch of gen_interrupt on the type of the first event.  env is     *)
(* what the rest of the machine decides: whether the device's interrupt is *)
(* unmasked, and what the frontend asks for if it gets control.            *)
Env == [unmasked : BOOLEAN, request : Requests]

Dispatch(c, type, env) ==
    CASE type = "VI"          -> vi_vertical_interrupt_event(c, env)
      [] type = "COMPARE"     -> compare_int_handler(remove_interrupt_event(c))
      [] type = "CHECK"       -> check_int_handler(remove_interrupt_event(c))
      [] type = "SPECIAL"     -> special_int_handler(c)
      [] type = "HW2"         -> hw2_int_handler(remove_interrupt_event(c))
      [] type = "NMI"         -> nmi_int_handler(remove_interrupt_event(c), env.unmasked)
      [] type \in DDTypes     -> dd_mecha_int_handler(remove_interrupt_event(c))
      [] type \in DeviceTypes -> raise_rcp_interrupt(remove_interrupt_event(c), env.unmasked)

Service(c, env) ==
    Dispatch([c EXCEPT !.fired = IF History THEN Append(@, c.q[1]) ELSE @], c.q[1].type, env)

(* A pending skip_jump is consumed instead of an event. *)
skip_the_jump(c) ==
    [c EXCEPT !.skip_jump = FALSE, !.next = c.q[1].count,
              !.cycle = Signed(c.count - c.q[1].count)]

(* safe is interrupt_unsafe_state = 0.  A task that the RSP has not        *)
(* finished makes the state unsafe too; that only delays a job, as a later *)
(* request of the frontend would.                                          *)
gen_interrupt(c, env, safe) ==
    IF safe /\ c.job = "load" THEN savestates_load(c)
    ELSE IF safe /\ c.reset_hard_job THEN reset_hard_handler(c)
    ELSE IF c.skip_jump THEN skip_the_jump(c)
    ELSE LET d == Service(c, env)
         IN  IF safe /\ d.job = "save" THEN savestates_save(d) ELSE d

Faulty_GenIfDue(c, env, safe) ==
    IF c.cycle + CountPerOp >= 0 THEN gen_interrupt(c, env, safe) ELSE c

(* if (cycle_count >= 0) gen_interrupt(); *)
GenIfDue(c, env, safe) == IF c.cycle >= 0 THEN gen_interrupt(c, env, safe) ELSE c

-----------------------------------------------------------------------------
(* Guest instructions.  Each is one step, begins with fired empty, and in a *)
(* delay slot hands over to the end of the branch.                          *)

Now == [r4300 EXCEPT !.fired = << >>]

Ready == ~r4300.stop /\ ~r4300.loading

Instruction(c) ==
    /\ Ready
    /\ phase # "done"
    /\ r4300' = c
    /\ phase' = IF phase = "slot" THEN "done" ELSE phase

(* Straight-line code of n counts does not run far past the next event. *)
Reaches(n) == r4300.cycle + n <= MaxLate

(* A store to a device register that schedules an event of that device: a  *)
(* PI, SI, AI or SP transfer, a task, the first VI.  ~get_event is a bound *)
(* on the guest: add_interrupt_event warns of a second event of a type and *)
(* queues it.  Rcp counts the events of a type.                            *)
ScheduleEvent(type, n, delay) ==
    /\ type = "VI" => delay = VIDelay
    /\ Reaches(n)
    /\ ~get_event(r4300, type)
    /\ Instruction(add_interrupt_event(cp0_update_count(Now, n), type, delay))

(* A store to a 64DD register that cancels an event. *)
CancelEvent(type) ==
    /\ get_event(r4300, type)
    /\ Instruction(remove_event(Now, type))

(* A store that raises or clears bits of MI_INTR_REG outside an event      *)
(* handler: signal_rcp_interrupt and clear_rcp_interrupt.                  *)
signal_rcp_interrupt(asserted) ==
    /\ SignalWhenOverdue \/ r4300.cycle < 0
    /\ Instruction(r4300_check_interrupt([Now EXCEPT !.line = asserted], "IP2", asserted))

(* A store to MI_INTR_MASK_REG. *)
write_mi_intr_mask(n, asserted, env) ==
    /\ Reaches(n)
    /\ LET c == [Now EXCEPT !.line = asserted]
       IN  Instruction(GenIfDue(cp0_update_count(
               r4300_check_interrupt(c, "IP2", asserted), n), env, TRUE))

(* MTC0 to Count: due events are serviced first, then the queue is moved.  *)
mtc0_count(n, base, env) ==
    /\ Reaches(n)
    /\ LET c == GenIfDue(cp0_update_count(Now, n), env, FALSE)
       IN  Instruction(translate_event_queue(c, base, c.compare))

mtc0_compare(n, ahead) ==
    /\ Reaches(n)
    /\ LET value == (r4300.count + n + ahead) % W
           c == add_compare_event(remove_event(cp0_update_count(Now, n), "COMPARE"), value)
       IN  Instruction([c EXCEPT !.compare = value, !.cause = @ \ {"IP7"}])

mtc0_status(n, s, env) ==
    /\ Reaches(n)
    /\ LET c == [Now EXCEPT !.ie = s.ie, !.exl = s.exl, !.erl = s.erl, !.im = s.im]
       IN  Instruction(GenIfDue(r4300_check_interrupt(
               cp0_update_count(c, n), "IP2", c.line), env, FALSE))

eret(n, env) ==
    /\ Reaches(n)
    /\ phase = "no"
    /\ LET c == IF r4300.erl THEN [Now EXCEPT !.stop = TRUE] ELSE [Now EXCEPT !.exl = FALSE]
       IN  Instruction(GenIfDue(r4300_check_interrupt(
               cp0_update_count(c, n), "IP2", c.line), env, TRUE))

(* SYSCALL, a trap or an unusable coprocessor: Cause is overwritten, its   *)
(* pending interrupts included.                                            *)
syscall(n) ==
    /\ Reaches(n)
    /\ Instruction(exception_general([cp0_update_count(Now, n) EXCEPT !.cause = {}]))

(* A branch: first its delay slot, which may hold one of the instructions  *)
(* above, then the end, which services an event if one is due.             *)
BeginJump ==
    /\ Ready
    /\ phase = "no"
    /\ phase' = "slot"
    /\ r4300' = [Now EXCEPT !.delay_slot = TRUE]

EndJump(n, env) ==
    /\ ~r4300.loading
    /\ phase # "no"
    /\ r4300.skip_jump => n \in {0, CountPerOp}    \* the exception has set last_addr; MTC0 Count moves on
    /\ phase' = "no"
    /\ r4300' = GenIfDue([cp0_update_count(Now, n) EXCEPT !.delay_slot = FALSE], env, TRUE)

(* A branch to itself: Count is moved to the next event before the branch. *)
IdleLoop(n) ==
    /\ Ready
    /\ phase = "no"
    /\ phase' = "slot"
    /\ LET c == cp0_update_count(Now, n)
           d == IF c.cycle < 0 THEN cp0_update_count(c, -c.cycle) ELSE c
       IN  r4300' = [d EXCEPT !.delay_slot = TRUE]

-----------------------------------------------------------------------------
(* The steps of load_eventqueue_infos: the saved events are inserted one   *)
(* by one into the empty queue, then SPECIAL_INT is queued afresh.         *)
load_event ==
    /\ r4300.loading
    /\ r4300.index < Len(r4300.file.q)
    /\ LET e == r4300.file.q[r4300.index + 1]
       IN  r4300' = add_interrupt_event_count(r4300, e.type, e.count, e.left)
    /\ UNCHANGED phase

load_end ==
    /\ r4300.loading
    /\ r4300.index = Len(r4300.file.q)
    /\ r4300' = [reload_special(r4300) EXCEPT !.loading = FALSE]
    /\ UNCHANGED phase

-----------------------------------------------------------------------------
Init == r4300 = PowerOn /\ phase = "no"

Stopped == r4300.stop /\ ~r4300.loading /\ phase = "no" /\ UNCHANGED vars

Next ==
    \/ \E type \in Sources, n \in Steps, delay \in Delays \cup {VIDelay} :
            ScheduleEvent(type, n, delay)
    \/ \E type \in DDTypes : CancelEvent(type)
    \/ \E asserted \in BOOLEAN : signal_rcp_interrupt(asserted)
    \/ \E n \in Steps, asserted \in BOOLEAN, env \in Env : write_mi_intr_mask(n, asserted, env)
    \/ \E n \in Steps, base \in CountValues, env \in Env : mtc0_count(n, base, env)
    \/ \E n \in Steps, ahead \in CompareAhead : mtc0_compare(n, ahead)
    \/ \E n \in Steps, s \in StatusValues, env \in Env : mtc0_status(n, s, env)
    \/ \E n \in Steps, env \in Env : eret(n, env)
    \/ \E n \in Steps : syscall(n)
    \/ BeginJump
    \/ \E n \in Steps \cup {0}, env \in Env : EndJump(n, env)
    \/ \E n \in IdleSteps : IdleLoop(n)
    \/ load_event
    \/ load_end
    \/ Stopped

Spec == Init /\ [][Next]_vars

-----------------------------------------------------------------------------
Events == [type : Types, count : 0..(W-1), left : IF History THEN Int ELSE {0}]

SaveStates == [q : Seq(Events), count : 0..(W-1), compare : 0..(W-1), ie : BOOLEAN,
               exl : BOOLEAN, erl : BOOLEAN, im : SUBSET Lines, cause : SUBSET Lines,
               line : BOOLEAN]

Cores == [q : Seq(Events), index : 0..Capacity, count : 0..(W-1), cycle : Int,
          next : 0..(W-1), compare : 0..(W-1), ie : BOOLEAN, exl : BOOLEAN,
          erl : BOOLEAN, im : SUBSET Lines, cause : SUBSET Lines,
          delay_slot : BOOLEAN, skip_jump : BOOLEAN, line : BOOLEAN, stop : BOOLEAN,
          job : {"nothing", "load", "save"}, reset_hard_job : BOOLEAN,
          file : SaveStates, loading : BOOLEAN, fired : Seq(Events)]

(* The records hold values of their types; in particular the pool index    *)
(* stays within the pool.                                                  *)
TypeOK == phase \in {"no", "slot", "done"} /\ r4300 \in Cores

(* No node leaks and none is freed twice: every node taken from the pool   *)
(* is in the list, through every insertion, removal and failed allocation. *)
PoolAccounting == r4300.index = Len(r4300.q)

Once(q, type) == \E i \in 1..Len(q) :
                    q[i].type = type /\ \A j \in 1..Len(q) : q[j].type = type => j = i

(* The two events the emulation cannot lose are each queued exactly once   *)
(* whenever guest code runs, even when the pool is exhausted: every        *)
(* handler that takes one out puts it back into the node it has just       *)
(* freed, and loading a savestate brings back the saved ones.              *)
TimersQueued == ~r4300.loading =>
                   Once(r4300.q, "SPECIAL") /\ Once(r4300.q, "COMPARE")

(* next_interrupt + cycle_count is Count, the sum from which the dynamic   *)
(* recompilers rebuild Count; both are those of the first event unless a   *)
(* jump is to be skipped or the 64DD has cancelled the event they are of.  *)
Coherent ==
    ~r4300.skip_jump /\ ~r4300.loading =>
        /\ r4300.cycle % W = (r4300.count - r4300.next) % W
        /\ DDTypes = {} => r4300.next = r4300.q[1].count

(* The signed cycle_count is the true distance to the first event: the     *)
(* next event is never more than W/2 away, the purpose of SPECIAL_INT.     *)
CycleCountExact ==
    ~r4300.skip_jump /\ ~r4300.loading /\ r4300.q[1].type # "COMPARE" =>
        r4300.cycle = -r4300.q[1].left /\ r4300.next = r4300.q[1].count

(* gen_interrupt never services an event before its time. *)
NoEarlyService == \A i \in DOMAIN r4300.fired : r4300.fired[i].left <= 0

(* When an event is due, the next branch calls gen_interrupt. *)
OverdueIsServiced == (\E i \in 1..Len(r4300.q) : r4300.q[i].left <= 0) => r4300.cycle >= 0 \/ r4300.loading

(* The list is ordered by due time; CHECK_INT jumps the queue. *)
OrderedByDue == \A i, j \in 1..Len(r4300.q) :
    i < j /\ {r4300.q[i].type, r4300.q[j].type} \cap {"CHECK", "COMPARE"} = {}
        => r4300.q[i].left <= r4300.q[j].left

(* skip_jump is consumed by the branch in whose delay slot it was set. *)
SkipJumpConsumed == phase = "no" /\ ~r4300.loading => ~r4300.skip_jump

(* The queue of a core or of a savestate without its SPECIAL_INT. *)
Others(c) == RemoveAt(c.q, FirstOf(c, "SPECIAL"))

(* Loading a savestate brings the saved events back in the order in which  *)
(* they were saved, so that they are serviced in that order.               *)
LoadKeepsOrder ==
    [][r4300.loading /\ ~r4300'.loading => Others(r4300') = Others(r4300.file)]_vars
=============================================================================
