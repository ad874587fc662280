-------------------------------- MODULE Rcp ---------------------------------
(***************************************************************************)
(* The devices of the Reality Co-Processor as the guest's stores and the   *)
(* end-of-transfer events see them.  Each device that takes time marks     *)
(* itself busy and queues an event; the event's handler ends the transfer  *)
(* and raises the device's bit of MI_INTR_REG.                             *)
(*                                                                         *)
(*   events  how many events of each type are queued.  Their order is left *)
(*           open (Scheduler models it): any queued event may be next      *)
(*   mi      MI_INTR_REG and MI_INTR_MASK_REG, as sets                     *)
(*   cpu     Cause.IP2, Status.EXL, and ie for Status.IE with Status.IM2   *)
(*   pi      PI_STATUS_REG                                                 *)
(*   si      SI_STATUS_REG and dma_dir                                     *)
(*   ai      AI_STATUS_REG, the two-entry fifo, last_read                  *)
(*   sp      SP_STATUS_REG, rsp_task_locked and the two-entry DMA fifo     *)
(*   dp      DPC_STATUS_FREEZE and do_on_unfreeze                          *)
(*   vi      VI_V_INTR_REG < VI_V_SYNC_REG                                 *)
(*                                                                         *)
(* Definitions named Faulty_... are seeded faults, as in EventQueue.       *)
(*                                                                         *)
(* History variables, which no action reads: ai.played (samples handed to  *)
(* the audio backend, per DMA), ai.ended (finished DMAs) and sp.performed  *)
(* (SP DMAs in the order in which they were done).                         *)
(***************************************************************************)
EXTENDS Naturals, Sequences

CONSTANTS
    Devices,      \* the devices that the guest uses
    Polite,       \* does the guest look at the busy and full bits before it starts something?
    WithNMI,      \* may a soft reset's NMI arrive?
    SPWrites,     \* values the guest writes to SP_STATUS_REG
    Breaks,       \* the ways a run of the RSP may end: TRUE at BREAK, FALSE in the middle of a task
    Lengths,      \* lengths of AI transfers
    MaxQueued,    \* a bound on queued events of one type
    MaxDMA        \* a bound on transfers of the AI and of the SP

Irqs == {"SP", "SI", "AI", "VI", "PI", "DP"}
EventTypes == Irqs \cup {"RSP_DMA"}

(* A store to SP_STATUS_REG, as the bits that matter here. *)
SPStatusWrites == [halt : {"keep", "clear", "set"}, clear_broke : BOOLEAN,
                   intr : {"keep", "clear", "set"}, intr_break : {"keep", "clear", "set"}]

ASSUME RcpAssumption ==
    /\ Devices \subseteq Irqs
    /\ Polite \in BOOLEAN /\ WithNMI \in BOOLEAN
    /\ SPWrites \subseteq SPStatusWrites
    /\ Breaks \subseteq BOOLEAN
    /\ Lengths \subseteq Nat \ {0}
    /\ MaxQueued \in Nat \ {0} /\ MaxDMA \in Nat

VARIABLES events, mi, cpu, pi, si, ai, sp, dp, vi

vars == <<events, mi, cpu, pi, si, ai, sp, dp, vi>>

-----------------------------------------------------------------------------
(* Interrupts: mi_controller.c. *)

Line(m) == m.intr \cap m.mask # {}

(* r4300_check_interrupt: IP2 follows the line. *)
Checked(m) == [cpu EXCEPT !.ip2 = Line(m)]

signal_rcp_interrupt(irq) ==
    LET m == [mi EXCEPT !.intr = @ \cup {irq}]
    IN  mi' = m /\ cpu' = Checked(m)

clear_rcp_interrupt(irq) ==
    LET m == [mi EXCEPT !.intr = @ \ {irq}]
    IN  mi' = m /\ cpu' = Checked(m)

Faulty_raise_rcp_interrupt(irq) ==
    LET m == [mi EXCEPT !.intr = @ \cup {irq}]
    IN  /\ mi' = m
        /\ cpu' = IF Line(m) /\ cpu.ie THEN [cpu EXCEPT !.ip2 = TRUE, !.exl = TRUE] ELSE cpu

(* raise_rcp_interrupt: the exception is taken at once if it may be. *)
raise_rcp_interrupt(irq) ==
    LET m == [mi EXCEPT !.intr = @ \cup {irq}]
    IN  /\ mi' = m
        /\ cpu' = IF Line(m) THEN [cpu EXCEPT !.ip2 = TRUE, !.exl = @ \/ cpu.ie] ELSE cpu

add_event(type) == [events EXCEPT ![type] = @ + 1]

(* gen_interrupt takes a queued event; again says whether its handler      *)
(* queues the next one.                                                    *)
Takes(type, again) ==
    /\ events[type] > 0
    /\ events' = IF again THEN events ELSE [events EXCEPT ![type] = @ - 1]

Room(type) == events[type] < MaxQueued

Uses(device) == device \in Devices

(* A store to MI_INTR_MASK_REG. *)
write_mi_intr_mask(mask) ==
    LET m == [mi EXCEPT !.mask = mask]
    IN  /\ mi' = m
        /\ cpu' = Checked(m)
        /\ UNCHANGED <<events, pi, si, ai, sp, dp, vi>>

-----------------------------------------------------------------------------
(* The CPU: what Scheduler models in full. *)

(* A CHECK_INT is serviced, or an interrupt of another line. *)
Interrupt ==
    /\ cpu.ip2 /\ cpu.ie /\ ~cpu.exl
    /\ cpu' = [cpu EXCEPT !.exl = TRUE]
    /\ UNCHANGED <<events, mi, pi, si, ai, sp, dp, vi>>

(* An exception that overwrites Cause. *)
syscall ==
    /\ cpu' = [cpu EXCEPT !.exl = TRUE, !.ip2 = FALSE]
    /\ UNCHANGED <<events, mi, pi, si, ai, sp, dp, vi>>

(* ERET, or a store to Status that ends the exception level; both look at  *)
(* the line again.                                                         *)
eret ==
    /\ cpu' = [Checked(mi) EXCEPT !.exl = FALSE]
    /\ UNCHANGED <<events, mi, pi, si, ai, sp, dp, vi>>

mtc0_status(ie) ==
    /\ cpu' = [Checked(mi) EXCEPT !.ie = ie]
    /\ UNCHANGED <<events, mi, pi, si, ai, sp, dp, vi>>

-----------------------------------------------------------------------------
(* The parallel interface: cartridge DMA and stores to the cartridge. *)

pi_busy == pi.dma_busy \/ pi.io_busy

Faulty_dma_pi == pi' = [pi EXCEPT !.dma_busy = TRUE] /\ events' = add_event("PI")

(* dma_pi_read and dma_pi_write, from an address that a handler covers. *)
dma_pi ==
    \/ pi_busy /\ pi' = [pi EXCEPT !.error = TRUE] /\ UNCHANGED events
    \/ ~pi_busy /\ pi' = [pi EXCEPT !.dma_busy = TRUE] /\ events' = add_event("PI")

write_pi_len ==
    /\ Uses("PI") /\ Room("PI")
    /\ dma_pi
    /\ UNCHANGED <<mi, cpu, si, ai, sp, dp, vi>>

write_cart_rom ==
    /\ Uses("PI") /\ Room("PI")
    /\ \/ pi_busy /\ pi' = [pi EXCEPT !.error = TRUE] /\ UNCHANGED events
       \/ ~pi_busy /\ pi' = [pi EXCEPT !.io_busy = TRUE] /\ events' = add_event("PI")
    /\ UNCHANGED <<mi, cpu, si, ai, sp, dp, vi>>

poweron_pi == [dma_busy |-> FALSE, io_busy |-> FALSE, error |-> FALSE, intr |-> FALSE]

(* A store to PI_STATUS_REG.  PI_STATUS_RESET forgets a transfer whose     *)
(* event stays queued.                                                     *)
write_pi_status(clr_intr, reset) ==
    /\ Uses("PI")
    /\ Polite /\ reset => ~pi_busy
    /\ pi' = IF reset THEN poweron_pi ELSE [pi EXCEPT !.intr = @ /\ ~clr_intr]
    /\ IF clr_intr THEN clear_rcp_interrupt("PI") ELSE UNCHANGED <<mi, cpu>>
    /\ UNCHANGED <<events, si, ai, sp, dp, vi>>

Faulty_pi_end_of_dma_event ==
    /\ Takes("PI", FALSE)
    /\ pi' = [pi EXCEPT !.dma_busy = FALSE, !.intr = TRUE]
    /\ raise_rcp_interrupt("PI")
    /\ UNCHANGED <<si, ai, sp, dp, vi>>

pi_end_of_dma_event ==
    /\ Takes("PI", FALSE)
    /\ pi' = [pi EXCEPT !.dma_busy = FALSE, !.io_busy = FALSE, !.intr = TRUE]
    /\ raise_rcp_interrupt("PI")
    /\ UNCHANGED <<si, ai, sp, dp, vi>>

-----------------------------------------------------------------------------
(* The serial interface: transfers between RDRAM and the PIF. *)

(* dma_si_write and dma_si_read, with the PIF's address. *)
dma_si(dir) ==
    /\ Uses("SI") /\ Room("SI")
    /\ \/ si.busy /\ si' = [si EXCEPT !.error = TRUE] /\ UNCHANGED events
       \/ ~si.busy /\ si' = [si EXCEPT !.dir = dir, !.busy = TRUE]
                   /\ events' = add_event("SI")
    /\ UNCHANGED <<mi, cpu, pi, ai, sp, dp, vi>>

(* A store into the PIF's memory: a transfer that asks nobody. *)
write_pif_mem ==
    /\ Uses("SI") /\ Room("SI")
    /\ Polite => ~si.busy
    /\ si' = [si EXCEPT !.dir = "write", !.busy = TRUE, !.io_busy = TRUE]
    /\ events' = add_event("SI")
    /\ UNCHANGED <<mi, cpu, pi, ai, sp, dp, vi>>

write_si_status ==
    /\ Uses("SI")
    /\ si' = [si EXCEPT !.intr = FALSE]
    /\ clear_rcp_interrupt("SI")
    /\ UNCHANGED <<events, pi, ai, sp, dp, vi>>

(* What is copied, and which side works, depends on dir. *)
si_end_of_dma_event ==
    /\ Takes("SI", FALSE)
    /\ si' = [si EXCEPT !.dir = "none", !.busy = FALSE, !.io_busy = FALSE, !.intr = TRUE]
    /\ raise_rcp_interrupt("SI")
    /\ UNCHANGED <<pi, ai, sp, dp, vi>>

-----------------------------------------------------------------------------
(* The audio interface.  A DMA is [id, length]; remaining is the part of   *)
(* it that get_remaining_dma_length may still return: it shrinks as Count  *)
(* moves on, and is 0 when no AI_INT is queued.                            *)

NoDMA == [id |-> 0, length |-> 0]

do_dma(a, dma) == [a EXCEPT !.f0 = dma, !.last_read = dma.length, !.remaining = dma.length]

(* push_samples: n more samples of the current DMA go to the backend. *)
Played(a, n) == [a.played EXCEPT ![a.f0.id] = @ + n]

(* A store of a length to AI_LEN_REG: fifo_push. *)
write_ai_len(length) ==
    LET dma == [id |-> ai.ids + 1, length |-> length]
        a   == [ai EXCEPT !.ids = @ + 1]
    IN  /\ Uses("AI") /\ Room("AI")
        /\ ai.ids < MaxDMA
        /\ Polite => ~ai.full
        /\ \/ ai.busy /\ ai' = [a EXCEPT !.f1 = dma, !.full = TRUE] /\ UNCHANGED events
           \/ ~ai.busy /\ ai' = do_dma([a EXCEPT !.busy = TRUE], dma)
                       /\ events' = add_event("AI")
        /\ UNCHANGED <<mi, cpu, pi, si, sp, dp, vi>>

(* A load from AI_LEN_REG plays what has been transferred since the last. *)
read_ai_len(value) ==
    /\ Uses("AI")
    /\ value \in IF events["AI"] = 0 THEN {0} ELSE 0..ai.remaining
    /\ LET a == [ai EXCEPT !.remaining = value]
       IN  ai' = IF value < ai.last_read
                 THEN [a EXCEPT !.played = Played(ai, ai.last_read - value), !.last_read = value]
                 ELSE a
    /\ UNCHANGED <<events, mi, cpu, pi, si, sp, dp, vi>>

write_ai_status ==
    /\ Uses("AI")
    /\ clear_rcp_interrupt("AI")
    /\ UNCHANGED <<events, pi, si, ai, sp, dp, vi>>

Faulty_ai_fifo_pop(a) == [a EXCEPT !.busy = FALSE]

(* fifo_pop: the waiting DMA starts, or the AI is idle. *)
ai_fifo_pop(a) ==
    IF a.full THEN do_dma([a EXCEPT !.full = FALSE], a.f1) ELSE [a EXCEPT !.busy = FALSE]

Faulty_ai_end_of_dma_event ==
    /\ Takes("AI", ai.full)
    /\ ai' = ai_fifo_pop([ai EXCEPT !.played = Played(ai, ai.last_read),
                                    !.ended = @ \cup {ai.f0}])
    /\ raise_rcp_interrupt("AI")
    /\ UNCHANGED <<pi, si, sp, dp, vi>>

(* The samples that no load has played yet are played, then the fifo moves *)
(* on.                                                                     *)
ai_end_of_dma_event ==
    /\ Takes("AI", ai.full)
    /\ ai' = ai_fifo_pop([ai EXCEPT !.played = Played(ai, ai.last_read), !.last_read = 0,
                                    !.ended = @ \cup {ai.f0}])
    /\ raise_rcp_interrupt("AI")
    /\ UNCHANGED <<pi, si, sp, dp, vi>>

-----------------------------------------------------------------------------
(* The signal processor: its DMA fifo. *)

do_sp_dma(s, id) == [s EXCEPT !.f0 = id, !.performed = Append(@, id)]

Faulty_sp_fifo_push ==
    LET s == [sp EXCEPT !.ids = @ + 1]
    IN  \/ sp.busy /\ sp' = [s EXCEPT !.f1 = s.ids, !.full = TRUE] /\ UNCHANGED events
        \/ ~sp.busy /\ sp' = do_sp_dma([s EXCEPT !.busy = TRUE], s.ids)
                    /\ events' = add_event("RSP_DMA")

(* A full fifo ignores the request; the DMAs that it accepts are numbered. *)
sp_fifo_push ==
    LET s == [sp EXCEPT !.ids = @ + 1]
    IN  \/ sp.full /\ UNCHANGED <<sp, events>>
        \/ ~sp.full /\ sp.busy /\ sp' = [s EXCEPT !.f1 = s.ids, !.full = TRUE]
                    /\ UNCHANGED events
        \/ ~sp.full /\ ~sp.busy /\ sp' = do_sp_dma([s EXCEPT !.busy = TRUE], s.ids)
                    /\ events' = add_event("RSP_DMA")

(* A store to SP_RD_LEN_REG or SP_WR_LEN_REG. *)
write_sp_len ==
    /\ Uses("SP") /\ Room("RSP_DMA")
    /\ sp.ids < MaxDMA
    /\ sp_fifo_push
    /\ UNCHANGED <<mi, cpu, pi, si, ai, dp, vi>>

(* fifo_pop: the waiting DMA is done and has an event of its own. *)
rsp_end_of_dma_event ==
    /\ Takes("RSP_DMA", sp.full)
    /\ sp' = IF sp.full THEN do_sp_dma([sp EXCEPT !.full = FALSE], sp.f1)
                        ELSE [sp EXCEPT !.busy = FALSE]
    /\ UNCHANGED <<mi, cpu, pi, si, ai, dp, vi>>

-----------------------------------------------------------------------------
(* The signal processor: tasks. *)

Bit(old, w) == IF w = "keep" THEN old ELSE w = "set"

(* The bits of SP_STATUS_REG after a store of w. *)
StatusWritten(s, w) ==
    [s EXCEPT !.halt = Bit(@, w.halt), !.broke = @ /\ ~w.clear_broke,
              !.intr_break = Bit(@, w.intr_break)]

(* MI_INTR_REG after a store of w. *)
IntrWritten(w) ==
    CASE w.intr = "keep"  -> mi.intr
      [] w.intr = "clear" -> mi.intr \ {"SP"}
      [] w.intr = "set"   -> mi.intr \cup {"SP"}

(* Does a store of w run the task? *)
StartsTask(w) ==
    /\ ~(sp.locked /\ events["SP"] > 0)
    /\ w.halt = "clear" \/ w.clear_broke \/ sp.locked
    /\ ~Bit(sp.halt, w.halt)

(* do_SP_Task runs the plugin for as long as it likes.  run says what the  *)
(* plugin did: whether the task was a graphics task, whether it reached    *)
(* its BREAK, and whether it asked for a DP interrupt, as only graphics    *)
(* tasks of the HLE plugin do.                                             *)
Runs == [gfx : BOOLEAN, breaks : Breaks, dp : BOOLEAN]

Faulty_do_SP_Task(s, intr, run) ==
    LET locked == ~run.breaks /\ ~s.broke
        wantDP == run.gfx /\ (run.dp \/ "DP" \in intr)
        wantSP == locked \/ "SP" \in intr
    IN  /\ sp' = [s EXCEPT !.locked = locked, !.halt = FALSE, !.broke = FALSE]
        /\ dp' = IF wantDP /\ dp.freeze
                 THEN [dp EXCEPT !.on_unfreeze = @ \cup {"DP_INT"}] ELSE dp
        /\ mi' = [mi EXCEPT !.intr = (IF run.gfx THEN intr \ {"DP"} ELSE intr) \ {"SP"}]
        /\ events' = [events EXCEPT !["SP"] = IF wantSP THEN @ + 1 ELSE @,
                                    !["DP"] = IF wantDP /\ ~dp.freeze THEN @ + 1 ELSE @]

(* A DP interrupt that a graphics task asks for is an event, or postponed  *)
(* while the DP is frozen.  An SP interrupt that is pending for whatever   *)
(* reason becomes an event.                                                *)
do_SP_Task(s, intr, run) ==
    LET locked == ~run.breaks /\ ~s.broke
        wantDP == run.gfx /\ (run.dp \/ "DP" \in intr)
        wantSP == locked \/ (run.breaks /\ s.intr_break) \/ "SP" \in intr
    IN  /\ sp' = [s EXCEPT !.locked = locked, !.halt = FALSE, !.broke = FALSE]
        /\ dp' = IF wantDP /\ dp.freeze
                 THEN [dp EXCEPT !.on_unfreeze = @ \cup {"DP_INT"}] ELSE dp
        /\ mi' = [mi EXCEPT !.intr = (IF run.gfx THEN intr \ {"DP"} ELSE intr) \ {"SP"}]
        /\ events' = [events EXCEPT !["SP"] = IF wantSP THEN @ + 1 ELSE @,
                                    !["DP"] = IF wantDP /\ ~dp.freeze THEN @ + 1 ELSE @]

(* A store to SP_STATUS_REG. *)
update_sp_status(w, run) ==
    LET m == [mi EXCEPT !.intr = IntrWritten(w)]
        s == StatusWritten(sp, w)
    IN  /\ Uses("SP") /\ Room("SP") /\ Room("DP")
        /\ cpu' = IF w.intr = "keep" THEN cpu ELSE Checked(m)
        /\ \/ StartsTask(w) /\ do_SP_Task(s, m.intr, run)
           \/ ~StartsTask(w) /\ sp' = s /\ mi' = m /\ UNCHANGED <<events, dp>>
        /\ UNCHANGED <<pi, si, ai, vi>>

rsp_interrupt_event ==
    /\ Takes("SP", FALSE)
    /\ sp' = IF sp.locked THEN sp ELSE [sp EXCEPT !.halt = TRUE, !.broke = TRUE]
    /\ IF sp.intr_break THEN raise_rcp_interrupt("SP") ELSE UNCHANGED <<mi, cpu>>
    /\ UNCHANGED <<pi, si, ai, dp, vi>>

-----------------------------------------------------------------------------
(* The display processor and the video interface. *)

(* set: the same store sets freeze again, once what waited is done. *)
clear_freeze(set) ==
    /\ dp' = [dp EXCEPT !.freeze = set, !.on_unfreeze = {}]
    /\ IF "DP_INT" \in dp.on_unfreeze THEN signal_rcp_interrupt("DP") ELSE UNCHANGED <<mi, cpu>>

set_freeze == dp' = [dp EXCEPT !.freeze = TRUE] /\ UNCHANGED <<mi, cpu>>

(* A store to DPC_STATUS_REG. *)
update_dpc_status ==
    /\ Uses("DP")
    /\ (\E set \in BOOLEAN : clear_freeze(set)) \/ set_freeze
    /\ UNCHANGED <<events, pi, si, ai, sp, vi>>

(* A store to DPC_END_REG: the list is processed at once. *)
write_dpc_end ==
    /\ Uses("DP")
    /\ signal_rcp_interrupt("DP")
    /\ UNCHANGED <<events, pi, si, ai, sp, dp, vi>>

(* The store to MI_INIT_MODE_REG that clears the DP interrupt. *)
write_mi_init_mode ==
    /\ Uses("DP")
    /\ clear_rcp_interrupt("DP")
    /\ UNCHANGED <<events, pi, si, ai, sp, dp, vi>>

rdp_interrupt_event ==
    /\ Takes("DP", FALSE)
    /\ raise_rcp_interrupt("DP")
    /\ UNCHANGED <<pi, si, ai, sp, dp, vi>>

(* A store to VI_V_SYNC_REG or VI_V_INTR_REG: set_vi_vertical_interrupt. *)
write_vi_timing(on) ==
    /\ Uses("VI") /\ Room("VI")
    /\ vi' = on
    /\ events' = IF on /\ events["VI"] = 0 THEN add_event("VI") ELSE events
    /\ UNCHANGED <<mi, cpu, pi, si, ai, sp, dp>>

(* A store to VI_CURRENT_REG. *)
write_vi_current ==
    /\ Uses("VI")
    /\ clear_rcp_interrupt("VI")
    /\ UNCHANGED <<events, pi, si, ai, sp, dp, vi>>

(* The vertical interrupt queues the next one.  The picture waits for the  *)
(* DP if it is frozen with an interrupt postponed.                         *)
vi_vertical_interrupt_event ==
    /\ Takes("VI", TRUE)
    /\ dp' = IF "DP_INT" \in dp.on_unfreeze
             THEN [dp EXCEPT !.on_unfreeze = @ \cup {"UPDATESCREEN"}] ELSE dp
    /\ raise_rcp_interrupt("VI")
    /\ UNCHANGED <<pi, si, ai, sp, vi>>

-----------------------------------------------------------------------------
(* Power on, hard reset and the NMI of a soft reset. *)

Idle == [type \in EventTypes |-> 0]

poweron_mi == [intr |-> {}, mask |-> {}]

poweron_r4300 == [ip2 |-> FALSE, exl |-> FALSE, ie |-> FALSE]

poweron_si == [busy |-> FALSE, io_busy |-> FALSE, error |-> FALSE, intr |-> FALSE,
               dir |-> "none"]

poweron_ai == [busy |-> FALSE, full |-> FALSE, f0 |-> NoDMA, f1 |-> NoDMA, last_read |-> 0,
               remaining |-> 0, ids |-> 0, played |-> [id \in 0..MaxDMA |-> 0], ended |-> {}]

poweron_rsp == [halt |-> TRUE, broke |-> FALSE, intr_break |-> FALSE, locked |-> FALSE,
                busy |-> FALSE, full |-> FALSE, f0 |-> 0, f1 |-> 0, ids |-> 0,
                performed |-> << >>]

poweron_rdp == [freeze |-> FALSE, on_unfreeze |-> {}]

Init ==
    /\ events = Idle
    /\ mi = poweron_mi
    /\ cpu = poweron_r4300
    /\ pi = poweron_pi
    /\ si = poweron_si
    /\ ai = poweron_ai
    /\ sp = poweron_rsp
    /\ dp = poweron_rdp
    /\ vi = FALSE

(* poweron_device resets every device, init_interrupt empties the queue. *)
reset_hard_handler ==
    /\ events' = Idle
    /\ mi' = poweron_mi
    /\ cpu' = poweron_r4300
    /\ pi' = poweron_pi
    /\ si' = poweron_si
    /\ ai' = poweron_ai
    /\ sp' = poweron_rsp
    /\ dp' = poweron_rdp
    /\ vi' = FALSE

Faulty_nmi_int_handler ==
    /\ WithNMI
    /\ LET m == [mi EXCEPT !.intr = @ \ {"SP", "PI", "VI"}]
       IN  /\ mi' = m
           /\ cpu' = [ip2 |-> Line(m), exl |-> FALSE, ie |-> FALSE]
    /\ sp' = [sp EXCEPT !.halt = TRUE]
    /\ pi' = poweron_pi
    /\ vi' = FALSE
    /\ events' = [Idle EXCEPT !["VI"] = 1]
    /\ UNCHANGED <<si, ai, dp>>

(* nmi_int_handler and the emulated boot ROM (a real one does the same as  *)
(* guest code): the RSP is halted, the PI is reset, SP, PI and VI          *)
(* interrupts are cleared and the AI is marked idle (its stored length of  *)
(* 0 does nothing); the queue is emptied but for a new VI_INT.  SI and SP  *)
(* transfers are not waited for.                                           *)
nmi_int_handler ==
    /\ WithNMI
    /\ LET m == [mi EXCEPT !.intr = @ \ {"SP", "PI", "VI"}]
       IN  /\ mi' = m
           /\ cpu' = [ip2 |-> Line(m), exl |-> FALSE, ie |-> FALSE]
    /\ sp' = [sp EXCEPT !.halt = TRUE]
    /\ pi' = poweron_pi
    /\ ai' = [ai EXCEPT !.busy = FALSE, !.full = FALSE]
    /\ vi' = FALSE
    /\ events' = [Idle EXCEPT !["VI"] = 1]
    /\ UNCHANGED <<si, dp>>

-----------------------------------------------------------------------------
Next ==
    \/ \E mask \in {{}, Devices} : write_mi_intr_mask(mask)
    \/ Interrupt
    \/ syscall
    \/ eret
    \/ \E ie \in BOOLEAN : mtc0_status(ie)
    \/ write_pi_len
    \/ write_cart_rom
    \/ \E clr_intr, reset \in BOOLEAN : write_pi_status(clr_intr, reset)
    \/ pi_end_of_dma_event
    \/ \E dir \in {"read", "write"} : dma_si(dir)
    \/ write_pif_mem
    \/ write_si_status
    \/ si_end_of_dma_event
    \/ \E length \in Lengths : write_ai_len(length)
    \/ \E value \in 0..ai.remaining : read_ai_len(value)
    \/ write_ai_status
    \/ ai_end_of_dma_event
    \/ write_sp_len
    \/ rsp_end_of_dma_event
    \/ \E w \in SPWrites, run \in Runs : update_sp_status(w, run)
    \/ rsp_interrupt_event
    \/ update_dpc_status
    \/ write_dpc_end
    \/ write_mi_init_mode
    \/ rdp_interrupt_event
    \/ \E on \in BOOLEAN : write_vi_timing(on)
    \/ write_vi_current
    \/ vi_vertical_interrupt_event
    \/ reset_hard_handler
    \/ nmi_int_handler

Spec == Init /\ [][Next]_vars

(* The CPU goes on executing branches, Count goes on, and gen_interrupt    *)
(* services what is due: every queued event has its turn.                  *)
Fairness ==
    /\ WF_vars(pi_end_of_dma_event)
    /\ WF_vars(si_end_of_dma_event)
    /\ WF_vars(ai_end_of_dma_event)
    /\ WF_vars(rsp_end_of_dma_event)
    /\ WF_vars(rsp_interrupt_event)

FairSpec == Spec /\ Fairness

-----------------------------------------------------------------------------
DMAs == [id : 0..MaxDMA, length : Lengths \cup {0}]

EventsType == events \in [EventTypes -> Nat]
MiType == mi \in [intr : SUBSET Irqs, mask : SUBSET Irqs]
CpuType == cpu \in [ip2 : BOOLEAN, exl : BOOLEAN, ie : BOOLEAN]
PiType == pi \in [dma_busy : BOOLEAN, io_busy : BOOLEAN, error : BOOLEAN, intr : BOOLEAN]
SiType == si \in [busy : BOOLEAN, io_busy : BOOLEAN, error : BOOLEAN, intr : BOOLEAN,
                  dir : {"none", "read", "write"}]
AiStates == [busy : BOOLEAN, full : BOOLEAN, f0 : DMAs, f1 : DMAs, last_read : Nat,
             remaining : Nat, ids : 0..MaxDMA, played : [0..MaxDMA -> Nat],
             ended : SUBSET DMAs]
SpStates == [halt : BOOLEAN, broke : BOOLEAN, intr_break : BOOLEAN, locked : BOOLEAN,
             busy : BOOLEAN, full : BOOLEAN, f0 : 0..MaxDMA, f1 : 0..MaxDMA,
             ids : 0..MaxDMA, performed : Seq(0..MaxDMA)]
DpType == dp \in [freeze : BOOLEAN, on_unfreeze : SUBSET {"DP_INT", "UPDATESCREEN"}]

TypeOK ==
    /\ EventsType
    /\ MiType
    /\ CpuType
    /\ PiType
    /\ SiType
    /\ ai \in AiStates
    /\ sp \in SpStates
    /\ DpType
    /\ vi \in BOOLEAN

(* A device that says it is busy has an event queued that will end it: no  *)
(* transfer is forgotten, whatever the guest does in between.              *)
BusyHasEvent ==
    /\ pi_busy => events["PI"] > 0
    /\ si.busy => events["SI"] > 0
    /\ ai.busy => events["AI"] > 0
    /\ sp.busy => events["RSP_DMA"] > 0

(* A guest that looks at the busy bits never has two events of a device in *)
(* the queue, and each queued event belongs to the transfer that is going  *)
(* on: none ends the transfer after it.                                    *)
OneEventPerTransfer ==
    /\ events["PI"] = (IF pi_busy THEN 1 ELSE 0)
    /\ events["SI"] = (IF si.busy THEN 1 ELSE 0)
    /\ events["AI"] = (IF ai.busy THEN 1 ELSE 0)
    /\ events["RSP_DMA"] = (IF sp.busy THEN 1 ELSE 0)
    /\ events["VI"] <= 1

(* No unmasked RCP interrupt is overlooked: outside the exception level,   *)
(* Cause.IP2 is set whenever the MI asserts its line.                      *)
NoLostInterrupt == Line(mi) /\ ~cpu.exl => cpu.ip2

(* The SP does the DMAs that its fifo accepts once each and in order. *)
DmaInOrder == sp.performed = [i \in 1..(IF sp.full THEN sp.ids - 1 ELSE sp.ids) |-> i]

(* Every sample of an AI transfer is played exactly once, by a load of     *)
(* AI_LEN_REG or at the end of the transfer.                               *)
AudioComplete ==
    /\ \A d \in ai.ended : ai.played[d.id] = d.length
    /\ ai.busy => ai.played[ai.f0.id] + ai.last_read = ai.f0.length

(* Every transfer ends: the devices do not stay busy, and a waiting DMA    *)
(* gets its turn.                                                          *)
TransfersEnd ==
    /\ pi_busy ~> ~pi_busy
    /\ si.busy ~> ~si.busy
    /\ ai.full ~> ~ai.full
    /\ sp.full ~> ~sp.full

(* Every task that is started is seen to end, unless the RSP leaves it in  *)
(* the middle, where it waits for the guest.                               *)
TasksEnd == ~sp.halt ~> sp.halt \/ sp.locked
=============================================================================
