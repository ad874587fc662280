----------------------------- MODULE RcpProofs ------------------------------
(***************************************************************************)
(* Theorems about Rcp, for every set of devices, every guest, every set of *)
(* lengths and every bound: the registers keep their types, no interrupt   *)
(* is lost, a busy device has its event, the SP's DMAs are done in order   *)
(* and audio samples are played once each.                                 *)
(*                                                                         *)
(* Safe is inductive by itself.  BusyHasEvent is inductive relative to it, *)
(* but only without the NMI, which empties the queue under a busy SI or SP *)
(* (README, section 7).                                                    *)
(***************************************************************************)
EXTENDS Rcp, TLAPS

(* What the registers of the interrupt path have to satisfy. *)
MiCpu == MiType /\ CpuType /\ NoLostInterrupt

(* r4300_check_interrupt sets IP2 to the line and nothing else. *)
LEMMA CheckedType ==
    ASSUME CpuType, NEW m
    PROVE  /\ Checked(m) \in [ip2 : BOOLEAN, exl : BOOLEAN, ie : BOOLEAN]
           /\ Checked(m).ip2 = Line(m)
  BY DEF CpuType, Checked, Line

(* A store that ends in r4300_check_interrupt loses no interrupt. *)
LEMMA CheckedMi ==
    ASSUME CpuType, mi' \in [intr : SUBSET Irqs, mask : SUBSET Irqs], cpu' = Checked(mi')
    PROVE  MiCpu'
<1>1. cpu' \in [ip2 : BOOLEAN, exl : BOOLEAN, ie : BOOLEAN] /\ cpu'.ip2 = Line(mi')
  BY CheckedType
<1> QED
  BY <1>1 DEF MiCpu, MiType, CpuType, NoLostInterrupt, Line

(* signal_rcp_interrupt loses no interrupt. *)
LEMMA SignalMi ==
    ASSUME MiCpu, NEW irq \in Irqs, signal_rcp_interrupt(irq)
    PROVE  MiCpu'
<1>1. mi' \in [intr : SUBSET Irqs, mask : SUBSET Irqs]
  BY DEF MiCpu, MiType, signal_rcp_interrupt
<1> QED
  BY <1>1, CheckedMi DEF MiCpu, signal_rcp_interrupt

(* clear_rcp_interrupt loses no other interrupt. *)
LEMMA ClearMi ==
    ASSUME MiCpu, NEW irq \in Irqs, clear_rcp_interrupt(irq)
    PROVE  MiCpu'
<1>1. mi' \in [intr : SUBSET Irqs, mask : SUBSET Irqs]
  BY DEF MiCpu, MiType, clear_rcp_interrupt
<1> QED
  BY <1>1, CheckedMi DEF MiCpu, clear_rcp_interrupt

(* raise_rcp_interrupt loses no interrupt. *)
LEMMA RaiseMi ==
    ASSUME MiCpu, NEW irq \in Irqs, raise_rcp_interrupt(irq)
    PROVE  MiCpu'
<1>1. mi' \in [intr : SUBSET Irqs, mask : SUBSET Irqs]
  BY DEF MiCpu, MiType, raise_rcp_interrupt
<1>2. cpu' = IF Line(mi') THEN [cpu EXCEPT !.ip2 = TRUE, !.exl = @ \/ cpu.ie] ELSE cpu
  BY DEF raise_rcp_interrupt
<1> QED
  BY <1>1, <1>2 DEF MiCpu, MiType, CpuType, NoLostInterrupt, Line

(* add_interrupt_event adds an event and takes none. *)
LEMMA AddEvent ==
    ASSUME EventsType, NEW t \in EventTypes, events' = add_event(t)
    PROVE  /\ EventsType'
           /\ events'[t] > 0
           /\ \A u \in EventTypes : events[u] > 0 => events'[u] > 0
  BY DEF EventsType, add_event

(* gen_interrupt takes one event, or none if its handler queues it again. *)
LEMMA TakesEvent ==
    ASSUME EventsType, NEW t \in EventTypes, NEW again \in BOOLEAN, Takes(t, again)
    PROVE  /\ EventsType'
           /\ again => events'[t] > 0
           /\ \A u \in EventTypes \ {t} : events'[u] = events[u]
  BY DEF EventsType, Takes

-----------------------------------------------------------------------------
(* Types, device by device. *)

(* do_dma keeps the types of the AI. *)
LEMMA DoDmaType ==
    ASSUME NEW a \in AiStates, NEW dma \in DMAs
    PROVE  do_dma(a, dma) \in AiStates
<1>1. Lengths \subseteq Nat
  BY RcpAssumption, Zenon DEF RcpAssumption
<1>2. dma.length \in Lengths \cup {0}
  BY DEF DMAs
<1>3. ASSUME NEW n \in Lengths \cup {0}
      PROVE  n \in Nat
  BY <1>1
<1>4. dma.length \in Nat
  BY <1>2, <1>3, Zenon
<1> QED
  BY <1>4 DEF AiStates, do_dma

(* So does fifo_pop of the AI. *)
LEMMA AiPopType ==
    ASSUME NEW a \in AiStates
    PROVE  ai_fifo_pop(a) \in AiStates
<1>1. CASE a.full
  <2>1. [a EXCEPT !.full = FALSE] \in AiStates /\ a.f1 \in DMAs
    BY DEF AiStates
  <2> QED
    BY <1>1, <2>1, DoDmaType DEF ai_fifo_pop
<1>2. CASE ~a.full
  BY <1>2 DEF ai_fifo_pop, AiStates
<1> QED
  BY <1>1, <1>2

(* Samples played are counted per DMA. *)
LEMMA PlayedType ==
    ASSUME NEW a \in AiStates, NEW n \in Nat
    PROVE  Played(a, n) \in [0..MaxDMA -> Nat]
<1>1. a.played \in [0..MaxDMA -> Nat] /\ a.f0.id \in 0..MaxDMA
  BY DEF AiStates, DMAs
<1>2. ASSUME NEW f \in [0..MaxDMA -> Nat], NEW i \in 0..MaxDMA
      PROVE  [f EXCEPT ![i] = @ + n] \in [0..MaxDMA -> Nat]
  BY <1>2
<1> QED
  BY <1>1, <1>2, Zenon DEF Played

(* do_sp_dma keeps the types of the SP. *)
LEMMA SpDmaType ==
    ASSUME NEW s \in SpStates, NEW id \in 0..MaxDMA
    PROVE  do_sp_dma(s, id) \in SpStates
<1>1. Append(s.performed, id) \in Seq(0..MaxDMA)
  BY DEF SpStates
<1> QED
  BY <1>1 DEF SpStates, do_sp_dma

(* So does a store to SP_STATUS_REG. *)
LEMMA StatusWrittenType ==
    ASSUME NEW s \in SpStates, NEW w \in SPStatusWrites
    PROVE  StatusWritten(s, w) \in SpStates
<1>1. /\ Bit(s.halt, w.halt) \in BOOLEAN
      /\ Bit(s.intr_break, w.intr_break) \in BOOLEAN
      /\ (s.broke /\ ~w.clear_broke) \in BOOLEAN
  BY DEF SpStates, Bit
<1> QED
  BY <1>1, ZenonT(30) DEF SpStates, StatusWritten

-----------------------------------------------------------------------------
(* Every step keeps the types and NoLostInterrupt: one lemma per device. *)

Safe == /\ EventsType
        /\ MiCpu
        /\ PiType
        /\ SiType
        /\ ai \in AiStates
        /\ sp \in SpStates
        /\ DpType
        /\ vi \in BOOLEAN

(* The CPU and the MI. *)
LEMMA CpuActions ==
    ASSUME Safe,
           \/ \E mask \in {{}, Devices} : write_mi_intr_mask(mask)
           \/ Interrupt
           \/ syscall
           \/ eret
           \/ \E ie \in BOOLEAN : mtc0_status(ie)
    PROVE  Safe'
<1>0. UNCHANGED <<events, pi, si, ai, sp, dp, vi>>
  BY DEF write_mi_intr_mask, Interrupt, syscall, eret, mtc0_status
<1>1. ASSUME NEW mask \in {{}, Devices}, write_mi_intr_mask(mask)
      PROVE  MiCpu'
  <2>1. mask \in SUBSET Irqs
    BY RcpAssumption, Zenon DEF RcpAssumption
  <2>2. mi' \in [intr : SUBSET Irqs, mask : SUBSET Irqs]
    BY <1>1, <2>1 DEF Safe, MiCpu, MiType, write_mi_intr_mask
  <2> QED
    BY <1>1, <2>2, CheckedMi DEF Safe, MiCpu, write_mi_intr_mask
<1>2. ASSUME Interrupt
      PROVE  MiCpu'
  BY <1>2 DEF Interrupt, Safe, MiCpu, MiType, CpuType, NoLostInterrupt, Line
<1>3. ASSUME syscall
      PROVE  MiCpu'
  BY <1>3 DEF syscall, Safe, MiCpu, MiType, CpuType, NoLostInterrupt, Line
<1>4. ASSUME eret
      PROVE  MiCpu'
  <2>1. Checked(mi) \in [ip2 : BOOLEAN, exl : BOOLEAN, ie : BOOLEAN] /\ Checked(mi).ip2 = Line(mi)
    BY CheckedType DEF Safe, MiCpu
  <2> QED
    BY <1>4, <2>1 DEF eret, Safe, MiCpu, MiType, CpuType, NoLostInterrupt, Line
<1>5. ASSUME NEW ie \in BOOLEAN, mtc0_status(ie)
      PROVE  MiCpu'
  <2>1. Checked(mi) \in [ip2 : BOOLEAN, exl : BOOLEAN, ie : BOOLEAN] /\ Checked(mi).ip2 = Line(mi)
    BY CheckedType DEF Safe, MiCpu
  <2> QED
    BY <1>5, <2>1 DEF mtc0_status, Safe, MiCpu, MiType, CpuType, NoLostInterrupt, Line
<1>6. MiCpu'
  BY <1>1, <1>2, <1>3, <1>4, <1>5, Zenon DEF Safe
<1> QED
  BY <1>0, <1>6 DEF Safe, EventsType, PiType, SiType, DpType

(* The PI. *)
LEMMA PiActions ==
    ASSUME Safe,
           \/ write_pi_len
           \/ write_cart_rom
           \/ \E clr_intr, reset \in BOOLEAN : write_pi_status(clr_intr, reset)
           \/ pi_end_of_dma_event
    PROVE  Safe'
<1>0. UNCHANGED <<si, ai, sp, dp, vi>>
  BY DEF write_pi_len, write_cart_rom, write_pi_status, pi_end_of_dma_event
<1> DEFINE Goal == EventsType' /\ MiCpu' /\ PiType'
<1>1. ASSUME write_pi_len \/ write_cart_rom
      PROVE  Goal
  <2>1. "PI" \in EventTypes
    BY DEF EventTypes, Irqs
  <2>2. events' = events \/ events' = add_event("PI")
    BY <1>1 DEF write_pi_len, write_cart_rom, dma_pi
  <2>3. EventsType'
    BY <2>1, <2>2, AddEvent DEF Safe, EventsType
  <2>4. MiCpu'
    BY <1>1 DEF Safe, MiCpu, MiType, CpuType, NoLostInterrupt, Line, write_pi_len, write_cart_rom
  <2>5. PiType'
    BY <1>1 DEF Safe, PiType, write_pi_len, write_cart_rom, dma_pi
  <2> QED
    BY <2>3, <2>4, <2>5
<1>2. ASSUME NEW clr_intr \in BOOLEAN, NEW reset \in BOOLEAN, write_pi_status(clr_intr, reset)
      PROVE  Goal
  <2>1. EventsType'
    BY <1>2 DEF Safe, EventsType, write_pi_status
  <2>2. MiCpu'
    <3>1. CASE clr_intr
      BY <1>2, <3>1, ClearMi DEF Safe, Irqs, write_pi_status
    <3>2. CASE ~clr_intr
      BY <1>2, <3>2 DEF Safe, MiCpu, MiType, CpuType, NoLostInterrupt, Line, write_pi_status
    <3> QED
      BY <3>1, <3>2
  <2>3. PiType'
    BY <1>2 DEF Safe, PiType, write_pi_status, poweron_pi
  <2> QED
    BY <2>1, <2>2, <2>3
<1>3. ASSUME pi_end_of_dma_event
      PROVE  Goal
  <2>1. EventsType'
    BY <1>3, TakesEvent DEF Safe, EventTypes, Irqs, pi_end_of_dma_event
  <2>2. MiCpu'
    BY <1>3, RaiseMi DEF Safe, Irqs, pi_end_of_dma_event
  <2>3. PiType'
    BY <1>3 DEF Safe, PiType, pi_end_of_dma_event
  <2> QED
    BY <2>1, <2>2, <2>3
<1>4. Goal
  BY <1>1, <1>2, <1>3, Zenon
<1> QED
  BY <1>0, <1>4 DEF Safe, SiType, DpType

(* The SI. *)
LEMMA SiActions ==
    ASSUME Safe,
           \/ \E dir \in {"read", "write"} : dma_si(dir)
           \/ write_pif_mem
           \/ write_si_status
           \/ si_end_of_dma_event
    PROVE  Safe'
<1>0. UNCHANGED <<pi, ai, sp, dp, vi>>
  BY DEF dma_si, write_pif_mem, write_si_status, si_end_of_dma_event
<1> DEFINE Goal == EventsType' /\ MiCpu' /\ SiType'
<1>1. ASSUME (\E dir \in {"read", "write"} : dma_si(dir)) \/ write_pif_mem
      PROVE  Goal
  <2>1. "SI" \in EventTypes
    BY DEF EventTypes, Irqs
  <2>2. events' = events \/ events' = add_event("SI")
    BY <1>1 DEF dma_si, write_pif_mem
  <2>3. EventsType'
    BY <2>1, <2>2, AddEvent DEF Safe, EventsType
  <2>4. MiCpu'
    BY <1>1 DEF Safe, MiCpu, MiType, CpuType, NoLostInterrupt, Line, dma_si, write_pif_mem
  <2>5. SiType'
    BY <1>1 DEF Safe, SiType, dma_si, write_pif_mem
  <2> QED
    BY <2>3, <2>4, <2>5
<1>2. ASSUME write_si_status
      PROVE  Goal
  <2>1. EventsType'
    BY <1>2 DEF Safe, EventsType, write_si_status
  <2>2. MiCpu'
    BY <1>2, ClearMi DEF Safe, Irqs, write_si_status
  <2>3. SiType'
    BY <1>2 DEF Safe, SiType, write_si_status
  <2> QED
    BY <2>1, <2>2, <2>3
<1>3. ASSUME si_end_of_dma_event
      PROVE  Goal
  <2>1. EventsType'
    BY <1>3, TakesEvent DEF Safe, EventTypes, Irqs, si_end_of_dma_event
  <2>2. MiCpu'
    BY <1>3, RaiseMi DEF Safe, Irqs, si_end_of_dma_event
  <2>3. SiType'
    BY <1>3 DEF Safe, SiType, si_end_of_dma_event
  <2> QED
    BY <2>1, <2>2, <2>3
<1>4. Goal
  BY <1>1, <1>2, <1>3, Zenon
<1> QED
  BY <1>0, <1>4 DEF Safe, PiType, DpType

(* The AI. *)
LEMMA AiActions ==
    ASSUME Safe,
           \/ \E length \in Lengths : write_ai_len(length)
           \/ \E value \in 0..ai.remaining : read_ai_len(value)
           \/ write_ai_status
           \/ ai_end_of_dma_event
    PROVE  Safe'
<1>0. UNCHANGED <<pi, si, sp, dp, vi>>
  BY DEF write_ai_len, read_ai_len, write_ai_status, ai_end_of_dma_event
<1> DEFINE Goal == EventsType' /\ MiCpu' /\ ai' \in AiStates
<1>1. ASSUME NEW length \in Lengths, write_ai_len(length)
      PROVE  Goal
  <2>1. "AI" \in EventTypes
    BY DEF EventTypes, Irqs
  <2>2. events' = events \/ events' = add_event("AI")
    BY <1>1 DEF write_ai_len
  <2>3. EventsType'
    BY <2>1, <2>2, AddEvent DEF Safe, EventsType
  <2>4. MiCpu'
    BY <1>1 DEF Safe, MiCpu, MiType, CpuType, NoLostInterrupt, Line, write_ai_len
  <2>5. ai' \in AiStates
    <3> DEFINE dma == [id |-> ai.ids + 1, length |-> length]
               a == [ai EXCEPT !.ids = @ + 1]
    <3>1. MaxDMA \in Nat
      BY RcpAssumption, Zenon DEF RcpAssumption
    <3>2. ai.ids + 1 \in 0..MaxDMA
      <4>1. ai.ids < MaxDMA
        BY <1>1, Zenon DEF write_ai_len
      <4>2. ai.ids \in 0..MaxDMA
        BY DEF Safe, AiStates
      <4> QED
        BY <3>1, <4>1, <4>2
    <3>3. dma \in DMAs
      BY <3>2 DEF DMAs
    <3>4. a \in AiStates
      BY <3>2 DEF Safe, AiStates
    <3>5. \/ ai' = [a EXCEPT !.f1 = dma, !.full = TRUE]
          \/ ai' = do_dma([a EXCEPT !.busy = TRUE], dma)
      BY <1>1 DEF write_ai_len
    <3> HIDE DEF dma, a
    <3>6. [a EXCEPT !.f1 = dma, !.full = TRUE] \in AiStates
      BY <3>3, <3>4 DEF AiStates
    <3>7. [a EXCEPT !.busy = TRUE] \in AiStates
      BY <3>4 DEF AiStates
    <3> QED
      BY <3>3, <3>5, <3>6, <3>7, DoDmaType, Zenon
  <2> QED
    BY <2>3, <2>4, <2>5
<1>2. ASSUME NEW value \in 0..ai.remaining, read_ai_len(value)
      PROVE  Goal
  <2>1. EventsType'
    BY <1>2 DEF Safe, EventsType, read_ai_len
  <2>2. MiCpu'
    BY <1>2 DEF Safe, MiCpu, MiType, CpuType, NoLostInterrupt, Line, read_ai_len
  <2>3. ai' \in AiStates
    <3> DEFINE a == [ai EXCEPT !.remaining = value]
    <3>0. ai.remaining \in Nat /\ ai.last_read \in Nat /\ ai \in AiStates
      BY DEF Safe, AiStates
    <3>1. value \in Nat
      BY <3>0
    <3>2. a \in AiStates
      BY <3>0, <3>1 DEF AiStates
    <3>3. CASE value < ai.last_read
      <4>1. ai.last_read - value \in Nat
        BY <3>0, <3>1, <3>3
      <4> DEFINE p == Played(ai, ai.last_read - value)
      <4>2. p \in [0..MaxDMA -> Nat]
        BY <3>0, <4>1, PlayedType
      <4>3. ai' = [a EXCEPT !.played = p, !.last_read = value]
        BY <1>2, <3>3, Zenon DEF read_ai_len
      <4> HIDE DEF a, p
      <4> QED
        BY <3>1, <3>2, <4>2, <4>3 DEF AiStates
    <3>4. CASE ~(value < ai.last_read)
      BY <1>2, <3>2, <3>4, Zenon DEF read_ai_len
    <3> QED
      BY <3>3, <3>4
  <2> QED
    BY <2>1, <2>2, <2>3
<1>3. ASSUME write_ai_status
      PROVE  Goal
  <2>1. EventsType' /\ ai' \in AiStates
    BY <1>3 DEF Safe, EventsType, write_ai_status
  <2>2. MiCpu'
    BY <1>3, ClearMi DEF Safe, Irqs, write_ai_status
  <2> QED
    BY <2>1, <2>2
<1>4. ASSUME ai_end_of_dma_event
      PROVE  Goal
  <2>0. ai.full \in BOOLEAN /\ ai.last_read \in Nat /\ ai.f0 \in DMAs /\ ai \in AiStates
    BY DEF Safe, AiStates
  <2>1. EventsType'
    BY <1>4, <2>0, TakesEvent DEF Safe, EventTypes, Irqs, ai_end_of_dma_event
  <2>2. MiCpu'
    BY <1>4, RaiseMi DEF Safe, Irqs, ai_end_of_dma_event
  <2>3. ai' \in AiStates
    <3> DEFINE p == Played(ai, ai.last_read)
               a == [ai EXCEPT !.played = p, !.last_read = 0, !.ended = @ \cup {ai.f0}]
    <3>1. p \in [0..MaxDMA -> Nat]
      BY <2>0, PlayedType
    <3>2. ai' = ai_fifo_pop(a)
      BY <1>4, Zenon DEF ai_end_of_dma_event
    <3> HIDE DEF p
    <3>3. a \in AiStates
      BY <2>0, <3>1 DEF AiStates
    <3> HIDE DEF a
    <3> QED
      BY <3>2, <3>3, AiPopType, Zenon
  <2> QED
    BY <2>1, <2>2, <2>3
<1>5. Goal
  BY <1>1, <1>2, <1>3, <1>4, Zenon
<1> QED
  BY <1>0, <1>5 DEF Safe, PiType, SiType, DpType

(* The DMAs of the SP. *)
LEMMA SpDmaActions ==
    ASSUME Safe, write_sp_len \/ rsp_end_of_dma_event
    PROVE  Safe'
<1>0. UNCHANGED <<mi, cpu, pi, si, ai, dp, vi>>
  BY DEF write_sp_len, rsp_end_of_dma_event
<1>1. MiCpu'
  BY <1>0 DEF Safe, MiCpu, MiType, CpuType, NoLostInterrupt, Line
<1>2. sp \in SpStates /\ sp.full \in BOOLEAN /\ sp.f1 \in 0..MaxDMA /\ sp.ids \in 0..MaxDMA
  BY DEF Safe, SpStates
<1> DEFINE Goal == EventsType' /\ sp' \in SpStates
<1>3. ASSUME write_sp_len
      PROVE  Goal
  <2>1. events' = events \/ events' = add_event("RSP_DMA")
    BY <1>3 DEF write_sp_len, sp_fifo_push
  <2>2. EventsType'
    BY <2>1, AddEvent DEF Safe, EventsType, EventTypes
  <2>3. sp' \in SpStates
    <3> DEFINE s == [sp EXCEPT !.ids = @ + 1]
    <3>1. MaxDMA \in Nat
      BY RcpAssumption, Zenon DEF RcpAssumption
    <3>2. sp.ids + 1 \in 0..MaxDMA
      BY <1>2, <1>3, <3>1 DEF write_sp_len
    <3>3. s \in SpStates /\ s.ids \in 0..MaxDMA
      BY <1>2, <3>2 DEF SpStates
    <3>4. \/ sp' = sp
          \/ sp' = [s EXCEPT !.f1 = s.ids, !.full = TRUE]
          \/ sp' = do_sp_dma([s EXCEPT !.busy = TRUE], s.ids)
      BY <1>3, Zenon DEF write_sp_len, sp_fifo_push
    <3> HIDE DEF s
    <3>5. /\ [s EXCEPT !.f1 = s.ids, !.full = TRUE] \in SpStates
          /\ [s EXCEPT !.busy = TRUE] \in SpStates
      BY <3>3 DEF SpStates
    <3> QED
      BY <1>2, <3>3, <3>4, <3>5, SpDmaType, Zenon
  <2> QED
    BY <2>2, <2>3
<1>4. ASSUME rsp_end_of_dma_event
      PROVE  Goal
  <2>1. EventsType'
    BY <1>2, <1>4, TakesEvent DEF Safe, EventTypes, rsp_end_of_dma_event
  <2>2. [sp EXCEPT !.full = FALSE] \in SpStates /\ [sp EXCEPT !.busy = FALSE] \in SpStates
    BY <1>2 DEF SpStates
  <2>3. sp' \in SpStates
    BY <1>2, <1>4, <2>2, SpDmaType, Zenon DEF rsp_end_of_dma_event
  <2> QED
    BY <2>1, <2>3
<1> QED
  BY <1>0, <1>1, <1>3, <1>4 DEF Safe, PiType, SiType, DpType

(* The tasks of the SP. *)
LEMMA SpTaskActions ==
    ASSUME Safe,
           \/ \E w \in SPWrites, run \in Runs : update_sp_status(w, run)
           \/ rsp_interrupt_event
    PROVE  Safe'
<1>0. UNCHANGED <<pi, si, ai, vi>>
  BY DEF update_sp_status, rsp_interrupt_event
<1> DEFINE Goal == EventsType' /\ MiCpu' /\ sp' \in SpStates /\ DpType'
<1>1. ASSUME NEW w \in SPWrites, NEW run \in Runs, update_sp_status(w, run)
      PROVE  Goal
  <2> DEFINE m == [mi EXCEPT !.intr = IntrWritten(w)]
             s == StatusWritten(sp, w)
  <2>1. w \in SPStatusWrites
    BY RcpAssumption, Zenon DEF RcpAssumption
  <2>2. s \in SpStates
    BY <2>1, StatusWrittenType DEF Safe
  <2>3. IntrWritten(w) \in SUBSET Irqs /\ (w.intr = "keep" => IntrWritten(w) = mi.intr)
    <3>1. mi.intr \in SUBSET Irqs
      BY DEF Safe, MiCpu, MiType
    <3>2. w.intr \in {"keep", "clear", "set"}
      BY <2>1 DEF SPStatusWrites
    <3> QED
      BY <3>1, <3>2 DEF IntrWritten, Irqs
  <2>4. /\ m \in [intr : SUBSET Irqs, mask : SUBSET Irqs]
        /\ m.intr = IntrWritten(w) /\ m.mask = mi.mask
    BY <2>3 DEF Safe, MiCpu, MiType
  <2>5. /\ cpu' = IF w.intr = "keep" THEN cpu ELSE Checked(m)
        /\ \/ do_SP_Task(s, m.intr, run)
           \/ sp' = s /\ mi' = m /\ UNCHANGED <<events, dp>>
    BY <1>1, Zenon DEF update_sp_status
  <2> HIDE DEF m, s
  <2>6. CpuType' /\ (Line(m) /\ ~cpu'.exl => cpu'.ip2)
    <3>1. CASE w.intr = "keep"
      <4>1. m.intr = mi.intr /\ m.mask = mi.mask /\ cpu' = cpu
        BY <2>3, <2>4, <2>5, <3>1
      <4> QED
        BY <4>1 DEF Safe, MiCpu, CpuType, NoLostInterrupt, Line
    <3>2. CASE w.intr # "keep"
      <4>1. cpu' = Checked(m)
        BY <2>5, <3>2
      <4>2. /\ cpu' \in [ip2 : BOOLEAN, exl : BOOLEAN, ie : BOOLEAN]
            /\ cpu'.ip2 = Line(m)
        BY <4>1, CheckedType DEF Safe, MiCpu
      <4> QED
        BY <4>2 DEF CpuType
    <3> QED
      BY <3>1, <3>2
  <2>7. ASSUME do_SP_Task(s, m.intr, run)
        PROVE  Goal
    <3>1. EventsType'
      BY <2>7 DEF do_SP_Task, Safe, EventsType, EventTypes, Irqs
    <3>2. sp' \in SpStates
      <4>1. PICK locked \in BOOLEAN : sp' = [s EXCEPT !.locked = locked, !.halt = FALSE, !.broke = FALSE]
        <5>1. (~run.breaks /\ ~s.broke) \in BOOLEAN
          OBVIOUS
        <5> QED
          BY <2>7, <5>1, Zenon DEF do_SP_Task
      <4> QED
        BY <2>2, <4>1 DEF SpStates
    <3>3. DpType'
      BY <2>7 DEF do_SP_Task, Safe, DpType
    <3>4. /\ mi' \in [intr : SUBSET Irqs, mask : SUBSET Irqs]
          /\ mi'.intr \subseteq m.intr
          /\ mi'.mask = m.mask
      <4>1. PICK i \in SUBSET m.intr : mi' = [mi EXCEPT !.intr = i]
        <5>1. ((IF run.gfx THEN m.intr \ {"DP"} ELSE m.intr) \ {"SP"}) \in SUBSET m.intr
          OBVIOUS
        <5> QED
          BY <2>7, <5>1, Zenon DEF do_SP_Task
      <4> QED
        BY <2>4, <4>1 DEF Safe, MiCpu, MiType
    <3>5. Line(mi') => Line(m)
      BY <3>4 DEF Line
    <3>6. MiCpu'
      BY <2>6, <3>4, <3>5 DEF MiCpu, MiType, NoLostInterrupt, Line
    <3> QED
      BY <3>1, <3>2, <3>3, <3>6
  <2>8. ASSUME sp' = s, mi' = m, UNCHANGED <<events, dp>>
        PROVE  Goal
    <3>1. EventsType' /\ sp' \in SpStates /\ DpType'
      BY <2>2, <2>8 DEF Safe, EventsType, DpType
    <3>2. MiCpu'
      BY <2>4, <2>6, <2>8 DEF MiCpu, MiType, NoLostInterrupt, Line
    <3> QED
      BY <3>1, <3>2
  <2> QED
    BY <2>5, <2>7, <2>8, Zenon
<1>2. ASSUME rsp_interrupt_event
      PROVE  Goal
  <2>1. EventsType'
    BY <1>2, TakesEvent DEF Safe, EventTypes, Irqs, rsp_interrupt_event
  <2>2. MiCpu'
    <3>1. CASE sp.intr_break
      BY <1>2, <3>1, RaiseMi DEF Safe, Irqs, rsp_interrupt_event
    <3>2. CASE ~sp.intr_break
      BY <1>2, <3>2 DEF Safe, MiCpu, MiType, CpuType, NoLostInterrupt, Line, rsp_interrupt_event
    <3> QED
      BY <3>1, <3>2
  <2>3. sp' \in SpStates
    BY <1>2 DEF Safe, SpStates, rsp_interrupt_event
  <2>4. DpType'
    BY <1>2 DEF Safe, DpType, rsp_interrupt_event
  <2> QED
    BY <2>1, <2>2, <2>3, <2>4
<1>3. Goal
  BY <1>1, <1>2, Zenon
<1> QED
  BY <1>0, <1>3 DEF Safe, PiType, SiType

(* The DP and the VI. *)
LEMMA DpViActions ==
    ASSUME Safe,
           \/ update_dpc_status
           \/ write_dpc_end
           \/ write_mi_init_mode
           \/ rdp_interrupt_event
           \/ \E on \in BOOLEAN : write_vi_timing(on)
           \/ write_vi_current
           \/ vi_vertical_interrupt_event
    PROVE  Safe'
<1> USE DEF Irqs, EventTypes
<1>0. UNCHANGED <<pi, si, ai, sp>>
  BY DEF update_dpc_status, write_dpc_end, write_mi_init_mode, rdp_interrupt_event,
         write_vi_timing, write_vi_current, vi_vertical_interrupt_event
<1> DEFINE Goal == EventsType' /\ MiCpu' /\ DpType' /\ vi' \in BOOLEAN
<1>1. ASSUME update_dpc_status
      PROVE  Goal
  <2>1. EventsType' /\ DpType' /\ vi' \in BOOLEAN
    BY <1>1 DEF Safe, EventsType, DpType, update_dpc_status, clear_freeze, set_freeze
  <2>2. signal_rcp_interrupt("DP") \/ UNCHANGED <<mi, cpu>>
    BY <1>1, Zenon DEF update_dpc_status, clear_freeze, set_freeze
  <2>3. MiCpu'
    BY <2>2, SignalMi DEF Safe, MiCpu, MiType, CpuType, NoLostInterrupt, Line
  <2> QED
    BY <2>1, <2>3
<1>2. ASSUME write_dpc_end
      PROVE  Goal
  BY <1>2, SignalMi DEF Safe, EventsType, DpType, write_dpc_end
<1>3. ASSUME write_mi_init_mode
      PROVE  Goal
  BY <1>3, ClearMi DEF Safe, EventsType, DpType, write_mi_init_mode
<1>4. ASSUME rdp_interrupt_event
      PROVE  Goal
  BY <1>4, TakesEvent, RaiseMi DEF Safe, DpType, rdp_interrupt_event
<1>5. ASSUME NEW on \in BOOLEAN, write_vi_timing(on)
      PROVE  Goal
  <2>1. events' = events \/ events' = add_event("VI")
    BY <1>5, Zenon DEF write_vi_timing
  <2>2. EventsType'
    BY <2>1, AddEvent DEF Safe, EventsType
  <2>3. MiCpu' /\ DpType' /\ vi' \in BOOLEAN
    BY <1>5 DEF Safe, MiCpu, MiType, CpuType, NoLostInterrupt, Line, DpType, write_vi_timing
  <2> QED
    BY <2>2, <2>3
<1>6. ASSUME write_vi_current
      PROVE  Goal
  BY <1>6, ClearMi DEF Safe, EventsType, DpType, write_vi_current
<1>7. ASSUME vi_vertical_interrupt_event
      PROVE  Goal
  <2>1. EventsType'
    BY <1>7, TakesEvent DEF Safe, vi_vertical_interrupt_event
  <2>2. MiCpu'
    BY <1>7, RaiseMi DEF Safe, vi_vertical_interrupt_event
  <2>3. DpType' /\ vi' \in BOOLEAN
    BY <1>7 DEF Safe, DpType, vi_vertical_interrupt_event
  <2> QED
    BY <2>1, <2>2, <2>3
<1>8. Goal
  BY <1>1, <1>2, <1>3, <1>4, <1>5, <1>6, <1>7, Zenon
<1> QED
  BY <1>0, <1>8 DEF Safe, PiType, SiType

(* What poweron_device leaves behind has the types. *)
LEMMA PoweronTypes ==
    /\ Idle \in [EventTypes -> Nat]
    /\ poweron_mi \in [intr : SUBSET Irqs, mask : SUBSET Irqs] /\ ~Line(poweron_mi)
    /\ poweron_r4300 \in [ip2 : BOOLEAN, exl : BOOLEAN, ie : BOOLEAN]
    /\ poweron_pi \in [dma_busy : BOOLEAN, io_busy : BOOLEAN, error : BOOLEAN, intr : BOOLEAN]
    /\ poweron_si \in [busy : BOOLEAN, io_busy : BOOLEAN, error : BOOLEAN, intr : BOOLEAN,
                       dir : {"none", "read", "write"}]
    /\ poweron_ai \in AiStates
    /\ poweron_rsp \in SpStates
    /\ poweron_rdp \in [freeze : BOOLEAN, on_unfreeze : SUBSET {"DP_INT", "UPDATESCREEN"}]
<1>1. MaxDMA \in Nat
  BY RcpAssumption, Zenon DEF RcpAssumption
<1>2. NoDMA \in DMAs
  BY <1>1 DEF NoDMA, DMAs
<1>3. [id \in 0..MaxDMA |-> 0] \in [0..MaxDMA -> Nat] /\ {} \in SUBSET DMAs
  OBVIOUS
<1>4. poweron_ai \in AiStates
  BY <1>1, <1>2, <1>3 DEF poweron_ai, AiStates
<1>5. << >> \in Seq(0..MaxDMA)
  OBVIOUS
<1>6. poweron_rsp \in SpStates
  BY <1>1, <1>5 DEF poweron_rsp, SpStates
<1>7. poweron_mi \in [intr : SUBSET Irqs, mask : SUBSET Irqs] /\ ~Line(poweron_mi)
  BY DEF poweron_mi, Line
<1>8. Idle \in [EventTypes -> Nat]
  BY DEF Idle
<1> QED
  BY <1>4, <1>6, <1>7, <1>8 DEF poweron_r4300, poweron_pi, poweron_si, poweron_rdp

(* The machine starts out safe. *)
LEMMA InitSafe == Init => Safe
  BY PoweronTypes, ZenonT(30)
  DEF Init, Safe, EventsType, MiCpu, MiType, CpuType, NoLostInterrupt, PiType, SiType, DpType

(* Both resets. *)
LEMMA ResetActions ==
    ASSUME Safe, reset_hard_handler \/ nmi_int_handler
    PROVE  Safe'
<1>1. ASSUME reset_hard_handler
      PROVE  Safe'
  <2>1. EventsType' /\ PiType' /\ SiType' /\ ai' \in AiStates /\ sp' \in SpStates /\ DpType'
    BY <1>1, PoweronTypes DEF reset_hard_handler, EventsType, PiType, SiType, DpType
  <2>2. MiCpu'
    BY <1>1, PoweronTypes DEF reset_hard_handler, MiCpu, MiType, CpuType, NoLostInterrupt
  <2>3. vi' \in BOOLEAN
    BY <1>1 DEF reset_hard_handler
  <2> QED
    BY <2>1, <2>2, <2>3 DEF Safe
<1>2. ASSUME nmi_int_handler
      PROVE  Safe'
  <2>1. EventsType'
    BY <1>2, PoweronTypes DEF nmi_int_handler, EventsType, EventTypes, Irqs
  <2>2. MiCpu'
    <3>1. /\ mi' \in [intr : SUBSET Irqs, mask : SUBSET Irqs]
          /\ cpu' = [ip2 |-> Line(mi'), exl |-> FALSE, ie |-> FALSE]
      BY <1>2 DEF nmi_int_handler, Safe, MiCpu, MiType
    <3> QED
      BY <3>1 DEF MiCpu, MiType, CpuType, NoLostInterrupt, Line
  <2>3. PiType' /\ SiType' /\ DpType' /\ vi' \in BOOLEAN
    BY <1>2, PoweronTypes, ZenonT(30) DEF nmi_int_handler, Safe, PiType, SiType, DpType
  <2>4. sp' \in SpStates
    BY <1>2 DEF nmi_int_handler, Safe, SpStates
  <2>5. ai' \in AiStates
    BY <1>2 DEF nmi_int_handler, Safe, AiStates
  <2> QED
    BY <2>1, <2>2, <2>3, <2>4, <2>5 DEF Safe
<1> QED
  BY <1>1, <1>2

(* Safe is inductive. *)
LEMMA SafeStep ==
    ASSUME Safe, [Next]_vars
    PROVE  Safe'
<1>1. CASE UNCHANGED vars
  BY <1>1 DEF vars, Safe, EventsType, MiCpu, MiType, CpuType, NoLostInterrupt, Line, PiType,
              SiType, DpType
<1>2. CASE Next
  BY <1>2, CpuActions, PiActions, SiActions, AiActions, SpDmaActions, SpTaskActions,
     DpViActions, ResetActions, Zenon
  DEF Next
<1> QED
  BY <1>1, <1>2

(* Whatever the guest stores into the registers of the RCP, and in         *)
(* whatever order events, exceptions and resets come, every register stays *)
(* in its range.                                                           *)
THEOREM RcpTypeCorrect == Spec => []TypeOK
<1>1. Safe => TypeOK
  BY DEF Safe, MiCpu, TypeOK
<1> QED
  BY <1>1, InitSafe, SafeStep, PTL DEF Spec

(* Whatever the guest does, and also across exceptions that overwrite      *)
(* Cause, tasks that take interrupts back and resets: outside the          *)
(* exception level Cause.IP2 is set whenever the MI asserts its line, so   *)
(* that no RCP interrupt is lost.                                          *)
THEOREM InterruptsNotLost == Spec => []NoLostInterrupt
<1>1. Safe => NoLostInterrupt
  BY DEF Safe, MiCpu
<1> QED
  BY <1>1, InitSafe, SafeStep, PTL DEF Spec

-----------------------------------------------------------------------------
(* Without a soft reset, a busy device has its event. *)

(* A step that touches no busy bit and takes none of the devices' events. *)
BusyAside ==
    /\ pi_busy' => pi_busy
    /\ si'.busy => si.busy
    /\ ai'.busy => ai.busy
    /\ sp'.busy => sp.busy
    /\ \A t \in {"PI", "SI", "AI", "RSP_DMA"} : events[t] > 0 => events'[t] > 0

(* Such a step forgets no transfer. *)
LEMMA BusyAsideKeeps ==
    ASSUME BusyHasEvent, BusyAside
    PROVE  BusyHasEvent'
  BY DEF BusyHasEvent, BusyAside, pi_busy

(* An event that a handler takes leaves the other devices' events alone. *)
LEMMA TakesAside ==
    ASSUME EventsType, NEW type \in EventTypes, NEW again \in BOOLEAN, Takes(type, again),
           NEW t \in {"PI", "SI", "AI", "RSP_DMA"}, type # t \/ again
    PROVE  events[t] > 0 => events'[t] > 0
<1>1. t \in EventTypes
  BY DEF EventTypes, Irqs
<1> QED
  BY <1>1, TakesEvent

(* Neither does a new event. *)
LEMMA AddAside ==
    ASSUME EventsType, NEW type \in EventTypes, events' = add_event(type),
           NEW t \in {"PI", "SI", "AI", "RSP_DMA"}
    PROVE  events[t] > 0 => events'[t] > 0
<1>1. t \in EventTypes
  BY DEF EventTypes, Irqs
<1> QED
  BY <1>1, AddEvent

(* The PI forgets no transfer. *)
LEMMA PiBusy ==
    ASSUME Safe, BusyHasEvent,
           \/ write_pi_len
           \/ write_cart_rom
           \/ \E clr_intr, reset \in BOOLEAN : write_pi_status(clr_intr, reset)
           \/ pi_end_of_dma_event
    PROVE  BusyHasEvent'
<1>0. UNCHANGED <<si, ai, sp>> /\ "PI" \in EventTypes /\ EventsType /\ PiType
  BY DEF write_pi_len, write_cart_rom, write_pi_status, pi_end_of_dma_event, EventTypes, Irqs, Safe
<1>1. ASSUME write_pi_len \/ write_cart_rom
      PROVE  BusyHasEvent'
  <2>1. CASE pi_busy
    <3>1. events' = events /\ pi' = [pi EXCEPT !.error = TRUE]
      BY <1>1, <2>1 DEF write_pi_len, write_cart_rom, dma_pi
    <3>2. pi_busy' <=> pi_busy
      BY <1>0, <3>1 DEF PiType, pi_busy
    <3> QED
      BY <1>0, <3>1, <3>2, BusyAsideKeeps DEF BusyAside
  <2>2. CASE ~pi_busy
    <3>1. events' = add_event("PI")
      BY <1>1, <2>2 DEF write_pi_len, write_cart_rom, dma_pi
    <3>2. events'["PI"] > 0
      BY <1>0, <3>1, AddEvent
    <3>3. \A t \in {"PI", "SI", "AI", "RSP_DMA"} : events[t] > 0 => events'[t] > 0
      BY <1>0, <3>1, AddAside
    <3> QED
      BY <1>0, <3>2, <3>3 DEF BusyHasEvent
  <2> QED
    BY <2>1, <2>2
<1>2. ASSUME NEW clr_intr \in BOOLEAN, NEW reset \in BOOLEAN, write_pi_status(clr_intr, reset)
      PROVE  BusyHasEvent'
  <2>1. pi_busy' => pi_busy
    BY <1>0, <1>2 DEF write_pi_status, PiType, pi_busy, poweron_pi
  <2>2. events' = events
    BY <1>2 DEF write_pi_status
  <2> QED
    BY <1>0, <2>1, <2>2, BusyAsideKeeps DEF BusyAside
<1>3. ASSUME pi_end_of_dma_event
      PROVE  BusyHasEvent'
  <2>1. ~pi_busy'
    BY <1>0, <1>3 DEF pi_end_of_dma_event, PiType, pi_busy
  <2>2. \A t \in {"SI", "AI", "RSP_DMA"} : events[t] > 0 => events'[t] > 0
    BY <1>0, <1>3, TakesAside DEF pi_end_of_dma_event
  <2> QED
    BY <1>0, <2>1, <2>2 DEF BusyHasEvent
<1> QED
  BY <1>1, <1>2, <1>3, Zenon

(* The SI forgets no transfer. *)
LEMMA SiBusy ==
    ASSUME Safe, BusyHasEvent,
           \/ \E dir \in {"read", "write"} : dma_si(dir)
           \/ write_pif_mem
           \/ write_si_status
           \/ si_end_of_dma_event
    PROVE  BusyHasEvent'
<1>0. UNCHANGED <<pi, ai, sp>> /\ "SI" \in EventTypes /\ EventsType /\ SiType
  BY DEF dma_si, write_pif_mem, write_si_status, si_end_of_dma_event, EventTypes, Irqs, Safe
<1>1. ASSUME (\E dir \in {"read", "write"} : dma_si(dir)) \/ write_pif_mem
      PROVE  BusyHasEvent'
  <2>1. \/ events' = events /\ si' = [si EXCEPT !.error = TRUE]
        \/ events' = add_event("SI")
    BY <1>1, Zenon DEF dma_si, write_pif_mem
  <2>2. CASE events' = events /\ si' = [si EXCEPT !.error = TRUE]
    <3>1. si'.busy <=> si.busy
      BY <1>0, <2>2 DEF SiType
    <3> QED
      BY <1>0, <2>2, <3>1, BusyAsideKeeps DEF BusyAside, pi_busy
  <2>3. CASE events' = add_event("SI")
    <3>2. events'["SI"] > 0
      BY <1>0, <2>3, AddEvent
    <3>3. \A t \in {"PI", "SI", "AI", "RSP_DMA"} : events[t] > 0 => events'[t] > 0
      BY <1>0, <2>3, AddAside
    <3> QED
      BY <1>0, <3>2, <3>3 DEF BusyHasEvent, pi_busy
  <2> QED
    BY <2>1, <2>2, <2>3
<1>2. ASSUME write_si_status
      PROVE  BusyHasEvent'
  <2>1. si'.busy <=> si.busy
    BY <1>0, <1>2 DEF write_si_status, SiType
  <2>2. events' = events
    BY <1>2 DEF write_si_status
  <2> QED
    BY <1>0, <2>1, <2>2, BusyAsideKeeps DEF BusyAside, pi_busy
<1>3. ASSUME si_end_of_dma_event
      PROVE  BusyHasEvent'
  <2>1. ~si'.busy
    BY <1>0, <1>3 DEF si_end_of_dma_event, SiType
  <2>2. \A t \in {"PI", "AI", "RSP_DMA"} : events[t] > 0 => events'[t] > 0
    BY <1>0, <1>3, TakesAside DEF si_end_of_dma_event
  <2> QED
    BY <1>0, <2>1, <2>2 DEF BusyHasEvent, pi_busy
<1> QED
  BY <1>1, <1>2, <1>3, Zenon

(* The AI forgets no transfer. *)
LEMMA AiBusy ==
    ASSUME Safe, BusyHasEvent,
           \/ \E length \in Lengths : write_ai_len(length)
           \/ \E value \in 0..ai.remaining : read_ai_len(value)
           \/ write_ai_status
           \/ ai_end_of_dma_event
    PROVE  BusyHasEvent'
<1>0. UNCHANGED <<pi, si, sp>> /\ "AI" \in EventTypes /\ EventsType
  BY DEF write_ai_len, read_ai_len, write_ai_status, ai_end_of_dma_event, EventTypes, Irqs, Safe
<1>00. ai \in AiStates /\ ai.full \in BOOLEAN /\ ai.busy \in BOOLEAN
  BY DEF Safe, AiStates
<1>1. ASSUME NEW length \in Lengths, write_ai_len(length)
      PROVE  BusyHasEvent'
  <2>1. CASE ai.busy
    <3>1. events' = events
      BY <1>1, <2>1 DEF write_ai_len
    <3> QED
      BY <1>0, <2>1, <3>1 DEF BusyHasEvent, pi_busy
  <2>2. CASE ~ai.busy
    <3>1. events' = add_event("AI")
      BY <1>1, <2>2 DEF write_ai_len
    <3>2. events'["AI"] > 0
      BY <1>0, <3>1, AddEvent
    <3>3. \A t \in {"PI", "SI", "AI", "RSP_DMA"} : events[t] > 0 => events'[t] > 0
      BY <1>0, <3>1, AddAside
    <3> QED
      BY <1>0, <3>2, <3>3 DEF BusyHasEvent, pi_busy
  <2> QED
    BY <2>1, <2>2
<1>2. ASSUME NEW value \in 0..ai.remaining, read_ai_len(value)
      PROVE  BusyHasEvent'
  <2>1. ai'.busy <=> ai.busy
    BY <1>00, <1>2 DEF read_ai_len, AiStates
  <2>2. events' = events
    BY <1>2 DEF read_ai_len
  <2> QED
    BY <1>0, <2>1, <2>2, BusyAsideKeeps DEF BusyAside, pi_busy
<1>3. ASSUME write_ai_status
      PROVE  BusyHasEvent'
  BY <1>0, <1>3 DEF write_ai_status, BusyHasEvent, pi_busy
<1>4. ASSUME ai_end_of_dma_event
      PROVE  BusyHasEvent'
  <2>1. Takes("AI", ai.full)
    BY <1>4 DEF ai_end_of_dma_event
  <2>2. \A t \in {"PI", "SI", "RSP_DMA"} : events[t] > 0 => events'[t] > 0
    BY <1>0, <1>00, <2>1, TakesAside
  <2>3. ai'.busy => events'["AI"] > 0
    <3>1. CASE ai.full
      BY <1>0, <1>00, <2>1, <3>1, TakesEvent
    <3>2. CASE ~ai.full
      <4> DEFINE p == Played(ai, ai.last_read)
                 a == [ai EXCEPT !.played = p, !.last_read = 0, !.ended = @ \cup {ai.f0}]
      <4>1. ai' = ai_fifo_pop(a)
        BY <1>4, Zenon DEF ai_end_of_dma_event
      <4> HIDE DEF p
      <4>2. a.full = ai.full /\ DOMAIN a = DOMAIN ai
        BY <1>00 DEF AiStates
      <4>3. "busy" \in DOMAIN a
        BY <1>00, <4>2 DEF AiStates
      <4> HIDE DEF a
      <4>4. ai' = [a EXCEPT !.busy = FALSE]
        BY <3>2, <4>1, <4>2, Zenon DEF ai_fifo_pop
      <4> QED
        BY <4>3, <4>4
    <3> QED
      BY <3>1, <3>2
  <2> QED
    BY <1>0, <2>2, <2>3 DEF BusyHasEvent, pi_busy
<1> QED
  BY <1>1, <1>2, <1>3, <1>4, Zenon

(* The SP forgets no transfer. *)
LEMMA SpBusy ==
    ASSUME Safe, BusyHasEvent,
           \/ write_sp_len
           \/ rsp_end_of_dma_event
           \/ \E w \in SPWrites, run \in Runs : update_sp_status(w, run)
           \/ rsp_interrupt_event
    PROVE  BusyHasEvent'
<1>0. UNCHANGED <<pi, si, ai>> /\ {"RSP_DMA", "SP"} \subseteq EventTypes /\ EventsType
  BY DEF write_sp_len, rsp_end_of_dma_event, update_sp_status, rsp_interrupt_event, EventTypes,
         Irqs, Safe
<1>00. sp \in SpStates /\ sp.full \in BOOLEAN /\ sp.busy \in BOOLEAN
  BY DEF Safe, SpStates
<1>1. ASSUME write_sp_len
      PROVE  BusyHasEvent'
  <2>1. CASE sp.full /\ UNCHANGED <<sp, events>>
    BY <1>0, <2>1 DEF BusyHasEvent, pi_busy
  <2>2. CASE sp.busy /\ UNCHANGED events
    BY <1>0, <2>2 DEF BusyHasEvent, pi_busy
  <2>3. CASE events' = add_event("RSP_DMA")
    <3>2. events'["RSP_DMA"] > 0
      BY <1>0, <2>3, AddEvent
    <3>3. \A t \in {"PI", "SI", "AI", "RSP_DMA"} : events[t] > 0 => events'[t] > 0
      BY <1>0, <2>3, AddAside
    <3> QED
      BY <1>0, <3>2, <3>3 DEF BusyHasEvent, pi_busy
  <2> QED
    BY <1>1, <2>1, <2>2, <2>3, Zenon DEF write_sp_len, sp_fifo_push
<1>2. ASSUME rsp_end_of_dma_event
      PROVE  BusyHasEvent'
  <2>1. Takes("RSP_DMA", sp.full)
    BY <1>2 DEF rsp_end_of_dma_event
  <2>2. \A t \in {"PI", "SI", "AI"} : events[t] > 0 => events'[t] > 0
    BY <1>0, <1>00, <2>1, TakesAside
  <2>3. sp'.busy => events'["RSP_DMA"] > 0
    <3>1. CASE sp.full
      BY <1>0, <1>00, <2>1, <3>1, TakesEvent
    <3>2. CASE ~sp.full
      BY <1>2, <1>00, <3>2 DEF rsp_end_of_dma_event, SpStates
    <3> QED
      BY <3>1, <3>2
  <2> QED
    BY <1>0, <2>2, <2>3 DEF BusyHasEvent, pi_busy
<1>3. ASSUME NEW w \in SPWrites, NEW run \in Runs, update_sp_status(w, run)
      PROVE  BusyHasEvent'
  <2> DEFINE s == StatusWritten(sp, w)
  <2>1. s.busy = sp.busy /\ "locked" \in DOMAIN s /\ "busy" \in DOMAIN s
    BY <1>00 DEF StatusWritten, SpStates
  <2>2. \/ \E m : do_SP_Task(s, m, run)
        \/ sp' = s /\ UNCHANGED <<events, dp>>
    BY <1>3, Zenon DEF update_sp_status
  <2> HIDE DEF s
  <2>3. ASSUME NEW m, do_SP_Task(s, m, run)
        PROVE  BusyHasEvent'
    <3>1. sp'.busy = s.busy
      BY <2>1, <2>3 DEF do_SP_Task
    <3>2. \A t \in {"PI", "SI", "AI", "RSP_DMA"} : events'[t] = events[t]
      BY <1>0, <2>3 DEF do_SP_Task, EventsType, EventTypes, Irqs
    <3> QED
      BY <1>0, <2>1, <3>1, <3>2 DEF BusyHasEvent, pi_busy
  <2>4. CASE sp' = s /\ UNCHANGED <<events, dp>>
    BY <1>0, <2>1, <2>4 DEF BusyHasEvent, pi_busy
  <2> QED
    BY <2>2, <2>3, <2>4, Zenon
<1>4. ASSUME rsp_interrupt_event
      PROVE  BusyHasEvent'
  <2>1. \A t \in {"PI", "SI", "AI", "RSP_DMA"} : events[t] > 0 => events'[t] > 0
    BY <1>0, <1>4, TakesAside DEF rsp_interrupt_event
  <2>2. sp'.busy = sp.busy
    BY <1>00, <1>4 DEF rsp_interrupt_event, SpStates
  <2> QED
    BY <1>0, <2>1, <2>2 DEF BusyHasEvent, pi_busy
<1> QED
  BY <1>1, <1>2, <1>3, <1>4, Zenon

(* The CPU, the DP and the VI take no event of another device. *)
LEMMA OtherBusy ==
    ASSUME Safe, BusyHasEvent,
           \/ \E mask \in {{}, Devices} : write_mi_intr_mask(mask)
           \/ Interrupt
           \/ syscall
           \/ eret
           \/ \E ie \in BOOLEAN : mtc0_status(ie)
           \/ update_dpc_status
           \/ write_dpc_end
           \/ write_mi_init_mode
           \/ rdp_interrupt_event
           \/ \E on \in BOOLEAN : write_vi_timing(on)
           \/ write_vi_current
           \/ vi_vertical_interrupt_event
    PROVE  BusyHasEvent'
<1>1. UNCHANGED <<pi, si, ai, sp>>
  BY DEF write_mi_intr_mask, Interrupt, syscall, eret, mtc0_status, update_dpc_status,
         write_dpc_end, write_mi_init_mode, rdp_interrupt_event, write_vi_timing,
         write_vi_current, vi_vertical_interrupt_event
<1>2. \/ events' = events
      \/ events' = add_event("VI")
      \/ Takes("DP", FALSE)
      \/ Takes("VI", TRUE)
  BY Zenon
  DEF write_mi_intr_mask, Interrupt, syscall, eret, mtc0_status, update_dpc_status,
      write_dpc_end, write_mi_init_mode, rdp_interrupt_event, write_vi_timing,
      write_vi_current, vi_vertical_interrupt_event
<1>3. EventsType /\ {"DP", "VI"} \subseteq EventTypes
  BY DEF Safe, EventTypes, Irqs
<1>4. \A t \in {"PI", "SI", "AI", "RSP_DMA"} : events[t] > 0 => events'[t] > 0
  BY <1>2, <1>3, AddAside, TakesAside
<1> QED
  BY <1>1, <1>4 DEF BusyHasEvent, pi_busy

(* After a hard reset no device is busy. *)
LEMMA ResetBusy ==
    ASSUME reset_hard_handler
    PROVE  BusyHasEvent'
  BY DEF reset_hard_handler, BusyHasEvent, pi_busy, poweron_pi, poweron_si, poweron_ai, poweron_rsp

(* As long as no soft reset comes, a device that says it is busy has the   *)
(* event queued that ends its transfer: for every guest, also one that     *)
(* never looks at a busy bit, and for every length of the transfers.       *)
THEOREM BusyDevicesEnd == ~WithNMI => (Spec => []BusyHasEvent)
<1> SUFFICES ASSUME ~WithNMI
             PROVE  Spec => []BusyHasEvent
  OBVIOUS
<1>1. Init => Safe /\ BusyHasEvent
  BY InitSafe
  DEF Init, BusyHasEvent, pi_busy, poweron_pi, poweron_si, poweron_ai, poweron_rsp
<1>2. Safe /\ BusyHasEvent /\ [Next]_vars => (Safe /\ BusyHasEvent)'
  <2> SUFFICES ASSUME Safe, BusyHasEvent, [Next]_vars
               PROVE  BusyHasEvent'
    BY SafeStep
  <2>1. CASE UNCHANGED vars
    BY <2>1 DEF vars, BusyHasEvent, pi_busy
  <2>2. CASE Next
    <3>1. ~nmi_int_handler
      BY DEF nmi_int_handler
    <3> QED
      BY <2>2, <3>1, PiBusy, SiBusy, AiBusy, SpBusy, OtherBusy, ResetBusy, Zenon DEF Next
  <2> QED
    BY <2>1, <2>2
<1> QED
  BY <1>1, <1>2, PTL DEF Spec

-----------------------------------------------------------------------------
(* The transfers: what the fifos of the AI and the SP do with the DMAs     *)
(* that they are given, and how many events a device has.  AudioComplete   *)
(* needs AiSound: the numbers of the DMAs of the AI grow from those that   *)
(* have ended to the current one and the waiting one, and no sample of a   *)
(* DMA is played before it is the current one.  DmaInOrder needs to know   *)
(* which DMA a full fifo of the SP holds.                                  *)

(* The steps, by the device whose events they may take or queue. *)
PiStep ==
    \/ write_pi_len
    \/ write_cart_rom
    \/ \E clr_intr, reset \in BOOLEAN : write_pi_status(clr_intr, reset)
    \/ pi_end_of_dma_event

SiStep ==
    \/ \E dir \in {"read", "write"} : dma_si(dir)
    \/ write_pif_mem
    \/ write_si_status
    \/ si_end_of_dma_event

AiStep ==
    \/ \E length \in Lengths : write_ai_len(length)
    \/ \E value \in 0..ai.remaining : read_ai_len(value)
    \/ write_ai_status
    \/ ai_end_of_dma_event

SpStep ==
    \/ write_sp_len
    \/ rsp_end_of_dma_event

TaskStep ==
    \/ \E w \in SPWrites, run \in Runs : update_sp_status(w, run)
    \/ rsp_interrupt_event

OtherStep ==
    \/ \E mask \in {{}, Devices} : write_mi_intr_mask(mask)
    \/ Interrupt
    \/ syscall
    \/ eret
    \/ \E ie \in BOOLEAN : mtc0_status(ie)
    \/ update_dpc_status
    \/ write_dpc_end
    \/ write_mi_init_mode
    \/ rdp_interrupt_event
    \/ \E on \in BOOLEAN : write_vi_timing(on)
    \/ write_vi_current
    \/ vi_vertical_interrupt_event

(* There are no other steps. *)
LEMMA Steps ==
    Next <=> \/ PiStep \/ SiStep \/ AiStep \/ SpStep \/ TaskStep \/ OtherStep
             \/ reset_hard_handler \/ nmi_int_handler
  BY Zenon DEF Next, PiStep, SiStep, AiStep, SpStep, TaskStep, OtherStep

-----------------------------------------------------------------------------
(* How many events there are. *)

(* add_interrupt_event adds one event. *)
LEMMA AddExact ==
    ASSUME EventsType, NEW t \in EventTypes, events' = add_event(t)
    PROVE  /\ events'[t] = events[t] + 1
           /\ \A u \in EventTypes \ {t} : events'[u] = events[u]
  BY DEF EventsType, add_event

(* gen_interrupt takes one, unless the handler queues the next. *)
LEMMA TakesExact ==
    ASSUME EventsType, NEW t \in EventTypes, NEW again \in BOOLEAN, Takes(t, again)
    PROVE  /\ events[t] > 0
           /\ events'[t] = IF again THEN events[t] ELSE events[t] - 1
           /\ \A u \in EventTypes \ {t} : events'[u] = events[u]
  BY DEF EventsType, Takes

(* A device leaves the events of the others alone. *)
Leaves(types) == \A t \in EventTypes \ types : events'[t] = events[t]

(* A step that adds an event, takes one or leaves all alone. *)
LEMMA LeavesOthers ==
    ASSUME EventsType, NEW t \in EventTypes, NEW again \in BOOLEAN,
           events' = events \/ events' = add_event(t) \/ Takes(t, again)
    PROVE  Leaves({t})
  BY AddExact, TakesExact DEF Leaves

LEMMA PiLeaves ==
    ASSUME Safe, PiStep
    PROVE  Leaves({"PI"}) /\ UNCHANGED <<si, ai, sp>>
<1>1. events' = events \/ events' = add_event("PI") \/ Takes("PI", FALSE)
  BY Zenon DEF PiStep, write_pi_len, write_cart_rom, dma_pi, write_pi_status, pi_end_of_dma_event
<1>2. "PI" \in EventTypes /\ EventsType
  BY DEF EventTypes, Irqs, Safe
<1>3. UNCHANGED <<si, ai, sp>>
  BY DEF PiStep, write_pi_len, write_cart_rom, write_pi_status, pi_end_of_dma_event
<1> QED
  BY <1>1, <1>2, <1>3, LeavesOthers

LEMMA SiLeaves ==
    ASSUME Safe, SiStep
    PROVE  Leaves({"SI"}) /\ UNCHANGED <<pi, ai, sp>>
<1>1. events' = events \/ events' = add_event("SI") \/ Takes("SI", FALSE)
  BY Zenon DEF SiStep, dma_si, write_pif_mem, write_si_status, si_end_of_dma_event
<1>2. "SI" \in EventTypes /\ EventsType
  BY DEF EventTypes, Irqs, Safe
<1>3. UNCHANGED <<pi, ai, sp>>
  BY DEF SiStep, dma_si, write_pif_mem, write_si_status, si_end_of_dma_event
<1> QED
  BY <1>1, <1>2, <1>3, LeavesOthers

LEMMA AiLeaves ==
    ASSUME Safe, AiStep
    PROVE  Leaves({"AI"}) /\ UNCHANGED <<pi, si, sp>>
<1>1. events' = events \/ events' = add_event("AI") \/ Takes("AI", ai.full)
  BY Zenon DEF AiStep, write_ai_len, read_ai_len, write_ai_status, ai_end_of_dma_event
<1>2. "AI" \in EventTypes /\ EventsType /\ ai.full \in BOOLEAN
  BY DEF EventTypes, Irqs, Safe, AiStates
<1>3. UNCHANGED <<pi, si, sp>>
  BY DEF AiStep, write_ai_len, read_ai_len, write_ai_status, ai_end_of_dma_event
<1> QED
  BY <1>1, <1>2, <1>3, LeavesOthers

LEMMA SpLeaves ==
    ASSUME Safe, SpStep
    PROVE  Leaves({"RSP_DMA"}) /\ UNCHANGED <<pi, si, ai>>
<1>1. events' = events \/ events' = add_event("RSP_DMA") \/ Takes("RSP_DMA", sp.full)
  BY Zenon DEF SpStep, write_sp_len, sp_fifo_push, rsp_end_of_dma_event
<1>2. "RSP_DMA" \in EventTypes /\ EventsType /\ sp.full \in BOOLEAN
  BY DEF EventTypes, Irqs, Safe, SpStates
<1>3. UNCHANGED <<pi, si, ai>>
  BY DEF SpStep, write_sp_len, rsp_end_of_dma_event
<1> QED
  BY <1>1, <1>2, <1>3, LeavesOthers

(* The fields of the SP that belong to its DMAs. *)
SameDma(s, r) ==
    /\ r.busy = s.busy /\ r.full = s.full /\ r.f1 = s.f1 /\ r.ids = s.ids
    /\ r.performed = s.performed

LEMMA TaskLeaves ==
    ASSUME Safe, TaskStep
    PROVE  /\ Leaves({"SP", "DP"})
           /\ SameDma(sp, sp')
           /\ UNCHANGED <<pi, si, ai>>
<1>0. /\ UNCHANGED <<pi, si, ai>> /\ sp \in SpStates
      /\ EventsType /\ {"SP", "DP"} \subseteq EventTypes
  BY DEF TaskStep, update_sp_status, rsp_interrupt_event, Safe, EventTypes, Irqs
<1>1. ASSUME NEW w \in SPWrites, NEW run \in Runs, update_sp_status(w, run)
      PROVE  Leaves({"SP", "DP"}) /\ SameDma(sp, sp')
  <2> DEFINE s == StatusWritten(sp, w)
  <2>1. SameDma(sp, s) /\ {"busy", "full", "f1", "ids", "performed"} \subseteq DOMAIN s
    BY <1>0 DEF StatusWritten, SpStates, SameDma
  <2>2. \/ \E m : do_SP_Task(s, m, run)
        \/ sp' = s /\ UNCHANGED <<events, dp>>
    BY <1>1, Zenon DEF update_sp_status
  <2> HIDE DEF s
  <2>3. ASSUME NEW m, do_SP_Task(s, m, run)
        PROVE  Leaves({"SP", "DP"}) /\ SameDma(sp, sp')
    <3>1. SameDma(s, sp')
      BY <2>1, <2>3 DEF do_SP_Task, SameDma
    <3>2. Leaves({"SP", "DP"})
      BY <1>0, <2>3 DEF do_SP_Task, EventsType, Leaves
    <3> QED
      BY <2>1, <3>1, <3>2 DEF SameDma
  <2>4. CASE sp' = s /\ UNCHANGED <<events, dp>>
    BY <2>1, <2>4 DEF Leaves
  <2> QED
    BY <2>2, <2>3, <2>4, Zenon
<1>2. ASSUME rsp_interrupt_event
      PROVE  Leaves({"SP", "DP"}) /\ SameDma(sp, sp')
  <2>1. SameDma(sp, sp')
    BY <1>0, <1>2 DEF rsp_interrupt_event, SpStates, SameDma
  <2>2. Leaves({"SP", "DP"})
    BY <1>0, <1>2, TakesExact DEF rsp_interrupt_event, Leaves
  <2> QED
    BY <2>1, <2>2
<1> QED
  BY <1>0, <1>1, <1>2, Zenon DEF TaskStep

LEMMA OtherLeaves ==
    ASSUME Safe, OtherStep
    PROVE  /\ Leaves({"DP", "VI"})
           /\ UNCHANGED <<pi, si, ai, sp>>
           /\ events["VI"] <= 1 => events'["VI"] <= 1
<1>1. UNCHANGED <<pi, si, ai, sp>>
  BY DEF OtherStep, write_mi_intr_mask, Interrupt, syscall, eret, mtc0_status, update_dpc_status,
         write_dpc_end, write_mi_init_mode, rdp_interrupt_event, write_vi_timing,
         write_vi_current, vi_vertical_interrupt_event
<1>2. \/ events' = events
      \/ events["VI"] = 0 /\ events' = add_event("VI")
      \/ Takes("DP", FALSE)
      \/ Takes("VI", TRUE)
  BY Zenon
  DEF OtherStep, write_mi_intr_mask, Interrupt, syscall, eret, mtc0_status, update_dpc_status,
      write_dpc_end, write_mi_init_mode, rdp_interrupt_event, write_vi_timing,
      write_vi_current, vi_vertical_interrupt_event
<1>3. EventsType /\ {"DP", "VI"} \subseteq EventTypes
  BY DEF Safe, EventTypes, Irqs
<1>4. Leaves({"DP", "VI"})
  BY <1>2, <1>3, AddExact, TakesExact DEF Leaves
<1>5. events["VI"] <= 1 => events'["VI"] <= 1
  <2>1. CASE events["VI"] = 0 /\ events' = add_event("VI")
    <3>1. events'["VI"] = events["VI"] + 1
      BY <1>3, <2>1, AddExact
    <3> QED
      BY <2>1, <3>1
  <2>2. CASE Takes("DP", FALSE)
    BY <1>3, <2>2, TakesExact
  <2>3. CASE Takes("VI", TRUE)
    BY <1>3, <2>3, TakesExact
  <2> QED
    BY <1>2, <2>1, <2>2, <2>3
<1> QED
  BY <1>1, <1>4, <1>5

-----------------------------------------------------------------------------
(* The SP: DMAs are done once each and in order. *)

SpOrdered(s) ==
    /\ s.performed = [i \in 1..(IF s.full THEN s.ids - 1 ELSE s.ids) |-> i]
    /\ s.full => s.busy /\ s.f1 = s.ids /\ s.ids > 0

(* With n DMAs done. *)
LEMMA OrderedIf ==
    ASSUME NEW s, NEW n \in Nat, s.performed = [i \in 1..n |-> i],
           s.full \in BOOLEAN, n = IF s.full THEN s.ids - 1 ELSE s.ids,
           s.full => s.busy /\ s.f1 = s.ids /\ s.ids > 0
    PROVE  SpOrdered(s)
  BY Zenon DEF SpOrdered

(* The next number continues 1, ..., n. *)
LEMMA AppendNext ==
    ASSUME NEW n \in Nat
    PROVE  Append([i \in 1..n |-> i], n + 1) = [i \in 1..(n + 1) |-> i]
<1> DEFINE s == [i \in 1..n |-> i]
           t == [i \in 1..(n + 1) |-> i]
<1>1. s \in Seq(Nat) /\ Len(s) = n
  OBVIOUS
<1>2. t \in Seq(Nat) /\ Len(t) = n + 1
  OBVIOUS
<1>3. Append(s, n + 1) \in Seq(Nat) /\ Len(Append(s, n + 1)) = n + 1
  BY <1>1
<1>4. \A i \in 1..(n + 1) : Append(s, n + 1)[i] = t[i]
  BY <1>1
<1> HIDE DEF s, t
<1>5. Append(s, n + 1) = t
  BY <1>2, <1>3, <1>4
<1> QED
  BY <1>5 DEF s, t

(* do_sp_dma does the next one. *)
LEMMA SpDmaNext ==
    ASSUME NEW s \in SpStates, NEW n \in Nat, s.performed = [i \in 1..n |-> i],
           n + 1 \in 0..MaxDMA
    PROVE  /\ do_sp_dma(s, n + 1).performed = [i \in 1..(n + 1) |-> i]
           /\ do_sp_dma(s, n + 1).full = s.full
           /\ do_sp_dma(s, n + 1).busy = s.busy
           /\ do_sp_dma(s, n + 1).ids = s.ids
<1>1. /\ do_sp_dma(s, n + 1).performed = Append(s.performed, n + 1)
      /\ do_sp_dma(s, n + 1).full = s.full
      /\ do_sp_dma(s, n + 1).busy = s.busy
      /\ do_sp_dma(s, n + 1).ids = s.ids
  BY DEF do_sp_dma, SpStates
<1> QED
  BY <1>1, AppendNext

(* A store of a length either is ignored, waits or is done at once. *)
LEMMA PushOrdered ==
    ASSUME Safe, SpOrdered(sp), write_sp_len
    PROVE  SpOrdered(sp')
<1> DEFINE s == [sp EXCEPT !.ids = @ + 1]
           n == sp.ids
<1>1. sp \in SpStates /\ n \in Nat /\ n + 1 \in 0..MaxDMA
  <2>1. sp \in SpStates /\ sp.ids \in 0..MaxDMA /\ sp.ids < MaxDMA
    BY DEF Safe, SpStates, write_sp_len
  <2>2. MaxDMA \in Nat
    BY RcpAssumption, Zenon DEF RcpAssumption
  <2> QED
    BY <2>1, <2>2
<1>2. /\ s \in SpStates /\ s.ids = n + 1 /\ s.full = sp.full /\ s.busy = sp.busy
      /\ s.performed = sp.performed
  BY <1>1 DEF SpStates
<1>3. \/ sp.full /\ sp' = sp
      \/ ~sp.full /\ sp.busy /\ sp' = [s EXCEPT !.f1 = s.ids, !.full = TRUE]
      \/ ~sp.full /\ ~sp.busy /\ sp' = do_sp_dma([s EXCEPT !.busy = TRUE], s.ids)
  BY Zenon DEF write_sp_len, sp_fifo_push
<1> HIDE DEF s, n
<1>4. ~sp.full => sp.performed = [i \in 1..n |-> i]
  BY DEF SpOrdered, n
<1>5. ASSUME ~sp.full, sp.busy, sp' = [s EXCEPT !.f1 = s.ids, !.full = TRUE]
      PROVE  SpOrdered(sp')
  <2>1. /\ sp'.full /\ sp'.busy /\ sp'.f1 = n + 1 /\ sp'.ids = n + 1
        /\ sp'.performed = [i \in 1..n |-> i]
    BY <1>2, <1>4, <1>5 DEF SpStates
  <2>2. sp'.ids - 1 = n /\ sp'.ids > 0 /\ sp'.full = TRUE
    BY <1>1, <1>2, <1>5, <2>1 DEF SpStates
  <2> QED
    BY <1>1, <2>1, <2>2, OrderedIf
<1>6. ASSUME ~sp.full, ~sp.busy, sp' = do_sp_dma([s EXCEPT !.busy = TRUE], s.ids)
      PROVE  SpOrdered(sp')
  <2> DEFINE r == [s EXCEPT !.busy = TRUE]
  <2>1. r \in SpStates /\ r.performed = [i \in 1..n |-> i] /\ ~r.full /\ r.ids = n + 1
    BY <1>2, <1>4, <1>6 DEF SpStates
  <2>2. sp' = do_sp_dma(r, n + 1)
    BY <1>2, <1>6
  <2> HIDE DEF r
  <2> QED
    <3>1. /\ sp'.performed = [i \in 1..(n + 1) |-> i]
          /\ sp'.full = FALSE /\ sp'.ids = n + 1
      BY <1>1, <2>1, <2>2, SpDmaNext DEF SpStates
    <3>2. n + 1 \in Nat /\ n + 1 = IF sp'.full THEN sp'.ids - 1 ELSE sp'.ids
      BY <1>1, <3>1
    <3>3. sp'.full \in BOOLEAN /\ ~sp'.full
      BY <3>1
    <3> QED
      BY <3>1, <3>2, <3>3, OrderedIf, Zenon
<1> QED
  BY <1>3, <1>5, <1>6

(* The end of a DMA does the waiting one. *)
LEMMA PopOrdered ==
    ASSUME Safe, SpOrdered(sp), rsp_end_of_dma_event
    PROVE  SpOrdered(sp')
<1>1. sp \in SpStates /\ sp.ids \in 0..MaxDMA /\ sp.f1 \in 0..MaxDMA /\ sp.full \in BOOLEAN
  BY DEF Safe, SpStates
<1>2. MaxDMA \in Nat
  BY RcpAssumption, Zenon DEF RcpAssumption
<1>3. CASE ~sp.full
  <2>1. /\ sp'.performed = sp.performed /\ sp'.full = sp.full /\ sp'.ids = sp.ids
    BY <1>1, <1>3 DEF rsp_end_of_dma_event, SpStates
  <2> QED
    BY <1>3, <2>1 DEF SpOrdered
<1>4. CASE sp.full
  <2> DEFINE r == [sp EXCEPT !.full = FALSE]
             n == sp.ids - 1
  <2>1. sp' = do_sp_dma(r, sp.f1)
    BY <1>4 DEF rsp_end_of_dma_event
  <2>2. /\ r \in SpStates /\ ~r.full /\ r.ids = sp.ids /\ r.performed = sp.performed
    BY <1>1 DEF SpStates
  <2>3. /\ sp.f1 = n + 1 /\ n \in Nat /\ n + 1 = sp.ids
        /\ sp.performed = [i \in 1..n |-> i]
    BY <1>1, <1>2, <1>4 DEF SpOrdered
  <2> HIDE DEF r, n
  <2> QED
    <3>1. /\ sp'.performed = [i \in 1..(n + 1) |-> i]
          /\ sp'.full = FALSE /\ sp'.ids = n + 1
      BY <1>1, <2>1, <2>2, <2>3, SpDmaNext DEF SpStates
    <3>2. n + 1 \in Nat /\ n + 1 = IF sp'.full THEN sp'.ids - 1 ELSE sp'.ids
      BY <1>1, <2>3, <3>1
    <3>3. sp'.full \in BOOLEAN /\ ~sp'.full
      BY <3>1
    <3> QED
      BY <3>1, <3>2, <3>3, OrderedIf, Zenon
<1> QED
  BY <1>1, <1>3, <1>4

(* The SP at power on. *)
LEMMA PoweronOrdered == SpOrdered(poweron_rsp)
<1>1. poweron_rsp.full = FALSE /\ poweron_rsp.ids = 0 /\ poweron_rsp.performed = << >>
  BY DEF poweron_rsp
<1>2. << >> = [i \in 1..0 |-> i]
  OBVIOUS
<1> QED
  BY <1>1, <1>2, Zenon DEF SpOrdered

(* The resets, and the steps of the tasks. *)
LEMMA SpOrderedReset ==
    ASSUME Safe, SpOrdered(sp),
           SameDma(sp, sp') \/ reset_hard_handler \/ nmi_int_handler
    PROVE  SpOrdered(sp')
<1>1. CASE SameDma(sp, sp')
  BY <1>1 DEF SameDma, SpOrdered
<1>2. CASE nmi_int_handler
  <2>1. SameDma(sp, sp')
    BY <1>2 DEF Safe, SpStates, SameDma, nmi_int_handler
  <2> QED
    BY <2>1 DEF SameDma, SpOrdered
<1>3. CASE reset_hard_handler
  BY <1>3, PoweronOrdered DEF reset_hard_handler
<1> QED
  BY <1>1, <1>2, <1>3

LEMMA SpOrderedStep ==
    ASSUME Safe, SpOrdered(sp), [Next]_vars
    PROVE  SpOrdered(sp')
<1>1. CASE UNCHANGED sp
  BY <1>1
<1>2. CASE SpStep
  BY <1>2, PushOrdered, PopOrdered DEF SpStep
<1>3. CASE TaskStep
  BY <1>3, TaskLeaves, SpOrderedReset
<1> QED
  BY <1>1, <1>2, <1>3, Steps, PiLeaves, SiLeaves, AiLeaves, OtherLeaves, SpOrderedReset DEF vars

(* The fifo of rsp_core.c: whatever the guest stores into SP_RD_LEN_REG,   *)
(* SP_WR_LEN_REG and SP_STATUS_REG, and also across an NMI that drops the  *)
(* event of a DMA, the DMAs that the fifo accepts are done once each and   *)
(* in their order.                                                         *)
THEOREM SpDmasInOrder == Spec => []DmaInOrder
<1>1. Init => Safe /\ SpOrdered(sp)
  BY InitSafe, PoweronOrdered DEF Init
<1>2. Safe /\ SpOrdered(sp) /\ [Next]_vars => (Safe /\ SpOrdered(sp))'
  BY SafeStep, SpOrderedStep
<1>3. SpOrdered(sp) => DmaInOrder
  BY DEF SpOrdered, DmaInOrder
<1> QED
  BY <1>1, <1>2, <1>3, PTL DEF Spec

-----------------------------------------------------------------------------
(* The AI: every sample is played once. *)

(* What has been played of the DMAs that have ended and of those to come. *)
AiPast(a) ==
    /\ \A d \in a.ended : a.played[d.id] = d.length /\ d.id <= a.f0.id
    /\ \A i \in 0..MaxDMA : i > a.f0.id => a.played[i] = 0

(* What has been played of the current one. *)
AiCurrent(a) ==
    /\ \A d \in a.ended : d.id = a.f0.id => ~a.busy /\ a.last_read = 0
    /\ a.busy => a.played[a.f0.id] + a.last_read = a.f0.length

(* The numbers of the DMAs in the fifo. *)
AiNumbered(a) ==
    /\ a.f0.id <= a.ids
    /\ a.full => a.busy /\ a.f0.id < a.f1.id /\ a.f1.id <= a.ids

(* The AI is busy exactly when its event is queued. *)
AiOneEvent == events["AI"] = (IF ai.busy THEN 1 ELSE 0)

AiSound == AiPast(ai) /\ AiCurrent(ai) /\ AiNumbered(ai) /\ AiOneEvent

(* The types of the fields. *)
LEMMA AiFields ==
    ASSUME NEW a \in AiStates
    PROVE  /\ a.busy \in BOOLEAN /\ a.full \in BOOLEAN
           /\ a.f0 \in DMAs /\ a.f0.id \in Nat /\ a.f0.id \in 0..MaxDMA /\ a.f0.length \in Nat
           /\ a.f1 \in DMAs /\ a.f1.id \in Nat /\ a.f1.id \in 0..MaxDMA /\ a.f1.length \in Nat
           /\ a.last_read \in Nat /\ a.ids \in Nat /\ a.ids \in 0..MaxDMA
           /\ a.played \in [0..MaxDMA -> Nat]
           /\ \A d \in a.ended : d.id \in 0..MaxDMA /\ d.id \in Nat /\ d.length \in Nat
<1>1. Lengths \subseteq Nat /\ MaxDMA \in Nat
  BY RcpAssumption DEF RcpAssumption
<1>2. ASSUME NEW d \in DMAs
      PROVE  d.id \in 0..MaxDMA /\ d.id \in Nat /\ d.length \in Nat
  <2>1. d.id \in 0..MaxDMA /\ d.length \in Lengths \cup {0}
    BY DEF DMAs
  <2>2. d.length \in Nat
    <3>1. \A n \in Lengths \cup {0} : n \in Nat
      BY <1>1
    <3> QED
      BY <2>1, <3>1, Zenon
  <2>3. d.id \in Nat
    BY <1>1, <2>1
  <2> QED
    BY <2>1, <2>2, <2>3
<1>3. a.f0 \in DMAs /\ a.f1 \in DMAs /\ a.ended \subseteq DMAs
  BY DEF AiStates
<1> QED
  BY <1>1, <1>2, <1>3 DEF AiStates

(* do_dma starts a DMA of which nothing has been played. *)
LEMMA DoDmaSound ==
    ASSUME NEW a \in AiStates, NEW dma \in DMAs, AiPast(a), a.f0.id < dma.id
    PROVE  /\ AiPast(do_dma(a, dma))
           /\ AiCurrent(do_dma(a, dma))
           /\ do_dma(a, dma).f0 = dma
           /\ do_dma(a, dma).busy = a.busy
           /\ do_dma(a, dma).full = a.full
           /\ do_dma(a, dma).ids = a.ids
<1> DEFINE r == do_dma(a, dma)
<1>1. r \in AiStates
  BY DoDmaType
<1>2. /\ r.f0 = dma /\ r.last_read = dma.length /\ r.busy = a.busy /\ r.full = a.full
      /\ r.ids = a.ids /\ r.played = a.played /\ r.ended = a.ended
  BY DEF do_dma, AiStates
<1> HIDE DEF r
<1>3. dma.id \in 0..MaxDMA /\ dma.id \in Nat /\ dma.length \in Nat
  BY <1>1, <1>2, AiFields
<1>4. ASSUME NEW d \in r.ended
      PROVE  r.played[d.id] = d.length /\ d.id <= r.f0.id /\ d.id # r.f0.id
  <2>1. d \in a.ended
    BY <1>2
  <2>2. a.played[d.id] = d.length /\ d.id <= a.f0.id
    BY <2>1 DEF AiPast
  <2>3. d.id \in Nat /\ a.f0.id \in Nat
    BY <2>1, AiFields
  <2> QED
    BY <1>2, <1>3, <2>2, <2>3
<1>5. r.played[r.f0.id] + r.last_read = r.f0.length
  <2>1. a.played[dma.id] = 0
    BY <1>3 DEF AiPast
  <2> QED
    BY <1>2, <1>3, <2>1
<1>6. ASSUME NEW i \in 0..MaxDMA, i > r.f0.id
      PROVE  r.played[i] = 0
  <2>1. i > a.f0.id
    BY <1>2, <1>3, <1>6, AiFields
  <2> QED
    BY <1>2, <2>1 DEF AiPast
<1>7. AiPast(r) /\ AiCurrent(r)
  BY <1>4, <1>5, <1>6 DEF AiPast, AiCurrent
<1> QED
  BY <1>2, <1>7 DEF r

(* A store to AI_LEN_REG starts a DMA or lets it wait. *)
LEMMA WriteLenSound ==
    ASSUME Safe, AiSound, NEW length \in Lengths, write_ai_len(length)
    PROVE  AiSound'
<1> DEFINE dma == [id |-> ai.ids + 1, length |-> length]
           a == [ai EXCEPT !.ids = @ + 1]
<1>1. ai \in AiStates /\ ai.ids \in Nat /\ ai.ids + 1 \in 0..MaxDMA
  <2>1. ai \in AiStates /\ ai.ids \in 0..MaxDMA /\ ai.ids < MaxDMA
    BY DEF Safe, AiStates, write_ai_len
  <2>2. MaxDMA \in Nat
    BY RcpAssumption, Zenon DEF RcpAssumption
  <2> QED
    BY <2>1, <2>2
<1>2. dma \in DMAs /\ dma.id = ai.ids + 1
  BY <1>1 DEF DMAs
<1>3. a \in AiStates
  BY <1>1 DEF AiStates
<1>4. /\ a.f0 = ai.f0 /\ a.f1 = ai.f1 /\ a.busy = ai.busy /\ a.full = ai.full
      /\ a.ids = ai.ids + 1 /\ a.played = ai.played /\ a.ended = ai.ended
      /\ a.last_read = ai.last_read
  BY <1>1 DEF AiStates
<1>5. \/ ai.busy /\ ai' = [a EXCEPT !.f1 = dma, !.full = TRUE] /\ UNCHANGED events
      \/ ~ai.busy /\ ai' = do_dma([a EXCEPT !.busy = TRUE], dma) /\ events' = add_event("AI")
  BY Zenon DEF write_ai_len
<1> HIDE DEF dma, a
<1>6. ai.f0.id \in Nat /\ ai.f0.id <= ai.ids /\ (ai.full => ai.busy)
  BY <1>1, AiFields DEF AiSound, AiNumbered
<1>7. ASSUME ai.busy, ai' = [a EXCEPT !.f1 = dma, !.full = TRUE], UNCHANGED events
      PROVE  AiSound'
  <2>1. /\ ai'.f0 = ai.f0 /\ ai'.f1 = dma /\ ai'.busy = ai.busy /\ ai'.full
        /\ ai'.ids = ai.ids + 1 /\ ai'.played = ai.played /\ ai'.ended = ai.ended
        /\ ai'.last_read = ai.last_read
    BY <1>3, <1>4, <1>7 DEF AiStates
  <2>2. AiPast(ai') /\ AiCurrent(ai')
    BY <2>1 DEF AiSound, AiPast, AiCurrent
  <2>3. AiNumbered(ai')
    <3>1. ai'.f0.id = ai.f0.id /\ ai'.f1.id = ai.ids + 1 /\ ai'.ids = ai.ids + 1 /\ ai'.busy
      BY <1>2, <1>7, <2>1
    <3>2. ai.f0.id < ai.ids + 1
      BY <1>1, <1>6
    <3> QED
      BY <1>1, <1>6, <3>1, <3>2 DEF AiNumbered
  <2>4. AiOneEvent'
    BY <1>7, <2>1 DEF AiSound, AiOneEvent
  <2> QED
    BY <2>2, <2>3, <2>4 DEF AiSound
<1>8. ASSUME ~ai.busy, ai' = do_dma([a EXCEPT !.busy = TRUE], dma), events' = add_event("AI")
      PROVE  AiSound'
  <2> DEFINE b == [a EXCEPT !.busy = TRUE]
  <2>1. /\ b \in AiStates /\ b.f0 = ai.f0 /\ b.busy = TRUE /\ b.full = ai.full
        /\ b.ids = ai.ids + 1 /\ b.played = ai.played /\ b.ended = ai.ended
    BY <1>1, <1>3, <1>4 DEF AiStates
  <2>2. ai' = do_dma(b, dma) /\ ~ai.full
    BY <1>6, <1>8
  <2> HIDE DEF b
  <2>3. AiPast(b) /\ b.f0.id < dma.id
    <3>1. AiPast(b)
      BY <2>1 DEF AiSound, AiPast
    <3>2. b.f0.id = ai.f0.id
      BY <2>1
    <3> QED
      BY <1>1, <1>2, <1>6, <3>1, <3>2
  <2>4. /\ AiPast(ai') /\ AiCurrent(ai') /\ ai'.f0 = dma /\ ai'.busy = TRUE
        /\ ai'.full = ai.full /\ ai'.ids = ai.ids + 1
    BY <1>2, <2>1, <2>2, <2>3, DoDmaSound
  <2>5. AiNumbered(ai')
    BY <1>1, <1>2, <2>2, <2>4 DEF AiNumbered
  <2>6. AiOneEvent'
    <3>1. "AI" \in EventTypes /\ EventsType /\ events["AI"] = 0
      BY <1>8 DEF Safe, EventTypes, Irqs, AiSound, AiOneEvent
    <3> QED
      BY <1>8, <2>4, <3>1, AddExact DEF AiOneEvent
  <2> QED
    BY <2>4, <2>5, <2>6 DEF AiSound
<1> QED
  BY <1>5, <1>7, <1>8

(* A load from AI_LEN_REG plays what is no longer to be played. *)
LEMMA ReadLenSound ==
    ASSUME Safe, AiSound, NEW value \in 0..ai.remaining, read_ai_len(value)
    PROVE  AiSound'
<1> DEFINE a == [ai EXCEPT !.remaining = value]
<1>1. ai \in AiStates /\ value \in Nat
  BY DEF Safe, AiStates
<1>2. /\ a \in AiStates /\ a.f0 = ai.f0 /\ a.f1 = ai.f1 /\ a.busy = ai.busy
      /\ a.full = ai.full /\ a.ids = ai.ids /\ a.played = ai.played /\ a.ended = ai.ended
      /\ a.last_read = ai.last_read
  BY <1>1 DEF AiStates
<1>3. events' = events
  BY DEF read_ai_len
<1>4. ai' = IF value < ai.last_read
            THEN [a EXCEPT !.played = Played(ai, ai.last_read - value), !.last_read = value]
            ELSE a
  BY Zenon DEF read_ai_len
<1> HIDE DEF a
<1>5. CASE ~(value < ai.last_read)
  <2>1. /\ ai'.f0 = ai.f0 /\ ai'.f1 = ai.f1 /\ ai'.busy = ai.busy
        /\ ai'.full = ai.full /\ ai'.ids = ai.ids /\ ai'.played = ai.played
        /\ ai'.ended = ai.ended /\ ai'.last_read = ai.last_read
    BY <1>2, <1>4, <1>5
  <2> QED
    BY <1>3, <2>1 DEF AiSound, AiPast, AiCurrent, AiNumbered, AiOneEvent
<1>6. CASE value < ai.last_read
  <2> DEFINE n == ai.last_read - value
             p == Played(ai, n)
  <2>1. n \in Nat /\ n + value = ai.last_read /\ ai.last_read # 0
    BY <1>1, <1>6, AiFields
  <2>2. ai' = [a EXCEPT !.played = p, !.last_read = value]
    BY <1>4, <1>6
  <2> HIDE DEF n
  <2>3. /\ p[ai.f0.id] = ai.played[ai.f0.id] + n
        /\ \A i \in 0..MaxDMA : i # ai.f0.id => p[i] = ai.played[i]
    BY <1>1, <2>1, AiFields DEF Played
  <2> HIDE DEF p
  <2>4. /\ ai'.f0 = ai.f0 /\ ai'.f1 = ai.f1 /\ ai'.busy = ai.busy
        /\ ai'.full = ai.full /\ ai'.ids = ai.ids /\ ai'.played = p
        /\ ai'.ended = ai.ended /\ ai'.last_read = value
    BY <1>2, <2>2 DEF AiStates
  <2>5. ASSUME NEW d \in ai'.ended
        PROVE  ai'.played[d.id] = d.length /\ d.id <= ai'.f0.id /\ d.id # ai'.f0.id
    <3>1. d \in ai.ended /\ d.id \in 0..MaxDMA
      BY <1>1, <2>4, AiFields
    <3>2. d.id # ai.f0.id /\ ai.played[d.id] = d.length /\ d.id <= ai.f0.id
      BY <2>1, <3>1 DEF AiSound, AiPast, AiCurrent
    <3> QED
      BY <2>3, <2>4, <3>1, <3>2
  <2>6. ai'.busy => ai'.played[ai'.f0.id] + ai'.last_read = ai'.f0.length
    <3>1. ai.busy => ai.played[ai.f0.id] + ai.last_read = ai.f0.length
      BY DEF AiSound, AiCurrent
    <3>2. ai.played[ai.f0.id] \in Nat
      BY <1>1, AiFields
    <3> QED
      BY <1>1, <2>1, <2>3, <2>4, <3>1, <3>2
  <2>7. ASSUME NEW i \in 0..MaxDMA, i > ai'.f0.id
        PROVE  ai'.played[i] = 0
    <3>1. i > ai.f0.id /\ i # ai.f0.id
      BY <1>1, <2>4, <2>7, AiFields
    <3> QED
      BY <2>3, <2>4, <3>1 DEF AiSound, AiPast
  <2>8. AiPast(ai') /\ AiCurrent(ai')
    BY <2>5, <2>6, <2>7 DEF AiPast, AiCurrent
  <2>9. AiNumbered(ai') /\ AiOneEvent'
    BY <1>3, <2>4 DEF AiSound, AiNumbered, AiOneEvent
  <2> QED
    BY <2>8, <2>9 DEF AiSound
<1> QED
  BY <1>5, <1>6

(* The end of a DMA plays the rest of it and starts the waiting one. *)
LEMMA AiEndSound ==
    ASSUME Safe, AiSound, ai_end_of_dma_event
    PROVE  AiSound'
<1> DEFINE p == Played(ai, ai.last_read)
           a == [ai EXCEPT !.played = p, !.last_read = 0, !.ended = @ \cup {ai.f0}]
<1>1. /\ ai \in AiStates /\ ai.full \in BOOLEAN /\ ai.busy \in BOOLEAN /\ ai.last_read \in Nat
      /\ ai.f0 \in DMAs /\ ai.f0.id \in 0..MaxDMA /\ ai.f0.id \in Nat
      /\ ai.played \in [0..MaxDMA -> Nat]
  BY AiFields DEF Safe
<1>2. Takes("AI", ai.full) /\ ai' = ai_fifo_pop(a)
  BY Zenon DEF ai_end_of_dma_event
<1>3. "AI" \in EventTypes /\ EventsType
  BY DEF Safe, EventTypes, Irqs
<1>4. /\ events["AI"] > 0
      /\ events'["AI"] = IF ai.full THEN events["AI"] ELSE events["AI"] - 1
  BY <1>1, <1>2, <1>3, TakesExact
<1>5. ai.busy /\ events["AI"] = 1
  BY <1>4 DEF AiSound, AiOneEvent
<1>6. p[ai.f0.id] = ai.f0.length /\ \A i \in 0..MaxDMA : i # ai.f0.id => p[i] = ai.played[i]
  BY <1>1, <1>5 DEF Played, AiSound, AiCurrent
<1>7. p \in [0..MaxDMA -> Nat]
  BY <1>1, PlayedType
<1> HIDE DEF p
<1>8. /\ a.f0 = ai.f0 /\ a.f1 = ai.f1 /\ a.busy = ai.busy /\ a.full = ai.full
      /\ a.ids = ai.ids /\ a.played = p /\ a.ended = ai.ended \cup {ai.f0} /\ a.last_read = 0
  BY <1>1 DEF AiStates
<1>9. a \in AiStates
  BY <1>1, <1>7 DEF AiStates
<1> HIDE DEF a
<1>10. AiPast(a)
  <2>1. ASSUME NEW d \in a.ended
        PROVE  a.played[d.id] = d.length /\ d.id <= a.f0.id
    <3>1. CASE d = ai.f0
      BY <1>1, <1>6, <1>8, <3>1
    <3>2. CASE d \in ai.ended
      <4>1. d.id # ai.f0.id /\ ai.played[d.id] = d.length /\ d.id <= ai.f0.id
        BY <1>5, <3>2 DEF AiSound, AiPast, AiCurrent
      <4>2. d.id \in 0..MaxDMA
        BY <1>1, <3>2, AiFields
      <4> QED
        BY <1>6, <1>8, <4>1, <4>2
    <3> QED
      BY <1>8, <3>1, <3>2
  <2>2. ASSUME NEW i \in 0..MaxDMA, i > a.f0.id
        PROVE  a.played[i] = 0
    <3>1. i > ai.f0.id /\ i # ai.f0.id
      BY <1>1, <1>8, <2>2
    <3> QED
      BY <1>6, <1>8, <3>1 DEF AiSound, AiPast
  <2> QED
    BY <2>1, <2>2 DEF AiPast
<1>11. CASE ai.full
  <2> DEFINE b == [a EXCEPT !.full = FALSE]
  <2>1. /\ b \in AiStates /\ b.f0 = ai.f0 /\ b.busy = ai.busy /\ b.full = FALSE
        /\ b.ids = ai.ids /\ b.played = a.played /\ b.ended = a.ended
    BY <1>8, <1>9 DEF AiStates
  <2>2. ai' = do_dma(b, ai.f1)
    BY <1>2, <1>8, <1>11 DEF ai_fifo_pop
  <2> HIDE DEF b
  <2>3. AiPast(b)
    BY <1>8, <1>10, <2>1 DEF AiPast
  <2>4. ai.f1 \in DMAs /\ ai.f0.id < ai.f1.id /\ ai.f1.id <= ai.ids
    BY <1>1, <1>11, AiFields DEF AiSound, AiNumbered
  <2>5. b.f0.id < ai.f1.id
    BY <2>1, <2>4
  <2>6. /\ AiPast(ai') /\ AiCurrent(ai') /\ ai'.f0 = ai.f1 /\ ai'.busy = ai.busy
        /\ ai'.full = FALSE /\ ai'.ids = ai.ids
    BY <2>1, <2>2, <2>3, <2>4, <2>5, DoDmaSound
  <2>7. AiNumbered(ai')
    BY <2>4, <2>6 DEF AiNumbered
  <2>8. AiOneEvent'
    BY <1>4, <1>5, <1>11, <2>6 DEF AiOneEvent
  <2> QED
    BY <2>6, <2>7, <2>8 DEF AiSound
<1>12. CASE ~ai.full
  <2>1. ai' = [a EXCEPT !.busy = FALSE]
    BY <1>2, <1>8, <1>12 DEF ai_fifo_pop
  <2>2. /\ ai'.f0 = a.f0 /\ ai'.busy = FALSE /\ ai'.full = FALSE /\ ai'.ids = ai.ids
        /\ ai'.played = a.played /\ ai'.ended = a.ended /\ ai'.last_read = 0
    BY <1>1, <1>8, <1>9, <1>12, <2>1 DEF AiStates
  <2>3. AiPast(ai') /\ AiCurrent(ai')
    BY <1>10, <2>2 DEF AiPast, AiCurrent
  <2>4. AiNumbered(ai')
    BY <1>8, <2>2 DEF AiSound, AiNumbered
  <2>5. AiOneEvent'
    BY <1>4, <1>5, <1>12, <2>2 DEF AiOneEvent
  <2> QED
    BY <2>3, <2>4, <2>5 DEF AiSound
<1> QED
  BY <1>11, <1>12

(* The AI at power on. *)
LEMMA AiPoweronSound ==
    /\ AiPast(poweron_ai) /\ AiCurrent(poweron_ai) /\ AiNumbered(poweron_ai)
    /\ poweron_ai.busy = FALSE
<1>1. /\ poweron_ai.ended = {} /\ poweron_ai.busy = FALSE /\ poweron_ai.full = FALSE
      /\ poweron_ai.f0.id = 0 /\ poweron_ai.ids = 0
      /\ poweron_ai.played = [id \in 0..MaxDMA |-> 0]
  BY DEF poweron_ai, NoDMA
<1> QED
  BY <1>1 DEF AiPast, AiCurrent, AiNumbered

LEMMA AiInitSound == Init => AiSound
<1> SUFFICES ASSUME Init PROVE AiSound
  OBVIOUS
<1>1. ai = poweron_ai /\ events["AI"] = 0
  BY DEF Init, Idle, EventTypes, Irqs
<1> QED
  BY <1>1, AiPoweronSound DEF AiSound, AiOneEvent

(* The resets.  The NMI leaves the current DMA as it is, to be played by a *)
(* load of AI_LEN_REG or never.                                            *)
LEMMA AiResetSound ==
    ASSUME Safe, AiSound, reset_hard_handler \/ nmi_int_handler
    PROVE  AiSound'
<1>1. CASE reset_hard_handler
  <2>1. ai' = poweron_ai /\ events'["AI"] = 0
    BY <1>1 DEF reset_hard_handler, Idle, EventTypes, Irqs
  <2> QED
    BY <2>1, AiPoweronSound DEF AiSound, AiOneEvent
<1>2. CASE nmi_int_handler
  <2>1. ai \in AiStates
    BY DEF Safe
  <2>2. events'["AI"] = 0
    BY <1>2 DEF nmi_int_handler, Idle, EventTypes, Irqs
  <2>3. /\ ai'.f0 = ai.f0 /\ ai'.busy = FALSE /\ ai'.full = FALSE /\ ai'.ids = ai.ids
        /\ ai'.played = ai.played /\ ai'.ended = ai.ended /\ ai'.last_read = ai.last_read
    BY <1>2, <2>1 DEF nmi_int_handler, AiStates
  <2>4. AiPast(ai') /\ AiCurrent(ai') /\ AiNumbered(ai')
    BY <2>3 DEF AiSound, AiPast, AiCurrent, AiNumbered
  <2> QED
    BY <2>2, <2>3, <2>4 DEF AiSound, AiOneEvent
<1> QED
  BY <1>1, <1>2

LEMMA AiSoundStep ==
    ASSUME Safe, AiSound, [Next]_vars
    PROVE  AiSound'
<1>1. CASE UNCHANGED ai /\ events'["AI"] = events["AI"]
  BY <1>1 DEF AiSound, AiOneEvent
<1>2. CASE AiStep
  <2>1. CASE write_ai_status
    BY <1>1, <2>1 DEF write_ai_status
  <2> QED
    BY <1>2, <2>1, WriteLenSound, ReadLenSound, AiEndSound, Zenon DEF AiStep
<1>3. "AI" \in EventTypes
  BY DEF EventTypes, Irqs
<1>4. CASE PiStep \/ SiStep \/ SpStep \/ TaskStep \/ OtherStep
  BY <1>1, <1>3, <1>4, PiLeaves, SiLeaves, SpLeaves, TaskLeaves, OtherLeaves DEF Leaves
<1> QED
  BY <1>1, <1>2, <1>4, Steps, AiResetSound DEF vars

(* Whatever lengths the guest stores into AI_LEN_REG, whenever it loads it *)
(* and however resets come in between: when ai_end_of_dma_event has ended  *)
(* a DMA, each of its samples has been handed to the audio backend exactly *)
(* once, and of the current DMA exactly those that last_read says.         *)
THEOREM AudioPlayedOnce == Spec => []AudioComplete
<1>1. Init => Safe /\ AiSound
  BY InitSafe, AiInitSound
<1>2. Safe /\ AiSound /\ [Next]_vars => (Safe /\ AiSound)'
  BY SafeStep, AiSoundStep
<1>3. AiSound => AudioComplete
  BY DEF AiSound, AiPast, AiCurrent, AudioComplete
<1> QED
  BY <1>1, <1>2, <1>3, PTL DEF Spec

-----------------------------------------------------------------------------
(* A guest that looks before it starts something, and no soft reset: one   *)
(* event per transfer.                                                     *)

PiOneEvent == events["PI"] = (IF pi_busy THEN 1 ELSE 0)
SiOneEvent == events["SI"] = (IF si.busy THEN 1 ELSE 0)
SpOneEvent == events["RSP_DMA"] = (IF sp.busy THEN 1 ELSE 0)
ViOneEvent == events["VI"] <= 1

(* The PI, for any guest that does not reset it under a transfer. *)
LEMMA PiOneEventStep ==
    ASSUME Safe, Polite, PiOneEvent, PiStep
    PROVE  PiOneEvent'
<1>0. "PI" \in EventTypes /\ EventsType /\ PiType /\ FALSE \in BOOLEAN
  BY DEF EventTypes, Irqs, Safe
<1>1. ASSUME write_pi_len \/ write_cart_rom
      PROVE  PiOneEvent'
  <2>1. CASE pi_busy
    <3>1. events' = events /\ pi' = [pi EXCEPT !.error = TRUE]
      BY <1>1, <2>1 DEF write_pi_len, write_cart_rom, dma_pi
    <3>2. pi_busy' <=> pi_busy
      BY <1>0, <3>1 DEF PiType, pi_busy
    <3> QED
      BY <3>1, <3>2 DEF PiOneEvent
  <2>2. CASE ~pi_busy
    <3>1. /\ events' = add_event("PI")
          /\ pi' = [pi EXCEPT !.dma_busy = TRUE] \/ pi' = [pi EXCEPT !.io_busy = TRUE]
      BY <1>1, <2>2, Zenon DEF write_pi_len, write_cart_rom, dma_pi
    <3>2. pi_busy'
      BY <1>0, <3>1 DEF PiType, pi_busy
    <3>3. events["PI"] = 0 /\ events'["PI"] = events["PI"] + 1
      BY <1>0, <2>2, <3>1, AddExact DEF PiOneEvent
    <3> QED
      BY <3>2, <3>3 DEF PiOneEvent
  <2> QED
    BY <2>1, <2>2
<1>2. ASSUME NEW clr_intr \in BOOLEAN, NEW reset \in BOOLEAN, write_pi_status(clr_intr, reset)
      PROVE  PiOneEvent'
  <2>1. events' = events
    BY <1>2 DEF write_pi_status
  <2>2. CASE reset
    <3>1. ~pi_busy /\ pi' = poweron_pi
      BY <1>2, <2>2 DEF write_pi_status
    <3>2. ~pi_busy'
      BY <3>1 DEF pi_busy, poweron_pi
    <3> QED
      BY <2>1, <3>1, <3>2 DEF PiOneEvent
  <2>3. CASE ~reset
    <3>1. pi' = [pi EXCEPT !.intr = @ /\ ~clr_intr]
      BY <1>2, <2>3 DEF write_pi_status
    <3>2. pi_busy' <=> pi_busy
      BY <1>0, <3>1 DEF PiType, pi_busy
    <3> QED
      BY <2>1, <3>2 DEF PiOneEvent
  <2> QED
    BY <2>2, <2>3
<1>3. ASSUME pi_end_of_dma_event
      PROVE  PiOneEvent'
  <2>1. ~pi_busy'
    BY <1>0, <1>3 DEF pi_end_of_dma_event, PiType, pi_busy
  <2>2. Takes("PI", FALSE)
    BY <1>3 DEF pi_end_of_dma_event
  <2>3. events["PI"] > 0 /\ events'["PI"] = events["PI"] - 1
    BY <1>0, <2>2, TakesExact
  <2> QED
    BY <2>1, <2>3 DEF PiOneEvent
<1> QED
  BY <1>1, <1>2, <1>3, Zenon DEF PiStep

(* The SI, for a guest that does not store into the PIF's memory under a   *)
(* transfer.                                                               *)
LEMMA SiOneEventStep ==
    ASSUME Safe, Polite, SiOneEvent, SiStep
    PROVE  SiOneEvent'
<1>0. "SI" \in EventTypes /\ EventsType /\ SiType /\ si.busy \in BOOLEAN /\ FALSE \in BOOLEAN
  BY DEF EventTypes, Irqs, Safe, SiType
<1>1. \/ si.busy /\ si' = [si EXCEPT !.error = TRUE] /\ UNCHANGED events
      \/ si' = [si EXCEPT !.intr = FALSE] /\ UNCHANGED events
      \/ /\ ~si.busy /\ events' = add_event("SI")
         /\ \/ \E dir \in {"read", "write"} : si' = [si EXCEPT !.dir = dir, !.busy = TRUE]
            \/ si' = [si EXCEPT !.dir = "write", !.busy = TRUE, !.io_busy = TRUE]
      \/ /\ Takes("SI", FALSE)
         /\ si' = [si EXCEPT !.dir = "none", !.busy = FALSE, !.io_busy = FALSE, !.intr = TRUE]
  BY Zenon DEF SiStep, dma_si, write_pif_mem, write_si_status, si_end_of_dma_event
<1>2. CASE /\ si' = [si EXCEPT !.error = TRUE] \/ si' = [si EXCEPT !.intr = FALSE]
           /\ UNCHANGED events
  <2>1. si'.busy = si.busy
    BY <1>0, <1>2 DEF SiType
  <2> QED
    BY <1>2, <2>1 DEF SiOneEvent
<1>3. CASE /\ ~si.busy /\ events' = add_event("SI")
           /\ \/ \E dir \in {"read", "write"} : si' = [si EXCEPT !.dir = dir, !.busy = TRUE]
              \/ si' = [si EXCEPT !.dir = "write", !.busy = TRUE, !.io_busy = TRUE]
  <2>1. si'.busy = TRUE
    BY <1>0, <1>3 DEF SiType
  <2>2. events["SI"] = 0 /\ events'["SI"] = events["SI"] + 1
    BY <1>0, <1>3, AddExact DEF SiOneEvent
  <2> QED
    BY <2>1, <2>2 DEF SiOneEvent
<1>4. CASE /\ Takes("SI", FALSE)
           /\ si' = [si EXCEPT !.dir = "none", !.busy = FALSE, !.io_busy = FALSE, !.intr = TRUE]
  <2>1. si'.busy = FALSE
    BY <1>0, <1>4 DEF SiType
  <2>2. events["SI"] > 0 /\ events'["SI"] = events["SI"] - 1
    BY <1>0, <1>4, TakesExact
  <2> QED
    BY <2>1, <2>2 DEF SiOneEvent
<1> QED
  BY <1>1, <1>2, <1>3, <1>4

(* The SP: its fifo keeps the one event for the waiting DMA. *)
LEMMA SpOneEventStep ==
    ASSUME Safe, SpOrdered(sp), SpOneEvent, SpStep
    PROVE  SpOneEvent'
<1>0. /\ "RSP_DMA" \in EventTypes /\ EventsType /\ sp \in SpStates
      /\ sp.full \in BOOLEAN /\ sp.busy \in BOOLEAN
  BY DEF EventTypes, Irqs, Safe, SpStates
<1>1. sp.full => sp.busy
  BY DEF SpOrdered
<1> DEFINE s == [sp EXCEPT !.ids = @ + 1]
<1>2. \/ sp' = sp /\ UNCHANGED events
      \/ sp.busy /\ sp' = [s EXCEPT !.f1 = s.ids, !.full = TRUE] /\ UNCHANGED events
      \/ ~sp.busy /\ sp' = do_sp_dma([s EXCEPT !.busy = TRUE], s.ids) /\ events' = add_event("RSP_DMA")
      \/ /\ Takes("RSP_DMA", sp.full)
         /\ sp' = IF sp.full THEN do_sp_dma([sp EXCEPT !.full = FALSE], sp.f1)
                             ELSE [sp EXCEPT !.busy = FALSE]
  BY Zenon DEF SpStep, write_sp_len, sp_fifo_push, rsp_end_of_dma_event
<1>3. s.busy = sp.busy /\ "busy" \in DOMAIN s /\ DOMAIN s = DOMAIN sp
  BY <1>0 DEF SpStates
<1> HIDE DEF s
<1>4. CASE sp.busy /\ sp' = [s EXCEPT !.f1 = s.ids, !.full = TRUE] /\ UNCHANGED events
  <2>1. sp'.busy = sp.busy
    BY <1>3, <1>4
  <2> QED
    BY <1>4, <2>1 DEF SpOneEvent
<1>5. CASE ~sp.busy /\ sp' = do_sp_dma([s EXCEPT !.busy = TRUE], s.ids) /\ events' = add_event("RSP_DMA")
  <2>1. sp'.busy = TRUE
    BY <1>3, <1>5 DEF do_sp_dma
  <2>2. events["RSP_DMA"] = 0 /\ events'["RSP_DMA"] = events["RSP_DMA"] + 1
    BY <1>0, <1>5, AddExact DEF SpOneEvent
  <2> QED
    BY <2>1, <2>2 DEF SpOneEvent
<1>6. CASE /\ Takes("RSP_DMA", sp.full)
           /\ sp' = IF sp.full THEN do_sp_dma([sp EXCEPT !.full = FALSE], sp.f1)
                               ELSE [sp EXCEPT !.busy = FALSE]
  <2>1. /\ events["RSP_DMA"] > 0
        /\ events'["RSP_DMA"] = IF sp.full THEN events["RSP_DMA"] ELSE events["RSP_DMA"] - 1
    BY <1>0, <1>6, TakesExact
  <2>2. sp'.busy = IF sp.full THEN sp.busy ELSE FALSE
    BY <1>0, <1>6 DEF SpStates, do_sp_dma
  <2> QED
    BY <1>0, <1>1, <2>1, <2>2 DEF SpOneEvent
<1>7. CASE sp' = sp /\ UNCHANGED events
  BY <1>7 DEF SpOneEvent
<1> QED
  BY <1>2, <1>4, <1>5, <1>6, <1>7

(* The four devices and the VI. *)
OneEach == PiOneEvent /\ SiOneEvent /\ SpOneEvent /\ ViOneEvent

LEMMA OneEachStep ==
    ASSUME Polite, ~WithNMI, Safe, SpOrdered(sp), OneEach, [Next]_vars
    PROVE  OneEach'
<1>0. {"PI", "SI", "AI", "RSP_DMA", "VI", "SP", "DP"} = EventTypes
  BY DEF EventTypes, Irqs
<1> USE DEF OneEach
<1>1. CASE PiStep
  <2>1. PiOneEvent'
    BY <1>1, PiOneEventStep
  <2> QED
    BY <1>0, <1>1, <2>1, PiLeaves DEF Leaves, SiOneEvent, SpOneEvent, ViOneEvent
<1>2. CASE SiStep
  <2>1. SiOneEvent'
    BY <1>2, SiOneEventStep
  <2> QED
    BY <1>0, <1>2, <2>1, SiLeaves DEF Leaves, PiOneEvent, SpOneEvent, ViOneEvent, pi_busy
<1>3. CASE AiStep
  BY <1>0, <1>3, AiLeaves DEF Leaves, PiOneEvent, SiOneEvent, SpOneEvent, ViOneEvent, pi_busy
<1>4. CASE SpStep
  <2>1. SpOneEvent'
    BY <1>4, SpOneEventStep
  <2> QED
    BY <1>0, <1>4, <2>1, SpLeaves DEF Leaves, PiOneEvent, SiOneEvent, ViOneEvent, pi_busy
<1>5. CASE TaskStep
  BY <1>0, <1>5, TaskLeaves
  DEF Leaves, SameDma, PiOneEvent, SiOneEvent, SpOneEvent, ViOneEvent, pi_busy
<1>6. CASE OtherStep
  BY <1>0, <1>6, OtherLeaves DEF Leaves, PiOneEvent, SiOneEvent, SpOneEvent, ViOneEvent, pi_busy
<1>7. CASE reset_hard_handler
  BY <1>0, <1>7
  DEF reset_hard_handler, Idle, PiOneEvent, SiOneEvent, SpOneEvent, ViOneEvent, pi_busy,
      poweron_pi, poweron_si, poweron_rsp
<1>8. CASE UNCHANGED vars
  BY <1>8 DEF vars, PiOneEvent, SiOneEvent, SpOneEvent, ViOneEvent, pi_busy
<1>9. ~nmi_int_handler
  BY DEF nmi_int_handler
<1> QED
  BY <1>1, <1>2, <1>3, <1>4, <1>5, <1>6, <1>7, <1>8, <1>9, Steps

(* A guest that waits for the busy and full bits before it starts a        *)
(* transfer, resets the PI or stores into the PIF's memory, on a machine   *)
(* that is not soft-reset, never has two events of a device queued: no     *)
(* handler ends a transfer before its time.                                *)
THEOREM OneEventEach == Polite /\ ~WithNMI => (Spec => []OneEventPerTransfer)
<1> SUFFICES ASSUME Polite, ~WithNMI
             PROVE  Spec => []OneEventPerTransfer
  OBVIOUS
<1> DEFINE Inv == Safe /\ SpOrdered(sp) /\ AiSound /\ OneEach
<1>1. Init => Inv
  <2> SUFFICES ASSUME Init PROVE Inv
    OBVIOUS
  <2>1. SpOrdered(sp)
    BY PoweronOrdered DEF Init
  <2>2. AiSound
    BY AiInitSound
  <2>3. OneEach
    BY DEF Init, Idle, EventTypes, Irqs, OneEach, PiOneEvent, SiOneEvent, SpOneEvent, ViOneEvent,
           pi_busy, poweron_pi, poweron_si, poweron_rsp
  <2> QED
    BY <2>1, <2>2, <2>3, InitSafe
<1>2. Inv /\ [Next]_vars => Inv'
  BY SafeStep, SpOrderedStep, AiSoundStep, OneEachStep
<1>3. Inv => OneEventPerTransfer
  BY DEF AiSound, AiOneEvent, OneEach, PiOneEvent, SiOneEvent, SpOneEvent, ViOneEvent,
         OneEventPerTransfer
<1> QED
  BY <1>1, <1>2, <1>3, PTL DEF Spec
=============================================================================
