------------------------------- MODULE DDProofs -------------------------------
(***************************************************************************)
(* Theorems about DDController, for every number of sectors, every set of  *)
(* tracks and every guest, one that follows the protocol or any other.     *)
(*                                                                         *)
(* The first invariant, IInv, is about the registers; the second, Order,   *)
(* relates them to the transfer of a guest that follows the protocol.  A   *)
(* lemma per operator says which fields it leaves alone, by relations that *)
(* compose; the lemmas about actions use only those.                       *)
(***************************************************************************)
EXTENDS DDController, TLAPS

(* A guest that follows the protocol has a command or a transfer in        *)
(* progress, not both.  A command in progress has one event.               *)
OneAtATime ==
    polite =>
        /\ Running \/ "BM_INT" \in dd.status =>
               dd.status \cap {"BUSY_STATE", "MECHA_INT"} = {}
        /\ dd.q["MC"] <= 1
        /\ dd.q["MC"] > 0 => "BUSY_STATE" \in dd.status

(* A write seek of a protected track leaves WR_PR_ERR set until the next   *)
(* seek, and a guest that follows the protocol does not start the BM on    *)
(* track 0, to which Rezero moves the head without this test.              *)
Guarded ==
    /\ dd.track = "protected" /\ dd.write => "WR_PR_ERR" \in dd.status
    /\ polite /\ Running => dd.track # "zero"

IInv == TypeOK /\ NoStall /\ LineSound /\ MotorTimed /\ OneAtATime /\ Guarded

-----------------------------------------------------------------------------
(* The operators on controllers. *)

(* The fields that interrupts and events leave alone. *)
Same(d, r) ==
    /\ r \in Controllers
    /\ r.bm = d.bm /\ r.sector = d.sector /\ r.track = d.track /\ r.write = d.write
    /\ r.held = d.held /\ r.standby = d.standby /\ r.sleep = d.sleep /\ r.buf = d.buf

(* The fields of a controller have their types. *)
LEMMA Fields ==
    ASSUME NEW d \in Controllers
    PROVE  /\ d.status \in SUBSET StatusBits /\ d.bm \in SUBSET BMBits /\ d.sector \in Places
           /\ d.track \in TrackKinds /\ d.write \in BOOLEAN /\ d.held \in BOOLEAN
           /\ d.standby \in BOOLEAN /\ d.sleep \in BOOLEAN /\ d.buf \in Places \cup {Nothing}
           /\ d.q \in [Events -> Nat] /\ d.ip3 \in BOOLEAN
           /\ d.q["MC"] \in Nat /\ d.q["BM"] \in Nat /\ d.q["DV"] \in Nat
BY DEF Controllers, Events

LEMMA SetFacts ==
    ASSUME NEW d \in Controllers, NEW bits \in SUBSET StatusBits
    PROVE  /\ Same(d, Set(d, bits)) /\ Set(d, bits).status = d.status \cup bits
           /\ Set(d, bits).q = d.q /\ Set(d, bits).ip3 = d.ip3
BY DEF Controllers, Same, Set

LEMMA ClearFacts ==
    ASSUME NEW d \in Controllers, NEW bits
    PROVE  /\ Same(d, Clear(d, bits)) /\ Clear(d, bits).status = d.status \ bits
           /\ Clear(d, bits).q = d.q /\ Clear(d, bits).ip3 = d.ip3
BY DEF Controllers, Same, Clear

LEMMA AddFacts ==
    ASSUME NEW d \in Controllers, NEW e \in Events
    PROVE  /\ Same(d, add_event(d, e)) /\ add_event(d, e).status = d.status
           /\ add_event(d, e).ip3 = d.ip3
           /\ add_event(d, e).q = [d.q EXCEPT ![e] = d.q[e] + 1]
<1>1. [d.q EXCEPT ![e] = d.q[e] + 1] \in [Events -> Nat]
    BY Fields
<1>. QED  BY <1>1 DEF Controllers, Same, add_event

LEMMA RemoveFacts ==
    ASSUME NEW d \in Controllers, NEW e \in Events
    PROVE  /\ Same(d, remove_event(d, e)) /\ remove_event(d, e).status = d.status
           /\ remove_event(d, e).ip3 = d.ip3
           /\ remove_event(d, e).q = [d.q EXCEPT ![e] = IF d.q[e] > 0 THEN d.q[e] - 1 ELSE 0]
<1>1. [d.q EXCEPT ![e] = IF d.q[e] > 0 THEN d.q[e] - 1 ELSE 0] \in [Events -> Nat]
    BY Fields
<1>. QED  BY <1>1 DEF Controllers, Same, remove_event

LEMMA SignalFacts ==
    ASSUME NEW d \in Controllers, NEW bit \in StatusBits
    PROVE  LET r == signal_dd_interrupt(d, bit)
           IN  Same(d, r) /\ r.status = d.status \cup {bit} /\ r.q = d.q /\ r.ip3 = TRUE
<1>. DEFINE s == Set(d, {bit})
<1>1. s \in Controllers /\ Same(d, s) /\ s.status = d.status \cup {bit} /\ s.q = d.q
    BY SetFacts DEF Same
<1>2. signal_dd_interrupt(d, bit) = [s EXCEPT !.ip3 = TRUE]
    BY DEF signal_dd_interrupt
<1>. HIDE DEF s
<1>. QED  BY <1>1, <1>2 DEF Controllers, Same

LEMMA ClearLineFacts ==
    ASSUME NEW d \in Controllers, NEW bit \in StatusBits
    PROVE  LET r == clear_dd_interrupt(d, bit)
           IN  Same(d, r) /\ r.status = d.status \ {bit} /\ r.q = d.q /\ r.ip3 = FALSE
<1>. DEFINE s == Clear(d, {bit})
<1>1. s \in Controllers /\ Same(d, s) /\ s.status = d.status \ {bit} /\ s.q = d.q
    BY ClearFacts DEF Same
<1>2. clear_dd_interrupt(d, bit) = [s EXCEPT !.ip3 = FALSE]
    BY DEF clear_dd_interrupt
<1>. HIDE DEF s
<1>. QED  BY <1>1, <1>2 DEF Controllers, Same

(* dd_dv_active, dd_dv_standby and dd_dv_sleep change only the bits of the *)
(* motor, and leave one timer running at most.                             *)
Motor(d, r) ==
    /\ Same(d, r) /\ r.ip3 = d.ip3
    /\ r.status \ {"MTR_N_SPIN", "HEAD_RTRCT"} = d.status \ {"MTR_N_SPIN", "HEAD_RTRCT"}
    /\ r.q["MC"] = d.q["MC"] /\ r.q["BM"] = d.q["BM"]
    /\ d.q["DV"] <= 1 => r.q["DV"] <= 1
    /\ "MTR_N_SPIN" \in r.status => "HEAD_RTRCT" \in r.status /\ (d.q["DV"] <= 1 => r.q["DV"] = 0)

LEMMA ActiveMotor ==
    ASSUME NEW d \in Controllers
    PROVE  Motor(d, dd_dv_active(d))
<1>. DEFINE b == Clear(d, {"MTR_N_SPIN", "HEAD_RTRCT"})
            c == remove_event(b, "DV")
            a == add_event(c, "DV")
<1>1. /\ Same(d, b) /\ b.ip3 = d.ip3 /\ b.q = d.q
      /\ b.status = d.status \ {"MTR_N_SPIN", "HEAD_RTRCT"}
    BY ClearFacts
<1>2. /\ Same(b, c) /\ c.ip3 = b.ip3 /\ c.status = b.status
      /\ c.q = [b.q EXCEPT !["DV"] = IF b.q["DV"] > 0 THEN b.q["DV"] - 1 ELSE 0]
    BY <1>1, RemoveFacts DEF Same, Events
<1>3. /\ Same(c, a) /\ a.ip3 = c.ip3 /\ a.status = c.status
      /\ a.q = [c.q EXCEPT !["DV"] = c.q["DV"] + 1]
    BY <1>2, AddFacts DEF Same, Events
<1>4. dd_dv_active(d) = IF d.standby THEN a ELSE c
    BY DEF dd_dv_active
<1>. HIDE DEF b, c, a
<1>. QED  BY <1>1, <1>2, <1>3, <1>4, Fields DEF Motor, Same, Events

LEMMA StandbyMotor ==
    ASSUME NEW d \in Controllers
    PROVE  Motor(d, dd_dv_standby(d))
<1>. DEFINE l == Clear(d, {"MTR_N_SPIN"})
            b == Set(l, {"HEAD_RTRCT"})
            c == remove_event(b, "DV")
            a == add_event(c, "DV")
<1>0. Same(d, l) /\ l.ip3 = d.ip3 /\ l.q = d.q /\ l.status = d.status \ {"MTR_N_SPIN"}
    BY ClearFacts
<1>1. Same(l, b) /\ b.ip3 = l.ip3 /\ b.q = l.q /\ b.status = l.status \cup {"HEAD_RTRCT"}
    BY <1>0, SetFacts DEF Same, StatusBits
<1>2. /\ Same(b, c) /\ c.ip3 = b.ip3 /\ c.status = b.status
      /\ c.q = [b.q EXCEPT !["DV"] = IF b.q["DV"] > 0 THEN b.q["DV"] - 1 ELSE 0]
    BY <1>1, RemoveFacts DEF Same, Events
<1>3. /\ Same(c, a) /\ a.ip3 = c.ip3 /\ a.status = c.status
      /\ a.q = [c.q EXCEPT !["DV"] = c.q["DV"] + 1]
    BY <1>2, AddFacts DEF Same, Events
<1>4. dd_dv_standby(d) = IF d.sleep THEN a ELSE c
    BY DEF dd_dv_standby
<1>. HIDE DEF l, b, c, a
<1>. QED  BY <1>0, <1>1, <1>2, <1>3, <1>4, Fields DEF Motor, Same, Events

LEMMA SleepMotor ==
    ASSUME NEW d \in Controllers
    PROVE  Motor(d, dd_dv_sleep(d))
<1>. DEFINE b == Set(d, {"MTR_N_SPIN", "HEAD_RTRCT"})
            c == remove_event(b, "DV")
<1>1. /\ Same(d, b) /\ b.ip3 = d.ip3 /\ b.q = d.q
      /\ b.status = d.status \cup {"MTR_N_SPIN", "HEAD_RTRCT"}
    BY SetFacts DEF StatusBits
<1>2. /\ Same(b, c) /\ c.ip3 = b.ip3 /\ c.status = b.status
      /\ c.q = [b.q EXCEPT !["DV"] = IF b.q["DV"] > 0 THEN b.q["DV"] - 1 ELSE 0]
    BY <1>1, RemoveFacts DEF Same, Events
<1>3. dd_dv_sleep(d) = c
    BY DEF dd_dv_sleep
<1>. HIDE DEF b, c
<1>. QED  BY <1>1, <1>2, <1>3, Fields DEF Motor, Same, Events

-----------------------------------------------------------------------------
(* The steps of the BM. *)

(* A step moves on, or not, and sets bits of the BM; it runs afterwards    *)
(* only if it ran before.                                                  *)
Step(d, r) ==
    /\ r \in Controllers
    /\ r.track = d.track /\ r.write = d.write /\ r.held = d.held
    /\ r.standby = d.standby /\ r.sleep = d.sleep /\ r.q = d.q /\ r.ip3 = d.ip3
    /\ r.status \ {"DATA_RQ", "C2_XFER", "BM_ERR"} = d.status \ {"DATA_RQ", "C2_XFER", "BM_ERR"}
    /\ "RUNNING" \in r.bm => "RUNNING" \in d.bm

LEMMA StepTransitive ==
    ASSUME NEW d, NEW c, NEW r, Step(d, c), Step(c, r)
    PROVE  Step(d, r)
BY DEF Step

LEMMA SetStep ==
    ASSUME NEW d \in Controllers, NEW bits \in SUBSET {"DATA_RQ", "C2_XFER", "BM_ERR"}
    PROVE  Step(d, Set(d, bits))
<1>. DEFINE r == Set(d, bits)
<1>1. Same(d, r) /\ r.status = d.status \cup bits /\ r.q = d.q /\ r.ip3 = d.ip3
    BY SetFacts DEF StatusBits
<1>2. \A b : b \in bits => b \in {"DATA_RQ", "C2_XFER", "BM_ERR"}
    OBVIOUS
<1>3. (d.status \cup bits) \ {"DATA_RQ", "C2_XFER", "BM_ERR"}
          = d.status \ {"DATA_RQ", "C2_XFER", "BM_ERR"}
    BY <1>2, Zenon
<1>4. r.status \ {"DATA_RQ", "C2_XFER", "BM_ERR"} = d.status \ {"DATA_RQ", "C2_XFER", "BM_ERR"}
    BY <1>1, <1>3, Zenon
<1>. QED  BY <1>1, <1>4, Zenon DEF Step, Same

LEMMA ClearStep ==
    ASSUME NEW d \in Controllers, NEW bits \in SUBSET {"DATA_RQ", "C2_XFER", "BM_ERR"}
    PROVE  Step(d, Clear(d, bits))
<1>. DEFINE r == Clear(d, bits)
<1>1. Same(d, r) /\ r.status = d.status \ bits /\ r.q = d.q /\ r.ip3 = d.ip3
    BY ClearFacts DEF StatusBits
<1>2. \A b : b \in bits => b \in {"DATA_RQ", "C2_XFER", "BM_ERR"}
    OBVIOUS
<1>3. (d.status \ bits) \ {"DATA_RQ", "C2_XFER", "BM_ERR"}
          = d.status \ {"DATA_RQ", "C2_XFER", "BM_ERR"}
    BY <1>2, Zenon
<1>4. r.status \ {"DATA_RQ", "C2_XFER", "BM_ERR"} = d.status \ {"DATA_RQ", "C2_XFER", "BM_ERR"}
    BY <1>1, <1>3, Zenon
<1>. QED  BY <1>1, <1>4, Zenon DEF Step, Same

LEMMA SimpleSteps ==
    ASSUME NEW d \in Controllers
    PROVE  /\ Step(d, d)
           /\ Step(d, Micro(d)) /\ Step(d, Stop(d))
           /\ Step(d, read_sector(d)) /\ Step(d, write_sector(d))
           /\ read_sector(d).sector = d.sector /\ write_sector(d).sector = d.sector
<1>1. d.sector \in Places
    BY Fields
<1>. QED  BY <1>1 DEF Step, Micro, Stop, read_sector, write_sector, SeekFails, Controllers, BMBits

LEMMA NextStep ==
    ASSUME NEW d \in Controllers, Sector(d) < S + 4
    PROVE  Step(d, NextSector(d))
<1>1. d.sector \in Places
    BY Fields
<1>2. <<Block(d), Sector(d) + 1>> \in Places
    BY <1>1, DDAssumption DEF Places, Block, Sector, S
<1>. QED  BY <1>2 DEF Step, NextSector, Controllers

LEMMA ContinueStep ==
    ASSUME NEW d \in Controllers, NEW first \in {0, 1}
    PROVE  Step(d, Continue(d, first))
<1>1. d.sector \in Places
    BY Fields
<1>2. <<OtherBlock(Block(d)), first>> \in Places
    BY <1>1, DDAssumption DEF Places, Block, OtherBlock, S
<1>. QED  BY <1>2 DEF Step, Continue, Controllers

(* Each step of a transfer is a step in this sense. *)
LEMMA WriteStepFacts ==
    ASSUME NEW d \in Controllers
    PROVE  Step(d, WriteStep(d))
<1>. DEFINE w == write_sector(d)
<1>0. d.sector \in Places /\ Sector(d) \in 0 .. (S + 4) /\ S \in Nat \ {0}
    BY Fields, DDAssumption DEF Places, Sector, S
<1>1. Step(d, w) /\ w \in Controllers /\ Sector(w) = Sector(d)
    BY SimpleSteps DEF Step, Sector
<1>. HIDE DEF w
<1>2. CASE "WR_PR_ERR" \in d.status
    <2>. DEFINE e == Set(d, {"BM_ERR"})
    <2>1. Step(d, e) /\ e \in Controllers
        BY SetStep DEF Step
    <2>2. Step(e, Micro(e)) /\ Micro(e) \in Controllers
        BY <2>1, SimpleSteps DEF Step
    <2>3. Step(Micro(e), Stop(Micro(e)))
        BY <2>2, SimpleSteps
    <2>4. WriteStep(d) = Stop(Micro(e))
        BY <1>2 DEF WriteStep
    <2>. HIDE DEF e
    <2>. QED  BY <2>1, <2>2, <2>3, <2>4, StepTransitive
<1>3. ASSUME NEW x \in Controllers, Step(d, x), Sector(x) < S + 4
      PROVE  Step(d, Set(NextSector(x), {"DATA_RQ"})) /\ Step(d, Stop(NextSector(x)))
    <2>1. Step(x, NextSector(x)) /\ NextSector(x) \in Controllers
        BY <1>3, NextStep DEF Step
    <2>2. Step(NextSector(x), Set(NextSector(x), {"DATA_RQ"})) /\ Step(NextSector(x), Stop(NextSector(x)))
        BY <2>1, SetStep, SimpleSteps
    <2>. QED  BY <1>3, <2>1, <2>2, StepTransitive
<1>4. Step(d, Set(Continue(w, 1), {"DATA_RQ"}))
    <2>1. Step(w, Continue(w, 1)) /\ Continue(w, 1) \in Controllers
        BY <1>1, ContinueStep DEF Step
    <2>2. Step(Continue(w, 1), Set(Continue(w, 1), {"DATA_RQ"}))
        BY <2>1, SetStep
    <2>. QED  BY <1>1, <2>1, <2>2, StepTransitive
<1>5. CASE "WR_PR_ERR" \notin d.status
    <2>1. CASE Sector(d) = 0
        <3>1. WriteStep(d) = Set(NextSector(d), {"DATA_RQ"})
            BY <1>0, <1>5, <2>1 DEF WriteStep
        <3>. QED  BY <1>0, <1>3, <2>1, <3>1, SimpleSteps
    <2>2. CASE Sector(d) \in 1 .. (S - 1)
        <3>1. WriteStep(d) = Set(NextSector(w), {"DATA_RQ"})
            BY <1>0, <1>5, <2>2 DEF WriteStep, w
        <3>. QED  BY <1>0, <1>1, <1>3, <2>2, <3>1
    <2>3. CASE Sector(d) = S
        <3>1. WriteStep(d) = IF "BLOCK" \in d.bm THEN Set(Continue(w, 1), {"DATA_RQ"})
                             ELSE Stop(NextSector(w))
            BY <1>0, <1>5, <2>3 DEF WriteStep, w
        <3>. QED  BY <1>0, <1>1, <1>3, <1>4, <2>3, <3>1
    <2>4. CASE Sector(d) > S
        <3>1. WriteStep(d) = d
            BY <1>0, <1>5, <2>4 DEF WriteStep
        <3>. QED  BY <3>1, SimpleSteps
    <2>. QED  BY <1>0, <2>1, <2>2, <2>3, <2>4
<1>. QED  BY <1>2, <1>5

LEMMA ReadStepFacts ==
    ASSUME NEW d \in Controllers
    PROVE  Step(d, ReadStep(d))
<1>. DEFINE c == Set(d, {"C2_XFER"})
            w == read_sector(d)
<1>0. d.sector \in Places /\ Sector(d) \in 0 .. (S + 4) /\ S \in Nat \ {0}
    BY Fields, DDAssumption DEF Places, Sector, S
<1>1. Step(d, w) /\ w \in Controllers /\ Sector(w) = Sector(d)
    BY SimpleSteps DEF Step, Sector
<1>2. Step(d, c) /\ c \in Controllers
    BY SetStep DEF Step
<1>. HIDE DEF c, w
<1>3. CASE d.track = "six" /\ Block(d) = 0
    <2>1. ReadStep(d) = Micro(d)
        BY <1>3 DEF ReadStep
    <2>. QED  BY <2>1, SimpleSteps
<1>4. CASE ~(d.track = "six" /\ Block(d) = 0)
    <2>1. CASE Sector(d) < S
        <3>1. ReadStep(d) = Set(NextSector(w), {"DATA_RQ"})
            BY <1>0, <1>4, <2>1 DEF ReadStep, w
        <3>2. Step(w, NextSector(w)) /\ NextSector(w) \in Controllers
            BY <1>0, <1>1, <2>1, NextStep DEF Step
        <3>3. Step(NextSector(w), Set(NextSector(w), {"DATA_RQ"}))
            BY <3>2, SetStep
        <3>. QED  BY <1>1, <3>1, <3>2, <3>3, StepTransitive
    <2>2. CASE Sector(d) \in S .. (S + 2)
        <3>1. ReadStep(d) = NextSector(d)
            BY <1>0, <1>4, <2>2 DEF ReadStep
        <3>. QED  BY <1>0, <2>2, <3>1, NextStep
    <2>3. CASE Sector(d) = S + 3
        <3>1. ReadStep(d) = IF "BLOCK" \in d.bm THEN Continue(c, 0) ELSE Stop(c)
            BY <1>0, <1>4, <2>3 DEF ReadStep, c
        <3>2. Step(c, Continue(c, 0)) /\ Step(c, Stop(c))
            BY <1>2, ContinueStep, SimpleSteps
        <3>. QED  BY <1>2, <3>1, <3>2, StepTransitive
    <2>4. CASE Sector(d) > S + 3
        <3>1. ReadStep(d) = d
            BY <1>0, <1>4, <2>4 DEF ReadStep
        <3>. QED  BY <3>1, SimpleSteps
    <2>. QED  BY <1>0, <2>1, <2>2, <2>3, <2>4
<1>. QED  BY <1>3, <1>4

-----------------------------------------------------------------------------
(* The operations, one step from d to r. *)

(* NoStall, MotorTimed and the first part of Guarded, of a controller d. *)
GoesOn(d) == "RUNNING" \in d.bm => d.q["BM"] > 0 \/ "BM_INT" \in d.status
Timed(d) ==
    /\ d.q["DV"] <= 1
    /\ "MTR_N_SPIN" \in d.status => "HEAD_RTRCT" \in d.status /\ d.q["DV"] = 0
Warned(d) == d.track = "protected" /\ d.write => "WR_PR_ERR" \in d.status

SameBit(d, r, bit) == bit \in r.status <=> bit \in d.status

(* What is the same after a step of the BM, or after a command. *)
Related(d, r) ==
    /\ r \in Controllers
    /\ r.q["MC"] = d.q["MC"] /\ r.q["BM"] = d.q["BM"]
    /\ SameBit(d, r, "MECHA_INT") /\ SameBit(d, r, "BUSY_STATE")
    /\ Timed(d) => Timed(r)
    /\ Warned(d) => Warned(r)

LEMMA MotorRelated ==
    ASSUME NEW d \in Controllers, NEW r, Motor(d, r)
    PROVE  /\ Related(d, r) /\ SameBit(d, r, "BM_INT") /\ SameBit(d, r, "WR_PR_ERR")
           /\ r.bm = d.bm /\ r.ip3 = d.ip3 /\ r.track = d.track /\ r.write = d.write
<1>1. ASSUME NEW b, b \notin {"MTR_N_SPIN", "HEAD_RTRCT"}
      PROVE  b \in r.status <=> b \in d.status
    BY <1>1 DEF Motor
<1>2. /\ SameBit(d, r, "MECHA_INT") /\ SameBit(d, r, "BUSY_STATE")
      /\ SameBit(d, r, "BM_INT") /\ SameBit(d, r, "WR_PR_ERR")
    BY <1>1 DEF SameBit
<1>3. Timed(d) => Timed(r)
    BY DEF Timed, Motor
<1>. QED  BY <1>2, <1>3 DEF Motor, Same, Related, Warned, SameBit

LEMMA StepBits ==
    ASSUME NEW d, NEW r, Step(d, r)
    PROVE  /\ SameBit(d, r, "MECHA_INT") /\ SameBit(d, r, "BUSY_STATE")
           /\ SameBit(d, r, "WR_PR_ERR") /\ SameBit(d, r, "MTR_N_SPIN")
           /\ SameBit(d, r, "HEAD_RTRCT")
<1>1. ASSUME NEW b, b \notin {"DATA_RQ", "C2_XFER", "BM_ERR"}
      PROVE  b \in r.status <=> b \in d.status
    BY <1>1 DEF Step
<1>. QED  BY <1>1 DEF SameBit

(* A step of the BM interrupts, and so goes on. *)
LEMMA UpdateFacts ==
    ASSUME NEW d \in Controllers, "RUNNING" \in d.bm
    PROVE  LET r == dd_update_bm(d)
           IN  /\ Related(d, r) /\ "BM_INT" \in r.status /\ r.ip3 = TRUE
               /\ r.track = d.track
<1>. DEFINE c == Clear(d, {"DATA_RQ", "C2_XFER"})
            t == IF d.write THEN WriteStep(c) ELSE ReadStep(c)
            m == dd_dv_active(t)
            r == signal_dd_interrupt(m, "BM_INT")
<1>1. dd_update_bm(d) = r
    BY DEF dd_update_bm
<1>2. Step(d, c) /\ c \in Controllers
    BY ClearStep DEF Step
<1>3. Step(c, t)
    BY <1>2, WriteStepFacts, ReadStepFacts
<1>4. Step(d, t) /\ t \in Controllers
    BY <1>2, <1>3, StepTransitive DEF Step
<1>5. Motor(t, m) /\ m \in Controllers
    BY <1>4, ActiveMotor DEF Motor, Same
<1>6. Same(m, r) /\ r.status = m.status \cup {"BM_INT"} /\ r.q = m.q /\ r.ip3 = TRUE
    BY <1>5, SignalFacts DEF StatusBits
<1>. HIDE DEF c, t, m, r
<1>7. /\ SameBit(d, t, "MECHA_INT") /\ SameBit(d, t, "BUSY_STATE")
      /\ SameBit(d, t, "WR_PR_ERR") /\ SameBit(d, t, "MTR_N_SPIN")
      /\ SameBit(d, t, "HEAD_RTRCT")
    BY <1>4, StepBits
<1>8. Related(d, t) /\ t.track = d.track
    BY <1>4, <1>7 DEF Step, Related, Timed, Warned, SameBit
<1>9. Related(t, m) /\ m.track = t.track
    BY <1>4, <1>5, MotorRelated
<1>10. Related(m, r) /\ r.track = m.track
    BY <1>5, <1>6 DEF Same, Related, Timed, Warned, SameBit
<1>. QED  BY <1>1, <1>6, <1>8, <1>9, <1>10 DEF Related, SameBit

LEMMA SeekFacts ==
    ASSUME NEW d \in Controllers, NEW t \in TrackKinds, NEW write \in BOOLEAN
    PROVE  LET r == Seek(d, t, write)
           IN  Related(d, r) /\ SameBit(d, r, "BM_INT") /\ r.bm = d.bm /\ r.ip3 = d.ip3
<1>. DEFINE a == dd_dv_active(d)
            m == [a EXCEPT !.track = t, !.write = write]
            c == Clear(m, {"WR_PR_ERR"})
            e == Set(c, {"WR_PR_ERR"})
<1>1. Motor(d, a) /\ a \in Controllers
    BY ActiveMotor DEF Motor, Same
<1>2. /\ Related(d, a) /\ SameBit(d, a, "BM_INT") /\ a.bm = d.bm /\ a.ip3 = d.ip3
    BY <1>1, MotorRelated
<1>3. Seek(d, t, write) = IF write /\ t \in Protected THEN e ELSE c
    BY DEF Seek
<1>. HIDE DEF a
<1>4. /\ m \in Controllers /\ m.status = a.status /\ m.q = a.q /\ m.ip3 = a.ip3
      /\ m.bm = a.bm /\ m.track = t /\ m.write = write
    BY <1>1 DEF Controllers
<1>. HIDE DEF m
<1>5. Same(m, c) /\ c.status = m.status \ {"WR_PR_ERR"} /\ c.q = m.q /\ c.ip3 = m.ip3
    BY <1>4, ClearFacts
<1>6. Same(c, e) /\ e.status = c.status \cup {"WR_PR_ERR"} /\ e.q = c.q /\ e.ip3 = c.ip3
    BY <1>5, SetFacts DEF Same, StatusBits
<1>. HIDE DEF c, e
<1>7. Related(d, c) \/ (write /\ t \in Protected)
    BY <1>2, <1>4, <1>5 DEF Related, Same, Timed, Warned, SameBit, Protected
<1>8. Related(d, e)
    BY <1>2, <1>4, <1>5, <1>6 DEF Related, Same, Timed, Warned, SameBit
<1>9. SameBit(d, c, "BM_INT") /\ SameBit(d, e, "BM_INT")
    BY <1>2, <1>4, <1>5, <1>6 DEF SameBit
<1>. QED  BY <1>2, <1>3, <1>4, <1>5, <1>6, <1>7, <1>8, <1>9 DEF Same

(* A command moves the head or the motor, and neither runs nor stops the   *)
(* BM.                                                                     *)
LEMMA EffectFacts ==
    ASSUME NEW d \in Controllers, NEW c \in Commands
    PROVE  LET r == Effect(d, c)
           IN  Related(d, r) /\ SameBit(d, r, "BM_INT") /\ r.bm = d.bm /\ r.ip3 = d.ip3
<1>. DEFINE Good(r) ==
                Related(d, r) /\ SameBit(d, r, "BM_INT") /\ r.bm = d.bm /\ r.ip3 = d.ip3
<1>1. c.track \in TrackKinds
    BY DDAssumption DEF Commands, TrackKinds
<1>2. Good(Seek(d, c.track, TRUE)) /\ Good(Seek(d, c.track, FALSE))
    BY <1>1, SeekFacts
<1>3. Good(Rezero(d))
    <2>. DEFINE a == dd_dv_active(d)
                r == [a EXCEPT !.track = "zero", !.write = TRUE]
    <2>1. Motor(d, a) /\ a \in Controllers
        BY ActiveMotor DEF Motor, Same
    <2>2. Good(a)
        BY <2>1, MotorRelated
    <2>3. Rezero(d) = r
        BY DEF Rezero
    <2>. HIDE DEF a
    <2>4. /\ r \in Controllers /\ r.status = a.status /\ r.q = a.q /\ r.ip3 = a.ip3
          /\ r.bm = a.bm /\ r.track = "zero"
        BY <2>1 DEF Controllers, TrackKinds
    <2>. HIDE DEF r
    <2>. QED  BY <2>2, <2>3, <2>4 DEF Related, Timed, Warned, SameBit
<1>4. Good(dd_dv_sleep(d)) /\ Good(dd_dv_standby(d))
    BY SleepMotor, StandbyMotor, MotorRelated
<1>5. /\ Good(d)
      /\ Good([d EXCEPT !.standby = TRUE]) /\ Good([d EXCEPT !.standby = FALSE])
      /\ Good([d EXCEPT !.sleep = TRUE]) /\ Good([d EXCEPT !.sleep = FALSE])
    BY DEF Related, Timed, Warned, SameBit, Controllers
<1>. HIDE DEF Good
<1>6. c.name \in {"seek_read", "seek_write", "rezero", "sleep", "standby", "other",
                  "set_standby", "clear_standby", "set_sleep", "clear_sleep"}
    BY DEF Commands
<1>7. Good(Effect(d, c))
    BY <1>2, <1>3, <1>4, <1>5, <1>6 DEF Effect
<1>. QED  BY <1>7 DEF Good

LEMMA CommandFacts ==
    ASSUME NEW d \in Controllers, NEW c \in Commands
    PROVE  LET r == command(d, c)
           IN  /\ r \in Controllers /\ r.bm = d.bm /\ r.ip3 = d.ip3
               /\ r.q["BM"] = d.q["BM"] /\ r.q["MC"] = d.q["MC"] + 1
               /\ SameBit(d, r, "MECHA_INT") /\ SameBit(d, r, "BM_INT")
               /\ "BUSY_STATE" \in r.status
               /\ Timed(d) => Timed(r)
               /\ Warned(d) => Warned(r)
<1>. DEFINE b == Set(d, {"BUSY_STATE"})
            e == Effect(b, c)
            r == add_event(e, "MC")
<1>1. Same(d, b) /\ b.status = d.status \cup {"BUSY_STATE"} /\ b.q = d.q /\ b.ip3 = d.ip3
    BY SetFacts DEF StatusBits
<1>2. b \in Controllers
    BY <1>1 DEF Same
<1>3. Related(b, e) /\ SameBit(b, e, "BM_INT") /\ e.bm = b.bm /\ e.ip3 = b.ip3
    BY <1>2, EffectFacts
<1>4. e \in Controllers
    BY <1>3 DEF Related
<1>5. /\ Same(e, r) /\ r.status = e.status /\ r.ip3 = e.ip3
      /\ r.q = [e.q EXCEPT !["MC"] = e.q["MC"] + 1]
    BY <1>4, AddFacts DEF Events
<1>6. command(d, c) = r
    BY DEF command
<1>. HIDE DEF b, e, r
<1>7. r.q["BM"] = e.q["BM"] /\ r.q["DV"] = e.q["DV"] /\ r.q["MC"] = e.q["MC"] + 1
    BY <1>4, <1>5, Fields DEF Events
<1>8. Timed(d) => Timed(b)
    BY <1>1 DEF Timed
<1>9. Timed(e) => Timed(r)
    BY <1>5, <1>7 DEF Timed
<1>10. Warned(d) => Warned(b)
    BY <1>1 DEF Warned, Same
<1>11. Warned(e) => Warned(r)
    BY <1>5 DEF Warned, Same
<1>. QED  BY <1>1, <1>3, <1>5, <1>6, <1>7, <1>8, <1>9, <1>10, <1>11 DEF Related, Same, SameBit

(* A store into BM_STATUS_CTL may only drop interrupts and commands; it    *)
(* runs the BM when it starts it, and then with an event.                  *)
Shrinks(d, r) ==
    /\ r \in Controllers /\ r.track = d.track /\ r.write = d.write
    /\ SameBit(d, r, "BUSY_STATE") /\ SameBit(d, r, "WR_PR_ERR")
    /\ SameBit(d, r, "MTR_N_SPIN") /\ SameBit(d, r, "HEAD_RTRCT")
    /\ "BM_INT" \in r.status => "BM_INT" \in d.status
    /\ "MECHA_INT" \in r.status => "MECHA_INT" \in d.status
    /\ r.q["DV"] = d.q["DV"] /\ r.q["MC"] <= d.q["MC"]
    /\ r.ip3 = d.ip3
    /\ "RUNNING" \in r.bm => "RUNNING" \in d.bm
    /\ GoesOn(d) => GoesOn(r)

LEMMA ShrinksTransitive ==
    ASSUME NEW d \in Controllers, NEW c, NEW r, Shrinks(d, c), Shrinks(c, r)
    PROVE  Shrinks(d, r)
<1>1. r \in Controllers /\ c \in Controllers
    BY DEF Shrinks
<1>2. d.q["MC"] \in Nat /\ c.q["MC"] \in Nat /\ r.q["MC"] \in Nat
    BY <1>1, Fields
<1>. QED  BY <1>2 DEF Shrinks, SameBit

LEMMA SectorShrinks ==
    ASSUME NEW d \in Controllers, NEW x \in Places
    PROVE  Shrinks(d, [d EXCEPT !.sector = x])
<1>1. d.q["MC"] \in Nat
    BY Fields
<1>. QED  BY <1>1 DEF Shrinks, SameBit, GoesOn, Controllers

LEMMA MechaShrinks ==
    ASSUME NEW d \in Controllers, NEW v \in Stores
    PROVE  Shrinks(d, MechaReset(d, v))
<1>. DEFINE c == Clear(d, {"MECHA_INT"})
            r == remove_event(c, "MC")
<1>1. Same(d, c) /\ c.status = d.status \ {"MECHA_INT"} /\ c.q = d.q /\ c.ip3 = d.ip3
    BY ClearFacts
<1>2. /\ Same(c, r) /\ r.status = c.status /\ r.ip3 = c.ip3
      /\ r.q = [c.q EXCEPT !["MC"] = IF c.q["MC"] > 0 THEN c.q["MC"] - 1 ELSE 0]
    BY <1>1, RemoveFacts DEF Same, Events
<1>3. MechaReset(d, v) = IF v.mecha THEN r ELSE d
    BY DEF MechaReset
<1>. HIDE DEF c, r
<1>4. r.q["BM"] = d.q["BM"] /\ r.q["DV"] = d.q["DV"] /\ r.q["MC"] <= d.q["MC"]
    BY <1>1, <1>2, Fields DEF Events
<1>5. Shrinks(d, r)
    BY <1>1, <1>2, <1>4 DEF Shrinks, Same, SameBit, GoesOn
<1>6. Shrinks(d, d)
    BY Fields DEF Shrinks, SameBit
<1>. QED  BY <1>3, <1>5, <1>6

LEMMA ResetShrinks ==
    ASSUME NEW d \in Controllers, NEW v \in Stores
    PROVE  Shrinks(d, BMReset(d, v))
<1>. DEFINE h == [d EXCEPT !.held = TRUE]
            c == Clear(d, {"DATA_RQ", "C2_XFER", "BM_ERR", "BM_INT"})
            b == [c EXCEPT !.held = FALSE, !.bm = {}, !.sector = <<0, 0>>]
            r == remove_event(b, "BM")
<1>1. /\ Same(d, c) /\ c.status = d.status \ {"DATA_RQ", "C2_XFER", "BM_ERR", "BM_INT"}
      /\ c.q = d.q /\ c.ip3 = d.ip3
    BY ClearFacts
<1>2. BMReset(d, v) = IF v.reset THEN h ELSE IF ~d.held THEN d ELSE r
    BY DEF BMReset
<1>. HIDE DEF c
<1>3. <<0, 0>> \in Places
    BY DDAssumption DEF Places, S
<1>4. /\ b \in Controllers /\ b.status = c.status /\ b.q = c.q /\ b.ip3 = c.ip3
      /\ b.bm = {} /\ b.track = c.track /\ b.write = c.write
    BY <1>1, <1>3 DEF Same, Controllers
<1>. HIDE DEF b
<1>5. /\ Same(b, r) /\ r.status = b.status /\ r.ip3 = b.ip3
      /\ r.q = [b.q EXCEPT !["BM"] = IF b.q["BM"] > 0 THEN b.q["BM"] - 1 ELSE 0]
    BY <1>4, RemoveFacts DEF Events
<1>. HIDE DEF r
<1>6. r.q["DV"] = d.q["DV"] /\ r.q["MC"] = d.q["MC"] /\ d.q["MC"] \in Nat
    BY <1>1, <1>4, <1>5, Fields DEF Events
<1>7. Shrinks(d, r)
    BY <1>1, <1>4, <1>5, <1>6 DEF Shrinks, Same, SameBit, GoesOn
<1>8. /\ h \in Controllers /\ h.status = d.status /\ h.q = d.q /\ h.ip3 = d.ip3
      /\ h.bm = d.bm /\ h.track = d.track /\ h.write = d.write
    BY DEF Controllers
<1>. HIDE DEF h
<1>9. Shrinks(d, d) /\ Shrinks(d, h)
    BY <1>6, <1>8 DEF Shrinks, SameBit, GoesOn
<1>. QED  BY <1>2, <1>7, <1>9

(* The whole store. *)
LEMMA StoreFacts ==
    ASSUME NEW d \in Controllers, NEW v \in Stores
    PROVE  LET r == bm_status_ctl(d, v)
           IN  /\ r \in Controllers /\ r.track = d.track /\ r.write = d.write
               /\ SameBit(d, r, "BUSY_STATE") /\ SameBit(d, r, "WR_PR_ERR")
               /\ SameBit(d, r, "MTR_N_SPIN") /\ SameBit(d, r, "HEAD_RTRCT")
               /\ "BM_INT" \in r.status => "BM_INT" \in d.status
               /\ "MECHA_INT" \in r.status => "MECHA_INT" \in d.status
               /\ r.q["DV"] = d.q["DV"] /\ r.q["MC"] <= d.q["MC"]
               /\ r.ip3 = (d.ip3 /\ ("BM_INT" \in r.status \/ "MECHA_INT" \in r.status))
               /\ "RUNNING" \in r.bm => v.start \/ "RUNNING" \in d.bm
               /\ GoesOn(d) => GoesOn(r)
<1>. DEFINE s == [d EXCEPT !.sector = v.sector]
            m == MechaReset(s, v)
            o == [m EXCEPT !.bm = m.bm \cup {"BLOCK"}]
            b == IF v.both THEN o ELSE m
            x == BMReset(b, v)
            l == clear_dd_interrupt(x, "BM_INT")
            y == DropLine(x)
            g == [y EXCEPT !.bm = y.bm \cup {"RUNNING"}]
            a == add_event(g, "BM")
            r == BMStart(y, v)
<1>1. bm_status_ctl(d, v) = r
    BY DEF bm_status_ctl
<1>2. v.sector \in Places
    BY DDAssumption DEF Stores
<1>3. Shrinks(d, s) /\ s \in Controllers
    BY <1>2, SectorShrinks DEF Shrinks
<1>4. Shrinks(s, m) /\ m \in Controllers
    BY <1>3, MechaShrinks DEF Shrinks
<1>5. Shrinks(d, m)
    BY <1>3, <1>4, ShrinksTransitive
<1>. HIDE DEF s, m
<1>6. Shrinks(m, b) /\ b \in Controllers
    <2>1. m.q["MC"] \in Nat
        BY <1>4, Fields
    <2>2. Shrinks(m, m)
        BY <1>4, <2>1 DEF Shrinks, SameBit
    <2>3. /\ o \in Controllers /\ o.status = m.status /\ o.q = m.q /\ o.ip3 = m.ip3
          /\ o.bm = m.bm \cup {"BLOCK"} /\ o.track = m.track /\ o.write = m.write
        BY <1>4 DEF Controllers, BMBits
    <2>. HIDE DEF o
    <2>4. Shrinks(m, o)
        BY <2>1, <2>3 DEF Shrinks, SameBit, GoesOn
    <2>. QED  BY <2>2, <2>4 DEF Shrinks
<1>7. Shrinks(d, b)
    BY <1>5, <1>6, ShrinksTransitive
<1>. HIDE DEF b
<1>8. Shrinks(b, x) /\ x \in Controllers
    BY <1>6, ResetShrinks DEF Shrinks
<1>9. Shrinks(d, x)
    BY <1>7, <1>8, ShrinksTransitive
<1>. HIDE DEF x
<1>10. Same(x, l) /\ l.status = x.status \ {"BM_INT"} /\ l.q = x.q /\ l.ip3 = FALSE
    BY <1>8, ClearLineFacts DEF StatusBits
<1>11. /\ y \in Controllers /\ y.bm = x.bm /\ y.track = x.track /\ y.write = x.write
       /\ y.status = x.status /\ y.q = x.q
       /\ y.ip3 = (x.ip3 /\ ("BM_INT" \in x.status \/ "MECHA_INT" \in x.status))
    <2>1. CASE x.status \cap {"BM_INT", "MECHA_INT"} = {}
        <3>1. y = l
            BY <2>1 DEF DropLine
        <3>2. "BM_INT" \notin x.status /\ "MECHA_INT" \notin x.status
            BY <2>1
        <3>3. x.status \ {"BM_INT"} = x.status
            BY <3>2
        <3>. HIDE DEF y, l
        <3>. QED  BY <1>10, <3>1, <3>2, <3>3 DEF Same
    <2>2. CASE x.status \cap {"BM_INT", "MECHA_INT"} # {}
        <3>1. y = x
            BY <2>2 DEF DropLine
        <3>2. "BM_INT" \in x.status \/ "MECHA_INT" \in x.status
            BY <2>2
        <3>3. x.ip3 \in BOOLEAN
            BY <1>8, Fields
        <3>. HIDE DEF y
        <3>. QED  BY <1>8, <3>1, <3>2, <3>3
    <2>. QED  BY <2>1, <2>2
<1>. HIDE DEF l, y
<1>12. r = IF v.start THEN a ELSE y
    BY DEF BMStart
<1>13. /\ g \in Controllers /\ g.status = y.status /\ g.q = y.q /\ g.ip3 = y.ip3
       /\ g.bm = y.bm \cup {"RUNNING"} /\ g.track = y.track /\ g.write = y.write
    BY <1>11 DEF Controllers, BMBits
<1>. HIDE DEF g
<1>14. /\ Same(g, a) /\ a.status = g.status /\ a.ip3 = g.ip3
       /\ a.q = [g.q EXCEPT !["BM"] = g.q["BM"] + 1]
    BY <1>13, AddFacts DEF Events
<1>. HIDE DEF a, r
<1>15. a.q["DV"] = y.q["DV"] /\ a.q["MC"] = y.q["MC"] /\ a.q["BM"] > 0
    BY <1>13, <1>14, Fields DEF Events
<1>16. /\ r \in Controllers /\ r.track = x.track /\ r.write = x.write /\ r.status = x.status
       /\ r.ip3 = y.ip3 /\ r.q["DV"] = x.q["DV"] /\ r.q["MC"] = x.q["MC"]
       /\ ~v.start => r.bm = x.bm /\ r.q = x.q
       /\ v.start => r.q["BM"] > 0
    BY <1>11, <1>12, <1>13, <1>14, <1>15 DEF Same
<1>17. "RUNNING" \in r.bm => v.start \/ "RUNNING" \in d.bm
    BY <1>9, <1>16 DEF Shrinks
<1>18. GoesOn(d) => GoesOn(r)
    BY <1>9, <1>16 DEF Shrinks, GoesOn
<1>19. r.ip3 = (d.ip3 /\ ("BM_INT" \in r.status \/ "MECHA_INT" \in r.status))
    BY <1>9, <1>11, <1>16 DEF Shrinks
<1>. QED  BY <1>1, <1>9, <1>16, <1>17, <1>18, <1>19 DEF Shrinks, SameBit

LEMMA HardResetFacts ==
    ASSUME NEW d \in Controllers
    PROVE  LET r == hard_reset(d)
           IN  /\ r \in Controllers /\ r.bm = {} /\ r.ip3 = FALSE
               /\ "BM_INT" \notin r.status /\ "MECHA_INT" \notin r.status
               /\ d.q["MC"] <= 1 => r.q["MC"] = 0
               /\ Timed(d) => Timed(r)
               /\ Warned(d) => Warned(r)
               /\ r.track = d.track /\ SameBit(d, r, "WR_PR_ERR")
<1>. DEFINE u == remove_event(d, "MC")
            w == remove_event(u, "BM")
            k == Clear(w, {"DATA_RQ", "C2_XFER", "BM_ERR", "BM_INT", "BUSY_STATE"})
            c == [k EXCEPT !.bm = {}, !.sector = <<0, 0>>, !.sleep = TRUE, !.standby = TRUE]
            z == dd_dv_sleep(c)
            r == clear_dd_interrupt(z, "MECHA_INT")
<1>0. hard_reset(d) = r
    BY DEF hard_reset
<1>1. /\ Same(d, u) /\ u \in Controllers /\ u.status = d.status
      /\ u.q = [d.q EXCEPT !["MC"] = IF d.q["MC"] > 0 THEN d.q["MC"] - 1 ELSE 0]
    BY RemoveFacts DEF Events, Same
<1>. HIDE DEF u
<1>2. /\ Same(u, w) /\ w \in Controllers /\ w.status = u.status
      /\ w.q = [u.q EXCEPT !["BM"] = IF u.q["BM"] > 0 THEN u.q["BM"] - 1 ELSE 0]
    BY <1>1, RemoveFacts DEF Events, Same
<1>. HIDE DEF w
<1>3. /\ Same(w, k) /\ k \in Controllers /\ k.q = w.q
      /\ k.status = w.status \ {"DATA_RQ", "C2_XFER", "BM_ERR", "BM_INT", "BUSY_STATE"}
    BY <1>2, ClearFacts DEF Same
<1>. HIDE DEF k
<1>4. /\ c \in Controllers /\ c.status = k.status /\ c.q = k.q /\ c.bm = {}
      /\ c.track = k.track /\ c.write = k.write
    <2>1. <<0, 0>> \in Places
        BY DDAssumption DEF Places, S
    <2>. QED  BY <1>3, <2>1 DEF Controllers
<1>. HIDE DEF c
<1>5. Motor(c, z) /\ z \in Controllers
    BY <1>4, SleepMotor DEF Motor, Same
<1>6. /\ Related(c, z) /\ SameBit(c, z, "BM_INT") /\ SameBit(c, z, "WR_PR_ERR")
      /\ z.bm = c.bm /\ z.track = c.track
    BY <1>4, <1>5, MotorRelated
<1>. HIDE DEF z
<1>7. Same(z, r) /\ r.status = z.status \ {"MECHA_INT"} /\ r.q = z.q /\ r.ip3 = FALSE
    BY <1>5, ClearLineFacts DEF StatusBits
<1>. HIDE DEF r
<1>8. /\ c.q["DV"] = d.q["DV"]
      /\ c.q["MC"] = IF d.q["MC"] > 0 THEN d.q["MC"] - 1 ELSE 0
      /\ d.q["MC"] \in Nat
    BY <1>1, <1>2, <1>3, <1>4, Fields DEF Events
<1>9. Timed(d) => Timed(c)
    BY <1>1, <1>2, <1>3, <1>4, <1>8 DEF Timed
<1>10. Warned(d) => Warned(c)
    BY <1>1, <1>2, <1>3, <1>4 DEF Warned, Same
<1>11. Timed(z) => Timed(r)
    BY <1>7 DEF Timed
<1>12. Warned(z) => Warned(r)
    BY <1>7 DEF Warned, Same
<1>13. "BM_INT" \notin c.status
    BY <1>3, <1>4
<1>14. /\ c.track = d.track /\ SameBit(d, c, "WR_PR_ERR")
       /\ r.track = z.track /\ SameBit(z, r, "WR_PR_ERR")
    BY <1>1, <1>2, <1>3, <1>4, <1>7 DEF Same, SameBit
<1>15. r.track = d.track /\ SameBit(d, r, "WR_PR_ERR")
    BY <1>6, <1>14 DEF SameBit
<1>. QED
    BY <1>0, <1>4, <1>6, <1>7, <1>8, <1>9, <1>10, <1>11, <1>12, <1>13, <1>15
       DEF Related, Same, SameBit

-----------------------------------------------------------------------------
(* The invariant, of a controller d and a guest that follows the protocol  *)
(* (p) or not.                                                             *)
Interrupts(d) == "BM_INT" \in d.status \/ "MECHA_INT" \in d.status

Sound(d, p) ==
    /\ GoesOn(d) /\ Timed(d) /\ Warned(d)
    /\ d.ip3 => Interrupts(d)
    /\ p /\ Interrupts(d) => d.ip3
    /\ p /\ ("RUNNING" \in d.bm \/ "BM_INT" \in d.status) =>
           "BUSY_STATE" \notin d.status /\ "MECHA_INT" \notin d.status
    /\ p => d.q["MC"] <= 1 /\ (d.q["MC"] > 0 => "BUSY_STATE" \in d.status)
    /\ p /\ "RUNNING" \in d.bm => d.track # "zero"

LEMMA IInvIsSound ==
    /\ IInv <=> TypeOK /\ Sound(dd, polite)
    /\ IInv' <=> TypeOK' /\ Sound(dd', polite')
<1>1. /\ Pending # {} <=> Interrupts(dd)
      /\ (Pending # {})' <=> Interrupts(dd')
    BY DEF Pending, Interrupts
<1>2. /\ dd.status \cap {"BUSY_STATE", "MECHA_INT"} = {} <=>
             "BUSY_STATE" \notin dd.status /\ "MECHA_INT" \notin dd.status
      /\ dd'.status \cap {"BUSY_STATE", "MECHA_INT"} = {} <=>
             "BUSY_STATE" \notin dd'.status /\ "MECHA_INT" \notin dd'.status
    OBVIOUS
<1>3. IInv <=> TypeOK /\ Sound(dd, polite)
    BY <1>1, <1>2 DEF IInv, Sound, NoStall, LineSound, MotorTimed, OneAtATime, Guarded, GoesOn,
                      Timed, Warned, Running
<1>4. IInv' <=> TypeOK' /\ Sound(dd', polite')
    BY <1>1, <1>2 DEF IInv, Sound, NoStall, LineSound, MotorTimed, OneAtATime, Guarded, GoesOn,
                      Timed, Warned, Running
<1>. QED  BY <1>3, <1>4

-----------------------------------------------------------------------------
(* What the guest knows has its type. *)

LEMMA TransferFields ==
    ASSUME NEW g \in Transfers
    PROVE  /\ g.owed \in BOOLEAN /\ g.asked \in Seq(Places) /\ g.supplied \in Nat
           /\ g.moved \in Seq(Contents \X Contents)
BY DEF Transfers

LEMMA NoTransferType == NoTransfer \in Transfers
BY DEF NoTransfer, Transfers

LEMMA OneBlockType ==
    ASSUME NEW block \in 0 .. 1
    PROVE  OneBlock(block) \in Seq(Places)
<1>1. S \in Nat
    BY DDAssumption DEF S
<1>2. \A i \in 1 .. S : <<block, i - 1>> \in Places
    BY <1>1 DEF Places
<1>3. OneBlock(block) \in [1 .. S -> Places]
    BY <1>2 DEF OneBlock
<1>. QED  BY <1>1, <1>3

LEMMA AskedType ==
    ASSUME NEW v \in Stores
    PROVE  Asked(v) \in Seq(Places)
<1>1. v.sector \in Places
    BY DDAssumption DEF Stores
<1>2. v.sector[1] \in 0 .. 1 /\ 1 - v.sector[1] \in 0 .. 1
    BY <1>1 DEF Places
<1>3. OneBlock(v.sector[1]) \in Seq(Places) /\ OneBlock(1 - v.sector[1]) \in Seq(Places)
    BY <1>2, OneBlockType
<1>. QED  BY <1>3 DEF Asked

LEMMA ExpectedType ==
    ASSUME guest \in Transfers, NEW n \in Nat
    PROVE  Expected(n) \in Contents
<1>1. guest.asked \in Seq(Places)
    BY TransferFields
<1>2. n < Len(guest.asked) => guest.asked[n + 1] \in Places
    BY <1>1
<1>. QED  BY <1>2 DEF Expected, Contents

-----------------------------------------------------------------------------
(* The steps. *)

LEMMA InitSound == Init => IInv
<1>. SUFFICES ASSUME Init PROVE IInv
    OBVIOUS
<1>1. poweron_dd \in Controllers
    <2>1. <<0, 0>> \in Places
        BY DDAssumption DEF Places, S
    <2>. QED
        BY <2>1 DEF poweron_dd, Controllers, StatusBits, BMBits, TrackKinds
<1>2. TypeOK
    BY <1>1, NoTransferType, DDAssumption DEF Init, TypeOK
<1>3. Sound(poweron_dd, polite)
    BY DEF poweron_dd, Sound, GoesOn, Timed, Warned, Interrupts, Events
<1>. QED  BY <1>2, <1>3, IInvIsSound DEF Init

LEMMA PowerOnSound ==
    ASSUME IInv, PowerOn
    PROVE  IInv'
<1>1. poweron_dd \in Controllers
    <2>1. <<0, 0>> \in Places
        BY DDAssumption DEF Places, S
    <2>. QED
        BY <2>1 DEF poweron_dd, Controllers, StatusBits, BMBits, TrackKinds
<1>2. TypeOK'
    BY <1>1, NoTransferType DEF PowerOn, TypeOK, IInv
<1>3. Sound(poweron_dd, polite)
    BY DEF poweron_dd, Sound, GoesOn, Timed, Warned, Interrupts, Events
<1>. QED  BY <1>2, <1>3, IInvIsSound DEF PowerOn

LEMMA ReadStatusSound ==
    ASSUME IInv, ReadStatus
    PROVE  IInv'
<1>. DEFINE c == clear_dd_interrupt(dd, "BM_INT")
<1>0. dd \in Controllers /\ Sound(dd, polite)
    BY IInvIsSound DEF TypeOK
<1>1. Same(dd, c) /\ c.status = dd.status \ {"BM_INT"} /\ c.q = dd.q /\ c.ip3 = FALSE
    BY <1>0, ClearLineFacts DEF StatusBits
<1>2. dd' = add_event(c, "BM") /\ polite' = polite /\ guest' = guest /\ "BM_INT" \in dd.status
    BY DEF ReadStatus, ack
<1>. HIDE DEF c
<1>3. /\ Same(c, dd') /\ dd'.status = c.status /\ dd'.ip3 = c.ip3
      /\ dd'.q = [c.q EXCEPT !["BM"] = c.q["BM"] + 1]
    BY <1>1, <1>2, AddFacts DEF Events, Same
<1>4. dd'.q["BM"] > 0 /\ dd'.q["MC"] = dd.q["MC"] /\ dd'.q["DV"] = dd.q["DV"]
    BY <1>0, <1>1, <1>3, Fields DEF Events, Same
<1>5. Sound(dd', polite)
    BY <1>0, <1>1, <1>2, <1>3, <1>4 DEF Sound, GoesOn, Timed, Warned, Interrupts, Same
<1>6. TypeOK'
    BY <1>2, <1>3 DEF TypeOK, IInv, Same
<1>. QED  BY <1>2, <1>5, <1>6, IInvIsSound

LEMMA CommandSound ==
    ASSUME IInv, Command
    PROVE  IInv'
<1>0. dd \in Controllers /\ Sound(dd, polite)
    BY IInvIsSound DEF TypeOK
<1>1. PICK c \in Commands : (polite => Quiet) /\ dd' = command(dd, c)
    BY DEF Command
<1>2. guest' = NoTransfer /\ polite' = polite
    BY DEF Command
<1>3. /\ dd' \in Controllers /\ dd'.bm = dd.bm /\ dd'.ip3 = dd.ip3
      /\ dd'.q["BM"] = dd.q["BM"] /\ dd'.q["MC"] = dd.q["MC"] + 1
      /\ SameBit(dd, dd', "MECHA_INT") /\ SameBit(dd, dd', "BM_INT")
      /\ "BUSY_STATE" \in dd'.status /\ (Timed(dd) => Timed(dd')) /\ (Warned(dd) => Warned(dd'))
    BY <1>0, <1>1, CommandFacts
<1>4. polite => /\ "RUNNING" \notin dd.bm /\ "BM_INT" \notin dd.status
                /\ "MECHA_INT" \notin dd.status /\ "BUSY_STATE" \notin dd.status
    BY <1>1 DEF Quiet, Pending, Running
<1>5. dd.q["MC"] \in Nat
    BY <1>0, Fields
<1>6. Sound(dd', polite)
    BY <1>0, <1>3, <1>4, <1>5 DEF Sound, GoesOn, Interrupts, SameBit
<1>7. TypeOK'
    BY <1>2, <1>3, NoTransferType DEF TypeOK, IInv
<1>. QED  BY <1>2, <1>6, <1>7, IInvIsSound

LEMMA StoreSound ==
    ASSUME IInv, NEW v \in Stores, Store(v)
    PROVE  IInv'
<1>0. dd \in Controllers /\ Sound(dd, polite)
    BY IInvIsSound DEF TypeOK
<1>1. dd' = bm_status_ctl(dd, v) /\ polite' = polite
    BY DEF Store
<1>2. /\ dd' \in Controllers /\ dd'.track = dd.track /\ dd'.write = dd.write
      /\ SameBit(dd, dd', "BUSY_STATE") /\ SameBit(dd, dd', "WR_PR_ERR")
      /\ SameBit(dd, dd', "MTR_N_SPIN") /\ SameBit(dd, dd', "HEAD_RTRCT")
      /\ "BM_INT" \in dd'.status => "BM_INT" \in dd.status
      /\ "MECHA_INT" \in dd'.status => "MECHA_INT" \in dd.status
      /\ dd'.q["DV"] = dd.q["DV"] /\ dd'.q["MC"] <= dd.q["MC"]
      /\ dd'.ip3 = (dd.ip3 /\ ("BM_INT" \in dd'.status \/ "MECHA_INT" \in dd'.status))
      /\ "RUNNING" \in dd'.bm => v.start \/ "RUNNING" \in dd.bm
      /\ GoesOn(dd) => GoesOn(dd')
    BY <1>0, <1>1, StoreFacts
<1>3. polite /\ v.start => /\ "BM_INT" \notin dd.status /\ "MECHA_INT" \notin dd.status
                           /\ "BUSY_STATE" \notin dd.status /\ dd.track # "zero"
    BY DEF Store, IsReset, IsAck, IsStart, Quiet, Pending
<1>4. dd.q["MC"] \in Nat /\ dd'.q["MC"] \in Nat
    BY <1>0, <1>2, Fields
<1>5. GoesOn(dd') /\ Timed(dd') /\ Warned(dd')
    BY <1>0, <1>2 DEF Sound, Timed, Warned, SameBit
<1>6. Sound(dd', polite)
    <2>1. (dd'.ip3 => Interrupts(dd')) /\ (dd.ip3 /\ Interrupts(dd') => dd'.ip3)
        BY <1>2, Zenon DEF Interrupts
    <2>2. Interrupts(dd') => Interrupts(dd)
        BY <1>2 DEF Interrupts
    <2>3. polite /\ ("RUNNING" \in dd'.bm \/ "BM_INT" \in dd'.status) =>
              "BUSY_STATE" \notin dd'.status /\ "MECHA_INT" \notin dd'.status
        BY <1>0, <1>2, <1>3, Zenon DEF Sound, SameBit
    <2>4. polite => dd'.q["MC"] <= 1 /\ (dd'.q["MC"] > 0 => "BUSY_STATE" \in dd'.status)
        <3>1. dd'.q["MC"] <= dd.q["MC"] /\ SameBit(dd, dd', "BUSY_STATE")
            BY <1>2
        <3>. QED  BY <1>0, <1>4, <3>1 DEF Sound, SameBit
    <2>5. polite /\ "RUNNING" \in dd'.bm => dd'.track # "zero"
        BY <1>0, <1>2, <1>3, Zenon DEF Sound
    <2>6. polite /\ Interrupts(dd') => dd'.ip3
        BY <1>0, <2>1, <2>2, Zenon DEF Sound
    <2>. QED  BY <1>5, <2>1, <2>3, <2>4, <2>5, <2>6, Zenon DEF Sound
<1>7. guest' \in Transfers
    <2>1. Asked(v) \in Seq(Places)
        BY AskedType
    <2>2. [NoTransfer EXCEPT !.asked = Asked(v)] \in Transfers
        BY <2>1, NoTransferType DEF Transfers
    <2>. QED  BY <2>2, NoTransferType DEF Store
<1>8. TypeOK'
    BY <1>1, <1>2, <1>7 DEF TypeOK, IInv
<1>. QED  BY <1>1, <1>6, <1>8, IInvIsSound

LEMMA HardResetSound ==
    ASSUME IInv, HardReset
    PROVE  IInv'
<1>0. dd \in Controllers /\ Sound(dd, polite)
    BY IInvIsSound DEF TypeOK
<1>1. dd' = hard_reset(dd) /\ polite' = polite /\ guest' = NoTransfer
    BY DEF HardReset
<1>2. /\ dd' \in Controllers /\ dd'.bm = {} /\ dd'.ip3 = FALSE
      /\ "BM_INT" \notin dd'.status /\ "MECHA_INT" \notin dd'.status
      /\ dd.q["MC"] <= 1 => dd'.q["MC"] = 0
      /\ Timed(dd) => Timed(dd')
      /\ Warned(dd) => Warned(dd')
    BY <1>0, <1>1, HardResetFacts
<1>3. Sound(dd', polite)
    BY <1>0, <1>2 DEF Sound, GoesOn, Interrupts
<1>4. TypeOK'
    BY <1>1, <1>2, NoTransferType DEF TypeOK, IInv
<1>. QED  BY <1>1, <1>3, <1>4, IInvIsSound

LEMMA CopySound ==
    ASSUME IInv, dd_dom_dma_write
    PROVE  IInv'
<1>0. dd' = dd /\ polite' = polite /\ guest \in Transfers /\ dd.buf \in Contents
    BY Fields DEF dd_dom_dma_write, IInv, TypeOK, Contents
<1>1. guest.moved \in Seq(Contents \X Contents) /\ Expected(Len(guest.moved)) \in Contents
    BY <1>0, TransferFields, ExpectedType
<1>. DEFINE e == Expected(Len(guest.moved))
            m == Append(guest.moved, <<e, dd.buf>>)
<1>. HIDE DEF e
<1>2. m \in Seq(Contents \X Contents)
    BY <1>0, <1>1 DEF e
<1>3. guest' = [guest EXCEPT !.owed = FALSE, !.moved = m]
    BY DEF dd_dom_dma_write, e
<1>. HIDE DEF m
<1>4. guest' \in Transfers
    BY <1>0, <1>2, <1>3 DEF Transfers
<1>. QED  BY <1>0, <1>4, IInvIsSound DEF TypeOK

LEMMA FillSound ==
    ASSUME IInv, dd_dom_dma_read
    PROVE  IInv'
<1>. DEFINE e == Expected(guest.supplied)
<1>0. dd \in Controllers /\ Sound(dd, polite) /\ guest \in Transfers
    BY IInvIsSound DEF TypeOK
<1>1. e \in Contents
    BY <1>0, TransferFields, ExpectedType
<1>2. dd' = [dd EXCEPT !.buf = e] /\ polite' = polite
      /\ guest' = [guest EXCEPT !.owed = FALSE, !.supplied = guest.supplied + 1]
    BY DEF dd_dom_dma_read
<1>. HIDE DEF e
<1>3. /\ dd' \in Controllers /\ dd'.status = dd.status /\ dd'.bm = dd.bm /\ dd'.q = dd.q
      /\ dd'.ip3 = dd.ip3 /\ dd'.track = dd.track /\ dd'.write = dd.write
    BY <1>0, <1>1, <1>2 DEF Controllers, Contents
<1>4. guest' \in Transfers
    <2>1. guest.supplied + 1 \in Nat
        BY <1>0, TransferFields
    <2>. QED  BY <1>0, <1>2, <2>1 DEF Transfers
<1>5. Sound(dd', polite)
    BY <1>0, <1>3 DEF Sound, GoesOn, Timed, Warned, Interrupts
<1>. QED  BY <1>2, <1>3, <1>4, <1>5, IInvIsSound DEF TypeOK

LEMMA ExceptionSound ==
    ASSUME IInv, Exception
    PROVE  IInv'
<1>0. dd \in Controllers /\ Sound(dd, polite)
    BY IInvIsSound DEF TypeOK
<1>1. dd' = [dd EXCEPT !.ip3 = FALSE] /\ polite' = polite /\ guest' = guest
    BY DEF Exception
<1>2. /\ dd' \in Controllers /\ dd'.status = dd.status /\ dd'.bm = dd.bm /\ dd'.q = dd.q
      /\ dd'.ip3 = FALSE /\ dd'.track = dd.track /\ dd'.write = dd.write
    BY <1>0, <1>1 DEF Controllers
<1>3. polite => ~Interrupts(dd)
    BY DEF Exception, Pending, Interrupts
<1>4. Sound(dd', polite)
    BY <1>0, <1>2, <1>3 DEF Sound, GoesOn, Timed, Warned, Interrupts
<1>. QED  BY <1>1, <1>2, <1>4, IInvIsSound DEF TypeOK, IInv

LEMMA MechaSound ==
    ASSUME IInv, dd_mecha_int_handler
    PROVE  IInv'
<1>. DEFINE o == remove_event(dd, "MC")
            c == Clear(o, {"BUSY_STATE"})
<1>0. dd \in Controllers /\ Sound(dd, polite)
    BY IInvIsSound DEF TypeOK
<1>1. /\ Same(dd, o) /\ o \in Controllers /\ o.status = dd.status
      /\ o.q = [dd.q EXCEPT !["MC"] = IF dd.q["MC"] > 0 THEN dd.q["MC"] - 1 ELSE 0]
    BY <1>0, RemoveFacts DEF Events, Same
<1>2. Same(o, c) /\ c \in Controllers /\ c.status = o.status \ {"BUSY_STATE"} /\ c.q = o.q
    BY <1>1, ClearFacts DEF Same
<1>3. /\ dd' = signal_dd_interrupt(c, "MECHA_INT") /\ polite' = polite /\ guest' = guest
      /\ dd.q["MC"] > 0
    BY DEF dd_mecha_int_handler, Pop
<1>. HIDE DEF o, c
<1>4. /\ Same(c, dd') /\ dd'.status = c.status \cup {"MECHA_INT"} /\ dd'.q = c.q
      /\ dd'.ip3 = TRUE
    BY <1>2, <1>3, SignalFacts DEF StatusBits
<1>5. /\ dd'.q["MC"] = dd.q["MC"] - 1 /\ dd'.q["BM"] = dd.q["BM"] /\ dd'.q["DV"] = dd.q["DV"]
      /\ dd.q["MC"] \in Nat
    BY <1>0, <1>1, <1>2, <1>3, <1>4, Fields DEF Events
<1>6. /\ dd'.bm = dd.bm /\ dd'.track = dd.track /\ dd'.write = dd.write
      /\ dd'.status = (dd.status \ {"BUSY_STATE"}) \cup {"MECHA_INT"}
    BY <1>1, <1>2, <1>4 DEF Same
<1>7. polite => "RUNNING" \notin dd.bm /\ "BM_INT" \notin dd.status
    BY <1>0, <1>3 DEF Sound
<1>8. Sound(dd', polite)
    BY <1>0, <1>3, <1>4, <1>5, <1>6, <1>7 DEF Sound, GoesOn, Timed, Warned, Interrupts
<1>9. TypeOK'
    BY <1>3, <1>4 DEF TypeOK, IInv, Same
<1>. QED  BY <1>3, <1>8, <1>9, IInvIsSound

LEMMA DriveSoundStep ==
    ASSUME IInv, DriveEvent
    PROVE  IInv'
<1>. DEFINE o == remove_event(dd, "DV")
<1>0. dd \in Controllers /\ Sound(dd, polite)
    BY IInvIsSound DEF TypeOK
<1>1. /\ Same(dd, o) /\ o \in Controllers /\ o.status = dd.status /\ o.ip3 = dd.ip3
      /\ o.q = [dd.q EXCEPT !["DV"] = IF dd.q["DV"] > 0 THEN dd.q["DV"] - 1 ELSE 0]
    BY <1>0, RemoveFacts DEF Events, Same
<1>2. dd' = dd_dv_int_handler(o) /\ polite' = polite /\ guest' = guest
    BY DEF DriveEvent, Pop
<1>. HIDE DEF o
<1>3. o.q["MC"] = dd.q["MC"] /\ o.q["BM"] = dd.q["BM"] /\ (dd.q["DV"] <= 1 => o.q["DV"] = 0)
    BY <1>0, <1>1, Fields DEF Events
<1>4. Sound(o, polite)
    BY <1>0, <1>1, <1>3 DEF Sound, GoesOn, Timed, Warned, Interrupts, Same
<1>5. dd' = o \/ Motor(o, dd')
    BY <1>1, <1>2, SleepMotor, StandbyMotor DEF dd_dv_int_handler
<1>6. CASE dd' = o
    BY <1>1, <1>2, <1>4, <1>6, IInvIsSound DEF TypeOK, IInv
<1>7. CASE Motor(o, dd')
    <2>1. /\ Related(o, dd') /\ SameBit(o, dd', "BM_INT") /\ SameBit(o, dd', "WR_PR_ERR")
          /\ dd'.bm = o.bm /\ dd'.ip3 = o.ip3 /\ dd'.track = o.track /\ dd'.write = o.write
        BY <1>1, <1>7, MotorRelated
    <2>2. Sound(dd', polite)
        BY <1>4, <2>1 DEF Sound, GoesOn, Interrupts, Related, SameBit
    <2>. QED  BY <1>2, <2>1, <2>2, IInvIsSound DEF TypeOK, IInv, Related
<1>. QED  BY <1>5, <1>6, <1>7

LEMMA BMSound ==
    ASSUME IInv, dd_bm_int_handler
    PROVE  IInv'
<1>. DEFINE o == remove_event(dd, "BM")
<1>0. dd \in Controllers /\ Sound(dd, polite) /\ guest \in Transfers
    BY IInvIsSound DEF TypeOK
<1>1. /\ Same(dd, o) /\ o \in Controllers /\ o.status = dd.status /\ o.ip3 = dd.ip3
      /\ o.q = [dd.q EXCEPT !["BM"] = IF dd.q["BM"] > 0 THEN dd.q["BM"] - 1 ELSE 0]
    BY <1>0, RemoveFacts DEF Events, Same
<1>2. dd' = dd_update_bm(o) /\ polite' = polite
    BY DEF dd_bm_int_handler, Pop
<1>. HIDE DEF o
<1>3. /\ o.q["MC"] = dd.q["MC"] /\ o.q["DV"] = dd.q["DV"]
      /\ o.bm = dd.bm /\ o.track = dd.track /\ o.write = dd.write
    BY <1>0, <1>1, Fields DEF Events, Same
<1>4. dd' \in Controllers /\ Sound(dd', polite)
    <2>1. CASE "RUNNING" \notin o.bm
        <3>1. dd' = o
            BY <1>2, <2>1 DEF dd_update_bm
        <3>2. Sound(o, polite)
            BY <1>0, <1>1, <1>3, <2>1 DEF Sound, GoesOn, Timed, Warned, Interrupts
        <3>. QED  BY <1>1, <3>1, <3>2
    <2>2. CASE "RUNNING" \in o.bm
        <3>1. Related(o, dd') /\ "BM_INT" \in dd'.status /\ dd'.ip3 = TRUE /\ dd'.track = o.track
            BY <1>1, <1>2, <2>2, UpdateFacts
        <3>2. Timed(dd') /\ Warned(dd')
            BY <1>0, <1>1, <1>3, <3>1 DEF Sound, Related, Timed, Warned
        <3>3. polite => /\ "BUSY_STATE" \notin dd'.status /\ "MECHA_INT" \notin dd'.status
                        /\ dd'.track # "zero" /\ dd'.q["MC"] <= 1 /\ ~(dd'.q["MC"] > 0)
            BY <1>0, <1>1, <1>3, <2>2, <3>1 DEF Sound, Related, SameBit
        <3>. QED  BY <3>1, <3>2, <3>3 DEF Sound, GoesOn, Interrupts, Related
    <2>. QED  BY <2>1, <2>2
<1>5. guest' \in Transfers
    <2>. DEFINE b == "DATA_RQ" \in dd'.status
                a == Append(guest.moved, <<Previous, dd.buf>>)
                m == IF Writes THEN a ELSE guest.moved
    <2>1. guest.moved \in Seq(Contents \X Contents)
        BY <1>0, TransferFields
    <2>2. Writes => Previous \in Contents
        <3>1. dd.sector \in Places /\ S \in Nat
            BY <1>0, Fields, DDAssumption DEF S
        <3>. QED  BY <3>1 DEF Writes, Previous, Places, Contents, Block, Sector
    <2>3. dd.buf \in Contents
        BY <1>0, Fields DEF Contents
    <2>4. m \in Seq(Contents \X Contents)
        BY <2>1, <2>2, <2>3
    <2>5. guest' = guest \/ guest' = [guest EXCEPT !.owed = b, !.moved = m]
        BY DEF dd_bm_int_handler
    <2>6. b \in BOOLEAN
        OBVIOUS
    <2>. HIDE DEF m, b
    <2>. QED  BY <1>0, <2>4, <2>5, <2>6 DEF Transfers
<1>. QED  BY <1>2, <1>4, <1>5, IInvIsSound DEF TypeOK, IInv

LEMMA NextSound == IInv /\ [Next]_vars => IInv'
<1>. SUFFICES ASSUME IInv, [Next]_vars PROVE IInv'
    OBVIOUS
<1>1. CASE UNCHANGED vars
    BY <1>1, IInvIsSound DEF vars, TypeOK
<1>2. CASE Next
    BY <1>2, ReadStatusSound, CommandSound, StoreSound, HardResetSound, CopySound, FillSound,
       ExceptionSound, PowerOnSound, MechaSound, BMSound, DriveSoundStep DEF Next
<1>. QED  BY <1>1, <1>2

(* A write of a protected track finds the warning of the seek, or track 0  *)
(* with the BM running.                                                    *)
LEMMA UntouchedFollows == IInv => ProtectedUntouched
<1>. SUFFICES ASSUME IInv, polite, dd.track \in Protected, Writes PROVE FALSE
    BY DEF ProtectedUntouched
<1>1. Sound(dd, polite)
    BY IInvIsSound
<1>2. "RUNNING" \in dd.bm /\ dd.write /\ "WR_PR_ERR" \notin dd.status
    BY DEF Writes, Running
<1>3. dd.track = "protected" \/ dd.track = "zero"
    BY DEF Protected
<1>. QED  BY <1>1, <1>2, <1>3 DEF Sound, Warned

-----------------------------------------------------------------------------
(* The order of sectors.  A transfer has a plan, which is what the guest   *)
(* has asked for; Order says where a transfer of a plain track is in it.   *)

Plan(b, both) == OneBlock(b) \o (IF both THEN OneBlock(1 - b) ELSE << >>)

(* The sectors of the first block, b, once the BM is in the second.        *)
Before(d, b) == IF Block(d) = b THEN 0 ELSE S
Owing(g) == IF g.owed THEN 1 ELSE 0

(* Reading: the sector in the buffer, if the guest has still to copy it,   *)
(* is the next of the plan.  The C2 steps after a block move nothing.      *)
Reading(d, g, b) ==
    /\ Sector(d) \in 0 .. (S + 3)
    /\ Len(g.moved) + Owing(g) = Before(d, b) + (IF Sector(d) < S THEN Sector(d) ELSE S)
    /\ g.owed => d.buf = g.asked[Len(g.moved) + 1]

(* Writing: the BM has asked for Sector(d) sectors of the block, and has   *)
(* written all but the last of them, which is in the buffer once the guest *)
(* has filled it.                                                          *)
Writing(d, g, b) ==
    /\ Sector(d) \in 0 .. S /\ (Sector(d) = 0 => Block(d) = b)
    /\ g.supplied + Owing(g) = Before(d, b) + Sector(d)
    /\ Len(g.moved) = IF Sector(d) = 0 THEN 0 ELSE Before(d, b) + Sector(d) - 1
    /\ ~g.owed /\ g.supplied > 0 => d.buf = g.asked[g.supplied]

Finished(d, g) == ~g.owed /\ Len(g.moved) = Len(g.asked) /\ "DATA_RQ" \notin d.status

(* A transfer of both blocks, or of block b alone, after its start.        *)
Follows(d, g, b, both) ==
    IF "RUNNING" \in d.bm
    THEN /\ Block(d) # b => both
         /\ "BLOCK" \in d.bm <=> both /\ Block(d) = b
         /\ IF d.write THEN Writing(d, g, b) ELSE Reading(d, g, b)
    ELSE Finished(d, g)

InPlace(g) == \A i \in 1 .. Len(g.moved) : g.moved[i] = <<g.asked[i], g.asked[i]>>

Moving(d, g) ==
    /\ \E b \in 0 .. 1, both \in BOOLEAN : g.asked = Plan(b, both) /\ Follows(d, g, b, both)
    /\ InPlace(g)

(* A seek takes an old warning back. *)
Unwarned(d) == d.track = "plain" => "WR_PR_ERR" \notin d.status

Order(d, p, g) ==
    /\ ~p \/ g.asked = << >> => g = NoTransfer
    /\ Unwarned(d)
    /\ d.track = "plain" /\ g.asked # << >> => Moving(d, g)

(* What there is in a plan. *)
LEMMA PlanFacts ==
    ASSUME NEW b \in 0 .. 1, NEW both \in BOOLEAN
    PROVE  /\ Plan(b, both) \in Seq(Places) /\ Plan(b, both) # << >>
           /\ Len(Plan(b, both)) = IF both THEN S + S ELSE S
           /\ \A i \in 1 .. S : Plan(b, both)[i] = <<b, i - 1>>
           /\ both => \A i \in 1 .. S : Plan(b, both)[S + i] = <<1 - b, i - 1>>
<1>. DEFINE x == OneBlock(b)
            y == IF both THEN OneBlock(1 - b) ELSE << >>
<1>0. S \in Nat \ {0} /\ 1 - b \in 0 .. 1
    BY DDAssumption DEF S
<1>1. x \in Seq(Places) /\ y \in Seq(Places)
    BY <1>0, OneBlockType
<1>2. DOMAIN x = 1 .. S /\ DOMAIN y = IF both THEN 1 .. S ELSE {}
    BY DEF OneBlock
<1>3. Len(x) = S /\ Len(y) = IF both THEN S ELSE 0
    BY <1>0, <1>1, <1>2
<1>4. (\A i \in 1 .. S : x[i] = <<b, i - 1>>) /\ (both => \A i \in 1 .. S : y[i] = <<1 - b, i - 1>>)
    BY DEF OneBlock
<1>5. Plan(b, both) = x \o y
    BY DEF Plan
<1>. HIDE DEF x, y
<1>6. /\ x \o y \in Seq(Places) /\ Len(x \o y) = Len(x) + Len(y)
      /\ \A i \in 1 .. Len(x) + Len(y) :
             (x \o y)[i] = IF i <= Len(x) THEN x[i] ELSE y[i - Len(x)]
    BY <1>1
<1>7. \A i \in 1 .. S : (x \o y)[i] = <<b, i - 1>>
    BY <1>0, <1>3, <1>4, <1>6
<1>8. ASSUME both, NEW i \in 1 .. S
      PROVE  (x \o y)[S + i] = <<1 - b, i - 1>>
    <2>. DEFINE j == S + i
    <2>1. j \in 1 .. Len(x) + Len(y) /\ ~(j <= Len(x)) /\ j - Len(x) = i
        BY <1>0, <1>3, <1>8
    <2>. HIDE DEF j
    <2>2. (x \o y)[j] = y[j - Len(x)]
        BY <1>6, <2>1
    <2>3. y[i] = <<1 - b, i - 1>>
        BY <1>4, <1>8
    <2>4. (x \o y)[j] = <<1 - b, i - 1>>
        BY <2>1, <2>2, <2>3
    <2>. QED  BY <2>4 DEF j
<1>9. Len(x \o y) = (IF both THEN S + S ELSE S) /\ Len(x \o y) > 0
    BY <1>0, <1>3, <1>6
<1>10. x \o y # << >>
    BY <1>9
<1>. QED  BY <1>5, <1>6, <1>7, <1>8, <1>9, <1>10

(* The n-th sector asked for is the one at which a transfer is. *)
LEMMA PlaceInPlan ==
    ASSUME NEW d \in Controllers, NEW b \in 0 .. 1, NEW both \in BOOLEAN, NEW n \in 1 .. S,
           Block(d) # b => both
    PROVE  /\ Before(d, b) + n \in 1 .. Len(Plan(b, both))
           /\ Plan(b, both)[Before(d, b) + n] = <<Block(d), n - 1>>
<1>0. S \in Nat \ {0} /\ Block(d) \in 0 .. 1
    BY Fields, DDAssumption DEF S, Places, Block
<1>1. CASE Block(d) = b
    BY <1>0, <1>1, PlanFacts, SMTT(30) DEF Before
<1>2. CASE Block(d) # b
    <2>1. Block(d) = 1 - b /\ both
        BY <1>0, <1>2
    <2>2. Before(d, b) = S
        BY <1>2 DEF Before
    <2>3. Len(Plan(b, both)) = S + S
        BY <2>1, PlanFacts
    <2>4. Plan(b, both)[S + n] = <<1 - b, n - 1>>
        BY <2>1, PlanFacts
    <2>5. S + n \in 1 .. (S + S)
        BY <1>0
    <2>. QED  BY <2>1, <2>2, <2>3, <2>4, <2>5, Zenon
<1>. QED  BY <1>1, <1>2

-----------------------------------------------------------------------------
(* The operators again, for the order of sectors. *)

(* What Order depends on. *)
Kept(d, r) ==
    /\ r.bm = d.bm /\ r.sector = d.sector /\ r.track = d.track /\ r.write = d.write
    /\ r.buf = d.buf
    /\ SameBit(d, r, "DATA_RQ") /\ SameBit(d, r, "WR_PR_ERR")

LEMMA KeptOrder ==
    ASSUME NEW d, NEW r, NEW p, NEW g, Kept(d, r), Order(d, p, g)
    PROVE  Order(r, p, g)
<1>1. Block(r) = Block(d) /\ Sector(r) = Sector(d)
    BY DEF Kept, Block, Sector
<1>2. \A b, both : Follows(d, g, b, both) => Follows(r, g, b, both)
    BY <1>1, ZenonT(30) DEF Kept, Follows, Reading, Writing, Finished, Before, SameBit
<1>3. Moving(d, g) => Moving(r, g)
    BY <1>2, Zenon DEF Moving
<1>. QED  BY <1>3, Zenon DEF Kept, Order, Unwarned, SameBit

LEMMA MotorKeeps ==
    ASSUME NEW d, NEW r, Motor(d, r)
    PROVE  Kept(d, r)
<1>1. ASSUME NEW b, b \notin {"MTR_N_SPIN", "HEAD_RTRCT"}
      PROVE  b \in r.status <=> b \in d.status
    BY <1>1 DEF Motor
<1>. QED  BY <1>1 DEF Motor, Same, Kept, SameBit

LEMMA SameKeeps ==
    ASSUME NEW d, NEW r, Same(d, r),
           r.status = d.status \/ \E x \in {"BM_INT", "MECHA_INT", "BUSY_STATE"} :
                                      r.status = d.status \ {x} \/ r.status = d.status \cup {x}
    PROVE  Kept(d, r)
BY DEF Same, Kept, SameBit

LEMMA KeptTransitive ==
    ASSUME NEW d, NEW c, NEW r, Kept(d, c), Kept(c, r)
    PROVE  Kept(d, r)
BY DEF Kept, SameBit

(* No command leaves a warning on a plain track: a seek clears WR_PR_ERR   *)
(* before it tests the new track.                                          *)
LEMMA CommandUnwarned ==
    ASSUME NEW d \in Controllers, NEW c \in Commands, Unwarned(d)
    PROVE  Unwarned(command(d, c))
<1>. DEFINE b == Set(d, {"BUSY_STATE"})
            e == Effect(b, c)
<1>1. b \in Controllers /\ Kept(d, b)
    BY SetFacts, SameKeeps DEF StatusBits, Same
<1>2. Unwarned(b)
    BY <1>1 DEF Unwarned, Kept, SameBit
<1>3. command(d, c) = add_event(e, "MC")
    BY DEF command
<1>. HIDE DEF b
<1>4. c.track \in TrackKinds
    BY DDAssumption DEF Commands, TrackKinds
<1>5. ASSUME NEW write \in BOOLEAN
      PROVE  Seek(b, c.track, write) \in Controllers /\ Unwarned(Seek(b, c.track, write))
    <2>. DEFINE a == dd_dv_active(b)
                m == [a EXCEPT !.track = c.track, !.write = write]
                k == Clear(m, {"WR_PR_ERR"})
                w == Set(k, {"WR_PR_ERR"})
    <2>1. a \in Controllers
        BY <1>1, ActiveMotor DEF Motor, Same
    <2>2. Seek(b, c.track, write) = IF write /\ c.track \in Protected THEN w ELSE k
        BY DEF Seek
    <2>. HIDE DEF a
    <2>3. m \in Controllers /\ m.track = c.track
        BY <1>4, <2>1 DEF Controllers
    <2>. HIDE DEF m
    <2>4. k \in Controllers /\ k.track = c.track /\ k.status = m.status \ {"WR_PR_ERR"}
        BY <2>3, ClearFacts DEF Same
    <2>. HIDE DEF k
    <2>5. w \in Controllers /\ w.track = c.track
        BY <2>4, SetFacts DEF Same, StatusBits
    <2>. HIDE DEF w
    <2>. QED  BY <2>2, <2>4, <2>5 DEF Unwarned, Protected
<1>6. Rezero(b) \in Controllers /\ Unwarned(Rezero(b))
    <2>. DEFINE a == dd_dv_active(b)
    <2>1. a \in Controllers
        BY <1>1, ActiveMotor DEF Motor, Same
    <2>2. Rezero(b) = [a EXCEPT !.track = "zero", !.write = TRUE]
        BY DEF Rezero
    <2>. HIDE DEF a
    <2>3. Rezero(b) \in Controllers /\ Rezero(b).track = "zero"
        BY <2>1, <2>2 DEF Controllers, TrackKinds
    <2>. QED  BY <2>3 DEF Unwarned
<1>7. ASSUME NEW r, Motor(b, r)
      PROVE  r \in Controllers /\ Unwarned(r)
    BY <1>2, <1>7, MotorKeeps DEF Unwarned, Kept, SameBit, Motor, Same
<1>8. /\ dd_dv_sleep(b) \in Controllers /\ Unwarned(dd_dv_sleep(b))
      /\ dd_dv_standby(b) \in Controllers /\ Unwarned(dd_dv_standby(b))
    BY <1>1, <1>7, SleepMotor, StandbyMotor
<1>9. ASSUME NEW z \in BOOLEAN
      PROVE  /\ [b EXCEPT !.standby = z] \in Controllers /\ Unwarned([b EXCEPT !.standby = z])
             /\ [b EXCEPT !.sleep = z] \in Controllers /\ Unwarned([b EXCEPT !.sleep = z])
    BY <1>1, <1>2 DEF Controllers, Unwarned
<1>10. c.name \in {"seek_read", "seek_write", "rezero", "sleep", "standby", "other",
                   "set_standby", "clear_standby", "set_sleep", "clear_sleep"}
    BY DEF Commands
<1>11. e \in Controllers /\ Unwarned(e)
    BY <1>1, <1>2, <1>5, <1>6, <1>8, <1>9, <1>10 DEF Effect
<1>. HIDE DEF e
<1>12. Same(e, add_event(e, "MC")) /\ add_event(e, "MC").status = e.status
    BY <1>11, AddFacts DEF Events
<1>. QED  BY <1>3, <1>11, <1>12 DEF Unwarned, Same

(* A store that starts the BM of a drive at rest. *)
LEMMA StartFacts ==
    ASSUME NEW d \in Controllers, NEW v \in Stores,
           ~v.reset, ~v.mecha, v.start, d.bm = {}, ~d.held
    PROVE  LET r == bm_status_ctl(d, v)
           IN  /\ r.sector = v.sector /\ "RUNNING" \in r.bm
               /\ "BLOCK" \in r.bm <=> v.both
<1>. DEFINE s == [d EXCEPT !.sector = v.sector]
            o == [s EXCEPT !.bm = s.bm \cup {"BLOCK"}]
            b == IF v.both THEN o ELSE s
            y == DropLine(b)
            g == [y EXCEPT !.bm = y.bm \cup {"RUNNING"}]
<1>1. v.sector \in Places /\ v.both \in BOOLEAN
    BY DDAssumption DEF Stores
<1>2. MechaReset(s, v) = s
    BY DEF MechaReset
<1>3. s \in Controllers /\ s.sector = v.sector /\ s.bm = {} /\ ~s.held
    BY <1>1 DEF Controllers
<1>4. /\ b \in Controllers /\ b.sector = v.sector /\ ~b.held
      /\ "BLOCK" \in b.bm <=> v.both
    <2>. HIDE DEF s
    <2>1. o \in Controllers /\ o.sector = s.sector /\ o.held = s.held /\ "BLOCK" \in o.bm
        BY <1>3 DEF Controllers, BMBits
    <2>. HIDE DEF o
    <2>. QED  BY <1>1, <1>3, <2>1
<1>5. BMReset(b, v) = b
    BY <1>4 DEF BMReset
<1>6. bm_status_ctl(d, v) = add_event(g, "BM")
    BY <1>2, <1>5 DEF bm_status_ctl, BMStart
<1>. HIDE DEF b
<1>7. Same(b, y) /\ y \in Controllers
    <2>1. Same(b, b)
        BY <1>4 DEF Same
    <2>2. Same(b, clear_dd_interrupt(b, "BM_INT"))
        BY <1>4, ClearLineFacts DEF StatusBits
    <2>. QED  BY <2>1, <2>2 DEF DropLine, Same
<1>. HIDE DEF y
<1>8. g \in Controllers /\ g.sector = y.sector /\ g.bm = y.bm \cup {"RUNNING"}
    BY <1>7 DEF Controllers, BMBits
<1>. HIDE DEF g
<1>9. Same(g, add_event(g, "BM"))
    BY <1>8, AddFacts DEF Events
<1>. QED  BY <1>4, <1>6, <1>7, <1>8, <1>9 DEF Same

(* What dd_update_bm does after the step itself, from t to r. *)
LEMMA UpdateKeeps ==
    ASSUME NEW d \in Controllers, "RUNNING" \in d.bm
    PROVE  LET c == Clear(d, {"DATA_RQ", "C2_XFER"})
               t == IF d.write THEN WriteStep(c) ELSE ReadStep(c)
               r == dd_update_bm(d)
           IN  /\ Kept(t, r) /\ r.track = d.track /\ r.write = d.write
               /\ SameBit(d, r, "WR_PR_ERR")
               /\ Same(d, c) /\ c.status = d.status \ {"DATA_RQ", "C2_XFER"}
<1>. DEFINE c == Clear(d, {"DATA_RQ", "C2_XFER"})
            t == IF d.write THEN WriteStep(c) ELSE ReadStep(c)
            m == dd_dv_active(t)
<1>1. dd_update_bm(d) = signal_dd_interrupt(m, "BM_INT")
    BY DEF dd_update_bm
<1>2. Same(d, c) /\ c.status = d.status \ {"DATA_RQ", "C2_XFER"}
    BY ClearFacts
<1>3. Step(d, c) /\ c \in Controllers
    BY ClearStep DEF Step
<1>4. Step(c, t)
    BY <1>3, WriteStepFacts, ReadStepFacts
<1>5. Step(d, t) /\ t \in Controllers
    BY <1>3, <1>4, StepTransitive DEF Step
<1>. HIDE DEF c, t
<1>6. Motor(t, m) /\ m \in Controllers
    BY <1>5, ActiveMotor DEF Motor, Same
<1>. HIDE DEF m
<1>7. Kept(t, m)
    BY <1>6, MotorKeeps
<1>8. Kept(m, dd_update_bm(d))
    BY <1>1, <1>6, SignalFacts, SameKeeps DEF StatusBits
<1>9. Kept(t, dd_update_bm(d))
    BY <1>7, <1>8, KeptTransitive
<1>10. t.track = d.track /\ t.write = d.write /\ SameBit(d, t, "WR_PR_ERR")
    BY <1>5, StepBits DEF Step
<1>11. /\ dd_update_bm(d).track = d.track /\ dd_update_bm(d).write = d.write
       /\ SameBit(d, dd_update_bm(d), "WR_PR_ERR")
    BY <1>9, <1>10 DEF Kept, SameBit
<1>. QED  BY <1>2, <1>9, <1>11 DEF c, t

(* The step of the BM on a plain track, sector by sector. *)
LEMMA ReadPlain ==
    ASSUME NEW d \in Controllers, "RUNNING" \in d.bm, d.track = "plain", ~d.write
    PROVE  LET r == dd_update_bm(d)
           IN  /\ Sector(d) < S => /\ r.sector = <<Block(d), Sector(d) + 1>> /\ r.bm = d.bm
                                   /\ r.buf = d.sector /\ "DATA_RQ" \in r.status
               /\ Sector(d) \in S .. (S + 2) =>
                      /\ r.sector = <<Block(d), Sector(d) + 1>> /\ r.bm = d.bm
                      /\ "DATA_RQ" \notin r.status
               /\ Sector(d) = S + 3 /\ "BLOCK" \in d.bm =>
                      /\ r.sector = <<1 - Block(d), 0>> /\ r.bm = d.bm \ {"BLOCK"}
                      /\ "DATA_RQ" \notin r.status
               /\ Sector(d) = S + 3 /\ "BLOCK" \notin d.bm =>
                      "RUNNING" \notin r.bm /\ "DATA_RQ" \notin r.status
<1>. DEFINE c == Clear(d, {"DATA_RQ", "C2_XFER"})
            e == Set(c, {"C2_XFER"})
            w == read_sector(c)
            t == ReadStep(c)
            r == dd_update_bm(d)
<1>0. d.sector \in Places /\ Sector(d) \in 0 .. (S + 4) /\ S \in Nat \ {0}
    BY Fields, DDAssumption DEF Places, Sector, S
<1>1. Kept(t, r) /\ Same(d, c) /\ c.status = d.status \ {"DATA_RQ", "C2_XFER"}
    BY UpdateKeeps
<1>. HIDE DEF r, c
<1>2. /\ c \in Controllers /\ c.track = "plain" /\ Sector(c) = Sector(d) /\ Block(c) = Block(d)
      /\ c.bm = d.bm /\ c.sector = d.sector /\ "DATA_RQ" \notin c.status
    BY <1>1 DEF Same, Sector, Block
<1>3. w = [c EXCEPT !.buf = c.sector]
    BY <1>2 DEF read_sector, SeekFails
<1>. HIDE DEF w
<1>4. /\ w \in Controllers /\ w.sector = d.sector /\ w.bm = d.bm /\ w.buf = d.sector
      /\ Sector(w) = Sector(d) /\ Block(w) = Block(d)
    <2>1. c.sector \in Places
        BY <1>2, Fields
    <2>. QED  BY <1>2, <1>3, <2>1 DEF Controllers, Sector, Block
<1>5. CASE Sector(d) < S
    <2>1. t = Set(NextSector(w), {"DATA_RQ"})
        BY <1>0, <1>2, <1>3, <1>5 DEF ReadStep, read_sector, SeekFails, w
    <2>. DEFINE n == NextSector(w)
    <2>2. n \in Controllers
        BY <1>0, <1>4, <1>5, NextStep DEF Step
    <2>3. n.sector = <<Block(d), Sector(d) + 1>> /\ n.bm = d.bm /\ n.buf = d.sector
        BY <1>4 DEF NextSector, Controllers
    <2>. HIDE DEF n
    <2>4. Same(n, t) /\ t.status = n.status \cup {"DATA_RQ"}
        BY <2>1, <2>2, SetFacts DEF n, StatusBits
    <2>. HIDE DEF t
    <2>. QED  BY <1>0, <1>1, <1>5, <2>3, <2>4 DEF Same, Kept, SameBit, r
<1>6. CASE Sector(d) \in S .. (S + 2)
    <2>1. t = NextSector(c)
        BY <1>0, <1>2, <1>6 DEF ReadStep
    <2>. HIDE DEF t
    <2>2. t.sector = <<Block(d), Sector(d) + 1>> /\ t.bm = d.bm /\ t.status = c.status
        BY <1>2, <2>1 DEF NextSector, Controllers
    <2>. QED  BY <1>0, <1>1, <1>2, <1>6, <2>2 DEF Kept, SameBit, r
<1>7. CASE Sector(d) = S + 3
    <2>1. t = IF "BLOCK" \in d.bm THEN Continue(e, 0) ELSE Stop(e)
        BY <1>0, <1>2, <1>7 DEF ReadStep, e
    <2>2. e \in Controllers /\ Same(c, e) /\ e.status = c.status \cup {"C2_XFER"}
        BY <1>2, SetFacts DEF Same, StatusBits
    <2>. HIDE DEF t, e
    <2>3. Block(e) = Block(d) /\ e.bm = d.bm /\ "DATA_RQ" \notin e.status
        BY <1>2, <2>2 DEF Same, Block
    <2>4. CASE "BLOCK" \in d.bm
        <3>1. t.sector = <<1 - Block(d), 0>> /\ t.bm = d.bm \ {"BLOCK"} /\ t.status = e.status
            BY <2>1, <2>2, <2>3, <2>4 DEF Continue, OtherBlock, Controllers
        <3>. QED  BY <1>0, <1>1, <1>7, <2>3, <2>4, <3>1 DEF Kept, SameBit, r
    <2>5. CASE "BLOCK" \notin d.bm
        <3>1. "RUNNING" \notin t.bm /\ t.status = e.status
            BY <2>1, <2>2, <2>3, <2>5 DEF Stop, Controllers
        <3>. QED  BY <1>0, <1>1, <1>7, <2>3, <2>5, <3>1 DEF Kept, SameBit, r
    <2>. QED  BY <2>4, <2>5
<1>8. CASE Sector(d) > S + 3
    BY <1>0, <1>8
<1>. QED  BY <1>0, <1>5, <1>6, <1>7, <1>8

LEMMA WritePlain ==
    ASSUME NEW d \in Controllers, "RUNNING" \in d.bm, d.track = "plain", d.write,
           "WR_PR_ERR" \notin d.status
    PROVE  LET r == dd_update_bm(d)
           IN  /\ r.buf = d.buf
               /\ Sector(d) < S => /\ r.sector = <<Block(d), Sector(d) + 1>> /\ r.bm = d.bm
                                   /\ "DATA_RQ" \in r.status
               /\ Sector(d) = S /\ "BLOCK" \in d.bm =>
                      /\ r.sector = <<1 - Block(d), 1>> /\ r.bm = d.bm \ {"BLOCK"}
                      /\ "DATA_RQ" \in r.status
               /\ Sector(d) = S /\ "BLOCK" \notin d.bm =>
                      "RUNNING" \notin r.bm /\ "DATA_RQ" \notin r.status
<1>. DEFINE c == Clear(d, {"DATA_RQ", "C2_XFER"})
            t == WriteStep(c)
            r == dd_update_bm(d)
<1>0. d.sector \in Places /\ Sector(d) \in 0 .. (S + 4) /\ S \in Nat \ {0}
    BY Fields, DDAssumption DEF Places, Sector, S
<1>1. Kept(t, r) /\ Same(d, c) /\ c.status = d.status \ {"DATA_RQ", "C2_XFER"}
    BY UpdateKeeps
<1>. HIDE DEF r, c
<1>2. /\ c \in Controllers /\ c.track = "plain" /\ Sector(c) = Sector(d) /\ Block(c) = Block(d)
      /\ c.bm = d.bm /\ c.sector = d.sector /\ c.buf = d.buf
      /\ "DATA_RQ" \notin c.status /\ "WR_PR_ERR" \notin c.status
    BY <1>1 DEF Same, Sector, Block
<1>3. write_sector(c) = c
    BY <1>2 DEF write_sector, SeekFails
<1>4. /\ NextSector(c).sector = <<Block(d), Sector(d) + 1>> /\ NextSector(c).bm = d.bm
      /\ NextSector(c).buf = d.buf /\ NextSector(c).status = c.status
    BY <1>2 DEF NextSector, Controllers
<1>5. CASE Sector(d) < S
    <2>1. t = Set(NextSector(c), {"DATA_RQ"})
        BY <1>0, <1>2, <1>3, <1>5 DEF WriteStep
    <2>2. NextSector(c) \in Controllers
        BY <1>0, <1>2, <1>5, NextStep DEF Step
    <2>3. Same(NextSector(c), t) /\ t.status = NextSector(c).status \cup {"DATA_RQ"}
        BY <2>1, <2>2, SetFacts DEF StatusBits
    <2>. HIDE DEF t
    <2>. QED  BY <1>0, <1>1, <1>4, <1>5, <2>3 DEF Same, Kept, SameBit, r
<1>6. CASE Sector(d) = S /\ "BLOCK" \in d.bm
    <2>1. t = Set(Continue(c, 1), {"DATA_RQ"})
        BY <1>0, <1>2, <1>3, <1>6 DEF WriteStep
    <2>2. Continue(c, 1) \in Controllers
        BY <1>2, ContinueStep DEF Step
    <2>3. Same(Continue(c, 1), t) /\ t.status = Continue(c, 1).status \cup {"DATA_RQ"}
        BY <2>1, <2>2, SetFacts DEF StatusBits
    <2>4. /\ Continue(c, 1).sector = <<1 - Block(d), 1>> /\ Continue(c, 1).bm = d.bm \ {"BLOCK"}
          /\ Continue(c, 1).buf = d.buf
        BY <1>2 DEF Continue, OtherBlock, Controllers
    <2>. HIDE DEF t
    <2>. QED  BY <1>0, <1>1, <1>6, <2>3, <2>4 DEF Same, Kept, SameBit, r
<1>7. CASE Sector(d) = S /\ "BLOCK" \notin d.bm
    <2>1. t = Stop(NextSector(c))
        BY <1>0, <1>2, <1>3, <1>7 DEF WriteStep
    <2>. DEFINE n == NextSector(c)
    <2>2. n \in Controllers
        BY <1>0, <1>2, <1>7, NextStep DEF Step
    <2>. HIDE DEF n
    <2>3. "RUNNING" \notin Stop(n).bm /\ Stop(n).status = n.status /\ Stop(n).buf = n.buf
        BY <2>2 DEF Stop, Controllers
    <2>. HIDE DEF t
    <2>. QED  BY <1>0, <1>1, <1>2, <1>4, <1>7, <2>1, <2>3 DEF Kept, SameBit, r, n
<1>8. CASE Sector(d) > S
    <2>1. t = c
        BY <1>0, <1>2, <1>3, <1>8 DEF WriteStep
    <2>. HIDE DEF t
    <2>. QED  BY <1>0, <1>1, <1>2, <1>8, <2>1 DEF Kept, r
<1>. QED  BY <1>0, <1>5, <1>6, <1>7, <1>8

(* A step of the BM follows the plan: g is the transfer before it, h after *)
(* it.                                                                     *)
LEMMA ReadFollows ==
    ASSUME NEW d \in Controllers, "RUNNING" \in d.bm, d.track = "plain", ~d.write,
           NEW g \in Transfers, ~g.owed, NEW b \in 0 .. 1, NEW both \in BOOLEAN,
           g.asked = Plan(b, both), Follows(d, g, b, both),
           NEW r, r = dd_update_bm(d),
           NEW h, h.asked = g.asked, h.moved = g.moved, h.owed <=> "DATA_RQ" \in r.status
    PROVE  Follows(r, h, b, both)
<1>0. /\ S \in Nat \ {0} /\ d.sector \in Places /\ Block(d) \in 0 .. 1 /\ Len(g.moved) \in Nat
    BY Fields, TransferFields, DDAssumption DEF S, Places, Block
<1>1. /\ Block(d) # b => both
      /\ "BLOCK" \in d.bm <=> both /\ Block(d) = b
      /\ Sector(d) \in 0 .. (S + 3)
      /\ Len(g.moved) = Before(d, b) + (IF Sector(d) < S THEN Sector(d) ELSE S)
    <2>1. Owing(g) = 0
        BY DEF Owing
    <2>2. Reading(d, g, b)
        BY DEF Follows
    <2>. QED  BY <1>0, <2>1, <2>2 DEF Follows, Reading
<1>2. r.write = d.write
    BY UpdateKeeps
<1>3. CASE Sector(d) < S
    <2>1. /\ r.sector = <<Block(d), Sector(d) + 1>> /\ r.bm = d.bm
          /\ r.buf = d.sector /\ h.owed
        BY <1>3, ReadPlain
    <2>2. Block(r) = Block(d) /\ Sector(r) = Sector(d) + 1 /\ Before(r, b) = Before(d, b)
        BY <2>1 DEF Block, Sector, Before
    <2>. DEFINE n == Sector(d) + 1
    <2>3. n \in 1 .. S /\ n - 1 = Sector(d) /\ Len(g.moved) + 1 = Before(d, b) + n
        BY <1>0, <1>1, <1>3, SMTT(30) DEF Before
    <2>4. Plan(b, both)[Before(d, b) + n] = <<Block(d), n - 1>>
        BY <1>1, <2>3, PlaceInPlan
    <2>. HIDE DEF n
    <2>5. d.sector = <<Block(d), Sector(d)>>
        BY <1>0 DEF Places, Block, Sector
    <2>6. r.buf = h.asked[Len(h.moved) + 1]
        BY <2>1, <2>3, <2>4, <2>5
    <2>7. Owing(h) = 1
        BY <2>1 DEF Owing
    <2>8. Len(h.moved) + 1 = Before(r, b) + (IF Sector(r) < S THEN Sector(r) ELSE S)
        BY <1>0, <1>1, <1>3, <2>2 DEF Before
    <2>9. Reading(r, h, b)
        BY <1>0, <1>1, <1>3, <2>2, <2>6, <2>7, <2>8 DEF Reading
    <2>. QED  BY <1>1, <1>2, <2>1, <2>2, <2>9 DEF Follows
<1>4. CASE Sector(d) \in S .. (S + 2)
    <2>1. r.sector = <<Block(d), Sector(d) + 1>> /\ r.bm = d.bm /\ ~h.owed
        BY <1>4, ReadPlain
    <2>2. Block(r) = Block(d) /\ Sector(r) = Sector(d) + 1 /\ Before(r, b) = Before(d, b)
        BY <2>1 DEF Block, Sector, Before
    <2>3. Owing(h) = 0
        BY <2>1 DEF Owing
    <2>4. Reading(r, h, b)
        BY <1>0, <1>1, <1>4, <2>1, <2>2, <2>3 DEF Reading
    <2>. QED  BY <1>1, <1>2, <2>1, <2>2, <2>4 DEF Follows
<1>5. CASE Sector(d) = S + 3 /\ "BLOCK" \in d.bm
    <2>1. r.sector = <<1 - Block(d), 0>> /\ r.bm = d.bm \ {"BLOCK"} /\ ~h.owed
        BY <1>5, ReadPlain
    <2>2. /\ Block(r) = 1 - b /\ Sector(r) = 0 /\ Before(r, b) = S
          /\ Before(d, b) = 0 /\ Block(r) # b /\ both
        BY <1>1, <1>5, <2>1 DEF Block, Sector, Before
    <2>3. Owing(h) = 0
        BY <2>1 DEF Owing
    <2>4. Len(g.moved) = S
        BY <1>0, <1>1, <1>5, <2>2
    <2>5. Len(h.moved) + Owing(h) = Before(r, b) + (IF Sector(r) < S THEN Sector(r) ELSE S)
        BY <1>0, <2>2, <2>3, <2>4
    <2>6. Sector(r) \in 0 .. (S + 3)
        BY <1>0, <2>2
    <2>7. Reading(r, h, b)
        BY <2>1, <2>5, <2>6, Zenon DEF Reading
    <2>8. "RUNNING" \in r.bm /\ "BLOCK" \notin r.bm
        BY <2>1
    <2>. QED  BY <1>2, <2>2, <2>7, <2>8 DEF Follows
<1>6. CASE Sector(d) = S + 3 /\ "BLOCK" \notin d.bm
    <2>1. "RUNNING" \notin r.bm /\ "DATA_RQ" \notin r.status /\ ~h.owed
        BY <1>6, ReadPlain
    <2>2. Len(g.moved) = Len(g.asked)
        <3>1. Len(Plan(b, both)) = IF both THEN S + S ELSE S
            BY PlanFacts
        <3>. QED  BY <1>0, <1>1, <1>6, <3>1 DEF Before
    <2>. QED  BY <2>1, <2>2 DEF Follows, Finished
<1>. QED  BY <1>0, <1>1, <1>3, <1>4, <1>5, <1>6

LEMMA WriteFollows ==
    ASSUME NEW d \in Controllers, "RUNNING" \in d.bm, d.track = "plain", d.write,
           "WR_PR_ERR" \notin d.status,
           NEW g \in Transfers, ~g.owed, NEW b \in 0 .. 1, NEW both \in BOOLEAN,
           g.asked = Plan(b, both), Follows(d, g, b, both),
           NEW r, r = dd_update_bm(d),
           NEW h, h.asked = g.asked, h.supplied = g.supplied, h.owed <=> "DATA_RQ" \in r.status,
           Len(h.moved) = IF Sector(d) = 0 THEN Len(g.moved) ELSE Len(g.moved) + 1
    PROVE  Follows(r, h, b, both)
<1>0. /\ S \in Nat \ {0} /\ d.sector \in Places /\ Block(d) \in 0 .. 1
      /\ Len(g.moved) \in Nat /\ g.supplied \in Nat
    BY Fields, TransferFields, DDAssumption DEF S, Places, Block
<1>1. /\ Block(d) # b => both
      /\ "BLOCK" \in d.bm <=> both /\ Block(d) = b
      /\ Sector(d) \in 0 .. S /\ (Sector(d) = 0 => Block(d) = b)
      /\ g.supplied = Before(d, b) + Sector(d)
      /\ Len(g.moved) = IF Sector(d) = 0 THEN 0 ELSE Before(d, b) + Sector(d) - 1
    <2>1. Owing(g) = 0
        BY DEF Owing
    <2>2. Writing(d, g, b)
        BY DEF Follows
    <2>. QED  BY <1>0, <2>1, <2>2 DEF Follows, Writing
<1>2. r.write = d.write
    BY UpdateKeeps
<1>3. Len(h.moved) = IF Sector(d) = 0 THEN 0 ELSE Before(d, b) + Sector(d)
    BY <1>0, <1>1 DEF Before
<1>4. CASE Sector(d) < S
    <2>1. r.sector = <<Block(d), Sector(d) + 1>> /\ r.bm = d.bm /\ h.owed
        BY <1>4, WritePlain
    <2>2. Block(r) = Block(d) /\ Sector(r) = Sector(d) + 1 /\ Before(r, b) = Before(d, b)
        BY <2>1 DEF Block, Sector, Before
    <2>3. Owing(h) = 1
        BY <2>1 DEF Owing
    <2>4. Len(h.moved) = Before(r, b) + Sector(r) - 1
        BY <1>0, <1>1, <1>3, <2>2 DEF Before
    <2>5. Sector(r) \in 0 .. S /\ Sector(r) # 0
        BY <1>0, <1>1, <1>4, <2>2
    <2>6. Before(d, b) \in Nat
        BY <1>0 DEF Before
    <2>7. h.supplied + Owing(h) = Before(r, b) + Sector(r)
        BY <1>0, <1>1, <2>2, <2>3, <2>6
    <2>8. Writing(r, h, b)
        BY <2>1, <2>4, <2>5, <2>7, Zenon DEF Writing
    <2>. QED  BY <1>1, <1>2, <2>1, <2>2, <2>8 DEF Follows
<1>5. CASE Sector(d) = S /\ "BLOCK" \in d.bm
    <2>1. r.sector = <<1 - Block(d), 1>> /\ r.bm = d.bm \ {"BLOCK"} /\ h.owed
        BY <1>5, WritePlain
    <2>2. /\ Block(r) = 1 - b /\ Sector(r) = 1 /\ Before(r, b) = S
          /\ Before(d, b) = 0 /\ Block(r) # b /\ both
        BY <1>1, <1>5, <2>1 DEF Block, Sector, Before
    <2>3. Owing(h) = 1
        BY <2>1 DEF Owing
    <2>4. Writing(r, h, b)
        BY <1>0, <1>1, <1>3, <1>5, <2>1, <2>2, <2>3 DEF Writing
    <2>5. "RUNNING" \in r.bm /\ "BLOCK" \notin r.bm
        BY <2>1
    <2>. QED  BY <1>2, <2>2, <2>4, <2>5 DEF Follows
<1>6. CASE Sector(d) = S /\ "BLOCK" \notin d.bm
    <2>1. "RUNNING" \notin r.bm /\ "DATA_RQ" \notin r.status /\ ~h.owed
        BY <1>6, WritePlain
    <2>2. Len(h.moved) = Len(h.asked)
        <3>1. Len(Plan(b, both)) = IF both THEN S + S ELSE S
            BY PlanFacts
        <3>. QED  BY <1>0, <1>1, <1>3, <1>6, <3>1 DEF Before
    <2>. QED  BY <2>1, <2>2 DEF Follows, Finished
<1>. QED  BY <1>0, <1>1, <1>4, <1>5, <1>6

(* A sector that is moved to its place at the end of the history. *)
LEMMA AppendInPlace ==
    ASSUME NEW g \in Transfers, InPlace(g), NEW x \in Contents, NEW y \in Contents,
           x = g.asked[Len(g.moved) + 1], y = x,
           NEW h, h.asked = g.asked, h.moved = Append(g.moved, <<x, y>>)
    PROVE  InPlace(h) /\ Len(h.moved) = Len(g.moved) + 1
<1>1. g.moved \in Seq(Contents \X Contents)
    BY TransferFields
<1>. DEFINE m == g.moved
            z == <<x, y>>
<1>2. z \in Contents \X Contents
    OBVIOUS
<1>. HIDE DEF m, z
<1>3. /\ Len(Append(m, z)) = Len(m) + 1 /\ Len(m) \in Nat
      /\ \A i \in 1 .. Len(m) : Append(m, z)[i] = m[i]
      /\ Append(m, z)[Len(m) + 1] = z
    BY <1>1, <1>2 DEF m
<1>4. \A i \in 1 .. Len(m) : m[i] = <<g.asked[i], g.asked[i]>>
    BY DEF InPlace, m
<1>5. ASSUME NEW i \in 1 .. Len(m) + 1
      PROVE  Append(m, z)[i] = <<g.asked[i], g.asked[i]>>
    <2>1. CASE i = Len(m) + 1
        BY <1>3, <2>1 DEF z, m
    <2>2. CASE i # Len(m) + 1
        <3>1. i \in 1 .. Len(m)
            BY <1>3, <2>2
        <3>. QED  BY <1>3, <1>4, <3>1
    <2>. QED  BY <2>1, <2>2
<1>6. h.moved = Append(m, z) /\ Len(m) = Len(g.moved)
    BY DEF m, z
<1>. QED  BY <1>3, <1>5, <1>6 DEF InPlace

-----------------------------------------------------------------------------
(* The steps, for the order of sectors. *)

LEMMA NoTransferOrder ==
    ASSUME NEW d, NEW p, Unwarned(d)
    PROVE  Order(d, p, NoTransfer)
BY DEF Order, NoTransfer

LEMMA InitOrder == Init => Order(dd, polite, guest)
<1>1. Unwarned(poweron_dd)
    BY DEF Unwarned, poweron_dd
<1>. QED  BY <1>1, NoTransferOrder DEF Init

(* A transfer starts at the beginning of its plan. *)
LEMMA StoreOrder ==
    ASSUME IInv, Order(dd, polite, guest), NEW v \in Stores, Store(v)
    PROVE  Order(dd', polite', guest')
<1>0. dd \in Controllers
    BY DEF IInv, TypeOK
<1>1. dd' = bm_status_ctl(dd, v) /\ polite' = polite
    BY DEF Store
<1>2. dd' \in Controllers /\ dd'.track = dd.track /\ SameBit(dd, dd', "WR_PR_ERR")
    BY <1>0, <1>1, StoreFacts
<1>3. Unwarned(dd')
    BY <1>2 DEF Order, Unwarned, SameBit
<1>4. CASE ~(polite /\ v.start)
    BY <1>3, <1>4, NoTransferOrder DEF Store
<1>5. CASE polite /\ v.start
    <2>. DEFINE b == v.sector[1]
                both == v.both
    <2>1. /\ ~v.reset /\ ~v.mecha /\ v.sector[2] = 0 /\ dd.bm = {} /\ ~dd.held
        BY <1>5 DEF Store, IsReset, IsAck, IsStart, Quiet
    <2>2. b \in 0 .. 1 /\ both \in BOOLEAN
        BY DDAssumption DEF Stores, Places
    <2>3. /\ dd'.sector = v.sector /\ "RUNNING" \in dd'.bm
          /\ "BLOCK" \in dd'.bm <=> both
        BY <1>0, <1>1, <1>5, <2>1, StartFacts
    <2>4. guest' = [NoTransfer EXCEPT !.asked = Plan(b, both)]
        BY <1>5 DEF Store, Asked, Plan
    <2>5. /\ guest'.asked = Plan(b, both) /\ guest'.owed = FALSE
          /\ guest'.supplied = 0 /\ guest'.moved = << >>
        BY <2>4 DEF NoTransfer
    <2>6. Block(dd') = b /\ Sector(dd') = 0 /\ Before(dd', b) = 0 /\ Owing(guest') = 0
        BY <2>1, <2>3, <2>5 DEF Block, Sector, Before, Owing
    <2>7. S \in Nat \ {0}
        BY DDAssumption DEF S
    <2>. HIDE DEF b, both
    <2>8. Len(guest'.moved) = 0
        BY <2>5
    <2>9. Reading(dd', guest', b) /\ Writing(dd', guest', b)
        BY <2>5, <2>6, <2>7, <2>8 DEF Reading, Writing
    <2>10. Follows(dd', guest', b, both)
        BY <2>3, <2>6, <2>9 DEF Follows
    <2>11. InPlace(guest')
        BY <2>8 DEF InPlace
    <2>12. Moving(dd', guest')
        BY <2>2, <2>5, <2>10, <2>11 DEF Moving
    <2>13. guest'.asked # << >>
        BY <2>2, <2>5, PlanFacts
    <2>. QED  BY <1>1, <1>3, <1>5, <2>12, <2>13 DEF Order
<1>. QED  BY <1>4, <1>5

(* The guest copies the sector that it waits for out of the buffer. *)
LEMMA CopyOrder ==
    ASSUME IInv, Order(dd, polite, guest), dd_dom_dma_write
    PROVE  Order(dd', polite', guest')
<1>. DEFINE n == Len(guest.moved)
            x == Expected(n)
<1>0. dd \in Controllers /\ guest \in Transfers /\ dd' = dd /\ polite' = polite
    BY DEF IInv, TypeOK, dd_dom_dma_write
<1>1. guest.moved \in Seq(Contents \X Contents) /\ n \in Nat /\ x \in Contents
    BY <1>0, TransferFields, ExpectedType
<1>2. polite /\ guest.owed /\ ~dd.write
    BY DEF dd_dom_dma_write
<1>3. guest' = [guest EXCEPT !.owed = FALSE, !.moved = Append(guest.moved, <<x, dd.buf>>)]
    BY DEF dd_dom_dma_write
<1>. HIDE DEF n, x
<1>4. /\ guest'.asked = guest.asked /\ guest'.owed = FALSE
      /\ guest'.moved = Append(guest.moved, <<x, dd.buf>>)
    BY <1>0, <1>3 DEF Transfers
<1>5. guest.asked # << >>
    BY <1>2 DEF Order, NoTransfer
<1>6. CASE dd.track # "plain"
    BY <1>0, <1>2, <1>4, <1>5, <1>6 DEF Order
<1>7. CASE dd.track = "plain"
    <2>1. PICK b \in 0 .. 1, both \in BOOLEAN :
              guest.asked = Plan(b, both) /\ Follows(dd, guest, b, both)
        BY <1>5, <1>7 DEF Order, Moving
    <2>2. /\ "RUNNING" \in dd.bm /\ (Block(dd) # b => both) /\ Reading(dd, guest, b)
          /\ "BLOCK" \in dd.bm <=> both /\ Block(dd) = b
        BY <1>2, <2>1 DEF Follows, Finished
    <2>3. S \in Nat \ {0} /\ Owing(guest) = 1
        BY <1>2, DDAssumption DEF S, Owing
    <2>4. /\ Sector(dd) \in 0 .. (S + 3) /\ dd.buf = guest.asked[n + 1]
          /\ n + 1 = Before(dd, b) + (IF Sector(dd) < S THEN Sector(dd) ELSE S)
        BY <1>2, <2>2, <2>3 DEF Reading, n
    <2>5. n < Len(guest.asked)
        <3>1. Len(Plan(b, both)) = IF both THEN S + S ELSE S
            BY PlanFacts
        <3>. QED  BY <1>1, <2>1, <2>2, <2>3, <2>4, <3>1 DEF Before
    <2>6. x = guest.asked[n + 1]
        BY <2>5 DEF x, Expected
    <2>7. InPlace(guest)
        BY <1>5, <1>7 DEF Order, Moving
    <2>8. InPlace(guest') /\ Len(guest'.moved) = n + 1
        BY <1>0, <1>1, <1>4, <2>4, <2>6, <2>7, AppendInPlace DEF n
    <2>9. Owing(guest') = 0
        BY <1>4 DEF Owing
    <2>10. Reading(dd, guest', b)
        BY <1>1, <1>4, <2>3, <2>4, <2>8, <2>9 DEF Reading
    <2>11. Follows(dd, guest', b, both)
        BY <1>2, <2>2, <2>10 DEF Follows
    <2>12. Moving(dd, guest')
        BY <1>4, <2>1, <2>8, <2>11 DEF Moving
    <2>. QED  BY <1>0, <1>2, <1>4, <1>5, <2>12 DEF Order
<1>. QED  BY <1>6, <1>7

(* The guest fills the buffer with the sector that the BM waits for. *)
LEMMA FillOrder ==
    ASSUME IInv, Order(dd, polite, guest), dd_dom_dma_read
    PROVE  Order(dd', polite', guest')
<1>. DEFINE x == Expected(guest.supplied)
<1>0. dd \in Controllers /\ guest \in Transfers /\ polite' = polite
    BY DEF IInv, TypeOK, dd_dom_dma_read
<1>1. polite /\ guest.owed /\ dd.write /\ dd' = [dd EXCEPT !.buf = x]
    BY DEF dd_dom_dma_read
<1>2. guest' = [guest EXCEPT !.owed = FALSE, !.supplied = guest.supplied + 1]
    BY DEF dd_dom_dma_read
<1>. HIDE DEF x
<1>3. /\ guest'.asked = guest.asked /\ guest'.owed = FALSE /\ guest'.moved = guest.moved
      /\ guest'.supplied = guest.supplied + 1
    BY <1>0, <1>2 DEF Transfers
<1>4. /\ dd'.status = dd.status /\ dd'.bm = dd.bm /\ dd'.sector = dd.sector
      /\ dd'.track = dd.track /\ dd'.write = dd.write /\ dd'.buf = x
    BY <1>0, <1>1 DEF Controllers
<1>5. guest.asked # << >>
    BY <1>1 DEF Order, NoTransfer
<1>6. Unwarned(dd')
    BY <1>4 DEF Order, Unwarned
<1>7. CASE dd.track # "plain"
    BY <1>0, <1>1, <1>3, <1>4, <1>5, <1>6, <1>7 DEF Order
<1>8. CASE dd.track = "plain"
    <2>1. PICK b \in 0 .. 1, both \in BOOLEAN :
              guest.asked = Plan(b, both) /\ Follows(dd, guest, b, both)
        BY <1>5, <1>8 DEF Order, Moving
    <2>2. /\ "RUNNING" \in dd.bm /\ (Block(dd) # b => both) /\ Writing(dd, guest, b)
          /\ "BLOCK" \in dd.bm <=> both /\ Block(dd) = b
        BY <1>1, <2>1 DEF Follows, Finished
    <2>3. S \in Nat \ {0} /\ Owing(guest) = 1 /\ guest.supplied \in Nat
        BY <1>0, <1>1, TransferFields, DDAssumption DEF S, Owing
    <2>4. /\ Sector(dd) \in 0 .. S /\ (Sector(dd) = 0 => Block(dd) = b)
          /\ guest.supplied + 1 = Before(dd, b) + Sector(dd)
          /\ Len(guest.moved) = IF Sector(dd) = 0 THEN 0 ELSE Before(dd, b) + Sector(dd) - 1
        BY <2>2, <2>3 DEF Writing
    <2>5. guest.supplied < Len(guest.asked)
        <3>1. Len(guest.asked) = IF both THEN S + S ELSE S
            BY <2>1, PlanFacts
        <3>2. Before(dd, b) = 0 \/ (Before(dd, b) = S /\ both)
            BY <2>2 DEF Before
        <3>3. guest.supplied + 1 <= Before(dd, b) + S
            BY <2>3, <2>4, <3>2
        <3>. QED  BY <2>3, <3>1, <3>2, <3>3
    <2>6. x = guest.asked[guest.supplied + 1]
        BY <2>5 DEF x, Expected
    <2>7. Block(dd') = Block(dd) /\ Sector(dd') = Sector(dd) /\ Before(dd', b) = Before(dd, b)
        BY <1>4 DEF Block, Sector, Before
    <2>8. guest'.supplied + Owing(guest') = Before(dd', b) + Sector(dd')
        <3>1. Owing(guest') = 0
            BY <1>3 DEF Owing
        <3>. QED  BY <1>3, <2>3, <2>4, <2>7, <3>1
    <2>9. dd'.buf = guest'.asked[guest'.supplied]
        BY <1>3, <1>4, <2>6
    <2>10. Writing(dd', guest', b)
        BY <1>3, <2>4, <2>7, <2>8, <2>9, Zenon DEF Writing
    <2>11. Follows(dd', guest', b, both)
        BY <1>1, <1>4, <2>2, <2>7, <2>10 DEF Follows
    <2>12. InPlace(guest')
        BY <1>3, <1>5, <1>8 DEF Order, Moving, InPlace
    <2>13. Moving(dd', guest')
        BY <1>3, <2>1, <2>11, <2>12 DEF Moving
    <2>. QED  BY <1>0, <1>1, <1>3, <1>5, <1>6, <2>13 DEF Order
<1>. QED  BY <1>7, <1>8

(* The next step of the BM. *)
LEMMA BMOrder ==
    ASSUME IInv, Order(dd, polite, guest), dd_bm_int_handler
    PROVE  Order(dd', polite', guest')
<1>. DEFINE o == remove_event(dd, "BM")
            rq == "DATA_RQ" \in dd'.status
            m == IF Writes THEN Append(guest.moved, <<Previous, dd.buf>>) ELSE guest.moved
<1>0. dd \in Controllers /\ guest \in Transfers /\ polite' = polite
    BY DEF IInv, TypeOK, dd_bm_int_handler
<1>1. Same(dd, o) /\ o \in Controllers /\ o.status = dd.status
    BY <1>0, RemoveFacts DEF Events, Same
<1>2. dd' = dd_update_bm(o) /\ (polite => ~guest.owed)
    BY DEF dd_bm_int_handler, Pop
<1>3. /\ ~polite \/ guest.asked = << >> => guest' = guest
      /\ polite /\ guest.asked # << >> => guest' = [guest EXCEPT !.owed = rq, !.moved = m]
    BY DEF dd_bm_int_handler
<1>. HIDE DEF o
<1>4. /\ o.bm = dd.bm /\ o.sector = dd.sector /\ o.track = dd.track /\ o.write = dd.write
      /\ o.buf = dd.buf /\ Sector(o) = Sector(dd) /\ Block(o) = Block(dd)
    BY <1>1 DEF Same, Sector, Block
<1>5. dd'.track = dd.track /\ SameBit(dd, dd', "WR_PR_ERR")
    <2>1. CASE "RUNNING" \notin o.bm
        BY <1>1, <1>2, <1>4, <2>1 DEF dd_update_bm, SameBit
    <2>2. CASE "RUNNING" \in o.bm
        BY <1>1, <1>2, <1>4, <2>2, UpdateKeeps DEF SameBit
    <2>. QED  BY <2>1, <2>2
<1>6. Unwarned(dd')
    BY <1>5 DEF Order, Unwarned, SameBit
<1>7. CASE ~polite \/ guest.asked = << >>
    BY <1>0, <1>3, <1>6, <1>7, NoTransferOrder DEF Order
<1>8. CASE polite /\ guest.asked # << >>
    <2>. HIDE DEF rq, m
    <2>1. /\ guest'.asked = guest.asked /\ guest'.supplied = guest.supplied
          /\ guest'.moved = m /\ guest'.owed = rq
        BY <1>0, <1>3, <1>8 DEF Transfers
    <2>2. guest'.owed <=> "DATA_RQ" \in dd'.status
        BY <2>1 DEF rq
    <2>3. CASE dd.track # "plain"
        BY <1>0, <1>5, <1>6, <1>8, <2>1, <2>3 DEF Order
    <2>4. CASE dd.track = "plain"
        <3>1. PICK b \in 0 .. 1, both \in BOOLEAN :
                  guest.asked = Plan(b, both) /\ Follows(dd, guest, b, both)
            BY <1>8, <2>4 DEF Order, Moving
        <3>2. InPlace(guest) /\ ~guest.owed
            BY <1>2, <1>8, <2>4 DEF Order, Moving
        <3>3. Follows(o, guest, b, both)
            BY <1>1, <1>4, <3>1, Zenon DEF Follows, Reading, Writing, Finished, Before
        <3>4. CASE "RUNNING" \notin dd.bm
            <4>1. dd' = o /\ ~Writes
                BY <1>2, <1>4, <3>4 DEF dd_update_bm, Writes, Running
            <4>2. guest'.moved = guest.moved
                BY <2>1, <4>1 DEF m
            <4>3. "DATA_RQ" \notin dd'.status
                BY <1>4, <3>3, <3>4, <4>1 DEF Follows, Finished
            <4>4. Follows(dd', guest', b, both)
                BY <1>4, <2>1, <2>2, <3>3, <3>4, <4>1, <4>2, <4>3 DEF Follows, Finished
            <4>5. InPlace(guest')
                BY <2>1, <3>2, <4>2 DEF InPlace
            <4>. QED  BY <1>0, <1>6, <1>8, <2>1, <3>1, <4>4, <4>5 DEF Order, Moving
        <3>5. CASE "RUNNING" \in dd.bm /\ ~dd.write
            <4>1. guest'.moved = guest.moved
                BY <2>1, <3>5 DEF m, Writes
            <4>2. o.track = "plain" /\ ~o.write /\ "RUNNING" \in o.bm
                BY <1>4, <2>4, <3>5
            <4>3. Follows(dd', guest', b, both)
                BY <1>0, <1>1, <1>2, <2>1, <2>2, <3>1, <3>2, <3>3, <4>1, <4>2, ReadFollows
            <4>4. InPlace(guest')
                BY <2>1, <3>2, <4>1 DEF InPlace
            <4>. QED  BY <1>0, <1>6, <1>8, <2>1, <3>1, <4>3, <4>4 DEF Order, Moving
        <3>6. CASE "RUNNING" \in dd.bm /\ dd.write
            <4>1. /\ o.track = "plain" /\ o.write /\ "RUNNING" \in o.bm
                  /\ "WR_PR_ERR" \notin o.status /\ "WR_PR_ERR" \notin dd.status
                BY <1>1, <1>4, <2>4, <3>6 DEF Order, Unwarned
            <4>2. /\ S \in Nat \ {0} /\ dd.sector \in Places /\ Block(dd) \in 0 .. 1
                  /\ Len(guest.moved) \in Nat /\ dd.buf \in Contents
                BY <1>0, Fields, TransferFields, DDAssumption DEF S, Places, Block, Contents
            <4>3. /\ Sector(dd) \in 0 .. S /\ (Sector(dd) = 0 => Block(dd) = b)
                  /\ (Block(dd) # b => both)
                  /\ guest.supplied + Owing(guest) = Before(dd, b) + Sector(dd)
                  /\ Len(guest.moved) = IF Sector(dd) = 0 THEN 0
                                        ELSE Before(dd, b) + Sector(dd) - 1
                  /\ guest.supplied > 0 => dd.buf = guest.asked[guest.supplied]
                BY <3>1, <3>2, <3>6 DEF Follows, Writing
            <4>4. guest.supplied = Before(dd, b) + Sector(dd)
                <5>1. Owing(guest) = 0 /\ guest.supplied \in Nat
                    BY <1>0, <3>2, TransferFields DEF Owing
                <5>. QED  BY <4>3, <5>1
            <4>5. /\ InPlace(guest')
                  /\ Len(guest'.moved) = IF Sector(dd) = 0 THEN Len(guest.moved)
                                         ELSE Len(guest.moved) + 1
                <5>1. CASE Sector(dd) = 0
                    <6>1. ~Writes
                        BY <4>2, <5>1 DEF Writes
                    <6>. QED  BY <2>1, <3>2, <5>1, <6>1 DEF m, InPlace
                <5>2. CASE Sector(dd) # 0
                    <6>. DEFINE n == Sector(dd)
                                x == Previous
                                y == dd.buf
                    <6>1. n \in 1 .. S
                        BY <4>2, <4>3, <5>2
                    <6>2. Writes
                        BY <2>4, <3>6, <4>1, <6>1 DEF Writes, Running, SeekFails
                    <6>3. x = <<Block(dd), n - 1>> /\ x \in Contents
                        BY <4>2, <6>1 DEF Previous, Contents, Places
                    <6>4. Plan(b, both)[Before(dd, b) + n] = <<Block(dd), n - 1>>
                        BY <1>0, <4>3, <6>1, PlaceInPlan
                    <6>5. guest.supplied > 0 /\ guest.supplied = Len(guest.moved) + 1
                        BY <4>2, <4>3, <4>4, <6>1 DEF Before
                    <6>6. y = x /\ x = guest.asked[Len(guest.moved) + 1]
                        BY <3>1, <4>3, <4>4, <6>3, <6>4, <6>5
                    <6>7. guest'.moved = Append(guest.moved, <<x, y>>)
                        BY <2>1, <6>2 DEF m
                    <6>. HIDE DEF n, x, y
                    <6>8. y \in Contents
                        BY <6>3, <6>6
                    <6>9. InPlace(guest') /\ Len(guest'.moved) = Len(guest.moved) + 1
                        BY <1>0, <2>1, <3>2, <6>3, <6>6, <6>7, <6>8, AppendInPlace
                    <6>. QED  BY <5>2, <6>9
                <5>. QED  BY <5>1, <5>2
            <4>6. Follows(dd', guest', b, both)
                BY <1>0, <1>1, <1>2, <1>4, <2>1, <2>2, <3>1, <3>2, <3>3, <4>1, <4>5, WriteFollows
            <4>. QED  BY <1>0, <1>6, <1>8, <2>1, <3>1, <4>5, <4>6 DEF Order, Moving
        <3>. QED  BY <3>4, <3>5, <3>6
    <2>. QED  BY <2>3, <2>4
<1>. QED  BY <1>7, <1>8

(* Everything else leaves a transfer where it is, or ends it. *)
LEMMA OtherOrder ==
    ASSUME IInv, Order(dd, polite, guest),
           ReadStatus \/ Command \/ HardReset \/ Exception \/ PowerOn
           \/ dd_mecha_int_handler \/ DriveEvent \/ UNCHANGED vars
    PROVE  Order(dd', polite', guest')
<1>0. dd \in Controllers /\ Unwarned(dd)
    BY DEF IInv, TypeOK, Order
<1>1. ASSUME Kept(dd, dd'), polite' = polite, guest' = guest
      PROVE  Order(dd', polite', guest')
    BY <1>1, KeptOrder
<1>2. ASSUME Unwarned(dd'), guest' = NoTransfer
      PROVE  Order(dd', polite', guest')
    BY <1>2, NoTransferOrder
<1>3. CASE ReadStatus
    <2>. DEFINE c == clear_dd_interrupt(dd, "BM_INT")
    <2>1. Same(dd, c) /\ c.status = dd.status \ {"BM_INT"}
        BY <1>0, ClearLineFacts DEF StatusBits
    <2>2. dd' = add_event(c, "BM") /\ polite' = polite /\ guest' = guest
        BY <1>3 DEF ReadStatus, ack
    <2>. HIDE DEF c
    <2>3. Kept(dd, c) /\ c \in Controllers
        BY <2>1, SameKeeps DEF Same
    <2>4. Kept(c, dd')
        BY <2>3, <2>2, AddFacts, SameKeeps DEF Events
    <2>. QED  BY <1>1, <2>3, <2>2, <2>4, KeptTransitive
<1>4. CASE Command
    <2>1. PICK c \in Commands : dd' = command(dd, c)
        BY <1>4 DEF Command
    <2>. QED  BY <1>0, <1>2, <1>4, <2>1, CommandUnwarned DEF Command
<1>5. CASE HardReset
    <2>1. dd'.track = dd.track /\ SameBit(dd, dd', "WR_PR_ERR")
        BY <1>0, <1>5, HardResetFacts DEF HardReset
    <2>. QED  BY <1>0, <1>2, <1>5, <2>1 DEF HardReset, Unwarned, SameBit
<1>6. CASE Exception
    <2>1. Kept(dd, dd')
        BY <1>0, <1>6 DEF Exception, Kept, SameBit, Controllers
    <2>. QED  BY <1>1, <1>6, <2>1 DEF Exception
<1>7. CASE PowerOn
    <2>1. Unwarned(dd')
        BY <1>7 DEF PowerOn, Unwarned, poweron_dd
    <2>. QED  BY <1>2, <1>7, <2>1 DEF PowerOn
<1>8. CASE dd_mecha_int_handler
    <2>. DEFINE o == remove_event(dd, "MC")
                c == Clear(o, {"BUSY_STATE"})
    <2>1. Same(dd, o) /\ o.status = dd.status
        BY <1>0, RemoveFacts DEF Events
    <2>2. dd' = signal_dd_interrupt(c, "MECHA_INT") /\ polite' = polite /\ guest' = guest
        BY <1>8 DEF dd_mecha_int_handler, Pop
    <2>. HIDE DEF o
    <2>3. Kept(dd, o) /\ o \in Controllers
        BY <2>1, SameKeeps DEF Same
    <2>4. Kept(o, c) /\ c \in Controllers
        BY <2>3, ClearFacts, SameKeeps DEF Same
    <2>. HIDE DEF c
    <2>5. Kept(c, dd')
        BY <2>2, <2>4, SignalFacts, SameKeeps DEF StatusBits
    <2>. QED  BY <1>1, <2>3, <2>2, <2>4, <2>5, KeptTransitive
<1>9. CASE DriveEvent
    <2>. DEFINE o == remove_event(dd, "DV")
    <2>1. Same(dd, o) /\ o.status = dd.status
        BY <1>0, RemoveFacts DEF Events
    <2>2. dd' = dd_dv_int_handler(o) /\ polite' = polite /\ guest' = guest
        BY <1>9 DEF DriveEvent, Pop
    <2>. HIDE DEF o
    <2>3. Kept(dd, o) /\ o \in Controllers
        BY <2>1, SameKeeps DEF Same
    <2>4. dd' = o \/ Kept(o, dd')
        BY <2>3, <2>2, SleepMotor, StandbyMotor, MotorKeeps DEF dd_dv_int_handler
    <2>. QED  BY <1>1, <2>3, <2>2, <2>4, KeptTransitive
<1>10. CASE UNCHANGED vars
    BY <1>10 DEF vars
<1>. QED  BY <1>3, <1>4, <1>5, <1>6, <1>7, <1>8, <1>9, <1>10

LEMMA OrderFollows ==
    ASSUME TypeOK, Order(dd, polite, guest)
    PROVE  SectorsInOrder
<1>. SUFFICES ASSUME dd.track = "plain"
              PROVE  /\ guest.moved = [i \in 1 .. Len(guest.moved) |->
                                           <<guest.asked[i], guest.asked[i]>>]
                     /\ guest.asked # << >> /\ ~Running => Len(guest.moved) = Len(guest.asked)
    BY DEF SectorsInOrder
<1>1. guest.moved \in Seq(Contents \X Contents)
    BY TransferFields DEF TypeOK
<1>2. InPlace(guest)
    <2>1. CASE guest.asked = << >>
        BY <2>1 DEF Order, NoTransfer, InPlace
    <2>2. CASE guest.asked # << >>
        BY <2>2 DEF Order, Moving
    <2>. QED  BY <2>1, <2>2
<1>3. guest.moved = [i \in 1 .. Len(guest.moved) |-> guest.moved[i]]
    BY <1>1
<1>4. guest.moved = [i \in 1 .. Len(guest.moved) |-> <<guest.asked[i], guest.asked[i]>>]
    BY <1>2, <1>3 DEF InPlace
<1>5. guest.asked # << >> /\ ~Running => Len(guest.moved) = Len(guest.asked)
    BY DEF Order, Moving, Follows, Finished, Running
<1>. QED  BY <1>4, <1>5

(* Whatever the guest stores, and whenever events come: the registers of   *)
(* the 64DD keep their types, and the buffer manager of dd_controller.c    *)
(* never runs with nothing left to wake it.                                *)
THEOREM BMGoesOn == Spec => [](TypeOK /\ NoStall)
<1>1. Init => IInv
    BY InitSound
<1>2. IInv /\ [Next]_vars => IInv'
    BY NextSound
<1>3. IInv => TypeOK /\ NoStall
    BY DEF IInv
<1>. QED  BY <1>1, <1>2, <1>3, PTL DEF Spec

(* The motor has one timer at most, and none while it sleeps: no late      *)
(* event of an old timer retracts the head, whatever commands the guest    *)
(* gives and however resets and events come in between.                    *)
THEOREM MotorTimers == Spec => []MotorTimed
<1>1. Init => IInv
    BY InitSound
<1>2. IInv /\ [Next]_vars => IInv'
    BY NextSound
<1>3. IInv => MotorTimed
    BY DEF IInv
<1>. QED  BY <1>1, <1>2, <1>3, PTL DEF Spec

(* The drive interrupts only while CMD_STATUS says why; a guest that       *)
(* follows the protocol misses no interrupt of the drive.                  *)
THEOREM DriveInterrupts == Spec => []LineSound
<1>1. Init => IInv
    BY InitSound
<1>2. IInv /\ [Next]_vars => IInv'
    BY NextSound
<1>3. IInv => LineSound
    BY DEF IInv
<1>. QED  BY <1>1, <1>2, <1>3, PTL DEF Spec

(* Such a guest cannot write a track that dd_controller.c protects.        *)
THEOREM ProtectedTracks == Spec => []ProtectedUntouched
<1>1. Init => IInv
    BY InitSound
<1>2. IInv /\ [Next]_vars => IInv'
    BY NextSound
<1>3. IInv => ProtectedUntouched
    BY UntouchedFollows
<1>. QED  BY <1>1, <1>2, <1>3, PTL DEF Spec

(* A transfer of a plain track moves every sector asked for once, in       *)
(* order and to its own place, for every number of sectors per block, from *)
(* either block, through the jump of dd_update_bm to the other block, and  *)
(* however commands, resets and power cycles come in between.              *)
THEOREM TransfersInOrder == Spec => []SectorsInOrder
<1>1. Init => IInv /\ Order(dd, polite, guest)
    BY InitSound, InitOrder
<1>2. IInv /\ Order(dd, polite, guest) /\ [Next]_vars => IInv' /\ Order(dd', polite', guest')
    <2>. SUFFICES ASSUME IInv, Order(dd, polite, guest), [Next]_vars
                  PROVE  IInv' /\ Order(dd', polite', guest')
        OBVIOUS
    <2>1. IInv'
        BY NextSound
    <2>2. Order(dd', polite', guest')
        BY StoreOrder, CopyOrder, FillOrder, BMOrder, OtherOrder DEF Next
    <2>. QED  BY <2>1, <2>2
<1>3. IInv /\ Order(dd, polite, guest) => SectorsInOrder
    BY OrderFollows DEF IInv
<1>4. Order(dd, polite, guest)' <=> Order(dd', polite', guest')
    BY Zenon
<1>. QED  BY <1>1, <1>2, <1>3, <1>4, PTL DEF Spec

=============================================================================
