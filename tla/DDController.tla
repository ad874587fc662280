----------------------------- MODULE DDController -----------------------------
(***************************************************************************)
(* The controller of the 64DD disk drive, dd_controller.c, and the guest   *)
(* that uses it through the registers.                                     *)
(*                                                                         *)
(* The guest seeks a track with a command, which the drive ends with the   *)
(* MECHA interrupt, and starts the buffer manager (BM).  The BM moves one  *)
(* or two blocks, sector by sector, through a buffer that holds one; it    *)
(* interrupts after every sector, and goes on when the guest has read the  *)
(* status.                                                                 *)
(*                                                                         *)
(*   dd      the controller: the bits of CMD_STATUS and BM_STATUS_CTL, the *)
(*           current sector (its block on the track and its number in the  *)
(*           block) and track, bm_write, bm_reset_held, are the timers of  *)
(*           the motor on?  The sector in the buffer, the number of queued *)
(*           events of each kind, Cause.IP3                                *)
(*   polite  does the guest follow the protocol?                           *)
(*   guest   what such a guest knows of its transfer: has it still to copy *)
(*           or to fill the buffer (owed)?  The sectors that it has asked  *)
(*           for, and how many it has put into the buffer.  And history:   *)
(*           what has been moved to memory or to the disk, in which order, *)
(*           as pairs of the place and the sector                          *)
(*                                                                         *)
(* A guest that follows the protocol does one thing at a time, seeks       *)
(* before it starts the BM, resets it after an error, is fast enough to    *)
(* copy or to fill the buffer before the next sector, and has no exception *)
(* between an interrupt of the drive and its service.  Any other guest     *)
(* stores and loads what it likes whenever it likes.                       *)
(*                                                                         *)
(* Definitions named Faulty_... are seeded faults, as in EventQueue.       *)
(***************************************************************************)
EXTENDS Integers, Sequences

CONSTANTS
    SECTORS_PER_BLOCK,   \* 85
    Tracks,              \* the kinds of tracks, see below
    Sectors,             \* the sectors at which a guest starts the BM, see below
    Guests,              \* TRUE: one that follows the protocol, FALSE: any
    MaxQueued            \* a bound on the queued events of one kind

(* A sector: 90 numbers for each of the two blocks of a track, of which    *)
(* the first SECTORS_PER_BLOCK = 85 hold data.                             *)
S == SECTORS_PER_BLOCK
Places == (0 .. 1) \X (0 .. (S + 4))

(* A track whose sectors can be read and written, track 6 of a retail      *)
(* drive, a track that must not be written, one that the disk does not     *)
(* have, and track 0, which must not be written either.                    *)
(*                                                                         *)
(* Three bounds: a track keeps its kind, although the first track that may *)
(* be written depends on the type of the disk (startTrackZones, indexed    *)
(* past its end for type 6 and head 0), which a command may set after the  *)
(* seek; the sectors of a track all exist or none does, where              *)
(* seek_sector decides for each block and sector; and a guest starts the   *)
(* BM inside Places, where the code only logs an odd start sector.         *)
TrackKinds == {"plain", "six", "protected", "invalid", "zero"}
Protected == {"protected", "zero"}

ASSUME DDAssumption ==
    /\ SECTORS_PER_BLOCK \in Nat \ {0}
    /\ Tracks \subseteq TrackKinds
    /\ Sectors \subseteq Places
    /\ Guests \subseteq BOOLEAN
    /\ MaxQueued \in Nat \ {0}

VARIABLES dd, polite, guest
vars == <<dd, polite, guest>>

Nothing == << >>
StatusBits == {"DATA_RQ", "C2_XFER", "BM_ERR", "BM_INT", "MECHA_INT", "BUSY_STATE",
               "MTR_N_SPIN", "HEAD_RTRCT", "WR_PR_ERR"}
BMBits == {"RUNNING", "MICRO", "BLOCK"}
Events == {"MC", "BM", "DV"}

-----------------------------------------------------------------------------
(* Interrupts and events. *)

Set(d, bits) == [d EXCEPT !.status = @ \cup bits]
Clear(d, bits) == [d EXCEPT !.status = @ \ bits]

add_event(d, e) == [d EXCEPT !.q[e] = @ + 1]
remove_event(d, e) == [d EXCEPT !.q[e] = IF @ > 0 THEN @ - 1 ELSE 0]

signal_dd_interrupt(d, bit) == [Set(d, {bit}) EXCEPT !.ip3 = TRUE]
clear_dd_interrupt(d, bit) == [Clear(d, {bit}) EXCEPT !.ip3 = FALSE]

-----------------------------------------------------------------------------
(* The motor: active, on standby with the head retracted, or asleep. *)

Faulty_dd_dv_active(d) ==
    LET c == Clear(d, {"MTR_N_SPIN", "HEAD_RTRCT"})
    IN  IF d.standby THEN add_event(c, "DV") ELSE c

dd_dv_active(d) ==
    LET c == remove_event(Clear(d, {"MTR_N_SPIN", "HEAD_RTRCT"}), "DV")
    IN  IF d.standby THEN add_event(c, "DV") ELSE c

dd_dv_standby(d) ==
    LET c == remove_event(Set(Clear(d, {"MTR_N_SPIN"}), {"HEAD_RTRCT"}), "DV")
    IN  IF d.sleep THEN add_event(c, "DV") ELSE c

dd_dv_sleep(d) == remove_event(Set(d, {"MTR_N_SPIN", "HEAD_RTRCT"}), "DV")

dd_dv_int_handler(d) ==
    IF "MTR_N_SPIN" \in d.status THEN d
    ELSE IF "HEAD_RTRCT" \in d.status THEN dd_dv_sleep(d) ELSE dd_dv_standby(d)

-----------------------------------------------------------------------------
(* The buffer manager. *)

Block(d) == d.sector[1]
Sector(d) == d.sector[2]
OtherBlock(block) == 1 - block

(* seek_sector finds no sector. *)
SeekFails(d) == d.track = "invalid"

NextSector(d) == [d EXCEPT !.sector = <<Block(d), Sector(d) + 1>>]
Micro(d) == [d EXCEPT !.bm = @ \cup {"MICRO"}]
Stop(d) == [d EXCEPT !.bm = @ \ {"RUNNING"}]

read_sector(d) == IF SeekFails(d) THEN Micro(d) ELSE [d EXCEPT !.buf = d.sector]

(* What write_sector does to the disk is in the history, see Moved. *)
write_sector(d) == IF SeekFails(d) THEN Micro(d) ELSE d

Faulty_Continue(d, first) ==
    [d EXCEPT !.sector = <<OtherBlock(Block(d)), 0>>, !.bm = @ \ {"BLOCK"}]

(* The second block of the track. *)
Continue(d, first) ==
    [d EXCEPT !.sector = <<OtherBlock(Block(d)), first>>, !.bm = @ \ {"BLOCK"}]

WriteStep(d) ==
    IF "WR_PR_ERR" \in d.status THEN Stop(Micro(Set(d, {"BM_ERR"})))
    ELSE LET w == write_sector(d)
         IN  CASE Sector(d) = 0 -> Set(NextSector(d), {"DATA_RQ"})
               [] Sector(d) \in 1 .. (S - 1) -> Set(NextSector(w), {"DATA_RQ"})
               [] Sector(d) = S -> IF "BLOCK" \in d.bm THEN Set(Continue(w, 1), {"DATA_RQ"})
                                   ELSE Stop(NextSector(w))
               [] OTHER -> d

ReadStep(d) ==
    IF d.track = "six" /\ Block(d) = 0 THEN Micro(d)
    ELSE LET c == Set(d, {"C2_XFER"})
         IN  CASE Sector(d) < S -> Set(NextSector(read_sector(d)), {"DATA_RQ"})
               [] Sector(d) \in S .. (S + 2) -> NextSector(d)
               [] Sector(d) = S + 3 -> IF "BLOCK" \in d.bm THEN Continue(c, 0) ELSE Stop(c)
               [] OTHER -> d

Faulty_dd_update_bm(d) ==
    IF "RUNNING" \notin d.bm THEN d
    ELSE LET c == Clear(d, {"DATA_RQ", "C2_XFER"})
             t == IF d.write THEN WriteStep(c) ELSE ReadStep(c)
         IN  IF "RUNNING" \in t.bm /\ "DATA_RQ" \notin t.status THEN dd_dv_active(t)
             ELSE signal_dd_interrupt(dd_dv_active(t), "BM_INT")

dd_update_bm(d) ==
    IF "RUNNING" \notin d.bm THEN d
    ELSE LET c == Clear(d, {"DATA_RQ", "C2_XFER"})
         IN  signal_dd_interrupt(
                 dd_dv_active(IF d.write THEN WriteStep(c) ELSE ReadStep(c)), "BM_INT")

-----------------------------------------------------------------------------
(* The registers. *)

Faulty_ack(d) == clear_dd_interrupt(d, "BM_INT")

(* A load of CMD_STATUS. *)
ack(d) ==
    IF "BM_INT" \in d.status THEN add_event(clear_dd_interrupt(d, "BM_INT"), "BM") ELSE d

Faulty_Seek(d, t, write) ==
    [dd_dv_active(d) EXCEPT !.track = t, !.write = write]

(* A seek for reading or for writing. *)
Seek(d, t, write) ==
    LET m == [dd_dv_active(d) EXCEPT !.track = t, !.write = write]
        c == Clear(m, {"WR_PR_ERR"})
    IN  IF write /\ t \in Protected THEN Set(c, {"WR_PR_ERR"}) ELSE c

(* Rezero and Start. *)
Rezero(d) == [dd_dv_active(d) EXCEPT !.track = "zero", !.write = TRUE]

(* A store into CMD_STATUS: what the command does, then its interrupt.     *)
(* Commands that only load or store the clock, the type of the disk, the   *)
(* version and the like are "other".                                       *)
Commands == [name : {"seek_read", "seek_write"}, track : Tracks]
            \cup [name : {"rezero", "sleep", "standby", "other"}, track : {"zero"}]
            \cup [name : {"set_standby", "clear_standby", "set_sleep", "clear_sleep"},
                  track : {"zero"}]

Effect(d, c) ==
    CASE c.name = "seek_read" -> Seek(d, c.track, FALSE)
      [] c.name = "seek_write" -> Seek(d, c.track, TRUE)
      [] c.name = "rezero" -> Rezero(d)
      [] c.name = "sleep" -> dd_dv_sleep(d)
      [] c.name = "standby" -> dd_dv_standby(d)
      [] c.name = "set_standby" -> [d EXCEPT !.standby = TRUE]
      [] c.name = "clear_standby" -> [d EXCEPT !.standby = FALSE]
      [] c.name = "set_sleep" -> [d EXCEPT !.sleep = TRUE]
      [] c.name = "clear_sleep" -> [d EXCEPT !.sleep = FALSE]
      [] c.name = "other" -> d

command(d, c) == add_event(Effect(Set(d, {"BUSY_STATE"}), c), "MC")

(* A store into BM_STATUS_CTL, step by step. *)
Stores == [sector : Sectors, mecha : BOOLEAN, both : BOOLEAN, reset : BOOLEAN, start : BOOLEAN]

Faulty_MechaReset(d, v) == IF v.mecha THEN remove_event(d, "MC") ELSE d

MechaReset(d, v) == IF v.mecha THEN remove_event(Clear(d, {"MECHA_INT"}), "MC") ELSE d

BMReset(d, v) ==
    IF v.reset THEN [d EXCEPT !.held = TRUE]
    ELSE IF ~d.held THEN d
    ELSE remove_event([Clear(d, {"DATA_RQ", "C2_XFER", "BM_ERR", "BM_INT"}) EXCEPT
                           !.held = FALSE, !.bm = {}, !.sector = <<0, 0>>], "BM")

Faulty_DropLine(d) == d

DropLine(d) ==
    IF d.status \cap {"BM_INT", "MECHA_INT"} = {} THEN clear_dd_interrupt(d, "BM_INT") ELSE d

BMStart(d, v) == IF v.start THEN add_event([d EXCEPT !.bm = @ \cup {"RUNNING"}], "BM") ELSE d

bm_status_ctl(d, v) ==
    LET s == [d EXCEPT !.sector = v.sector]
        m == MechaReset(s, v)
        b == IF v.both THEN [m EXCEPT !.bm = @ \cup {"BLOCK"}] ELSE m
    IN  BMStart(DropLine(BMReset(b, v)), v)

(* A store into HARD_RESET. *)
hard_reset(d) ==
    LET r == remove_event(remove_event(d, "MC"), "BM")
        c == [Clear(r, {"DATA_RQ", "C2_XFER", "BM_ERR", "BM_INT", "BUSY_STATE"}) EXCEPT
                  !.bm = {}, !.sector = <<0, 0>>, !.sleep = TRUE, !.standby = TRUE]
    IN  clear_dd_interrupt(dd_dv_sleep(c), "MECHA_INT")

poweron_dd ==
    [status |-> {"MTR_N_SPIN", "HEAD_RTRCT"}, bm |-> {}, sector |-> <<0, 0>>, track |-> "zero",
     write |-> FALSE, held |-> FALSE, standby |-> TRUE, sleep |-> TRUE, buf |-> Nothing,
     q |-> [e \in Events |-> 0], ip3 |-> FALSE]

-----------------------------------------------------------------------------
(* The guest. *)

NoTransfer == [owed |-> FALSE, asked |-> << >>, supplied |-> 0, moved |-> << >>]

Running == "RUNNING" \in dd.bm
Pending == dd.status \cap {"BM_INT", "MECHA_INT"}
Quiet == Pending = {} /\ ~Running /\ "BUSY_STATE" \notin dd.status /\ ~dd.held

(* The sectors of one block, or of both. *)
OneBlock(block) == [i \in 1 .. S |-> <<block, i - 1>>]
Asked(v) ==
    OneBlock(v.sector[1]) \o (IF v.both THEN OneBlock(1 - v.sector[1]) ELSE << >>)

(* The sector that the guest is waiting for after n others. *)
Expected(n) == IF n < Len(guest.asked) THEN guest.asked[n + 1] ELSE Nothing

ReadStatus ==
    /\ polite => dd.ip3 /\ ~dd.held
    /\ "BM_INT" \in dd.status /\ dd.q["BM"] < MaxQueued
    /\ dd' = ack(dd)
    /\ UNCHANGED <<polite, guest>>

Command ==
    \E c \in Commands :
        /\ polite => Quiet
        /\ dd.q["MC"] < MaxQueued
        /\ dd' = command(dd, c)
        /\ guest' = NoTransfer
        /\ UNCHANGED polite

(* The stores of a guest that follows the protocol: it acknowledges the    *)
(* MECHA interrupt, resets the BM with two stores, and starts it.          *)
IsAck(v) == ~v.both /\ ~v.reset /\ ~v.start /\ v.mecha /\ "MECHA_INT" \in dd.status
IsReset(v) ==
    /\ ~v.both /\ ~v.mecha /\ ~v.start /\ v.sector = <<0, 0>> /\ v.reset # dd.held
    /\ dd.status \cap {"BUSY_STATE", "MECHA_INT"} = {}
IsStart(v) ==
    /\ ~v.reset /\ ~v.mecha /\ v.start /\ v.sector[2] = 0
    /\ Quiet /\ dd.bm = {} /\ dd.track # "zero"

Store(v) ==
    /\ polite => IsReset(v) \/ IsAck(v) \/ IsStart(v)
    /\ v.start => dd.q["BM"] < MaxQueued
    /\ dd' = bm_status_ctl(dd, v)
    /\ guest' = IF polite /\ v.start THEN [NoTransfer EXCEPT !.asked = Asked(v)] ELSE NoTransfer
    /\ UNCHANGED polite

HardReset ==
    /\ dd' = hard_reset(dd)
    /\ guest' = NoTransfer
    /\ UNCHANGED polite

(* A PI transfer from the buffer, or to the buffer. *)
dd_dom_dma_write ==
    /\ polite /\ guest.owed /\ ~dd.write
    /\ guest' = [guest EXCEPT !.owed = FALSE, !.moved = Append(@, <<Expected(Len(@)), dd.buf>>)]
    /\ UNCHANGED <<dd, polite>>

dd_dom_dma_read ==
    /\ polite /\ guest.owed /\ dd.write
    /\ dd' = [dd EXCEPT !.buf = Expected(guest.supplied)]
    /\ guest' = [guest EXCEPT !.owed = FALSE, !.supplied = @ + 1]
    /\ UNCHANGED polite

(* A SYSCALL, a trap or a TLB miss overwrites Cause. *)
Exception ==
    /\ polite => Pending = {}
    /\ dd' = [dd EXCEPT !.ip3 = FALSE]
    /\ UNCHANGED <<polite, guest>>

PowerOn ==
    /\ dd' = poweron_dd
    /\ guest' = NoTransfer
    /\ UNCHANGED polite

-----------------------------------------------------------------------------
(* The events. *)

Pop(e) == remove_event(dd, e)

dd_mecha_int_handler ==
    /\ dd.q["MC"] > 0
    /\ dd' = signal_dd_interrupt(Clear(Pop("MC"), {"BUSY_STATE"}), "MECHA_INT")
    /\ UNCHANGED <<polite, guest>>

(* A step of the BM writes the sector before the current one. *)
Previous == <<Block(dd), Sector(dd) - 1>>
Writes == /\ Running /\ dd.write /\ "WR_PR_ERR" \notin dd.status
          /\ Sector(dd) \in 1 .. S /\ ~SeekFails(dd)

dd_bm_int_handler ==
    /\ dd.q["BM"] > 0
    /\ polite => ~guest.owed
    /\ dd' = dd_update_bm(Pop("BM"))
    /\ guest' = IF ~polite \/ guest.asked = << >> THEN guest
                ELSE [guest EXCEPT !.owed = "DATA_RQ" \in dd'.status,
                                   !.moved = IF Writes THEN Append(@, <<Previous, dd.buf>>) ELSE @]
    /\ UNCHANGED polite

DriveEvent ==
    /\ dd.q["DV"] > 0
    /\ dd' = dd_dv_int_handler(Pop("DV"))
    /\ UNCHANGED <<polite, guest>>

-----------------------------------------------------------------------------
Init == dd = poweron_dd /\ polite \in Guests /\ guest = NoTransfer

Next ==
    \/ ReadStatus \/ Command \/ (\E v \in Stores : Store(v)) \/ HardReset
    \/ dd_dom_dma_write \/ dd_dom_dma_read \/ Exception \/ PowerOn
    \/ dd_mecha_int_handler \/ dd_bm_int_handler \/ DriveEvent

Spec == Init /\ [][Next]_vars

(* Queued events are serviced.  A guest that follows the protocol serves   *)
(* its interrupts, moves its data, and resets the BM after an error.       *)
AckMecha == polite /\ \E v \in Stores : IsAck(v) /\ Store(v)
ResetBM == polite /\ ("MICRO" \in dd.bm \/ dd.held) /\ \E v \in Stores : IsReset(v) /\ Store(v)

Fairness ==
    /\ WF_vars(dd_mecha_int_handler) /\ WF_vars(dd_bm_int_handler)
    /\ WF_vars(ReadStatus) /\ WF_vars(dd_dom_dma_write \/ dd_dom_dma_read)
    /\ WF_vars(AckMecha) /\ WF_vars(ResetBM)

FairSpec == Spec /\ Fairness

-----------------------------------------------------------------------------
Controllers ==
    [status : SUBSET StatusBits, bm : SUBSET BMBits, sector : Places, track : TrackKinds,
     write : BOOLEAN, held : BOOLEAN, standby : BOOLEAN, sleep : BOOLEAN,
     buf : Places \cup {Nothing}, q : [Events -> Nat], ip3 : BOOLEAN]

Contents == Places \cup {Nothing}
Transfers ==
    [owed : BOOLEAN, asked : Seq(Places), supplied : Nat, moved : Seq(Contents \X Contents)]

TypeOK == dd \in Controllers /\ polite \in BOOLEAN /\ guest \in Transfers

(* The BM does not stop half way, whatever the guest does: while it runs,  *)
(* its next step is queued, or the guest is to read the status, which      *)
(* queues it.                                                              *)
NoStall == Running => dd.q["BM"] > 0 \/ "BM_INT" \in dd.status

(* The drive interrupts the CPU only while the status says why; and for a  *)
(* guest that follows the protocol, whenever the status does.              *)
LineSound ==
    /\ dd.ip3 => Pending # {}
    /\ polite /\ Pending # {} => dd.ip3

(* Sectors are moved in their order, none twice and none left out, each to *)
(* its own place, across the boundary of the two blocks too; and when the  *)
(* BM stops by itself, all that were asked for have been moved.            *)
SectorsInOrder ==
    dd.track = "plain" =>
        /\ guest.moved = [i \in 1 .. Len(guest.moved) |-> <<guest.asked[i], guest.asked[i]>>]
        /\ guest.asked # << >> /\ ~Running => Len(guest.moved) = Len(guest.asked)

(* A track that must not be written is not written. *)
ProtectedUntouched == polite /\ dd.track \in Protected => ~Writes

(* A motor that sleeps has no timer running, and no motor has two: a late  *)
(* event of an old timer would retract the head in the middle of a         *)
(* transfer.                                                               *)
MotorTimed ==
    /\ dd.q["DV"] <= 1
    /\ "MTR_N_SPIN" \in dd.status => "HEAD_RTRCT" \in dd.status /\ dd.q["DV"] = 0

(* A transfer ends. *)
TransferEnds == polite /\ Running ~> ~Running

(* A command ends, and its interrupt is served. *)
CommandEnds ==
    polite /\ dd.status \cap {"BUSY_STATE", "MECHA_INT"} # {} ~>
        dd.status \cap {"BUSY_STATE", "MECHA_INT"} = {}
=============================================================================
