# mupen64plus-libretro-nx in TLA+: who acts when

This directory is a verification development for the mupen64plus-libretro-nx
emulator. It models the parts that decide *when things happen*: the queue of
timed events and the code that services it, the devices whose transfers it ends,
the resets and savestates that rebuild it, the 64DD drive, the two threads of
threaded rendering with the frontend that drives them and the buffer pool between
them, and the consoles of netplay. Instructions, pictures and sounds themselves
are data to these models.

Contents: 1 the system, 2 the modules, 3 the runs, 4 bounds, 5 fairness, 6 what is
proved, 7 disagreements between code and comments, 8 what is not modelled, 9 plan.

## 1. The system

The emulator is a libretro core. One thread runs the guest's CPU; the devices of
the Nintendo 64 are functions that it calls. With threaded rendering the
frontend's thread makes the OpenGL calls. Netplay has a thread of its own while
it waits for an answer. All paths below are under `src/`;
`device/` stands for `mupen64plus-core/src/device/`.

### 1.1 Components, their state and operations

| Component | State | Operations | Correct if |
|---|---|---|---|
| interrupt queue, `device/r4300/interrupt.c` | a list of (type, count) in a pool of 16 nodes; `next_interrupt`, `cycle_count` | add, remove, translate, save, load; `gen_interrupt` and one handler per type | no node leaks, the timers stay queued, events are serviced in order and at their time |
| coprocessor 0, `device/r4300/cp0.c` | Count, Compare, Status, Cause | `cp0_update_count`, exceptions, MTC0 | Count = `next_interrupt` + `cycle_count`, no interrupt overlooked |
| interpreter, `device/r4300/*interp*` | `delay_slot`, `skip_jump` | branches with delay slots, ERET, SYSCALL, MTC0 | `gen_interrupt` is reached when an event is due, cancelled jumps are skipped once |
| MI, `device/rcp/mi` | `MI_INTR_REG`, mask | signal, raise, clear | IP2 follows the line |
| PI, SI, AI, SP, DP, VI, `device/rcp/*` | status registers, fifos, postponed work | stores that start, refuse, forget or acknowledge a transfer; end-of-transfer events | each transfer ends once, in order; samples are played once |
| resets, `device/device.c`, `device/pif/bootrom_hle.c`, `interrupt.c` | all of the above | power on, soft reset (HW2, then NMI), hard reset | the machine after it works |
| savestates, `mupen64plus-core/src/main/savestates.c` | a job, a buffer, `savestates_lock` | save, load, inside `gen_interrupt`; reports what has become of the job, of a save twice | a loaded machine goes on as the saved one would |
| libretro frontend, `libretro/` and `mupen64plus-core/src/main/main.c` | pending requests, the active coroutine, frame-skip flags | load, run, serialize, unserialize, unload; gets control inside `new_vi`, asks for resets, savestates and stops | a request at any frame does no harm, every call returns, a savestate goes to its own buffer |
| 64DD, `device/dd/dd_controller.c` | status, BM and sector registers, `bm_write`, motor timers, the sector buffer | commands, the buffer manager (BM), resets, end-of-step events | sectors are moved once and in order, the drive never stalls, protected tracks stay as they are |
| netplay, `mupen64plus-core/src/main/netplay.c` | a list of received events and a count per player, the request thread | send keys, request, receive, wait, give up | every console's game is given the same inputs |
| PIF and joybus, `device/pif`, `device/controllers` | PIF RAM, channels | commands of the channels | (planned) |
| flash, GB carts, cheats | small command machines | | (planned) |
| buffer pool, `GLideN64/src/Graphics/OpenGLContext/ThreadedOpenGl/RingBufferPool.cpp` | a vector, two offsets, `m_full`, a mutex and a condition | create, get, remove | no buffer is overwritten or moved while it is needed; nobody waits for ever |
| OpenGL command queues, `opengl_Wrapper.cpp`, `opengl_Command.cpp` | queue, priority queue, pooled commands, a count of queued frames | queue, wait, execute, limit, shut down | calls are executed in order with their own arguments, and return |
| CPU instruction semantics, recompilers, RSP, RDP and audio plugins | | | not modelled |

### 1.2 How they interact

A device that takes time sets a busy bit and calls `add_interrupt_event` with a
delay. Every branch of the guest adds the counts since the last one to
`cycle_count`; when that is no longer negative it calls `gen_interrupt`, which
runs the handler of the first event. The handler ends the transfer and calls
`raise_rcp_interrupt`, which takes the exception at once if it may. A *store* that
moves the line calls `r4300_check_interrupt` instead, which puts a `CHECK_INT`
in front of the queue. Two events are always there: `COMPARE_INT`, the guest's
timer, and `SPECIAL_INT` at each half turn of Count, which keeps distances
small enough for signed 32-bit differences. `VI_INT` gives control to the frontend
while it is being serviced; what the frontend asks for is done there (soft
reset) or by the next `gen_interrupt` (hard reset, savestates, stop).

With threaded rendering the emulation runs on a thread of its own. `retro_run`,
`retro_serialize`, `retro_unserialize` and `retro_unload_game` switch to the coroutine
`commandLoop`, which executes queued OpenGL calls on the frontend's thread until it
has a frame to show, a savestate job is waiting or the core has shut down.

With netplay the core reads controllers through `netplay_update_input`: it sends its
own keys to a server, asks the server for the event of every player, and gives
the event to the game. The server is not part of the repository. `netplay.c` is not
compiled by the makefiles of this repository (its line in `Makefile.common`, 100, is
commented out): the module models a source file that is kept here, not a part of the core
that these makefiles build.

### 1.3 What is hard

* modular and signed arithmetic on Count at its edges, events due together;
* `cycle_count` as a cache that several functions overwrite;
* a pool of nodes that can run out in the middle of a remove-and-add;
* exceptions in delay slots, and jobs served before the skipped jump is;
* frontends that act in the middle of a handler;
* resets that empty the queue under busy devices;
* guests that ignore busy bits;
* two threads on one ring buffer whose fast path takes no lock, on pooled command
  objects, on a plain counter, and on the variables of savestate jobs;
* a drive that goes on only when the guest has read its status, and one interrupt
  line for two reasons;
* datagrams that are lost, repeated, late or out of order, and a timeout that races
  the answer.

`PROJECT.json` lists these as hazards, each at its line with the properties about it.
Four more are known and have no property:

* each store that moves the RCP line before a branch queues a CHECK_INT of its own, and
  `check_int_handler` takes the exception without asking whether one is already being
  handled (`interrupt.c:416`); whether a guest depends on it is open;
* when the waiting SP DMA starts, `do_sp_dma` writes its end addresses over those that the
  guest may have stored for its next DMA (`rsp_core.c:137`); addresses are not modelled;
* a task started without interrupt on BREAK leaves `SP_STATUS_REG` without HALT and queues
  no `SP_INT` (`rsp_core.c:400`); `TasksEnd` is about tasks started as the operating
  system does, with the interrupt;
* `retro_unserialize` returns true whatever the load did (`libretro.c:2393`), also when the
  load was refused, of which `libretro.h` says that it should return false.

## 2. The modules

| Module | Models | Notes |
|---|---|---|
| `EventQueue` | the queue's functions | operators on one record, as the C functions work on `struct cp0` |
| `Scheduler` | CPU, handlers, `gen_interrupt`, frontend, resets, savestates | state machine over `r4300`, `phase` |
| `MCScheduler` | instances | values of Status, a start with a programmed VI, the bound on saves |
| `SchedulerProofs` | theorems about `Scheduler` | types, the pool, the timers, the order of loaded events |
| `SchedulerCoherence` | theorems about `Scheduler` | `cycle_count` as a cache, cancelled jumps |
| `SchedulerTime` | theorems about `Scheduler` | `cycle_count`, the order of the list and the handlers against true time |
| `MCSchedulerTime` | an instance | the constants satisfy the hypothesis of `SchedulerTime` |
| `Rcp` | MI, PI, SI, AI, SP, DP, VI | events as counts per type: their order is left open |
| `MCRcp` | instances | stores to `SP_STATUS_REG` |
| `RcpProofs` | theorems about `Rcp` | types, interrupts, events of busy devices, the order and number of transfers, samples |
| `RingBufferPool` | the pool and its two threads | one action per access to shared state |
| `MCRingBufferPool` | instances | sets of commands |
| `RingProofs` | theorems about `RingBufferPool` | bounds, the waits, overwriting, resizes |
| `Frontend` | the emulation thread, `commandLoop`, the libretro functions | composes command queues, frame limit, savestate jobs and shutdown |
| `MCFrontend` | an instance | |
| `FrontendProofs` | theorems about `Frontend` | |
| `DDController` | the 64DD drive and its guest | operators on one record `dd`, as the C functions work on `struct dd_controller` |
| `MCDDController` | an instance | starts of blocks |
| `DDProofs` | theorems about `DDController` | |
| `Lockstep` | what netplay promises | the abstract specification |
| `Netplay` | `netplay.c` on several consoles, the network, the server | implements `Lockstep` |
| `MCNetplay` | an instance | a player and a spectator |
| `NetplayProofs` | theorems about `Netplay` | |

**EventQueue and Scheduler.** A record `r4300` holds the list `q`, the pool's index,
Count, `cycle_count`, `next_interrupt`, the gating bits of Status and Cause, and the
flags of the core. Operators have the names of the C functions. An action is one
guest instruction with all that it calls: `mtc0_count` updates Count, services a due
event, moves the queue. A branch is two actions, `BeginJump` and `EndJump`,
because its delay slot is an instruction of its own. `env` says what comes from
outside during the handler (is the interrupt unmasked, what does the frontend ask
for). `load_eventqueue_infos` is modelled event by event (`load_event`,
`load_end`); nothing else runs meanwhile. Two fields are history variables that no
operator reads: `left` of an event, the true distance to its due time, and `fired`,
the events serviced by the step. The 16 nodes are a count: which node is used does
not matter.

**Rcp.** Each register is a record of the bits that matter. `events` counts queued
events of a type; `Takes` services any of them in any order, so that what is shown
holds for every duration. The CPU is reduced to IP2, EXL and an enable bit. The
NMI is one action with the emulated boot ROM. `ai.remaining` is the range of what
`get_remaining_dma_length` may return. History: samples played, DMAs ended, DMAs done.

**RingBufferPool.** The producer's `createPoolBuffer` is split where the code
reads or writes something that the other thread writes; the consumer's
`removeBufferFromPool` between its two stores. Memory is a map from units to the
number of the buffer whose bytes they hold. The condition variable is the
producer's flag `awake`; every change of the condition is notified, so spurious
wakeups add nothing. The second wait of `createPoolBuffer` (lines 149-159) is
left out, and `NoSecondWait` shows that no state needs it.

**Frontend.** `emu`, `gl` and `front` say where the emulation thread, `commandLoop`
and the frontend are; `active` says which coroutine runs. A call takes an object from
the pool of its type and queues a reference to it, as the code queues a pointer, so
that an object reused too early would carry the wrong call. Five accesses to shared
variables are unsynchronised in the code. `Races` names those that may interleave; the
run has none, which says what the code does on a schedule where they do not meet, and
section 7 says what each of them does when it happens. Calls stand for three
kinds: queued (`draw`), waited for (`get`), of high priority (`gen`).

A savestate job is followed through `savestates.c`. `Outcomes` says what may become of one
that has a buffer: it is done; it is refused, as a savestate of another version or of
another ROM is; or the file does not begin with the magic, and then the load returns
with `savestates_lock` held (lines 270-274). `queue_work` calls the work of a save at once, in
the thread that asks for it: it reports the job as complete before the buffer is
forgotten (lines 1636 and 2332), and `savestates_save` reports it again (line 2338).
Each report is two stores, and `savestates_clear_job` is two more, the second under the lock.

**DDController.** `dd` holds the status bits, the BM's bits, the current sector as a
pair of block and number, the track by its kind, and the counts of queued events.
`dd_update_bm` is one step of the buffer manager with all it calls.
A store into BM_STATUS_CTL is the sequence of its five parts. The guest is part
of the model: `polite` says whether it follows the protocol, that is, has one thing
in progress at a time, acknowledges what has interrupted, resets the BM after an
error and moves its data in time. `guest.moved` is a history of what was moved where.

**Netplay and Lockstep.** A console is where its main thread is (`pc`, `player`), where
its request thread is (`thread`), its lists, counts and channel. `net` is the
set of datagrams ever sent and not lost; receiving one does not take it out, so that it
arrives any number of times, in any order, or never. The server is external: it
fixes the event of a count once, from the keys it was sent or, when they are late or
lost, from the event before, and answers with what it has fixed. `Lockstep` has
one growing sequence of inputs per player, from which each game reads in order.

Definitions named `Faulty_...` are seeded faults: no specification uses them,
and putting one in the place of the definition after it makes TLC find a violation.
`PROJECT.json` says which property each breaks, so that no property holds vacuously.

## 3. The runs

Type invariants that are proved (of `Scheduler`, `Rcp`, `Netplay`, `DDController`) are
not checked again by the runs; nor is a proved invariant by more than one or two of them.
Section 6 says which properties are theorems.

### Scheduler

* `scheduler_core` (`PoolAccounting`, `Coherent`): a guest that does everything, with a
  pool of three nodes that is often exhausted, and 64DD events that it cancels.
* `scheduler_reset` (`TimersQueued`, `SkipJumpConsumed`): soft and hard resets and stops
  asked for in the middle of a `VI_INT`.
* `scheduler_jobs` (`LoadKeepsOrder`): savestates saved and loaded wherever
  `gen_interrupt` may do it.
* `scheduler_time` (`CycleCountExact`, `NoEarlyService`, `OverdueIsServiced`,
  `OrderedByDue`): the code's arithmetic agrees with true distances. It assumes
  that Compare coincides with no other event and that straight-line code does not
  move the RCP line once an event is overdue; section 7 shows that both are needed.

### Rcp

* `rcp_transfers` (`OneEventPerTransfer`, `DmaInOrder`, `TransfersEnd`): PI, SI, SP and VI
  under a guest that looks at the busy bits.
* `rcp_audio` (`AudioComplete`, `BusyHasEvent`, `TransfersEnd`): the audio fifo overrun,
  read at any time, and reset.
* `rcp_tasks` (`NoLostInterrupt`, `TasksEnd`): RSP tasks, finished or left in the
  middle, with a DP that is frozen and unfrozen, and NMIs.

### RingBufferPool

* `ring` (`TypeOK`, `DataIntact`, `NoSecondWait`, `NoDangling`, `CreateReturns`): with a
  producer at most one buffer ahead and commands of at most half of the pool, or larger
  than it, no buffer of at most half of the vector is overwritten, before or after the
  vector has grown, no wakeup is lost, every command is queued or refused as too large, and
  the vector is not moved under a pointer of the consumer. Buffers larger than half of the
  vector are in the run and in the way of the others, but are not protected themselves
  (section 7).
* `ring_overwrite` (`DataIntact`, violated): see section 7.

### Frontend

* `frontend` (`TypeOK`, `OwnArguments`, `ReturnsExecuted`, `FramesAhead`,
  `ShownAsProduced`, `OwnBuffer`, `NothingLeft`, `CallsReturn`): a game that
  draws, waits for calls, makes priority calls and shows frames, under a frontend that
  runs it, skips frames, saves, loads and unloads it and loads the next one. Savestates are
  done, refused, or no savestates at all; after a load of the last kind the emulation thread
  waits for ever for the lock that it holds, which `CallsReturn` names as its only exception
  (`Jammed`).

### DDController

* `dd` (`NoStall`, `LineSound`, `SectorsInOrder`, `ProtectedUntouched`, `MotorTimed`, `TransferEnds`, `CommandEnds`): one and two blocks
  read and written on every kind of track, with resets and power cycles at any point.

### Netplay

* `netplay` (`NothingStale`, `SameInputs`, `GetInputReturns`): two consoles, one
  of them a spectator, with a server that answers in time or not. `SameInputs` is the
  refinement `Lockstep!Spec`.

## 4. Bounds, and why they are enough

* `W`, the modulus of Count, is 4, 12 or 40 for 2^32. The structural properties need
  only that Count wraps and that events coincide, which 4 makes frequent. The time
  properties need room between the events: with W = 40 delays (6, 12, 13) are
  several steps long and less than W/2. In `scheduler_jobs` W is 12 and a frame two
  instructions, so that the VI, the timers and the jobs meet in every order across the
  wrap. The theorems hold for every even W.
* `Capacity` is 3 to 6 for 16. Three nodes hold the two timers and one event, so that
  every allocation failure happens; the time runs have room for all events, because
  a dropped event is never serviced.
* `Steps` and `CountPerOp` are 1 or 2; `MaxLate` bounds how long straight-line code
  runs past a due event. In the code this is bounded by the length of a basic block.
* `VIDelay` exceeds the largest lateness where time matters, as a frame exceeds a basic
  block.
  `CompareAhead` is odd in `scheduler_time`, so that Compare never coincides
  with an event at an even count.
* `OneSave`: the frontend saves once and loads as often as it likes; a second
  save would only choose another state that some run saves first.
* `MaxQueued` (2 or 3) and `MaxDMA` (2 or 3): two events of a type are
  enough for a stale one to end the wrong transfer, three transfers
  are enough to fill a fifo of two and have one refused or overwritten.
* `Devices` splits the RCP into groups that share no state but the MI; the MI is
  in every run. `Lengths` has one short and one longer transfer, so that a read can
  play none, some or all of it.
* `Polite` says whether the guest looks at busy bits, `Breaks` whether the RSP may
  leave a task in the middle. `TasksEnd` is for tasks that reach their BREAK.
* `MaxInUse`, `Ids`: buffers in the pool at a time. Offsets, and so wraps, are not
  bounded: the threads run for ever. Four to six units give every relation
  of sizes and offsets that the code distinguishes. `Word` stands for 2^64 and is
  more than twice the pool, as in the code, so that a wrapped
  difference is larger than every size.

* `Frontend`: `MAX_SWAP = 1` is the smallest depth at which a frame can be queued
  behind another; `MaxQueue = 1` bounds calls other than frames, and still lets a frame,
  an empty command and a call be queued together. `Calls` is `{"get", "gen"}`: a call that
  is queued and not waited for is what a frame is too, so that `"draw"` would repeat it.
  Two buffers tell a savestate from the one before; `Jobs` and `Outcomes` are all there are.
  The number of frames, calls, jobs and games is not bounded, and calls go on between the
  request to stop and its service. The run has 232,272 distinct states. Two bounds are in
  guards: a game is unloaded, saved and loaded only after its first frame. The
  theorems hold for every set of calls, jobs, outcomes and buffers.
* `SECTORS_PER_BLOCK` is 3 for 85: a first, a middle and a last sector are the cases of
  `dd_update_bm`. `MaxQueued = 2` allows a doubled event. The number of transfers is not
  bounded. `Guests = {TRUE}` in the run; the theorems also cover the other guest. A track
  keeps its kind (protected, not formatted, ...), although Set Disk Type could
  change which are protected; a block of a track that cannot be found has none of its sectors; and
  blocks start inside `Places`, with no start sector beyond the two blocks of a track.
* `Netplay`: two reads of one player; two events per datagram, so that one answers more
  than was asked for; `Word` is more than twice the reads, as 2^32 is. The theorems hold for
  any number of consoles, players and reads within `Word / 2`. Every update reads every
  controller once, as it does when each is present and the game's PIF program reads
  it; and a console that has given up stops before its game uses the empty keys that it was given.
* `Scheduler`: an event is not scheduled while one of its type is queued (`~get_event` in
  `ScheduleEvent`), of which `add_interrupt_event` only warns. `Rcp` has no such guard: there
  a guest that ignores busy bits does double an event.

No action constrains away a step of the code except by these named bounds.
`Stopped` and `Finished` are explicit stuttering steps, so that deadlock is checked. Two runs
allow a stop: `ring`, after a throw, and `frontend`, where a load without the magic stops
the emulation thread and then whoever waits for it; any other deadlock there violates
`CallsReturn`.

## 5. Fairness

* `Rcp!FairSpec`: weak fairness of the end-of-transfer handlers and of
  `rsp_interrupt_event`. The guest executes branches for ever, each moves Count,
  and an event that is due is serviced by the next `gen_interrupt`
  (`OverdueIsServiced`). Nothing is assumed of the guest's own stores.
* `RingBufferPool!FairSpec`: weak fairness of each thread, what an operating system's
  scheduler gives. No fairness between the threads, and none of `Begin`.
* `Frontend!FairSpec`: weak fairness of each thread; strong fairness of showing a frame
  and of `gen_interrupt` serving a job or a stop (`Interrupt \/ Quit`), since a game shows
  frames and is interrupted for ever, between any other calls it makes; and a frontend that
  keeps running or unloads the game. Nothing is assumed of the order in which the threads run.
* `DDController!FairSpec`: weak fairness of the drive's events (queued events are
  serviced) and of a guest that serves its interrupts, moves its data and resets the BM
  after an error. Nothing is assumed of a guest that does not follow the protocol.
* `Netplay!FairSpec`: threads run, and datagrams do not arrive for ever faster than the
  loop of `netplay_ensure_valid` looks at its list. Either no answer takes ten
  seconds, and then a request that is repeated for ever is answered at last; or one
  does (`slow`), and then nothing at all is assumed of the network and the server.

## 6. What is proved

TLAPS checks `SchedulerProofs`, `SchedulerCoherence`, `SchedulerTime`, `RcpProofs`, `RingProofs`,
`FrontendProofs`, `NetplayProofs` and `DDProofs`, for every value of the
constants that the modules' `ASSUME`s allow. A theorem that assumes more says so in its
statement, and section 7 has what TLC finds when such a hypothesis is dropped.

**Scheduler.** `TypeCorrect`, `PoolSound` and `TimersAlwaysQueued`: the types, one
node per queued event, and each timer queued exactly once whenever guest code runs,
with any pool of at least two nodes, also when it is exhausted, and across resets and
savestates. The assumptions are that W is even, that the pool has at least two
nodes, and that delays and register values are in range. `TimersQueued` is not
inductive: a removal and a re-insertion are one action, but a load is many.
The invariant is `Good \/ Loading`. `Good` adds to the property that the pool's
index is the length of the list (so that a node is free right after a removal) and
that a savestate buffer holds a queue with its own timers. `Loading` says
which timers the queue has after *k* of the file's events are inserted: those among
the first *k*. The proof has one lemma per function of the queue (what it does to the
types of the queued events), one per handler, one per action.

`CoherentAlways` (`Coherent`): `next_interrupt` + `cycle_count` is Count modulo W.
Most operators recompute one of the three from the others, some only for the event that is
first, and an exception in a delay slot overwrites two. The invariant is `Coh`:
`Exact(r4300)`, or a jump is to be skipped. `Exact` speaks of an integer number of periods
instead of `%`, since that composes; the relation `Tracks` says of each operator which of
the two it keeps, and carries the proof through handlers that call handlers.
`JumpSkippedOnce` (`SkipJumpConsumed`) assumes that the game does not write Count and that
no savestate is loaded.

`LoadedInOrder` (`LoadKeepsOrder`): the events of a savestate are in the list, in the order
of the file, when the load ends; only SPECIAL_INT may stand elsewhere, because
`load_eventqueue_infos` adds it anew. The hypothesis is `Chronological`: the file lists its
events in the order of their distances from `LoadOrigin`, which is Count, or the count of
the first event if that is overdue. It is about the file alone. The invariant
(`Restored`, a part of `Loading`) says that the events inserted so far are the first ones
of the file, and that `before_event` has compared from the file's origin although
`cycle_count` is recomputed by every insertion at the front. TLC finds `Chronological`
true of every file that `scheduler_jobs` loads; the line on `LoadKeepsOrder` in section 7
is a file of which it is false.

`CycleCountTrue` (`CycleCountExact`), `NoEventEarly` (`NoEarlyService`), `OverdueNoticed`
(`OverdueIsServiced`) and `QueueOrdered` (`OrderedByDue`): the unsigned differences of the
code, some of them read as signed, agree with the true distances `left`, for every W, pool,
set of devices, delays, steps and values of Compare that satisfy `Regime`, in every
behaviour that is `Regular`. `Regime` is about the constants: delays and Compare are short of
a period by the largest lateness `Lag`, a frame is longer than `Lag`, `Lag` is less than
half a period; no 64DD, writes of Count, soft resets or loads. `Regular` is about
the guest: COMPARE_INT coincides with no other event (`Apart`), some event is due within
half a period after SPECIAL_INT, as a VI_INT is (`Spread`), and none gets later than `Lag`
(`Timely`). `MCSchedulerTime` assumes `Regime`, so that TLC evaluates it with `Lag = 12`,
and TLC finds `Regular` true of every state of `scheduler_time`, which is therefore an
instance of the theorems; with `Lag = 10` it is not. None of the four
properties is inductive. The invariant `TimeInv` says of the whole list that counts and
distances agree (`Dated`), that it is ordered, that all events lie within one period of the
origin from which `before_event` compares (`Within`), and how far away each type may be
(`Bounded`); then a comparison of remainders is one of distances. A handler is
followed from one call to the next, since it removes its event while others may be overdue.

**Rcp.** `RcpTypeCorrect`, `InterruptsNotLost` (`NoLostInterrupt`) and
`BusyDevicesEnd` (`BusyHasEvent`). `Safe` is the types together with
`NoLostInterrupt`, which needs no more than them; there is one lemma per
device. `BusyHasEvent` is inductive relative to `Safe` for every guest, but only
without NMI, which the theorem therefore assumes (`~WithNMI`); section 7
shows that the assumption is needed.

`SpDmasInOrder` (`DmaInOrder`) and `AudioPlayedOnce` (`AudioComplete`) hold for every guest
and through every NMI: their invariants relate the numbers in the two entries of a fifo
and what has been done (or played) of each to the count of transfers accepted. `OneEventEach`
(`OneEventPerTransfer`) is for a guest that looks at the busy bits, without NMI. It is
inductive together with `Safe` and the order of the SP's fifo (`SpOrdered`), and is proved
device by device (`PiOneEvent`, `SiOneEvent`, `SpOneEvent`, `ViOneEvent`); the AI's half,
`AiOneEvent`, holds for every guest and is part of `AiSound`.

**RingBufferPool.** `NothingOutside`: the offsets, the buffer that the producer is about
to return, those in queued commands and that of the consumer lie inside the vector, for
every sequence of commands and every interleaving, stale values of `m_full` included. `OneWaitIsEnough` (`NoSecondWait`) is as general. Its invariant `RoomInv` relates the
producer's copy of the start offset to the field: whoever sees `m_full` set, and the mutex
free, sees the offset that the producer has read.

That buffers do not overlap is false in general (section 7). `TwoBuffersIntact`
(`DataIntact`) is for at most two buffers in the pool, each at most half of the first vector
or larger than all of it (`TwoBuffers`), with any number of commands and any sizes, and one
size to grow to (`OneGrowth`). It says of every buffer of at most half of the vector, as large
as it is then, that it is not overwritten, before and after a growth; of larger ones in the
grown vector it says nothing. The invariant `LineInv` says where the one or two buffers are,
from the oldest in the hands of the consumer to the newest in those of the producer; that
they lie in line from the start offset to the end offset, wrapped or not, where `m_full` may
be stale, except that one of more than half of the vector at its front may reach beyond
the start offset; and that memory holds the bytes of the others. That a pool that looks empty
when it is resized is empty (`HeldInv`) carries `LineInv` through a growth, and gives
`PointersStayValid` (`NoDangling`) under the same hypotheses. The run `ring` satisfies both.
The proof of `TwoBuffersIntact` needs `OneGrowth`; TLC finds no violation of `DataIntact` in
`ring` with `MaxBufferPoolSize = 8` either, where the pool may grow twice.

**Frontend.** The invariant has four parts. `Base` has the types and where the three
parties can be together (who waits for whom, which command is the last one); `Queues` has
which objects of the pools are in use and by which command in which queue, and that an
executed flag belongs to the call that waits. These two hold for every `Races` and every
depth, set of calls, jobs and buffers, and give `CallsInOrder` (`OwnArguments`),
`WaitsForItsOwn` (`ReturnsExecuted`) and `SkipsTheRightFrame` (`ShownAsProduced`).
`Counting`, that the counter is the number of frames queued or being shown, needs
`"counter" \notin Races`; it gives `FrontendTypes` (`TypeOK`), `DepthIsKept`
(`FramesAhead`) and `CleanShutdown` (`NothingLeft`). `JobDone` follows a savestate job from the frontend to the
emulation thread and back, without the three races of its variables (`"job"`, `"result"`,
`"clear"`), for every outcome, through both reports of a save and with the lock kept or
released; it gives `JobsDoneWithTheirBuffer` (`OwnBuffer`).

**Netplay.** `NoStaleEvents` and `EveryGameIsGivenTheSame`, the refinement of `Lockstep`.
The assumption is that a game reads its controllers fewer than `Word / 2` times, so that
the unsigned difference of line 286 tells past from future. The inductive invariant
`IInv` adds to the types and `NothingStale`: what a list (`ListsRight`) or a datagram
being processed (`InboxRight`) holds for a count is what the server has fixed for it;
`got` has as many inputs as `count` says (`Counted`), and they are the first ones that
were fixed; counts do not leave their bounds (`Bounded`, `ToRead`); and the request thread
exists only while the main thread waits (`ThreadOnlyInWait`), which is why the event
that it looks for is still the one that the main thread needs. A step of `Use` is then
a `Read` of `Lockstep`, a step of `Fix` an `Agree`, and all others stutter.

**DDController.** `BMGoesOn` (`NoStall` and the types), `MotorTimers` (`MotorTimed`),
`DriveInterrupts` (`LineSound`), `ProtectedTracks` (`ProtectedUntouched`) and
`TransfersInOrder` (`SectorsInOrder`), for every number of sectors, every set of tracks, and
both kinds of guests. The invariant `IInv` adds `OneAtATime` (a
guest that follows the protocol has a command or a transfer in progress, not both, and
one event for a command) for the second half of `LineSound`, and `Guarded` (a write seek of
a protected track leaves its warning set; the BM does not run on track 0) for
`ProtectedUntouched`. `Order` is the invariant of transfers: what was asked for is a `Plan`
of one block or two; `Reading` and `Writing` say from the block, the sector number and the
BLOCK bit how many sectors have been moved, how many the guest has supplied and which one
the buffer holds; when the BM stops, all have been moved. The operators of the drive are
nested updates of one record; a lemma per operator says which fields it leaves alone,
relations (`Same`, `Motor`, `Step`, `Shrinks`, `Kept`) compose these, and the lemmas about
actions use only them.

**Model-checked only.** Liveness: `TransfersEnd`, `TasksEnd`, `CreateReturns`, `CallsReturn`,
`GetInputReturns`, `TransferEnds`, `CommandEnds`. Fairness and ENABLED are out of the
prover's reach. Every other property of a passing run is stated by a theorem. That
`Regular` and `Chronological` hold of a whole run is model-checked, as said above: they are
hypotheses about the guest and about files.

## 7. Where the code and its comments disagree

One run, `ring_overwrite`, ends in a counterexample: `m_full = false` lands after the
producer's `m_full = true`, and a queued buffer is overwritten. `PROJECT.json` quotes
the line.

The assumptions of the passing runs are needed. Each line below is a passing run with
one change, after which TLC finds the property violated. (Those of `scheduler_time` use
`MCScheduler`, without `Lag`: `MCSchedulerTime` refuses most of them, because the changed
constants do not satisfy `Regime`.)

| Run | Change | Violated | What happens |
|---|---|---|---|
| `scheduler_time` | `CompareAhead = {6}` | `NoEarlyService` | a COMPARE_INT due together with another event is serviced twice |
| `scheduler_time` | `SignalWhenOverdue = TRUE` | `OverdueIsServiced` | `r4300_check_interrupt` sets `cycle_count` to 0 with an overdue event queued; the next insertion is ordered wrongly and strands it |
| `scheduler_time` | `CompareAhead = {0}` | `NoEarlyService` | Compare is set to Count while an event is overdue; the COMPARE_INT, a period away, is inserted as if it were due now |
| `scheduler_time` | `Spec`, `Sources = {}` | `NoEarlyService` | with no VI queued, `special_int_handler` removes SPECIAL_INT and a COMPARE_INT more than half a turn away is first: `cycle_count` has the wrong sign, the next SPECIAL_INT is inserted behind it and COMPARE_INT is serviced early |
| `scheduler_jobs` | also check `SkipJumpConsumed` | it | a savestate is loaded between a cancelled jump and its being skipped; loading does not clear `skip_jump` |
| `scheduler_reset` | `CountValues = {0, 1, 2}` | `SkipJumpConsumed` | MTC0 Count in a delay slot services a due event, whose exception cancels the jump, and then moves `cycle_count` below 0: the end of the branch does not call `gen_interrupt` |
| `scheduler_jobs` | `Spec`, `W = 4`, `VIDelay = 2`, `CountPerOp = 1`, `Sources = {"VI"}` | `LoadKeepsOrder` | a COMPARE_INT equal to Count is a period away when saved and due when loaded |
| `rcp_transfers` | `WithNMI = TRUE`, also check `BusyHasEvent` | it | an NMI during an SI transfer leaves the SI busy for ever |
| `rcp_transfers` | `Polite = FALSE` | `OneEventPerTransfer` | a store into PIF memory starts a second SI transfer |
| `ring` | `DataIntact` of every buffer, without `2 * b.size <= size` | it | after a buffer of 2 or 3 has been used, one of 7 grows the vector from 6 to 7 and is placed at 0, beyond the start offset; the next buffer is placed at 0 over it while it is queued |
| `ring` | `MaxInUse = 3`, `Ids = 4` | `DataIntact` | the schedule of `ring_overwrite`: three buffers fill the pool exactly, `m_full` is cleared by an older removal, and the next buffer is placed over a queued one |
| `ring` | `MaxInUse = 3`, `Ids = 4` | `NoDangling` | a pool that looks empty is resized under a pointer |
| `ring` | `MaxBufferPoolSize = 8` | `NoDangling` | a pool that may grow twice: a buffer of exactly the grown size is placed at 0 while the consumer is between its two stores; `m_full` is then cleared, and the pool, which looks empty, is resized under a pointer |
| `ring` | the command `<<3, 2>>` added to `Oversized` | `CreateReturns` | the producer waits for space that only its own unqueued command could free |
| `frontend` | `Races = {"counter"}` | `FramesAhead`, `NothingLeft` | an increment and a decrement of `m_swapBuffersQueued` meet and one is lost |
| `frontend` | `Races = {"wakeup"}` | `CallsReturn` | the notification comes after the test and before the sleep: `ReduceSwapBuffersQueued` does not take the mutex |
| `frontend` | `Races = {"job"}` | `OwnBuffer` | `savestates_set_job` has stored the job and not yet the buffer when `gen_interrupt` serves it |
| `frontend` | `Races = {"result"}` | `OwnBuffer` | `retro_serialize` sees `retro_savestate_complete` before the result is stored |
| `frontend` | `Races = {"clear"}` | `CallsReturn` | a second job is cleared with the first, and its caller waits for ever |
| `frontend` | `Races = {"clear"}` | `OwnBuffer` | a second `retro_serialize` begins after the first report of a save (`savestates.c:1636`): its buffer is set to NULL with the first one's (2332), and the second report (2338) makes it return true with nothing saved |
| `frontend` | `CallsReturn` without `\/ Jammed` | it | a load of a buffer without the magic returns with `savestates_lock` held (`savestates.c:270-274`); `retro_unserialize` returns true, `savestates_clear_job` waits for ever for the lock, and so do the next `retro_run` and a further `retro_serialize` |

The five races of `frontend` were tried without calls, without frame skips, with the job
`"save"` and the outcome `"done"` alone, which is enough for each of them.

`DDController` says what a guest does that follows the protocol. Changing one of its
guards shows what the drive does to any other:

| What the guest does | Guard dropped | Violated | What happens |
|---|---|---|---|
| takes an exception between an interrupt of the drive and its service | `Exception` | `LineSound`, `TransferEnds` | Cause is overwritten (`mips_instructions.def:1027`); IP2 is derived again from the MI, IP3 is not: the guest misses the interrupt and the transfer hangs |
| gives a command while the BM runs | `Quiet` in `Command` | `LineSound`, `TransferEnds` | the read of the status clears IP3 for BM_INT though MECHA_INT is pending (line 442; the test of line 718 is not made there) |
| starts the BM after Rezero, without a seek | `dd.track # "zero"` in `IsStart` | `ProtectedUntouched` | Rezero selects writing and does not test the protection (line 541; the comment of line 283 says "do not write anything [...] if the track being written is write protected") |
| acknowledges MECHA before the interrupt | `"MECHA_INT" \in dd.status` in `IsAck` | `CommandEnds` | line 696 removes the event, BUSY_STATE stays set |
| starts the BM after an error, without a reset | `dd.bm = {}` in `IsStart` | `SectorsInOrder` | the BLOCK bit of the transfer before is still set |
| is slow | `~guest.owed` in `dd_bm_int_handler` | `SectorsInOrder` | the next sector overwrites the buffer |

## 8. What is not modelled

* Instruction semantics, the recompilers, plugins: computation, with no protocol
  that a state space would explore. The recompilers call the functions modelled here.
* Bytes, addresses and durations of transfers: no property here depends on them, and
  leaving durations open covers all of them.
* The byte layout of savestates and settings, ROM loading, options: input and output.
* Signal bits, single step and the semaphore of the SP; DP status bits other than
  freeze; framebuffer tracking: independent of transfers and tasks.
* Memory ordering weaker than interleaving: in `RingBufferPool` the shared fields are
  atomics with the default order; in `Frontend` plain variables are read and written
  as the program says.
* Netplay beyond inputs: lag and fast forward, checksums, registration, settings and
  saves over TCP. (`netplay_read_storage` may return an uninitialised `ret` to player 1
  when nothing is sent; it is input and output otherwise.)
* What the OpenGL calls do, and that a priority call such as `glFenceSync` overtakes
  queued draws: the order that `OwnArguments` promises is that of the other calls.
* An unload of a game of which no frame was run (`retro_unload_game` then waits for a
  shutdown that no thread will make), and the return value of `retro_unserialize`,
  which is true whatever the load did; `OwnBuffer` speaks of `retro_savestate_result`.
* The 64DD's clock, version and disk-change bits, the formats of disks, and NMI.

## 9. Plan

1. An abstract agenda (a set of events with true due times) that `Scheduler` with
   `left` implements, by `INSTANCE ... WITH`, under the assumptions of
   `scheduler_time`.
2. PIF channels and the devices behind them; the flash command machine; GB carts and
   controller paks; cheats.
3. Netplay's checksums and saves.
4. Proofs: that savestates written in the regime of `SchedulerTime` are chronological, and
   the time properties across loads of them; `DataIntact` for more than two buffers in use,
   with sizes for which the pool cannot be filled exactly.
