------------------------------- MODULE Frontend -------------------------------
(***************************************************************************)
(* Threaded rendering as the libretro frontend sees it.  There are two     *)
(* threads.  One runs the emulation and issues OpenGL calls.  The other is *)
(* the frontend's; it executes the calls in the coroutine commandLoop, to  *)
(* which retro_run, retro_serialize, retro_unserialize and                 *)
(* retro_unload_game switch, and which switches back when a frame is to be *)
(* shown, while a savestate job is waiting and after the shutdown.         *)
(*                                                                         *)
(* A call takes a command object from the pool of its type and queues it.  *)
(* Synced commands are waited for; commands of high priority have a queue  *)
(* of their own and put an empty command into the other to wake the loop.  *)
(*                                                                         *)
(*   emu       the emulation thread: where it is, and the call in progress *)
(*   gl        commandLoop: where it is, the swap command that it is       *)
(*             executing, is it about to end?                              *)
(*   front     the frontend: the function it is in, and the buffer of the  *)
(*             savestate                                                   *)
(*   active    which of the coroutines runs, "front" or "loop"             *)
(*   pool      for each type of command its objects and the current index  *)
(*   queue, priority                                                       *)
(*             m_commandQueue and m_commandQueueHighPriority               *)
(*   swaps     m_swapBuffersQueued                                         *)
(*   skip, presented, swapped                                              *)
(*             frame_skip_flags, presented_frame_skip_flags (is the frame  *)
(*             skipped?) and libretro_swap_buffer                          *)
(*   state     the variables of savestate jobs: job and fname of           *)
(*             savestates.c, retro_savestate_complete and _result; does    *)
(*             the emulation thread hold savestates_lock?                  *)
(*   stop, safe                                                            *)
(*             has a stop been asked for?  threaded_gl_safe_shutdown       *)
(*   pending   history: the calls whose commands are queued, in the order  *)
(*             in which they were made; NoCall for the empty command       *)
(*   served    history: the buffer that a job was done with since the      *)
(*             frontend's last one                                         *)
(*                                                                         *)
(* Some accesses to variables of both threads race.  Races names those     *)
(* that may happen; the others are taken to be atomic:                     *)
(*   "counter"  ++ and -- of m_swapBuffersQueued                           *)
(*   "wakeup"   the counter is changed and its change is notified after    *)
(*              the emulation thread's test and before it sleeps           *)
(*   "job"      the job is stored before its buffer                        *)
(*   "result"   retro_savestate_complete is stored before the result       *)
(*   "clear"    a job goes on after it has been reported as complete: its  *)
(*              buffer is forgotten, a save is reported again, the job is  *)
(*              cleared                                                    *)
(* Outcomes names what may become of a job that has a buffer:              *)
(*   "done"     the state is saved or loaded                               *)
(*   "refused"  a load of another version or another ROM, or no memory     *)
(*   "magic"    a load of something that is no savestate at all: it        *)
(*              returns without releasing savestates_lock                  *)
(*                                                                         *)
(* Definitions named Faulty_... are seeded faults, as in EventQueue.       *)
(***************************************************************************)
EXTENDS Integers, Sequences, FiniteSets, FiniteSetsExt

CONSTANTS
    MAX_SWAP,    \* the option ThreadedRendererQueueDepth
    MaxQueue,    \* a bound on the length of m_commandQueue
    Calls,       \* the types of the calls that the game makes, besides "swap"
    Buffers,     \* the buffers of savestates
    Jobs,        \* the jobs asked for, among "save" and "load"
    Outcomes,    \* see above
    Skips,       \* may the frontend ask to skip a frame?
    Races        \* see above

Types == {"draw", "get", "gen", "swap", "quit", "shutdown"}
Synced == {"get", "gen", "quit"}
Priority == {"gen"}

NoBuffer == "none"
NoCall == [id |-> 0, skip |-> FALSE]
Wake == <<"wake", 0>>

ASSUME FrontendAssumption ==
    /\ MAX_SWAP \in Nat \ {0} /\ MaxQueue \in Nat
    /\ Calls \subseteq {"draw", "get", "gen"}
    /\ NoBuffer \notin Buffers
    /\ Jobs \subseteq {"save", "load"}
    /\ Outcomes \subseteq {"done", "refused", "magic"}
    /\ Skips \subseteq BOOLEAN /\ FALSE \in Skips
    /\ Races \subseteq {"counter", "wakeup", "job", "result", "clear"}

VARIABLES emu, gl, front, active, pool, queue, priority, swaps, skip, presented, swapped,
          state, stop, safe, pending, served

commands == <<pool, queue, priority, pending>>
frames == <<skip, presented, swapped>>
jobs == <<state, served>>
ends == <<stop, safe>>
vars == <<emu, gl, front, active, commands, swaps, frames, jobs, ends>>

(* A race that does not happen: the first thread waits until the other is  *)
(* through.                                                                *)
Through(race, inTheMiddle) == race \in Races \/ ~inTheMiddle

-----------------------------------------------------------------------------
(* The pools of command objects. *)

Object(r) == pool[r[1]].objects[r[2]]

Faulty_IsFree(objects, j) == ~objects[j].executed

IsFree(objects, j) == ~objects[j].inUse

(* getAvailableObject: the first free object from the current one on, and  *)
(* round.                                                                  *)
Free(t) == {j \in DOMAIN pool[t].objects : IsFree(pool[t].objects, j)}

Distance(t, j) ==
    LET n == Len(pool[t].objects) IN (j - 1 + n - pool[t].index) % n

getAvailableObject(t) ==
    CHOOSE j \in Free(t) : \A k \in Free(t) : Distance(t, j) <= Distance(t, k)

NewObject(call) == [inUse |-> TRUE, executed |-> FALSE, call |-> call]

(* getFromPool and set: the pool with an object for this call, and which.  *)
getFromPool(t, call) ==
    LET p == pool[t]
        n == Len(p.objects)
        j == getAvailableObject(t)
    IN  IF Free(t) = {}
        THEN [index |-> 0, at |-> n + 1, objects |-> Append(p.objects, NewObject(call))]
        ELSE [index |-> j % n, at |-> j,
              objects |-> [p.objects EXCEPT ![j].inUse = TRUE, ![j].call = call]]

(* Calls are told apart by the smallest number that no pending call has. *)
NewId == Min({i \in 1..(Len(pending) + 1) : \A j \in DOMAIN pending : pending[j].id # i})

(* The emulation thread is between two calls. *)
Resting(at) == [at |-> at, command |-> Wake, count |-> 0, ret |-> FALSE]

(* A call of the emulation thread takes an object and queues it, in        *)
(* executeCommand or executePriorityCommand, after which the thread is at  *)
(* next.  The loop sees no more of it than the queue.                      *)
Execute(t, next) ==
    LET call == [id |-> NewId, skip |-> t = "swap" /\ skip]
        g == getFromPool(t, call)
        command == <<t, g.at>>
    IN  /\ pool' = [pool EXCEPT ![t] = [objects |-> g.objects, index |-> g.index]]
        /\ IF t \in Priority
           THEN /\ priority' = Append(priority, command)
                /\ emu' = [emu EXCEPT !.at = "wake", !.command = command]
                /\ UNCHANGED <<queue, pending>>
           ELSE /\ queue' = Append(queue, command)
                /\ pending' = Append(pending, call)
                /\ emu' = IF t \in Synced THEN [emu EXCEPT !.at = "wait", !.command = command]
                          ELSE Resting(next)
                /\ UNCHANGED priority

(* setInUse(false).  What a free object holds is read by nobody. *)
Release(objects, j) == [objects EXCEPT ![j].inUse = FALSE, ![j].call = NoCall]

-----------------------------------------------------------------------------
(* The emulation thread: OpenGL calls. *)

Call(t) ==
    /\ emu.at = "game" /\ t \in Calls
    /\ Len(queue) < MaxQueue
    /\ Execute(t, "game")
    /\ UNCHANGED <<gl, front, active, swaps, frames, jobs, ends>>

(* The second half of executePriorityCommand. *)
EnqueueWake ==
    /\ emu.at = "wake"
    /\ queue' = Append(queue, Wake) /\ pending' = Append(pending, NoCall)
    /\ emu' = [emu EXCEPT !.at = "wait"]
    /\ UNCHANGED <<gl, front, active, pool, priority, swaps, frames, jobs, ends>>

Faulty_waitOnCommand ==
    /\ emu.at = "wait"
    /\ Object(emu.command).executed
    /\ emu' = Resting(IF emu.command[1] = "quit" THEN "quitted" ELSE "game")
    /\ UNCHANGED <<gl, front, active, commands, swaps, frames, jobs, ends>>

(* The wait and performCommand are atomic: both hold the command's mutex.  *)
waitOnCommand ==
    /\ emu.at = "wait"
    /\ Object(emu.command).executed
    /\ pool' = [pool EXCEPT ![emu.command[1]].objects[emu.command[2]].executed = FALSE]
    /\ emu' = Resting(IF emu.command[1] = "quit" THEN "quitted" ELSE "game")
    /\ UNCHANGED <<gl, front, active, queue, priority, pending, swaps, frames, jobs, ends>>

-----------------------------------------------------------------------------
(* The emulation thread: _swapBuffers. *)

SwapBuffers ==
    /\ emu.at = "game"
    /\ emu' = [emu EXCEPT !.at = "limit"]
    /\ UNCHANGED <<gl, front, active, commands, swaps, frames, jobs, ends>>

Faulty_TestLimit ==
    /\ emu.at = "limit"
    /\ emu' = [emu EXCEPT !.at = IF swaps <= MAX_SWAP + 1 THEN "load" ELSE "block"]
    /\ UNCHANGED <<gl, front, active, commands, swaps, frames, jobs, ends>>

(* WaitForSwapBuffersQueued, with a mutex that ReduceSwapBuffersQueued     *)
(* does not hold.                                                          *)
TestLimit ==
    /\ emu.at = "limit"
    /\ emu' = [emu EXCEPT !.at = IF swaps <= MAX_SWAP THEN "load" ELSE "block"]
    /\ UNCHANGED <<gl, front, active, commands, swaps, frames, jobs, ends>>

(* After the test the thread goes to sleep; a notification that comes      *)
(* before it does is lost.                                                 *)
Block ==
    /\ emu.at = "block"
    /\ emu' = [emu EXCEPT !.at = "asleep"]
    /\ UNCHANGED <<gl, front, active, commands, swaps, frames, jobs, ends>>

LoadCount ==
    /\ emu.at = "load" /\ Through("counter", gl.at = "store")
    /\ emu' = [emu EXCEPT !.at = "store", !.count = swaps]
    /\ UNCHANGED <<gl, front, active, commands, swaps, frames, jobs, ends>>

Faulty_StoreCount ==
    /\ emu.at = "store"
    /\ swaps' = IF skip THEN emu.count ELSE emu.count + 1
    /\ Execute("swap", "game")
    /\ UNCHANGED <<gl, front, active, frames, jobs, ends>>

(* CoreVideo_GL_SwapBuffers. *)
StoreCount ==
    /\ emu.at = "store"
    /\ swaps' = emu.count + 1
    /\ Execute("swap", "game")
    /\ UNCHANGED <<gl, front, active, frames, jobs, ends>>

-----------------------------------------------------------------------------
(* The emulation thread: gen_interrupt. *)

Interrupt ==
    /\ emu.at = "game" /\ state.job # "nothing" /\ Through("job", front.at = "fname")
    /\ emu' = [emu EXCEPT !.at = IF state.job = "save" THEN "save" ELSE "restore"]
    /\ UNCHANGED <<gl, front, active, commands, swaps, frames, jobs, ends>>

(* savestates_save.  queue_work runs the work of savestates_save_m64p at   *)
(* once, in this thread, which takes the lock and reports the saved state. *)
savestates_save(outcome) ==
    LET named == state.fname # NoBuffer
        done == named /\ outcome = "done"
    IN  /\ emu.at = "save" /\ outcome # "magic" /\ ~state.lock
        /\ state' = [state EXCEPT !.lock = done]
        /\ served' = IF done THEN state.fname ELSE served
        /\ emu' = [emu EXCEPT !.at = IF named THEN "worked" ELSE "complete", !.ret = done]
        /\ UNCHANGED <<gl, front, active, commands, swaps, frames, ends>>

(* savestates_load.  savestates_load_m64p holds the lock until it returns, *)
(* and for ever if the buffer does not begin with the magic.               *)
savestates_load(outcome) ==
    LET named == state.fname # NoBuffer
        done == named /\ outcome = "done"
    IN  /\ emu.at = "restore" /\ ~state.lock
        /\ state' = [state EXCEPT !.lock = named /\ outcome = "magic"]
        /\ served' = IF done THEN state.fname ELSE served
        /\ emu' = [emu EXCEPT !.at = IF named THEN "forget" ELSE "complete", !.ret = done]
        /\ UNCHANGED <<gl, front, active, commands, swaps, frames, ends>>

(* fname = NULL, without the lock. *)
Forget ==
    /\ emu.at = "forget"
    /\ state' = [state EXCEPT !.fname = NoBuffer]
    /\ emu' = [emu EXCEPT !.at = "complete"]
    /\ UNCHANGED <<gl, front, active, commands, swaps, frames, served, ends>>

(* The two stores of a report.  The lock is afterwards held or not. *)
n64StateCallback(first, second, next, lock) ==
    /\ \/ /\ emu.at = first
          /\ state' = [state EXCEPT !.complete = TRUE]
          /\ emu' = [emu EXCEPT !.at = second]
       \/ /\ emu.at = second
          /\ state' = [state EXCEPT !.result = emu.ret, !.lock = lock]
          /\ emu' = [emu EXCEPT !.at = next]
    /\ UNCHANGED <<gl, front, active, commands, swaps, frames, served, ends>>

(* A save is reported by its work, which then releases the lock, and a     *)
(* second time, as a load is the first time, when fname has been reset.    *)
StateChanged ==
    \/ n64StateCallback("worked", "stored", "forget", FALSE)
    \/ n64StateCallback("complete", "result", "clear", state.lock)

Faulty_savestates_clear_job ==
    /\ \/ /\ emu.at = "clear"
          /\ emu' = [emu EXCEPT !.at = "unname"]
          /\ UNCHANGED state
       \/ /\ emu.at = "unname" /\ ~state.lock
          /\ state' = [state EXCEPT !.fname = NoBuffer]
          /\ emu' = [emu EXCEPT !.at = "game", !.ret = FALSE]
    /\ UNCHANGED <<gl, front, active, commands, swaps, frames, served, ends>>

(* savestates_set_job of nothing: the job, and with the lock its buffer. *)
savestates_clear_job ==
    /\ \/ /\ emu.at = "clear"
          /\ state' = [state EXCEPT !.job = "nothing"]
          /\ emu' = [emu EXCEPT !.at = "unname"]
       \/ /\ emu.at = "unname" /\ ~state.lock
          /\ state' = [state EXCEPT !.fname = NoBuffer]
          /\ emu' = [emu EXCEPT !.at = "game", !.ret = FALSE]
    /\ UNCHANGED <<gl, front, active, commands, swaps, frames, served, ends>>

(* A job after its work.  The thread that holds the lock already waits for *)
(* ever where it takes it again.                                           *)
Finishing == {"worked", "stored", "forget", "complete", "result", "clear", "unname"}
Jammed == emu.at = "unname" /\ state.lock

(* The emulation has been stopped: CoreVideo_Quit. *)
Quit ==
    /\ \/ emu.at = "game" /\ stop /\ Execute("quit", "quitted")
       \/ emu.at = "quitted" /\ Execute("shutdown", "ended")
    /\ UNCHANGED <<gl, front, active, swaps, frames, jobs, ends>>

Emulation ==
    \/ \E t \in Types : Call(t)
    \/ EnqueueWake \/ waitOnCommand
    \/ SwapBuffers \/ TestLimit \/ Block \/ LoadCount \/ StoreCount
    \/ Interrupt \/ (\E o \in Outcomes : savestates_save(o) \/ savestates_load(o))
    \/ Forget \/ StateChanged \/ savestates_clear_job
    \/ Quit

-----------------------------------------------------------------------------
(* commandLoop. *)

Runs(at) == active = "loop" /\ gl.at = at

Start ==
    /\ Runs("start")
    /\ safe' = FALSE
    /\ gl' = [gl EXCEPT !.at = "top"]
    /\ UNCHANGED <<emu, front, active, commands, swaps, frames, jobs, stop>>

Peek ==
    /\ Runs("top")
    /\ gl' = [gl EXCEPT !.at = IF priority # << >> THEN "drain" ELSE "dequeue"]
    /\ UNCHANGED <<emu, front, active, commands, swaps, frames, jobs, ends>>

Faulty_performCommand(command) ==
    LET t == command[1]
    IN  /\ pool' = [pool EXCEPT ![t].objects =
                       [Release(@, command[2]) EXCEPT ![command[2]].executed = t \in Synced \ Priority]]
        /\ pending' = IF t \in Priority THEN pending ELSE Tail(pending)

(* performCommand, other than for a swap: the command is executed and its  *)
(* object released; then a waiting thread is told.                         *)
performCommand(command) ==
    LET t == command[1]
    IN  /\ pool' = [pool EXCEPT ![t].objects =
                       [Release(@, command[2]) EXCEPT ![command[2]].executed = t \in Synced]]
        /\ pending' = IF t \in Priority THEN pending ELSE Tail(pending)

(* The commands of high priority, one after the other. *)
DequeuePriority ==
    /\ Runs("drain")
    /\ IF priority = << >>
       THEN gl' = [gl EXCEPT !.at = "yield"] /\ UNCHANGED <<priority, pool, pending>>
       ELSE performCommand(Head(priority)) /\ priority' = Tail(priority) /\ UNCHANGED gl
    /\ UNCHANGED <<emu, front, active, queue, swaps, frames, jobs, ends>>

(* wait_dequeue_timed gives up after 10 milliseconds, or finds the empty   *)
(* command...                                                              *)
DequeueNothing ==
    /\ Runs("dequeue")
    /\ \/ queue = << >> /\ UNCHANGED <<queue, pending>>
       \/ queue # << >> /\ Head(queue) = Wake /\ queue' = Tail(queue) /\ pending' = Tail(pending)
    /\ gl' = [gl EXCEPT !.at = "yield"]
    /\ UNCHANGED <<emu, front, active, pool, priority, swaps, frames, jobs, ends>>

(* ... or finds a command. *)
Dequeue ==
    /\ Runs("dequeue")
    /\ queue # << >> /\ Head(queue) # Wake /\ Head(queue)[1] # "swap"
    /\ performCommand(Head(queue))
    /\ queue' = Tail(queue)
    /\ gl' = [gl EXCEPT !.at = "yield", !.ending = Head(queue)[1] = "shutdown"]
    /\ UNCHANGED <<emu, front, active, priority, swaps, frames, jobs, ends>>

Faulty_SwapCommand ==
    /\ Runs("dequeue") /\ queue # << >> /\ Head(queue)[1] = "swap"
    /\ queue' = Tail(queue) /\ pending' = Tail(pending)
    /\ presented' = skip
    /\ swapped' = TRUE
    /\ active' = "front"
    /\ gl' = [gl EXCEPT !.at = "callback", !.command = Head(queue)]
    /\ UNCHANGED <<emu, front, pool, priority, swaps, skip, jobs, ends>>

(* The swap command hands the frame to the frontend... *)
SwapCommand ==
    /\ Runs("dequeue") /\ queue # << >> /\ Head(queue)[1] = "swap"
    /\ queue' = Tail(queue) /\ pending' = Tail(pending)
    /\ presented' = Object(Head(queue)).call.skip
    /\ swapped' = TRUE
    /\ active' = "front"
    /\ gl' = [gl EXCEPT !.at = "callback", !.command = Head(queue)]
    /\ UNCHANGED <<emu, front, pool, priority, swaps, skip, jobs, ends>>

(* ... and when it has the control again, there is one queued swap less... *)
LoadCountDown ==
    /\ Runs("callback") /\ Through("counter", emu.at = "store")
    /\ gl' = [gl EXCEPT !.at = "store", !.count = swaps]
    /\ UNCHANGED <<emu, front, active, commands, swaps, frames, jobs, ends>>

StoreCountDown ==
    /\ Runs("store") /\ Through("wakeup", emu.at = "block")
    /\ swaps' = gl.count - 1
    /\ gl' = [gl EXCEPT !.at = "notify", !.count = 0]
    /\ UNCHANGED <<emu, front, active, commands, frames, jobs, ends>>

(* ... of which a sleeping emulation thread is notified. *)
ReduceSwapBuffersQueued ==
    /\ Runs("notify")
    /\ emu' = IF swaps <= MAX_SWAP /\ emu.at = "asleep" THEN [emu EXCEPT !.at = "limit"] ELSE emu
    /\ pool' = [pool EXCEPT !["swap"].objects = Release(@, gl.command[2])]
    /\ gl' = [gl EXCEPT !.at = "yield", !.command = Wake]
    /\ UNCHANGED <<front, active, queue, priority, pending, swaps, frames, jobs, ends>>

(* The end of a round: the frontend may be waiting for a savestate. *)
Yield ==
    /\ Runs("yield")
    /\ active' = IF ~state.complete THEN "front" ELSE active
    /\ gl' = [gl EXCEPT !.at = IF gl.ending THEN "exit" ELSE "top", !.ending = FALSE]
    /\ UNCHANGED <<emu, front, commands, swaps, frames, jobs, ends>>

Exit ==
    /\ Runs("exit")
    /\ safe' = TRUE /\ active' = "front"
    /\ gl' = [gl EXCEPT !.at = "over"]
    /\ UNCHANGED <<emu, front, commands, swaps, frames, jobs, stop>>

commandLoop ==
    \/ Start \/ Peek \/ DequeuePriority \/ DequeueNothing \/ Dequeue \/ SwapCommand
    \/ LoadCountDown \/ StoreCountDown \/ ReduceSwapBuffersQueued
    \/ Yield \/ Exit

-----------------------------------------------------------------------------
(* The frontend. *)

In(at) == active = "front" /\ front.at = at

retro_load_game ==
    /\ In("unloaded")
    /\ state' = [state EXCEPT !.complete = TRUE]
    /\ gl' = [gl EXCEPT !.at = "start"]
    /\ emu' = [emu EXCEPT !.at = "new"]
    /\ front' = [front EXCEPT !.at = "idle"]
    /\ UNCHANGED <<active, commands, swaps, frames, served, ends>>

(* The first retro_run creates the emulation thread. *)
retro_run ==
    /\ In("idle")
    /\ swapped' = FALSE
    /\ skip' \in Skips
    /\ emu' = IF emu.at = "new" THEN [emu EXCEPT !.at = "game"] ELSE emu
    /\ front' = [front EXCEPT !.at = "run"]
    /\ active' = "loop"
    /\ UNCHANGED <<gl, commands, swaps, presented, jobs, ends>>

(* The loop has switched back: the frame is shown. *)
Present ==
    /\ In("run")
    /\ front' = [front EXCEPT !.at = "idle"]
    /\ UNCHANGED <<emu, gl, active, commands, swaps, frames, jobs, ends>>

Faulty_Serialize(buffer, j) ==
    /\ In("idle") /\ emu.at # "new"
    /\ Through("clear", emu.at \in Finishing /\ ~Jammed)
    /\ skip' = FALSE /\ presented' = FALSE
    /\ state' = [state EXCEPT !.result = FALSE, !.job = j]
    /\ front' = [at |-> "fname", buffer |-> buffer]
    /\ UNCHANGED <<emu, gl, active, commands, swaps, swapped, served, ends>>

(* retro_serialize and retro_unserialize return at once during the         *)
(* initialization, that is, before the first frame.                        *)
(* savestates_set_job stores the job...                                    *)
Serialize(buffer, j) ==
    /\ In("idle") /\ emu.at # "new"
    /\ Through("clear", emu.at \in Finishing /\ ~Jammed)
    /\ skip' = FALSE /\ presented' = FALSE
    /\ state' = [state EXCEPT !.complete = FALSE, !.result = FALSE, !.job = j]
    /\ front' = [at |-> "fname", buffer |-> buffer]
    /\ UNCHANGED <<emu, gl, active, commands, swaps, swapped, served, ends>>

(* ... and then, with the lock, the buffer. *)
StoreName ==
    /\ In("fname") /\ ~state.lock
    /\ state' = [state EXCEPT !.fname = front.buffer]
    /\ front' = [front EXCEPT !.at = "loop"]
    /\ UNCHANGED <<emu, gl, active, commands, swaps, frames, served, ends>>

(* The loop of retro_serialize, which switches to commandLoop until the    *)
(* job is complete.                                                        *)
AwaitJob ==
    /\ In("loop")
    /\ IF state.complete
       THEN /\ Through("result", emu.at \in {"stored", "result"})
            /\ front' = [front EXCEPT !.at = "return"] /\ UNCHANGED active
       ELSE active' = "loop" /\ UNCHANGED front
    /\ UNCHANGED <<emu, gl, commands, swaps, frames, jobs, ends>>

(* retro_serialize returns the result, retro_unserialize returns TRUE. *)
Return ==
    /\ In("return")
    /\ front' = [at |-> "idle", buffer |-> NoBuffer]
    /\ served' = NoBuffer
    /\ UNCHANGED <<emu, gl, active, commands, swaps, frames, state, ends>>

(* retro_unload_game, after a first frame. *)
retro_unload_game ==
    /\ In("idle") /\ emu.at # "new"
    /\ stop' = TRUE
    /\ front' = [front EXCEPT !.at = "unload"]
    /\ UNCHANGED <<emu, gl, active, commands, swaps, frames, jobs, safe>>

AwaitShutdown ==
    /\ In("unload")
    /\ \/ /\ ~safe /\ active' = "loop" /\ UNCHANGED <<front, stop, state>>
       \/ /\ safe /\ emu.at = "ended"
          /\ front' = [front EXCEPT !.at = "unloaded"]
          /\ stop' = FALSE
          /\ state' = [state EXCEPT !.complete = FALSE]
          /\ UNCHANGED active
    /\ UNCHANGED <<emu, gl, commands, swaps, frames, served, safe>>

FrontendThread ==
    \/ retro_load_game \/ retro_run \/ Present
    \/ (\E buffer \in Buffers, j \in Jobs : Serialize(buffer, j))
    \/ StoreName \/ AwaitJob \/ Return
    \/ retro_unload_game \/ AwaitShutdown

-----------------------------------------------------------------------------
(* Before a game is loaded.  Each type of command was used once, by an     *)
(* earlier game.                                                           *)
Init ==
    /\ emu = Resting("ended")
    /\ gl = [at |-> "over", command |-> Wake, ending |-> FALSE, count |-> 0]
    /\ front = [at |-> "unloaded", buffer |-> NoBuffer]
    /\ active = "front"
    /\ pool = [t \in Types |->
                  [objects |-> <<[inUse |-> FALSE, executed |-> FALSE, call |-> NoCall]>>,
                   index |-> 0]]
    /\ queue = << >> /\ priority = << >> /\ pending = << >>
    /\ swaps = 0
    /\ skip = FALSE /\ presented = FALSE /\ swapped = FALSE
    /\ state = [job |-> "nothing", fname |-> NoBuffer, complete |-> TRUE, result |-> FALSE,
             lock |-> FALSE]
    /\ served = NoBuffer
    /\ stop = FALSE /\ safe = FALSE

Next == Emulation \/ commandLoop \/ FrontendThread

Spec == Init /\ [][Next]_vars

(* Both threads run.  A game shows frames again and again and is           *)
(* interrupted again and again, also to be stopped; the frontend runs it   *)
(* or unloads it.                                                          *)
Fairness ==
    /\ WF_vars(Emulation) /\ SF_vars(SwapBuffers) /\ SF_vars(Interrupt \/ Quit)
    /\ WF_vars(commandLoop \/ FrontendThread)
    /\ SF_vars(retro_run \/ retro_unload_game)

FairSpec == Spec /\ Fairness

-----------------------------------------------------------------------------
TypeOK ==
    /\ emu.at \in {"new", "game", "wake", "wait", "limit", "block", "asleep", "load", "store",
                   "save", "restore", "quitted", "ended"} \cup Finishing
    /\ gl.at \in {"start", "top", "drain", "dequeue", "callback", "store", "notify", "yield",
                  "exit", "over"}
    /\ front.at \in {"unloaded", "idle", "run", "fname", "loop", "return", "unload"}
    /\ \A t \in Types : pool[t].index \in 0..Len(pool[t].objects)
    /\ swaps \in Nat
    /\ active \in {"front", "loop"}

(* The calls without priority are executed in their order, each once and   *)
(* with its own arguments: an object is not taken from the pool again      *)
(* while its command is queued.                                            *)
OwnArguments ==
    /\ Len(pending) = Len(queue)
    /\ \A i \in DOMAIN queue : queue[i] # Wake => Object(queue[i]).call = pending[i]

(* A synced call has been executed when it returns, whatever happened to   *)
(* the object in earlier calls.                                            *)
ReturnsExecuted ==
    emu.at \in {"game", "quitted"} =>
        \A r \in Range(queue) \cup Range(priority) : r[1] \notin Synced

(* Not more frames are queued than ThreadedRendererQueueDepth allows, and  *)
(* the one that is being shown.                                            *)
SwapsQueued(q) == Cardinality({i \in DOMAIN q : q[i][1] = "swap"})
ShownNow == IF gl.at \in {"callback", "store"} THEN 1 ELSE 0
FramesAhead == SwapsQueued(queue) + ShownNow <= MAX_SWAP + 1

(* A frame is shown or skipped as the frontend had asked for when it was   *)
(* produced.                                                               *)
ShownAsProduced == In("run") => presented = Object(gl.command).call.skip

(* When retro_serialize or retro_unserialize returns, either the job was   *)
(* done with its own buffer and the result says so, or it was done with    *)
(* none and the result says that, whichever of the two reports of a save   *)
(* it was that ended the wait.                                             *)
OwnBuffer ==
    front.at = "return" => served = IF state.result THEN front.buffer ELSE NoBuffer

(* The next game finds nothing of the last one: no command, no frame, no   *)
(* job.                                                                    *)
NothingLeft ==
    front.at = "unloaded" =>
        /\ queue = << >> /\ priority = << >> /\ pending = << >>
        /\ swaps = 0
        /\ state.job = "nothing"

(* Every function of the core that the frontend calls returns, and so does *)
(* every OpenGL call of the game: no thread waits for ever for the other,  *)
(* and none sleeps for ever because a notification was lost.  The only     *)
(* exception is a load of something that is no savestate, after which the  *)
(* emulation thread waits for ever for the lock that it holds itself.      *)
CallsReturn ==
    /\ front.at \notin {"idle", "unloaded"} ~> front.at \in {"idle", "unloaded"} \/ Jammed
    /\ emu.at # "game" ~> emu.at \in {"game", "ended"} \/ Jammed
=============================================================================
