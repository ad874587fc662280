--------------------------- MODULE RingBufferPool ---------------------------
(***************************************************************************)
(* The pool through which the emulation thread hands the data of OpenGL    *)
(* calls to the thread that makes the calls (threaded rendering of         *)
(* GLideN64).  The producer copies the buffers of a command into the pool  *)
(* and queues the command; the consumer takes commands in order, uses      *)
(* their buffers and removes them.  The mutex and the condition variable   *)
(* are used by the consumer and by a producer that waits; a producer that  *)
(* finds room uses neither.                                                *)
(*                                                                         *)
(* Sizes count units of byteAlignment.  Only the producer writes           *)
(* m_inUseEndOffset and the vector's size, so its reads of them need no    *)
(* steps of their own; each read or write of m_inUseStartOffset and m_full *)
(* outside the mutex is a step.                                            *)
(*                                                                         *)
(*   start, end, full   m_inUseStartOffset, m_inUseEndOffset, m_full       *)
(*   size, pool         m_poolBuffer: its size, and in each unit the       *)
(*                      number of the buffer whose data it holds           *)
(*   mutex              does the consumer hold m_mutex?                    *)
(*   queue              m_commandQueue, a command being its buffers        *)
(*   p                  the producer: pc, the sizes still to be copied of  *)
(*                      its command, the buffers made, tempInUseStart, the *)
(*                      buffer being made, and awake: not waiting for      *)
(*                      m_condition                                        *)
(*   c                  the consumer: pc, the buffers of its command, how  *)
(*                      many pointers it has got, and stale: the pool was  *)
(*                      moved since (read by no action)                    *)
(*                                                                         *)
(* Definitions named Faulty_... are seeded faults, as in EventQueue.       *)
(***************************************************************************)
EXTENDS Naturals, Sequences, FiniteSets, Functions

CONSTANTS
    Commands,             \* the commands, as the sizes of their buffers
    StartBufferPoolSize,
    MaxBufferPoolSize,
    Word,                 \* the modulus of size_t
    MaxInUse,             \* a bound on buffers in the pool
    Ids                   \* a bound on numbers of buffers

ASSUME RingAssumption ==
    /\ Commands \subseteq Seq(Nat) \ {<< >>}
    /\ StartBufferPoolSize \in Nat \ {0} /\ MaxBufferPoolSize \in Nat
    /\ StartBufferPoolSize <= MaxBufferPoolSize
    /\ Word \in Nat /\ Word > 2 * MaxBufferPoolSize
    /\ MaxInUse \in Nat \ {0} /\ Ids \in Nat /\ Ids > MaxInUse

VARIABLES start, end, full, size, pool, mutex, queue, p, c

vars == <<start, end, full, size, pool, mutex, queue, p, c>>

NoBuffer == [id |-> 0, offset |-> 0, size |-> 0]

(* The buffers in the pool, as far as the two threads are concerned. *)
Queued == UNION {Range(queue[i]) : i \in DOMAIN queue}
InUse == Range(p.made) \cup Queued \cup Range(c.bufs)

-----------------------------------------------------------------------------
(* The producer. *)

Begin(sizes) ==
    /\ p.pc = "idle"
    /\ Cardinality(InUse) + Len(sizes) <= MaxInUse
    /\ p' = [p EXCEPT !.pc = "start", !.sizes = sizes]
    /\ UNCHANGED <<start, end, full, size, pool, mutex, queue, c>>

realBufferSize == Head(p.sizes)

(* The room that createPoolBuffer sees from s, in a vector of n units. *)
Remaining(s, n) ==
    IF s > end \/ full THEN (s + Word - end) % Word ELSE n - end + s

ReadStart ==
    /\ p.pc = "start"
    /\ p' = [p EXCEPT !.pc = "check", !.tmp = start]
    /\ UNCHANGED <<start, end, full, size, pool, mutex, queue, c>>

Faulty_FitsAtFront(s) == realBufferSize <= size

(* May the buffer go to the front of the vector? *)
FitsAtFront(s) == realBufferSize < s \/ s = end

Faulty_Place(offset) ==
    /\ p' = [p EXCEPT !.pc = "copy",
                      !.new = [id |-> (p.new.id % Ids) + 1, offset |-> offset,
                               size |-> realBufferSize]]
    /\ end' = end + realBufferSize

Place(offset) ==
    /\ p' = [p EXCEPT !.pc = "copy",
                      !.new = [id |-> (p.new.id % Ids) + 1, offset |-> offset,
                               size |-> realBufferSize]]
    /\ end' = offset + realBufferSize

Fits == Remaining(p.tmp, size) >= realBufferSize
AtEnd == end + realBufferSize <= size

(* The decision that createPoolBuffer takes from what it read. *)
Check ==
    /\ p.pc = "check"
    /\ \/ Fits /\ AtEnd /\ Place(end)
       \/ Fits /\ ~AtEnd /\ FitsAtFront(p.tmp) /\ Place(0)
       \/ Fits /\ ~AtEnd /\ ~FitsAtFront(p.tmp)
          /\ p' = [p EXCEPT !.pc = "wrap"] /\ UNCHANGED end
       \/ ~Fits /\ realBufferSize > MaxBufferPoolSize
          /\ p' = [p EXCEPT !.pc = "thrown"] /\ UNCHANGED end
       \/ ~Fits /\ realBufferSize <= MaxBufferPoolSize
          /\ p' = [p EXCEPT !.pc = "space"] /\ UNCHANGED end
    /\ UNCHANGED <<start, full, size, pool, mutex, queue, c>>

Copy ==
    /\ p.pc = "copy"
    /\ pool' = [u \in DOMAIN pool |->
                  IF u \in p.new.offset..(p.new.offset + p.new.size - 1)
                  THEN p.new.id ELSE pool[u]]
    /\ p' = [p EXCEPT !.pc = "full", !.made = Append(@, p.new)]
    /\ UNCHANGED <<start, end, full, size, mutex, queue, c>>

(* m_full is set from the start that was read first; then createPoolBuffer *)
(* returns and the command's next buffer, if any, is made.                 *)
SetFull ==
    /\ p.pc = "full"
    /\ full' = (end = p.tmp)
    /\ p' = [p EXCEPT !.sizes = Tail(@),
                      !.pc = IF Tail(p.sizes) = << >> THEN "push" ELSE "start"]
    /\ UNCHANGED <<start, end, size, pool, mutex, queue, c>>

(* executeCommand. *)
Push ==
    /\ p.pc = "push"
    /\ queue' = Append(queue, p.made)
    /\ p' = [p EXCEPT !.pc = "idle", !.made = << >>]
    /\ UNCHANGED <<start, end, full, size, pool, mutex, c>>

(* A waiting producer looks at its condition with the mutex held: when it  *)
(* starts to wait, and whenever it is notified.                            *)
Looks(pc) == p.pc = pc /\ p.awake /\ ~mutex

Sleep(pc) == p' = [p EXCEPT !.pc = pc, !.awake = FALSE] /\ UNCHANGED <<size, c>>

(* createPoolBuffer calls itself. *)
Retry == p' = [p EXCEPT !.pc = "start"]

(* The vector is moved, and pointers into it no longer point to it. *)
Resize == size' = realBufferSize /\ c' = [c EXCEPT !.stale = c.got > 0] /\ Retry

WaitWrap ==
    /\ Looks("wrap")
    /\ \/ FitsAtFront(start) /\ Retry /\ UNCHANGED <<size, c>>
       \/ ~FitsAtFront(start) /\ Sleep("wrap")
    /\ UNCHANGED <<start, end, full, pool, mutex, queue>>

poolBufferSize == IF size < realBufferSize THEN realBufferSize ELSE size

Faulty_RemainingGrown == poolBufferSize + start - end

Faulty_RemainingIfEmpty == poolBufferSize

RemainingGrown == Remaining(start, poolBufferSize)

(* A vector that is too small is resized once the pool is empty.  The code *)
(* has a second wait, until Remaining is no more than realBufferSize;      *)
(* NoSecondWait says that it is never needed.                              *)
WaitSpace ==
    /\ Looks("space")
    /\ \/ RemainingGrown < realBufferSize /\ Sleep("space")
       \/ RemainingGrown >= realBufferSize /\ size >= realBufferSize
          /\ Retry /\ UNCHANGED <<size, c>>
       \/ RemainingGrown = realBufferSize /\ size < realBufferSize /\ Resize
    /\ UNCHANGED <<start, end, full, pool, mutex, queue>>

-----------------------------------------------------------------------------
(* The consumer: commandLoop and the commandToExecute of the commands. *)

Dequeue ==
    /\ c.pc = "idle" /\ queue # << >>
    /\ c' = [c EXCEPT !.pc = "get", !.bufs = Head(queue)]
    /\ queue' = Tail(queue)
    /\ UNCHANGED <<start, end, full, size, pool, mutex, p>>

getBufferFromPool ==
    /\ c.pc = "get" /\ ~mutex
    /\ c' = [c EXCEPT !.got = @ + 1, !.pc = IF c.got + 1 = Len(c.bufs) THEN "use" ELSE "get"]
    /\ UNCHANGED <<start, end, full, size, pool, mutex, queue, p>>

(* The OpenGL call.  A command with two buffers copies the first before it *)
(* gets the pointer to the second; here both are used at once.             *)
Use ==
    /\ c.pc = "use"
    /\ c' = [c EXCEPT !.pc = "remove", !.got = 0, !.stale = FALSE]
    /\ UNCHANGED <<start, end, full, size, pool, mutex, queue, p>>

(* removeBufferFromPool, as far as the store to m_inUseStartOffset... *)
RemoveStart ==
    /\ c.pc = "remove" /\ ~mutex
    /\ mutex' = TRUE
    /\ start' = Head(c.bufs).offset + Head(c.bufs).size
    /\ c' = [c EXCEPT !.pc = "clear"]
    /\ UNCHANGED <<end, full, size, pool, queue, p>>

Faulty_RemoveEnd ==
    /\ c.pc = "clear"
    /\ mutex' = FALSE
    /\ full' = FALSE
    /\ p' = [p EXCEPT !.awake = @ \/ full]
    /\ c' = [c EXCEPT !.bufs = Tail(@), !.pc = IF Tail(c.bufs) = << >> THEN "idle" ELSE "remove"]
    /\ UNCHANGED <<start, end, size, pool, queue>>

(* ... and the rest of it: m_full, the notification, the mutex. *)
RemoveEnd ==
    /\ c.pc = "clear"
    /\ mutex' = FALSE
    /\ full' = FALSE
    /\ p' = [p EXCEPT !.awake = TRUE]
    /\ c' = [c EXCEPT !.bufs = Tail(@), !.pc = IF Tail(c.bufs) = << >> THEN "idle" ELSE "remove"]
    /\ UNCHANGED <<start, end, size, pool, queue>>

-----------------------------------------------------------------------------
Init ==
    /\ start = 0 /\ end = 0 /\ full = FALSE
    /\ size = StartBufferPoolSize
    /\ pool = [u \in 0..(MaxBufferPoolSize - 1) |-> 0]
    /\ mutex = FALSE
    /\ queue = << >>
    /\ p = [pc |-> "idle", sizes |-> << >>, made |-> << >>, tmp |-> 0, new |-> NoBuffer,
            awake |-> TRUE]
    /\ c = [pc |-> "idle", bufs |-> << >>, got |-> 0, stale |-> FALSE]

CreatePoolBuffer ==
    ReadStart \/ Check \/ Copy \/ SetFull \/ Push \/ WaitWrap \/ WaitSpace

PerformCommand == Dequeue \/ getBufferFromPool \/ Use \/ RemoveStart \/ RemoveEnd

Next ==
    \/ \E sizes \in Commands : Begin(sizes)
    \/ CreatePoolBuffer
    \/ PerformCommand

Spec == Init /\ [][Next]_vars

(* Both threads run whenever they can. *)
FairSpec == Spec /\ WF_vars(CreatePoolBuffer) /\ WF_vars(PerformCommand)

-----------------------------------------------------------------------------
Buffers == [id : 0..Ids, offset : 0..MaxBufferPoolSize, size : Nat]

TypeOK ==
    /\ start \in 0..size /\ end \in 0..size
    /\ full \in BOOLEAN /\ mutex \in BOOLEAN
    /\ size \in StartBufferPoolSize..MaxBufferPoolSize
    /\ pool \in [0..(MaxBufferPoolSize - 1) -> 0..Ids]
    /\ \A i \in DOMAIN queue : queue[i] \in Seq(Buffers)
    /\ p \in [pc : {"idle", "start", "check", "copy", "full", "push", "wrap", "space",
                    "thrown"},
              sizes : Seq(Nat), made : Seq(Buffers), tmp : 0..size, new : Buffers,
              awake : BOOLEAN]
    /\ c \in [pc : {"idle", "get", "use", "remove", "clear"}, bufs : Seq(Buffers), got : Nat,
              stale : BOOLEAN]

(* The buffers whose data the consumer has not used yet. *)
Unused ==
    Range(p.made) \cup Queued \cup IF c.pc \in {"get", "use"} THEN Range(c.bufs) ELSE {}

(* createPoolBuffer does not overwrite a buffer of at most half of the     *)
(* vector that the OpenGL thread has not used yet: it still holds its own  *)
(* data, inside the vector, before and after a resize, whatever was placed *)
(* since and however large.  Larger buffers are not so lucky: one that     *)
(* went to the front of an empty vector may reach beyond the start offset, *)
(* and what is before the start offset is free, to createPoolBuffer.       *)
DataIntact ==
    \A b \in Unused : 2 * b.size <= size =>
        \A u \in b.offset..(b.offset + b.size - 1) : u < size /\ pool[u] = b.id

(* The vector is never moved while the OpenGL thread holds a pointer into  *)
(* it.                                                                     *)
NoDangling == c.pc = "use" => ~c.stale

(* When a producer that needs a larger vector sees enough room, it sees an *)
(* empty pool: it does not have to wait a second time before it resizes.   *)
NoSecondWait ==
    Looks("space") /\ size < realBufferSize /\ RemainingGrown >= realBufferSize
        => RemainingGrown = realBufferSize

(* createPoolBuffer blocks only until the OpenGL thread has freed enough   *)
(* space: every command is queued at last, unless a buffer is too large    *)
(* for any pool.                                                           *)
CreateReturns == p.pc # "idle" ~> p.pc \in {"idle", "thrown"}
=============================================================================
