----------------------------- MODULE RingProofs ------------------------------
(***************************************************************************)
(* Theorems about RingBufferPool.                                          *)
(*                                                                         *)
(* For every set of commands, all sizes of the pool and every bound, the   *)
(* offsets and the buffers stay inside the vector, and the second wait of  *)
(* createPoolBuffer is never needed.  This is the part of the pool's       *)
(* safety that holds although m_full may be stale (README, section 7):     *)
(* createPoolBuffer compares what it is about to place with the size of    *)
(* the vector or with an offset inside it, and a producer that waits looks *)
(* with the mutex held.                                                    *)
(*                                                                         *)
(* For at most two buffers in the pool, in a vector that grows at most     *)
(* once, no buffer of at most half of the vector is overwritten before it  *)
(* is used, and no pointer is left dangling.                               *)
(***************************************************************************)
EXTENDS RingBufferPool, FiniteSetTheorems, SequenceTheorems, TLAPS

-----------------------------------------------------------------------------
(* Inside the vector.  The invariant says of every buffer, whoever holds   *)
(* it, that it lies inside the vector; removeBufferFromPool makes an       *)
(* offset of its end.                                                      *)

(* The buffers that lie inside a vector of n units. *)
Placed(n) == {b \in Buffers : b.offset + b.size <= n}

ProducerTypes(n) ==
    [pc : {"idle", "start", "check", "copy", "full", "push", "wrap", "space", "thrown"},
     sizes : Seq(Nat), made : Seq(Placed(n)), tmp : 0..n, new : Placed(n), awake : BOOLEAN]

ConsumerTypes(n) ==
    [pc : {"idle", "get", "use", "remove", "clear"}, bufs : Seq(Placed(n)), got : Nat,
     stale : BOOLEAN]

QueueTypes(n) == Seq(Seq(Placed(n)) \ {<< >>})

(* Where the producer and the consumer have something in hand. *)
Making == {"start", "check", "copy", "full", "wrap", "space"}

IInv ==
    /\ start \in 0..size /\ end \in 0..size
    /\ full \in BOOLEAN /\ mutex \in BOOLEAN
    /\ size \in StartBufferPoolSize..MaxBufferPoolSize
    /\ pool \in [0..(MaxBufferPoolSize - 1) -> 0..Ids]
    /\ queue \in QueueTypes(size)
    /\ p \in ProducerTypes(size)
    /\ c \in ConsumerTypes(size)
    /\ p.pc \in Making => p.sizes # << >>
    /\ p.pc \in {"full", "push"} => p.made # << >>
    /\ p.pc = "space" => realBufferSize <= MaxBufferPoolSize
    /\ c.pc # "idle" => c.bufs # << >>

LEMMA Constants ==
    /\ Commands \subseteq Seq(Nat) \ {<< >>}
    /\ StartBufferPoolSize \in Nat /\ MaxBufferPoolSize \in Nat
    /\ StartBufferPoolSize <= MaxBufferPoolSize
    /\ Word \in Nat /\ Word > 0 /\ Word > 2 * MaxBufferPoolSize
    /\ Ids \in Nat /\ Ids > 0
  BY RingAssumption DEF RingAssumption

(* A buffer keeps its place in a vector that grows. *)
LEMMA Grows ==
    ASSUME NEW m \in Nat, NEW n \in Nat, m <= n
    PROVE  /\ Placed(m) \subseteq Placed(n)
           /\ Seq(Placed(m)) \subseteq Seq(Placed(n))
           /\ QueueTypes(m) \subseteq QueueTypes(n)
<1>1. Placed(m) \subseteq Placed(n)
  BY Constants DEF Placed, Buffers
<1>2. Seq(Placed(m)) \subseteq Seq(Placed(n))
  BY <1>1
<1>3. Seq(Placed(m)) \ {<< >>} \subseteq Seq(Placed(n)) \ {<< >>}
  BY <1>2
<1> QED
  BY <1>1, <1>2, <1>3 DEF QueueTypes

(* What the parts of the state are, for the proofs below. *)
LEMMA Parts ==
    ASSUME IInv
    PROVE  /\ size \in Nat /\ start \in Nat /\ end \in Nat /\ size <= MaxBufferPoolSize
           /\ start <= size /\ end <= size
           /\ p.sizes \in Seq(Nat) /\ p.made \in Seq(Placed(size)) /\ p.tmp \in 0..size
           /\ p.tmp \in Nat /\ p.new \in Placed(size) /\ p.new.id \in 0..Ids
           /\ p.pc \in Making => realBufferSize \in Nat /\ Tail(p.sizes) \in Seq(Nat)
           /\ c.bufs \in Seq(Placed(size))
<1>1. /\ size \in Nat /\ start \in Nat /\ end \in Nat /\ size <= MaxBufferPoolSize
      /\ start <= size /\ end <= size
  BY Constants DEF IInv
<1>2. /\ p.sizes \in Seq(Nat) /\ p.made \in Seq(Placed(size)) /\ p.tmp \in 0..size
      /\ p.new \in Placed(size)
  BY DEF IInv, ProducerTypes
<1>3. p.tmp \in Nat /\ p.new.id \in 0..Ids
  BY <1>1, <1>2 DEF Placed, Buffers
<1>4. p.pc \in Making => realBufferSize \in Nat /\ Tail(p.sizes) \in Seq(Nat)
  BY <1>2 DEF IInv, realBufferSize
<1>5. c.bufs \in Seq(Placed(size))
  BY DEF IInv, ConsumerTypes
<1> QED
  BY <1>1, <1>2, <1>3, <1>4, <1>5

-----------------------------------------------------------------------------
(* The producer. *)

LEMMA BeginKeeps ==
    ASSUME IInv, NEW sizes \in Commands, Begin(sizes)
    PROVE  IInv'
<1>1. sizes \in Seq(Nat) /\ sizes # << >>
  BY Constants
<1>2. /\ p' \in ProducerTypes(size) /\ p'.pc = "start" /\ p'.sizes = sizes
  BY <1>1 DEF IInv, Begin, ProducerTypes
<1> QED
  BY <1>1, <1>2 DEF IInv, Begin, Making

LEMMA ReadStartKeeps ==
    ASSUME IInv, ReadStart
    PROVE  IInv'
<1>1. p' \in ProducerTypes(size) /\ p'.pc = "check" /\ p'.sizes = p.sizes
  BY DEF IInv, ReadStart, ProducerTypes
<1> QED
  BY <1>1 DEF IInv, ReadStart, Making

(* The decision places a buffer inside the vector. *)
LEMMA CheckKeeps ==
    ASSUME IInv, Check
    PROVE  IInv'
<1> USE Parts
<1>0. p.pc = "check" /\ realBufferSize \in Nat /\ p.sizes # << >>
  BY DEF Check, Making, IInv
<1>1. UNCHANGED <<start, full, size, pool, mutex, queue, c>>
  BY DEF Check
<1>2. ASSUME NEW offset \in Nat, offset + realBufferSize <= size, Place(offset)
      PROVE  IInv'
  <2> DEFINE b == [id |-> (p.new.id % Ids) + 1, offset |-> offset, size |-> realBufferSize]
  <2>1. (p.new.id % Ids) + 1 \in 0..Ids
    BY Constants
  <2>2. offset \in 0..MaxBufferPoolSize
    BY <1>0, <1>2, Constants
  <2>3. b \in Placed(size)
    BY <1>0, <1>2, <2>1, <2>2 DEF Placed, Buffers
  <2>4. p' = [p EXCEPT !.pc = "copy", !.new = b] /\ end' = offset + realBufferSize
    BY <1>2 DEF Place
  <2> HIDE DEF b
  <2>5. p' \in ProducerTypes(size) /\ p'.pc = "copy" /\ p'.sizes = p.sizes
    BY <2>3, <2>4 DEF IInv, ProducerTypes
  <2>6. end' \in 0..size
    BY <1>0, <1>2, <2>4
  <2> QED
    BY <1>0, <1>1, <2>5, <2>6 DEF IInv, Making
<1>3. ASSUME NEW pc \in {"wrap", "thrown", "space"}, p' = [p EXCEPT !.pc = pc], UNCHANGED end,
             pc = "space" => realBufferSize <= MaxBufferPoolSize
      PROVE  IInv'
  <2>1. p' \in ProducerTypes(size) /\ p'.pc = pc /\ p'.sizes = p.sizes
    BY <1>3 DEF IInv, ProducerTypes
  <2> QED
    BY <1>0, <1>1, <1>3, <2>1 DEF IInv, Making, realBufferSize
<1>4. Fits /\ ~AtEnd /\ FitsAtFront(p.tmp) => 0 + realBufferSize <= size
  <2> SUFFICES ASSUME Fits, ~AtEnd, p.tmp = end
               PROVE  realBufferSize <= size
    BY <1>0 DEF FitsAtFront
  <2>1. CASE full
    <3>1. Remaining(p.tmp, size) = Word % Word
      BY <2>1, Constants DEF Remaining
    <3>2. Word % Word = 0
      BY Constants
    <3> QED
      BY <1>0, <3>1, <3>2 DEF Fits
  <2>2. CASE ~full
    <3>1. Remaining(p.tmp, size) = size
      BY <2>2 DEF Remaining
    <3> QED
      BY <1>0, <3>1 DEF Fits
  <2> QED
    BY <2>1, <2>2
<1>5. AtEnd => end + realBufferSize <= size
  BY DEF AtEnd
<1> QED
  BY <1>2, <1>3, <1>4, <1>5 DEF Check

LEMMA CopyKeeps ==
    ASSUME IInv, Copy
    PROVE  IInv'
<1> USE Parts
<1>1. pool' \in [0..(MaxBufferPoolSize - 1) -> 0..Ids]
  BY DEF IInv, Copy
<1>2. Append(p.made, p.new) \in Seq(Placed(size)) /\ Append(p.made, p.new) # << >>
  <2>1. p.made \in Seq(Placed(size)) /\ p.new \in Placed(size)
    OBVIOUS
  <2>2. ASSUME NEW S, NEW s \in Seq(S), NEW e \in S
        PROVE  Append(s, e) \in Seq(S) /\ Append(s, e) # << >>
    OBVIOUS
  <2> QED
    BY <2>1, <2>2
<1>3. /\ p' \in ProducerTypes(size) /\ p'.pc = "full" /\ p'.sizes = p.sizes
      /\ p'.made # << >>
  BY <1>2 DEF IInv, Copy, ProducerTypes
<1> QED
  BY <1>1, <1>3 DEF IInv, Copy, Making

LEMMA SetFullKeeps ==
    ASSUME IInv, SetFull
    PROVE  IInv'
<1> USE Parts
<1>1. Tail(p.sizes) \in Seq(Nat) /\ p.made # << >>
  BY DEF SetFull, Making, IInv
<1>2. /\ p' \in ProducerTypes(size) /\ p'.sizes = Tail(p.sizes) /\ p'.made = p.made
      /\ p'.pc = IF Tail(p.sizes) = << >> THEN "push" ELSE "start"
  BY <1>1 DEF IInv, SetFull, ProducerTypes
<1>3. full' \in BOOLEAN /\ UNCHANGED <<start, end, size, pool, mutex, queue, c>>
  BY DEF SetFull
<1>4. p'.pc \in {"push", "start"} /\ (p'.pc = "start" => p'.sizes # << >>)
  BY <1>2
<1> QED
  BY <1>1, <1>2, <1>3, <1>4 DEF IInv, Making

LEMMA PushKeeps ==
    ASSUME IInv, Push
    PROVE  IInv'
<1> USE Parts
<1>1. queue' \in QueueTypes(size)
  BY DEF IInv, Push, QueueTypes
<1>2. p' \in ProducerTypes(size) /\ p'.pc = "idle"
  <2>1. << >> \in Seq(Placed(size))
    OBVIOUS
  <2> QED
    BY <2>1 DEF IInv, Push, ProducerTypes
<1> QED
  BY <1>1, <1>2 DEF IInv, Push, Making

(* A producer that waits, or tries again. *)
LEMMA WaitKeeps ==
    ASSUME IInv, p.pc \in {"wrap", "space"},
           NEW pc \in {p.pc, "start"}, NEW awake \in BOOLEAN,
           p' = [p EXCEPT !.pc = pc, !.awake = awake],
           UNCHANGED <<start, end, full, size, pool, mutex, queue, c>>
    PROVE  IInv'
<1>1. p' \in ProducerTypes(size) /\ p'.pc = pc /\ p'.sizes = p.sizes
  BY DEF IInv, ProducerTypes
<1> QED
  BY <1>1 DEF IInv, Making, realBufferSize

LEMMA WaitWrapKeeps ==
    ASSUME IInv, WaitWrap
    PROVE  IInv'
<1>1. p.pc = "wrap" /\ p.awake = TRUE /\ p \in ProducerTypes(size)
  BY DEF WaitWrap, Looks, IInv, ProducerTypes
<1>2. UNCHANGED <<start, end, full, size, pool, mutex, queue, c>>
  BY DEF WaitWrap, Sleep
<1>3. \/ p' = [p EXCEPT !.pc = "start"]
      \/ p' = [p EXCEPT !.pc = "wrap", !.awake = FALSE]
  BY DEF WaitWrap, Retry, Sleep
<1>4. [p EXCEPT !.pc = "start"] = [p EXCEPT !.pc = "start", !.awake = TRUE]
  BY <1>1 DEF ProducerTypes
<1> QED
  BY <1>1, <1>2, <1>3, <1>4, WaitKeeps

(* The vector is resized to what is asked for, which is larger than it and *)
(* no larger than a vector may be.                                         *)
LEMMA WaitSpaceKeeps ==
    ASSUME IInv, WaitSpace
    PROVE  IInv'
<1> USE Parts
<1>1. p.pc = "space" /\ p.awake = TRUE /\ p \in ProducerTypes(size) /\ p.sizes # << >>
  BY DEF WaitSpace, Looks, IInv, ProducerTypes, Making
<1>2. UNCHANGED <<start, end, full, pool, mutex, queue>>
  BY DEF WaitSpace
<1>3. CASE /\ UNCHANGED <<size, c>>
           /\ p' = [p EXCEPT !.pc = "start"] \/ p' = [p EXCEPT !.pc = "space", !.awake = FALSE]
  <2>1. [p EXCEPT !.pc = "start"] = [p EXCEPT !.pc = "start", !.awake = TRUE]
    BY <1>1 DEF ProducerTypes
  <2> QED
    BY <1>1, <1>2, <1>3, <2>1, WaitKeeps
<1>4. CASE size < realBufferSize /\ Resize
  <2>1. /\ realBufferSize \in Nat /\ realBufferSize <= MaxBufferPoolSize
        /\ size' = realBufferSize /\ size <= size' /\ size' \in Nat
    BY <1>1, <1>4 DEF Resize, Making, IInv
  <2>2. /\ Placed(size) \subseteq Placed(size') /\ Seq(Placed(size)) \subseteq Seq(Placed(size'))
        /\ QueueTypes(size) \subseteq QueueTypes(size')
    BY <2>1, Grows
  <2>3. p \in ProducerTypes(size')
    <3>1. p.tmp \in 0..size'
      BY <2>1
    <3> QED
      BY <1>1, <2>2, <3>1 DEF ProducerTypes
  <2>4. p' \in ProducerTypes(size') /\ p'.pc = "start" /\ p'.sizes = p.sizes
    BY <1>4, <2>3 DEF Resize, Retry, ProducerTypes
  <2>5. c' \in ConsumerTypes(size') /\ c'.pc = c.pc /\ c'.bufs = c.bufs
    <3>1. c \in ConsumerTypes(size')
      BY <2>2 DEF IInv, ConsumerTypes
    <3>2. (c.got > 0) \in BOOLEAN
      OBVIOUS
    <3>3. c' = [c EXCEPT !.stale = c.got > 0]
      BY <1>4 DEF Resize
    <3> QED
      BY <3>1, <3>2, <3>3 DEF ConsumerTypes
  <2>6. queue' \in QueueTypes(size')
    BY <1>2, <2>2 DEF IInv
  <2>7. /\ start' \in 0..size' /\ end' \in 0..size'
        /\ size' \in StartBufferPoolSize..MaxBufferPoolSize
    BY <1>2, <2>1, Constants DEF IInv
  <2> QED
    BY <1>1, <1>2, <2>4, <2>5, <2>6, <2>7 DEF IInv, Making
<1> QED
  BY <1>3, <1>4 DEF WaitSpace, Sleep, Retry

-----------------------------------------------------------------------------
(* The consumer. *)

LEMMA DequeueKeeps ==
    ASSUME IInv, Dequeue
    PROVE  IInv'
<1>1. /\ Head(queue) \in Seq(Placed(size)) /\ Head(queue) # << >>
      /\ Tail(queue) \in QueueTypes(size)
  BY DEF IInv, Dequeue, QueueTypes
<1>2. c' \in ConsumerTypes(size) /\ c'.bufs # << >>
  BY <1>1 DEF IInv, Dequeue, ConsumerTypes
<1> QED
  BY <1>1, <1>2 DEF IInv, Dequeue, realBufferSize

LEMMA UseKeeps ==
    ASSUME IInv, getBufferFromPool \/ Use
    PROVE  IInv'
<1>1. c' \in ConsumerTypes(size) /\ c'.bufs = c.bufs /\ c.pc # "idle"
  <2>1. c \in ConsumerTypes(size) /\ c.got \in Nat /\ c.got + 1 \in Nat
    BY DEF IInv, ConsumerTypes
  <2>2. CASE Use
    BY <2>1, <2>2 DEF Use, ConsumerTypes
  <2>3. CASE getBufferFromPool
    BY <2>1, <2>3 DEF getBufferFromPool, ConsumerTypes
  <2> QED
    BY <2>2, <2>3
<1>2. UNCHANGED <<start, end, full, size, pool, mutex, queue, p>>
  BY DEF getBufferFromPool, Use
<1> QED
  BY <1>1, <1>2 DEF IInv, realBufferSize

(* The start offset becomes the end of a buffer, which is inside the       *)
(* vector.                                                                 *)
LEMMA RemoveStartKeeps ==
    ASSUME IInv, RemoveStart
    PROVE  IInv'
<1> USE Parts
<1>1. c.bufs # << >>
  BY DEF IInv, RemoveStart
<1>2. Head(c.bufs) \in Placed(size)
  BY <1>1
<1>3. start' \in 0..size
  <2>1. /\ Head(c.bufs).offset \in 0..MaxBufferPoolSize /\ Head(c.bufs).size \in Nat
        /\ Head(c.bufs).offset + Head(c.bufs).size <= size
    BY <1>2 DEF Placed, Buffers
  <2>2. start' = Head(c.bufs).offset + Head(c.bufs).size
    BY DEF RemoveStart
  <2>3. ASSUME NEW o \in 0..MaxBufferPoolSize, NEW n \in Nat, o + n <= size
        PROVE  o + n \in 0..size
    BY <2>3, Constants
  <2> QED
    BY <2>1, <2>2, <2>3
<1>4. c' \in ConsumerTypes(size) /\ c'.bufs = c.bufs
  BY DEF IInv, RemoveStart, ConsumerTypes
<1> QED
  BY <1>1, <1>3, <1>4 DEF IInv, RemoveStart, realBufferSize

LEMMA RemoveEndKeeps ==
    ASSUME IInv, RemoveEnd
    PROVE  IInv'
<1> USE Parts
<1>1. c.bufs # << >>
  BY DEF IInv, RemoveEnd
<1>2. Tail(c.bufs) \in Seq(Placed(size))
  BY <1>1
<1>3. /\ c' \in ConsumerTypes(size) /\ c'.bufs = Tail(c.bufs)
      /\ c'.pc = IF Tail(c.bufs) = << >> THEN "idle" ELSE "remove"
  BY <1>2 DEF IInv, RemoveEnd, ConsumerTypes
<1>4. /\ p' \in ProducerTypes(size) /\ p'.pc = p.pc /\ p'.sizes = p.sizes /\ p'.made = p.made
  BY DEF IInv, RemoveEnd, ProducerTypes
<1> QED
  BY <1>3, <1>4 DEF IInv, RemoveEnd, realBufferSize

-----------------------------------------------------------------------------
LEMMA InitInside == Init => IInv
<1> SUFFICES ASSUME Init PROVE IInv
  OBVIOUS
<1> USE Constants
<1>1. NoBuffer \in Placed(size)
  BY DEF Init, NoBuffer, Placed, Buffers
<1>2. p \in ProducerTypes(size) /\ p.pc = "idle"
  BY <1>1 DEF Init, ProducerTypes
<1>3. c \in ConsumerTypes(size) /\ c.pc = "idle"
  BY DEF Init, ConsumerTypes
<1>4. queue \in QueueTypes(size)
  BY DEF Init, QueueTypes
<1>5. pool \in [0..(MaxBufferPoolSize - 1) -> 0..Ids]
  BY DEF Init
<1>6. /\ start \in 0..size /\ end \in 0..size /\ full \in BOOLEAN /\ mutex \in BOOLEAN
      /\ size \in StartBufferPoolSize..MaxBufferPoolSize
  <2>1. /\ start = 0 /\ end = 0 /\ full = FALSE /\ mutex = FALSE /\ size = StartBufferPoolSize
    BY DEF Init
  <2>2. 0 \in 0..StartBufferPoolSize
    OBVIOUS
  <2>3. StartBufferPoolSize \in StartBufferPoolSize..MaxBufferPoolSize
    OBVIOUS
  <2> QED
    BY <2>1, <2>2, <2>3, Zenon
<1> QED
  BY <1>2, <1>3, <1>4, <1>5, <1>6 DEF IInv, Making

LEMMA NextInside ==
    ASSUME IInv, [Next]_vars
    PROVE  IInv'
<1>1. CASE UNCHANGED vars
  BY <1>1 DEF vars, IInv, realBufferSize
<1>2. CASE Next
  BY <1>2, BeginKeeps, ReadStartKeeps, CheckKeeps, CopyKeeps, SetFullKeeps, PushKeeps,
     WaitWrapKeeps, WaitSpaceKeeps, DequeueKeeps, UseKeeps, RemoveStartKeeps, RemoveEndKeeps
  DEF Next, CreatePoolBuffer, PerformCommand
<1> QED
  BY <1>1, <1>2

(* Every buffer that createPoolBuffer has placed and that a thread may     *)
(* still use lies inside the vector.                                       *)
BuffersInside == \A b \in InUse : b.offset + b.size <= size

LEMMA InsideFollows == IInv => TypeOK /\ BuffersInside
<1> SUFFICES ASSUME IInv PROVE TypeOK /\ BuffersInside
  OBVIOUS
<1> USE Parts
<1>1. Placed(size) \subseteq Buffers
  BY DEF Placed
<1>2. \A s \in Seq(Placed(size)) : s \in Seq(Buffers)
  BY <1>1
<1>3. TypeOK
  <2>1. \A i \in DOMAIN queue : queue[i] \in Seq(Buffers)
    BY <1>2 DEF IInv, QueueTypes
  <2>2. p \in [pc : {"idle", "start", "check", "copy", "full", "push", "wrap", "space", "thrown"},
               sizes : Seq(Nat), made : Seq(Buffers), tmp : 0..size, new : Buffers,
               awake : BOOLEAN]
    BY <1>1, <1>2 DEF IInv, ProducerTypes
  <2>3. c \in [pc : {"idle", "get", "use", "remove", "clear"}, bufs : Seq(Buffers), got : Nat,
               stale : BOOLEAN]
    BY <1>2 DEF IInv, ConsumerTypes
  <2> QED
    BY <2>1, <2>2, <2>3 DEF IInv, TypeOK
<1>4. ASSUME NEW s \in Seq(Placed(size)), NEW b \in Range(s)
      PROVE  b.offset + b.size <= size
  BY <1>4 DEF Range, Placed
<1>5. \A i \in DOMAIN queue : queue[i] \in Seq(Placed(size))
  BY DEF IInv, QueueTypes
<1>6. ASSUME NEW b, b \in InUse
      PROVE  b.offset + b.size <= size
  <2>1. \/ b \in Range(p.made) \/ b \in Range(c.bufs)
        \/ \E i \in DOMAIN queue : b \in Range(queue[i])
    <3>1. b \in UNION {Range(queue[i]) : i \in DOMAIN queue}
              => \E i \in DOMAIN queue : b \in Range(queue[i])
      BY SMT
    <3>2. \/ b \in Range(p.made) \/ b \in Range(c.bufs)
          \/ b \in UNION {Range(queue[i]) : i \in DOMAIN queue}
      BY <1>6, SMT DEF InUse, Queued
    <3> QED
      BY <3>1, <3>2
  <2>2. p.made \in Seq(Placed(size)) /\ c.bufs \in Seq(Placed(size))
    OBVIOUS
  <2> QED
    BY <1>4, <1>5, <2>1, <2>2, Zenon
<1> QED
  BY <1>3, <1>6 DEF BuffersInside

(* The pool of RingBufferPool.cpp, for every sequence of commands and      *)
(* every interleaving of the two threads, those in which m_full is stale   *)
(* included: the offsets and every buffer that may still be used stay      *)
(* inside m_poolBuffer, also across a resize.                              *)
THEOREM NothingOutside == Spec => [](TypeOK /\ BuffersInside)
  BY InitInside, NextInside, InsideFollows, PTL DEF Spec

-----------------------------------------------------------------------------
(* No second wait.  removeBufferFromPool stores the start and clears       *)
(* m_full while it holds the mutex; so whoever sees m_full set without the *)
(* mutex being taken sees the start that the producer read, and a producer *)
(* that decided to wait for space read it no further back than its end.    *)

RoomInv ==
    /\ mutex <=> c.pc = "clear"
    /\ p.pc \in {"check", "space"} /\ ~mutex /\ full => p.tmp = start
    /\ p.pc = "space" /\ full => end <= p.tmp

(* The remainder of a number within the first or the second period. *)
LEMMA Wraps ==
    ASSUME NEW w \in Nat, NEW d \in Nat, d < w
    PROVE  d % w = d /\ (d + w) % w = d
<1>1. w \in Int /\ w > 0 /\ d \in Int /\ d \in 0..(w - 1)
  OBVIOUS
<1>2. d = w * 0 + d /\ d + w = w * 1 + d
  BY <1>1
<1> QED
  BY <1>1, <1>2

(* The room in a full pool, from a start s. *)
LEMMA RoomInFull ==
    ASSUME IInv, NEW s \in 0..size, NEW n, full \/ s > end
    PROVE  Remaining(s, n) = IF s >= end THEN s - end ELSE s + Word - end
<1> USE Parts, Constants
<1>1. Remaining(s, n) = (s + Word - end) % Word
  BY DEF Remaining
<1>2. CASE s >= end
  <2>1. s - end \in Nat /\ s - end < Word /\ s + Word - end = (s - end) + Word
    BY <1>2, SMTT(30)
  <2> QED
    BY <1>1, <1>2, <2>1, Wraps
<1>3. CASE s < end
  <2>1. s + Word - end \in Nat /\ s + Word - end < Word /\ ~(s >= end)
    BY <1>3
  <2> QED
    BY <1>1, <2>1, Wraps
<1> QED
  BY <1>2, <1>3

LEMMA CheckRoom ==
    ASSUME IInv, RoomInv, Check
    PROVE  RoomInv'
<1> USE Parts, Constants
<1>1. p.pc = "check" /\ realBufferSize \in Nat /\ UNCHANGED <<start, full, size, mutex, c>>
  BY DEF Check, Making
<1>2. p'.tmp = p.tmp /\ p'.pc \in {"copy", "wrap", "thrown", "space"}
  BY DEF Check, Place, IInv, ProducerTypes
<1>3. p'.pc = "space" => ~Fits /\ realBufferSize <= MaxBufferPoolSize /\ UNCHANGED end
  BY DEF Check, Place, IInv, ProducerTypes
<1>4. ASSUME ~Fits, realBufferSize <= MaxBufferPoolSize, full
      PROVE  end <= p.tmp
  <2> SUFFICES ASSUME p.tmp < end PROVE FALSE
    OBVIOUS
  <2>1. Remaining(p.tmp, size) = p.tmp + Word - end
    BY <1>4, RoomInFull
  <2>2. p.tmp + Word - end >= realBufferSize
    BY <1>1, <1>4
  <2> QED
    BY <1>4, <2>1, <2>2 DEF Fits
<1> QED
  BY <1>1, <1>2, <1>3, <1>4 DEF RoomInv

LEMMA NextRoom ==
    ASSUME IInv, RoomInv, [Next]_vars
    PROVE  RoomInv'
<1>0. p \in ProducerTypes(size) /\ c \in ConsumerTypes(size)
  BY DEF IInv
<1>1. ASSUME NEW sizes \in Commands, Begin(sizes)
      PROVE  RoomInv'
  BY <1>0, <1>1 DEF RoomInv, Begin, ProducerTypes
<1>2. CASE ReadStart
  BY <1>0, <1>2 DEF RoomInv, ReadStart, ProducerTypes
<1>3. CASE Copy
  BY <1>0, <1>3 DEF RoomInv, Copy, ProducerTypes
<1>4. CASE SetFull
  <2>1. p'.pc \in {"push", "start"} /\ UNCHANGED <<mutex, c>>
    BY <1>0, <1>4 DEF SetFull, ProducerTypes
  <2> QED
    BY <2>1 DEF RoomInv
<1>5. CASE Push
  BY <1>0, <1>5 DEF RoomInv, Push, ProducerTypes
<1>6. CASE WaitWrap
  <2>1. p'.pc \in {"wrap", "start"} /\ UNCHANGED <<mutex, c>>
    BY <1>0, <1>6 DEF WaitWrap, Retry, Sleep, ProducerTypes
  <2> QED
    BY <2>1 DEF RoomInv
<1>7. CASE WaitSpace
  <2>1. /\ p.pc = "space" /\ UNCHANGED <<start, end, full, mutex>> /\ c'.pc = c.pc
        /\ p'.pc \in {"space", "start"} /\ p'.tmp = p.tmp
    BY <1>0, <1>7 DEF WaitSpace, Looks, Retry, Resize, Sleep, ProducerTypes, ConsumerTypes
  <2> QED
    BY <2>1 DEF RoomInv
<1>8. CASE Dequeue
  BY <1>0, <1>8 DEF RoomInv, Dequeue, ConsumerTypes
<1>9. CASE getBufferFromPool \/ Use
  <2>1. /\ c.pc \in {"get", "use"} /\ c'.pc \in {"get", "use", "remove"}
        /\ UNCHANGED <<start, end, full, mutex, p>>
    BY <1>0, <1>9 DEF getBufferFromPool, Use, ConsumerTypes
  <2> QED
    BY <2>1 DEF RoomInv
<1>10. CASE RemoveStart
  BY <1>0, <1>10 DEF RoomInv, RemoveStart, ConsumerTypes
<1>11. CASE RemoveEnd
  <2>1. full' = FALSE /\ mutex' = FALSE /\ c'.pc \in {"idle", "remove"}
    BY <1>0, <1>11 DEF RemoveEnd, ConsumerTypes
  <2> QED
    BY <2>1 DEF RoomInv
<1>12. CASE UNCHANGED vars
  BY <1>12 DEF vars, RoomInv
<1> QED
  BY <1>1, <1>2, <1>3, <1>4, <1>5, <1>6, <1>7, <1>8, <1>9, <1>10, <1>11, <1>12, CheckRoom
  DEF Next, CreatePoolBuffer, PerformCommand

LEMMA RoomFollows == IInv /\ RoomInv => NoSecondWait
<1> SUFFICES ASSUME IInv, RoomInv, Looks("space"), size < realBufferSize,
                    RemainingGrown >= realBufferSize
             PROVE  RemainingGrown = realBufferSize
  BY DEF NoSecondWait
<1> USE Parts, Constants
<1>1. p.pc = "space" /\ ~mutex /\ realBufferSize \in Nat /\ poolBufferSize = realBufferSize
  BY DEF Looks, Making, poolBufferSize
<1>2. start \in 0..size
  BY DEF IInv
<1>3. CASE start > end \/ full
  <2>1. full => end <= start
    BY <1>1 DEF RoomInv
  <2>2. RemainingGrown = start - end
    BY <1>2, <1>3, <2>1, RoomInFull DEF RemainingGrown
  <2> QED
    BY <1>1, <2>2
<1>4. CASE ~(start > end \/ full)
  <2>1. RemainingGrown = realBufferSize - end + start
    BY <1>1, <1>4 DEF RemainingGrown, Remaining
  <2> QED
    BY <1>1, <1>4, <2>1
<1> QED
  BY <1>3, <1>4

(* createPoolBuffer's second wait, which would hold the mutex and let the  *)
(* OpenGL thread empty the pool before the vector is resized, is never     *)
(* needed, whatever the commands, the sizes and the interleaving.          *)
THEOREM OneWaitIsEnough == Spec => []NoSecondWait
<1>1. Init => RoomInv
  BY DEF Init, RoomInv
<1> QED
  BY <1>1, InitInside, NextInside, NextRoom, RoomFollows, PTL DEF Spec

-----------------------------------------------------------------------------
(* The data of at most two buffers.                                        *)
(*                                                                         *)
(* m_full may be stale when three buffers are in the pool (run             *)
(* ring_overwrite).  With two it cannot mislead createPoolBuffer about a   *)
(* buffer of at most half of the vector: the buffers x and y in the pool   *)
(* follow each other from the start offset to the end offset, whoever      *)
(* holds them, except that a larger one at the front may reach beyond the  *)
(* start offset.  The vector grows at most once, and is empty then.        *)

Sizes == {n \in Nat \ {0} : 2 * n <= StartBufferPoolSize \/ n > StartBufferPoolSize}

TwoBuffers == MaxInUse <= 2 /\ Commands \subseteq Seq(Sizes)

Once == {n \in Nat : n <= StartBufferPoolSize \/ n >= MaxBufferPoolSize}

OneGrowth == Commands \subseteq Seq(Once)

(* Where k buffers can be, from the oldest (x) to the newest: bufs are the *)
(* OpenGL thread's, made the producer's.                                   *)
Spread(k, x, y, bufs, cmds, made) ==
    \/ k = 0 /\ bufs = << >> /\ cmds = << >> /\ made = << >>
    \/ k = 1 /\ bufs = <<x>> /\ cmds = << >> /\ made = << >>
    \/ k = 1 /\ bufs = << >> /\ cmds = << <<x>> >> /\ made = << >>
    \/ k = 1 /\ bufs = << >> /\ cmds = << >> /\ made = <<x>>
    \/ k = 2 /\ bufs = <<x, y>> /\ cmds = << >> /\ made = << >>
    \/ k = 2 /\ bufs = <<x>> /\ cmds = << <<y>> >> /\ made = << >>
    \/ k = 2 /\ bufs = <<x>> /\ cmds = << >> /\ made = <<y>>
    \/ k = 2 /\ bufs = << >> /\ cmds = << <<x, y>> >> /\ made = << >>
    \/ k = 2 /\ bufs = << >> /\ cmds = << <<x>>, <<y>> >> /\ made = << >>
    \/ k = 2 /\ bufs = << >> /\ cmds = << <<x>> >> /\ made = <<y>>
    \/ k = 2 /\ bufs = << >> /\ cmds = << >> /\ made = <<x, y>>

(* Sequences of one and two elements. *)
LEMMA Singles ==
    ASSUME NEW b
    PROVE  /\ <<b>> # << >> /\ Head(<<b>>) = b /\ Tail(<<b>>) = << >>
           /\ DOMAIN <<b>> = {1} /\ <<b>>[1] = b
  OBVIOUS

LEMMA AppendOne ==
    ASSUME NEW b
    PROVE  Append(<< >>, b) = <<b>>
  OBVIOUS

LEMMA AppendTwo ==
    ASSUME NEW a, NEW b
    PROVE  Append(<<a>>, b) = <<a, b>>
<1>1. <<a>> \in Seq({a, b}) /\ Len(<<a>>) = 1
  OBVIOUS
<1>2. Append(<<a>>, b) \in Seq({a, b}) /\ Len(Append(<<a>>, b)) = 2
  BY <1>1
<1>3. <<a, b>> \in Seq({a, b}) /\ Len(<<a, b>>) = 2 /\ <<a, b>>[1] = a /\ <<a, b>>[2] = b
  OBVIOUS
<1>4. Append(<<a>>, b)[1] = a /\ Append(<<a>>, b)[2] = b
  BY <1>1
<1>5. \A i \in 1..2 : Append(<<a>>, b)[i] = <<a, b>>[i]
  BY <1>3, <1>4
<1> QED
  BY <1>2, <1>3, <1>5, SeqEqual

LEMMA Pairs ==
    ASSUME NEW a, NEW b
    PROVE  /\ <<a, b>> # << >> /\ <<a, b>> # <<a>>
           /\ Head(<<a, b>>) = a /\ Tail(<<a, b>>) = <<b>>
           /\ DOMAIN <<a, b>> = {1, 2} /\ <<a, b>>[1] = a /\ <<a, b>>[2] = b
  OBVIOUS

(* A buffer is made, *)
LEMMA SpreadCopy ==
    ASSUME NEW x, NEW y, NEW bufs, NEW cmds, NEW made, NEW b
    PROVE  /\ Spread(0, x, y, bufs, cmds, made) => Spread(1, b, y, bufs, cmds, Append(made, b))
           /\ Spread(1, x, y, bufs, cmds, made) => Spread(2, x, b, bufs, cmds, Append(made, b))
<1>1. Append(<< >>, b) = <<b>> /\ Append(<<x>>, b) = <<x, b>>
  BY AppendOne, AppendTwo
<1>2. ASSUME Spread(0, x, y, bufs, cmds, made)
      PROVE  Spread(1, b, y, bufs, cmds, Append(made, b))
  <2>1. bufs = << >> /\ cmds = << >> /\ made = << >>
    BY <1>2 DEF Spread
  <2> QED
    BY <1>1, <2>1 DEF Spread
<1>3. ASSUME Spread(1, x, y, bufs, cmds, made)
      PROVE  Spread(2, x, b, bufs, cmds, Append(made, b))
  <2>1. \/ bufs = <<x>> /\ cmds = << >> /\ made = << >>
        \/ bufs = << >> /\ cmds = << <<x>> >> /\ made = << >>
        \/ bufs = << >> /\ cmds = << >> /\ made = <<x>>
    BY <1>3 DEF Spread
  <2> QED
    BY <1>1, <2>1 DEF Spread
<1> QED
  BY <1>2, <1>3

(* a command is queued, *)
LEMMA SpreadPush ==
    ASSUME NEW k, NEW x, NEW y, NEW bufs, NEW cmds, NEW made, made # << >>,
           Spread(k, x, y, bufs, cmds, made)
    PROVE  Spread(k, x, y, bufs, Append(cmds, made), << >>)
<1>1. /\ Append(<< >>, <<x>>) = << <<x>> >> /\ Append(<< >>, <<y>>) = << <<y>> >>
      /\ Append(<< >>, <<x, y>>) = << <<x, y>> >>
      /\ Append(<< <<x>> >>, <<y>>) = << <<x>>, <<y>> >>
  BY AppendOne, AppendTwo
<1> QED
  BY <1>1 DEF Spread

(* taken, *)
LEMMA SpreadDequeue ==
    ASSUME NEW k, NEW x, NEW y, NEW bufs, NEW cmds, NEW made, bufs = << >>, cmds # << >>,
           Spread(k, x, y, bufs, cmds, made)
    PROVE  Spread(k, x, y, Head(cmds), Tail(cmds), made)
<1>1. /\ Head(<< <<x>> >>) = <<x>> /\ Tail(<< <<x>> >>) = << >>
      /\ Head(<< <<x, y>> >>) = <<x, y>> /\ Tail(<< <<x, y>> >>) = << >>
      /\ Head(<< <<x>>, <<y>> >>) = <<x>> /\ Tail(<< <<x>>, <<y>> >>) = << <<y>> >>
  OBVIOUS
<1> QED
  BY <1>1 DEF Spread

(* and the oldest buffer is removed. *)
LEMMA SpreadRemove ==
    ASSUME NEW k, NEW x, NEW y, NEW bufs, NEW cmds, NEW made, bufs # << >>,
           Spread(k, x, y, bufs, cmds, made)
    PROVE  /\ Head(bufs) = x /\ k \in {1, 2}
           /\ Spread(k - 1, y, y, Tail(bufs), cmds, made)
           /\ Tail(bufs) = << >> => bufs = <<x>>
<1>1. /\ Head(<<x>>) = x /\ Tail(<<x>>) = << >>
      /\ Head(<<x, y>>) = x /\ Tail(<<x, y>>) = <<y>> /\ <<y>> # << >>
  BY Singles, Pairs
<1>2. CASE k = 1 /\ bufs = <<x>> /\ cmds = << >> /\ made = << >>
  BY <1>1, <1>2 DEF Spread
<1>3. CASE k = 2 /\ bufs = <<x, y>> /\ cmds = << >> /\ made = << >>
  <2>1. k - 1 = 1
    BY <1>3
  <2> QED
    BY <1>1, <1>3, <2>1 DEF Spread
<1>4. CASE k = 2 /\ bufs = <<x>> /\ cmds = << <<y>> >> /\ made = << >>
  <2>1. k - 1 = 1
    BY <1>4
  <2> QED
    BY <1>1, <1>4, <2>1 DEF Spread
<1>5. CASE k = 2 /\ bufs = <<x>> /\ cmds = << >> /\ made = <<y>>
  <2>1. k - 1 = 1
    BY <1>5
  <2> QED
    BY <1>1, <1>5, <2>1 DEF Spread
<1> QED
  BY <1>2, <1>3, <1>4, <1>5 DEF Spread

(* The sets of buffers that Unused and InUse are made of. *)
All(cmds) == UNION {Range(cmds[i]) : i \in DOMAIN cmds}

LEMMA SpreadSets ==
    ASSUME NEW k, NEW x, NEW y, NEW bufs, NEW cmds, NEW made,
           Spread(k, x, y, bufs, cmds, made)
    PROVE  /\ k = 0 => Range(made) \cup All(cmds) \cup Range(bufs) = {}
           /\ k = 1 => Range(made) \cup All(cmds) \cup Range(bufs) = {x}
           /\ k = 2 => Range(made) \cup All(cmds) \cup Range(bufs) = {x, y}
           /\ bufs # << >> => Range(made) \cup All(cmds)
                                  \subseteq IF k = 2 /\ bufs = <<x>> THEN {y} ELSE {}
<1>1. Range(<< >>) = {}
  BY DEF Range
<1>2. \A b : Range(<<b>>) = {b}
  BY Singles DEF Range
<1>3. Range(<<x, y>>) = {x, y}
  <2> DEFINE f == <<x, y>>
  <2>1. DOMAIN f = {1, 2} /\ f[1] = x /\ f[2] = y
    BY Pairs
  <2> HIDE DEF f
  <2>2. \A e : e \in Range(f) <=> \E i \in DOMAIN f : e = f[i]
    BY DEF Range
  <2>3. Range(f) = {x, y}
    BY <2>1, <2>2
  <2> QED
    BY <2>3 DEF f
<1>4. All(<< >>) = {}
  BY DEF All
<1>5. \A s : All(<<s>>) = Range(s)
  BY Singles DEF All
<1>6. All(<< <<x>>, <<y>> >>) = Range(<<x>>) \cup Range(<<y>>)
  BY Pairs DEF All
<1>7. <<x, y>> # <<x>> /\ <<x>> # << >> /\ <<x, y>> # << >>
  BY Singles, Pairs
<1> QED
  BY <1>1, <1>2, <1>3, <1>4, <1>5, <1>6, <1>7 DEF Spread

(* How many buffers of its command the producer has yet to copy. *)
Todo == IF p.pc \in Making \ {"full"} THEN Len(p.sizes)
        ELSE IF p.pc = "full" THEN Len(p.sizes) - 1 ELSE 0

(* x and y are the buffers in the pool, and their numbers differ. *)
Line(k, x, y) ==
    /\ Spread(k, x, y, c.bufs, queue, p.made)
    /\ k + Todo <= 2
    /\ k = 2 => x.id # y.id
    /\ p.pc = "copy" /\ k = 1 => x.id # p.new.id
    /\ p.pc # "copy" => (k = 1 => x.id = p.new.id) /\ (k = 2 => y.id = p.new.id)

End(b) == b.offset + b.size
Small(b) == 2 * b.size <= size
After(b, s) == b.offset = s \/ (b.offset = 0 /\ (b.size < s \/ ~Small(b)))
Apart(a, b) == End(a) <= b.offset \/ End(b) <= a.offset

(* The OpenGL thread no longer uses the buffers of its command. *)
Done == c.pc \in {"remove", "clear"}

(* They lie one after the other, from start to end; so does a buffer that  *)
(* is about to be copied, and it overlaps no small one that is in use.     *)
Lies(k, x, y) ==
    /\ (k > 0 => x.size \in Sizes) /\ (k = 2 => y.size \in Sizes)
    /\ k = 2 => End(y) = end /\ After(y, End(x))
    /\ k > 0 => IF c.pc = "clear" THEN start = End(x) ELSE After(x, start)
    /\ p.pc # "copy" =>
         /\ k = 0 => start = end
         /\ k = 1 => End(x) = end
    /\ p.pc = "copy" =>
         /\ End(p.new) = end /\ p.new.size \in Sizes
         /\ k = 0 => After(p.new, start)
         /\ k = 1 => After(p.new, End(x)) /\ (Done \/ ~Small(x) \/ Apart(x, p.new))
    /\ p.pc = "check" /\ k = 1 /\ c.pc # "clear" => p.tmp = start

Intact(b) == \A u \in b.offset..(b.offset + b.size - 1) : u < size /\ pool[u] = b.id

(* The small ones that are still to be used hold their data. *)
Holds(k, x, y) ==
    /\ k > 0 /\ ~Done /\ Small(x) => Intact(x)
    /\ k = 2 /\ (~Done \/ c.bufs = <<x>>) /\ Small(y) => Intact(y)

LineInv ==
    /\ p.sizes \in Seq(Sizes)
    /\ c.pc = "idle" => c.bufs = << >>
    /\ \E k \in 0..2 : \E x, y \in Placed(size) :
         Line(k, x, y) /\ Lies(k, x, y) /\ Holds(k, x, y)

(* The vector has grown at most once, and no pointer was held then. *)
HeldInv ==
    /\ p.sizes \in Seq(Once)
    /\ size \in {StartBufferPoolSize, MaxBufferPoolSize}
    /\ c.got > 0 => c.pc \in {"get", "use"}
    /\ c.stale = FALSE

(* What the parts of a buffer are. *)
LEMMA BufferParts ==
    ASSUME IInv, NEW b \in Placed(size)
    PROVE  /\ b.offset \in Nat /\ b.size \in Nat /\ b.id \in 0..Ids
           /\ b.offset + b.size <= size /\ End(b) \in Nat /\ End(b) <= size
<1>1. b.offset \in Nat /\ b.size \in Nat /\ b.id \in 0..Ids /\ b.offset + b.size <= size
  BY Constants DEF Placed, Buffers
<1> QED
  BY <1>1 DEF End

LEMMA TodoParts ==
    ASSUME IInv
    PROVE  /\ Todo \in Nat /\ (p.pc \in Making \ {"full"} => Todo >= 1)
           /\ p.pc \in Making => Len(p.sizes) >= 1 /\ Len(Tail(p.sizes)) = Len(p.sizes) - 1
<1>1. p.sizes \in Seq(Nat) /\ (p.pc \in Making => p.sizes # << >>)
  BY Parts DEF IInv
<1>2. ASSUME NEW s \in Seq(Nat), s # << >>
      PROVE  Len(s) \in Nat /\ Len(s) >= 1 /\ Len(Tail(s)) = Len(s) - 1
  BY <1>2
<1> QED
  BY <1>1, <1>2 DEF Todo, Making

(* The next number of a buffer is another one. *)
LEMMA NextId ==
    ASSUME NEW i \in 0..Ids
    PROVE  (i % Ids) + 1 # i
<1>1. Ids \in Nat /\ Ids > 1
  BY RingAssumption DEF RingAssumption
<1>2. CASE i < Ids
  <2>1. i % Ids = i
    BY <1>1, <1>2, Wraps
  <2> QED
    BY <2>1
<1>3. CASE i = Ids
  <2>1. 0 \in Nat /\ 0 + Ids = Ids
    BY <1>1
  <2>2. i % Ids = 0
    BY <1>1, <1>3, <2>1, Wraps
  <2> QED
    BY <1>1, <1>3, <2>2
<1> QED
  BY <1>1, <1>2, <1>3

(* A buffer that goes to the front of the vector fits into it. *)
LEMMA FrontFits ==
    ASSUME IInv, p.pc = "check", Fits, FitsAtFront(p.tmp)
    PROVE  realBufferSize <= size
<1> USE Parts, Constants
<1>0. realBufferSize \in Nat
  BY DEF Making
<1> SUFFICES ASSUME p.tmp = end PROVE realBufferSize <= size
  BY <1>0 DEF FitsAtFront
<1>1. CASE full
  <2>1. p.tmp \in 0..size /\ Remaining(p.tmp, size) = p.tmp - end
    BY <1>1, RoomInFull
  <2> QED
    BY <1>0, <2>1 DEF Fits
<1>2. CASE ~full
  <2>1. Remaining(p.tmp, size) = size
    BY <1>2 DEF Remaining
  <2> QED
    BY <1>0, <2>1 DEF Fits
<1> QED
  BY <1>1, <1>2

(* To show LineInv after a step. *)
LEMMA LineIntro ==
    ASSUME p'.sizes \in Seq(Sizes), c'.pc = "idle" => c'.bufs = << >>,
           NEW k \in 0..2, NEW x \in Placed(size'), NEW y \in Placed(size'),
           Line(k, x, y)', Lies(k, x, y)', Holds(k, x, y)'
    PROVE  LineInv'
  BY DEF LineInv

(* The producer moves on and no buffer is made. *)
LEMMA ProducerMoves ==
    ASSUME IInv, LineInv, UNCHANGED <<start, end, size, pool, queue, c>>,
           p'.made = p.made, p'.new = p.new, p'.sizes \in Seq(Sizes),
           p.pc # "copy", p'.pc # "copy", p'.pc = "check" => p'.tmp = start,
           \A k \in 0..2 : \A x, y \in Placed(size) : Line(k, x, y) => k + Todo' <= 2
    PROVE  LineInv'
<1>1. PICK k \in 0..2, x \in Placed(size), y \in Placed(size) :
        Line(k, x, y) /\ Lies(k, x, y) /\ Holds(k, x, y)
  BY DEF LineInv
<1>2. Line(k, x, y)'
  BY <1>1 DEF Line
<1>3. Lies(k, x, y)'
  BY <1>1 DEF Lies, After, Small
<1>4. Holds(k, x, y)'
  BY <1>1 DEF Holds, Done, Small, Intact
<1>5. c'.pc = "idle" => c'.bufs = << >>
  BY DEF LineInv
<1>6. x \in Placed(size') /\ y \in Placed(size')
  OBVIOUS
<1> QED
  BY <1>1, <1>2, <1>3, <1>4, <1>5, <1>6, LineIntro

(* The bound on buffers in the pool. *)
LEMMA LineCount ==
    ASSUME NEW k \in 0..2, NEW x, NEW y, Line(k, x, y)
    PROVE  Cardinality(InUse) = k
<1>1. /\ k = 0 => InUse = {}
      /\ k = 1 => InUse = {x}
      /\ k = 2 => InUse = {x, y} /\ x # y
  <2>1. Spread(k, x, y, c.bufs, queue, p.made) /\ (k = 2 => x # y)
    BY DEF Line
  <2>2. Queued = All(queue)
    BY DEF Queued, All
  <2> QED
    BY <2>1, <2>2, SpreadSets DEF InUse
<1>2. Cardinality({}) = 0 /\ Cardinality({x}) = 1 /\ IsFiniteSet({x})
  BY FS_EmptySet, FS_Singleton
<1>3. x # y => Cardinality({x} \cup {y}) = 2
  BY <1>2, FS_AddElement
<1>4. {x} \cup {y} = {x, y}
  OBVIOUS
<1> QED
  BY <1>1, <1>2, <1>3, <1>4

LEMMA BeginLine ==
    ASSUME TwoBuffers, IInv, LineInv, NEW sizes \in Commands, Begin(sizes)
    PROVE  LineInv'
<1>0. p \in ProducerTypes(size) /\ sizes \in Seq(Sizes) /\ sizes # << >> /\ sizes \in Seq(Nat)
  BY Constants DEF IInv, TwoBuffers
<1>1. /\ p.pc = "idle" /\ p'.pc = "start" /\ p'.sizes = sizes
      /\ p'.made = p.made /\ p'.new = p.new
      /\ UNCHANGED <<start, end, size, pool, queue, c>>
  BY <1>0 DEF Begin, ProducerTypes
<1>2. Todo' = Len(sizes) /\ Len(sizes) \in Nat
  BY <1>0, <1>1 DEF Todo, Making
<1>3. \A k \in 0..2 : \A x, y \in Placed(size) : Line(k, x, y) => k + Todo' <= 2
  <2> SUFFICES ASSUME NEW k \in 0..2, NEW x, NEW y, Line(k, x, y) PROVE k + Todo' <= 2
    OBVIOUS
  <2>1. Cardinality(InUse) = k /\ Cardinality(InUse) + Len(sizes) <= MaxInUse
    BY LineCount DEF Begin
  <2>2. MaxInUse \in Nat /\ MaxInUse <= 2
    BY RingAssumption DEF RingAssumption, TwoBuffers
  <2> QED
    BY <1>2, <2>1, <2>2
<1> QED
  BY <1>0, <1>1, <1>3, ProducerMoves

LEMMA ReadStartLine ==
    ASSUME IInv, LineInv, ReadStart
    PROVE  LineInv'
<1>0. p \in ProducerTypes(size)
  BY DEF IInv
<1>1. /\ p.pc = "start" /\ p'.pc = "check" /\ p'.sizes = p.sizes /\ p'.tmp = start
      /\ p'.made = p.made /\ p'.new = p.new
      /\ UNCHANGED <<start, end, size, pool, queue, c>>
  BY <1>0 DEF ReadStart, ProducerTypes
<1>2. Todo' = Todo
  BY <1>1 DEF Todo, Making
<1>3. p'.sizes \in Seq(Sizes)
  BY <1>1 DEF LineInv
<1> QED
  BY <1>1, <1>2, <1>3, ProducerMoves DEF Line

LEMMA SetFullLine ==
    ASSUME IInv, LineInv, SetFull
    PROVE  LineInv'
<1>0. p \in ProducerTypes(size)
  BY DEF IInv
<1>1. /\ p.pc = "full" /\ p'.pc = (IF Tail(p.sizes) = << >> THEN "push" ELSE "start")
      /\ p'.sizes = Tail(p.sizes) /\ p'.made = p.made /\ p'.new = p.new
      /\ UNCHANGED <<start, end, size, pool, queue, c>>
  BY <1>0 DEF SetFull, ProducerTypes
<1>2. Todo = Len(p.sizes) - 1 /\ Todo \in Nat /\ Len(Tail(p.sizes)) = Len(p.sizes) - 1
  BY <1>1, TodoParts DEF Todo, Making
<1>3. Todo' = Todo \/ Todo' = 0
  BY <1>1, <1>2 DEF Todo, Making
<1>4. p'.sizes \in Seq(Sizes)
  <2>1. p.sizes # << >> /\ p.sizes \in Seq(Sizes)
    BY <1>1 DEF IInv, LineInv, Making
  <2> QED
    BY <1>1, <2>1
<1>5. p'.pc \in {"push", "start"}
  BY <1>1
<1>6. \A k \in 0..2 : \A x, y \in Placed(size) : Line(k, x, y) => k + Todo' <= 2
  BY <1>2, <1>3 DEF Line
<1> QED
  BY <1>1, <1>4, <1>5, <1>6, ProducerMoves

(* A producer that waits or tries again. *)
LEMMA WaitLine ==
    ASSUME IInv, LineInv, p.pc \in {"wrap", "space"}, p'.pc \in {"wrap", "space", "start"},
           p'.sizes = p.sizes, p'.made = p.made, p'.new = p.new,
           UNCHANGED <<start, end, size, pool, queue, c>>
    PROVE  LineInv'
<1>1. Todo' = Todo
  BY DEF Todo, Making
<1>2. p'.sizes \in Seq(Sizes)
  BY DEF LineInv
<1> QED
  BY <1>1, <1>2, ProducerMoves DEF Line

LEMMA WaitWrapLine ==
    ASSUME IInv, LineInv, WaitWrap
    PROVE  LineInv'
<1>0. p \in ProducerTypes(size)
  BY DEF IInv
<1>1. /\ p.pc = "wrap" /\ p'.pc \in {"wrap", "start"} /\ p'.sizes = p.sizes
      /\ p'.made = p.made /\ p'.new = p.new
      /\ UNCHANGED <<start, end, size, pool, queue, c>>
  BY <1>0 DEF WaitWrap, Looks, Retry, Sleep, ProducerTypes
<1> QED
  BY <1>1, WaitLine

(* The pool is empty when the vector is resized. *)
LEMMA EmptyWhenResized ==
    ASSUME IInv, RoomInv, LineInv, HeldInv, Looks("space"), size < realBufferSize,
           RemainingGrown = realBufferSize
    PROVE  /\ size = StartBufferPoolSize /\ realBufferSize = MaxBufferPoolSize
           /\ start = end /\ \E x, y \in Placed(size) : Line(0, x, y)
<1> USE Parts, Constants
<1>1. /\ p.pc = "space" /\ ~mutex /\ realBufferSize \in Nat /\ poolBufferSize = realBufferSize
      /\ realBufferSize <= MaxBufferPoolSize /\ p.sizes # << >>
  BY DEF Looks, Making, poolBufferSize, IInv
<1>2. size = StartBufferPoolSize /\ realBufferSize = MaxBufferPoolSize
  <2>1. realBufferSize <= StartBufferPoolSize \/ realBufferSize >= MaxBufferPoolSize
    <3>1. realBufferSize \in Once
      BY <1>1 DEF HeldInv, realBufferSize
    <3> QED
      BY <3>1 DEF Once
  <2>2. size \in {StartBufferPoolSize, MaxBufferPoolSize}
    BY DEF HeldInv
  <2> QED
    BY <1>1, <2>1, <2>2
<1>3. start = end
  <2>1. start \in 0..size
    BY DEF IInv
  <2>2. CASE start > end \/ full
    <3>1. full => end <= start
      BY <1>1 DEF RoomInv
    <3>2. RemainingGrown = start - end
      BY <2>1, <2>2, <3>1, RoomInFull DEF RemainingGrown
    <3> QED
      BY <1>1, <3>2
  <2>3. CASE ~(start > end \/ full)
    <3>1. RemainingGrown = realBufferSize - end + start
      BY <1>1, <2>3 DEF RemainingGrown, Remaining
    <3> QED
      BY <1>1, <3>1
  <2> QED
    BY <2>2, <2>3
<1>4. PICK k \in 0..2, x \in Placed(size), y \in Placed(size) :
        Line(k, x, y) /\ Lies(k, x, y)
  BY DEF LineInv
<1>5. k \in {0, 1}
  <2>1. Todo \in Nat /\ Todo >= 1
    BY <1>1, TodoParts DEF Making
  <2> QED
    BY <1>4, <2>1 DEF Line
<1>6. k # 1
  <2> SUFFICES ASSUME k = 1 PROVE FALSE
    OBVIOUS
  <2>1. c.pc # "clear"
    BY <1>1 DEF RoomInv
  <2>2. End(x) = end /\ x.size \in Sizes /\ After(x, start)
    BY <1>1, <1>4, <2>1 DEF Lies
  <2>3. x.offset \in Nat /\ x.size \in Nat /\ x.size <= size /\ end = x.offset + x.size
    BY <2>2, BufferParts DEF End
  <2>4. x.size > 0 /\ Small(x)
    BY <1>2, <2>2, <2>3 DEF Sizes, Small
  <2>5. x.offset = start \/ (x.offset = 0 /\ x.size < start)
    BY <2>2, <2>4 DEF After
  <2> QED
    BY <1>3, <2>3, <2>4, <2>5
<1> QED
  BY <1>2, <1>3, <1>4, <1>5, <1>6

LEMMA WaitSpaceLine ==
    ASSUME IInv, RoomInv, LineInv, HeldInv, WaitSpace
    PROVE  LineInv'
<1> USE Parts, Constants
<1>0. p \in ProducerTypes(size) /\ c \in ConsumerTypes(size)
  BY DEF IInv
<1>1. /\ Looks("space") /\ p.pc = "space" /\ p'.pc \in {"space", "start"}
      /\ p'.sizes = p.sizes /\ p'.made = p.made /\ p'.new = p.new
      /\ UNCHANGED <<start, end, pool, queue>>
  BY <1>0 DEF WaitSpace, Looks, Retry, Resize, Sleep, ProducerTypes
<1>2. CASE UNCHANGED <<size, c>>
  BY <1>1, <1>2, WaitLine
<1>3. CASE RemainingGrown = realBufferSize /\ size < realBufferSize /\ Resize
  <2>1. size' = realBufferSize /\ size' \in Nat /\ size' > size
    BY <1>1, <1>3 DEF Resize, Making
  <2>2. c'.bufs = c.bufs /\ c'.pc = c.pc
    BY <1>0, <1>3 DEF Resize, ConsumerTypes
  <2>3. start = end /\ \E x, y \in Placed(size) : Line(0, x, y)
    BY <1>1, <1>3, EmptyWhenResized
  <2>4. PICK x \in Placed(size), y \in Placed(size) : Line(0, x, y)
    BY <2>3
  <2>5. Todo' = Todo
    BY <1>1 DEF Todo, Making
  <2>6. Line(0, x, y)'
    BY <1>1, <2>2, <2>4, <2>5 DEF Line
  <2>7. Lies(0, x, y)' /\ Holds(0, x, y)'
    BY <1>1, <2>3 DEF Lies, Holds
  <2>8. x \in Placed(size') /\ y \in Placed(size')
    <3>1. size \in Nat /\ size <= size' /\ Placed(size) \subseteq Placed(size')
      BY <2>1, Grows
    <3> QED
      BY <3>1
  <2>9. p'.sizes \in Seq(Sizes) /\ (c'.pc = "idle" => c'.bufs = << >>)
    BY <1>1, <2>2 DEF LineInv
  <2> QED
    BY <2>6, <2>7, <2>8, <2>9, LineIntro
<1> QED
  BY <1>2, <1>3 DEF WaitSpace, Sleep

LEMMA PushLine ==
    ASSUME IInv, LineInv, Push
    PROVE  LineInv'
<1>0. p \in ProducerTypes(size) /\ p.made # << >>
  BY DEF IInv, Push
<1>1. /\ p.pc = "push" /\ p'.pc = "idle" /\ p'.sizes = p.sizes /\ p'.new = p.new
      /\ p'.made = << >> /\ queue' = Append(queue, p.made)
      /\ UNCHANGED <<start, end, size, pool, c>>
  BY <1>0 DEF Push, ProducerTypes
<1>2. PICK k \in 0..2, x \in Placed(size), y \in Placed(size) :
        Line(k, x, y) /\ Lies(k, x, y) /\ Holds(k, x, y)
  BY DEF LineInv
<1>3. Todo = 0 /\ Todo' = 0
  BY <1>1 DEF Todo, Making
<1>4. Spread(k, x, y, c'.bufs, queue', p'.made)
  BY <1>0, <1>1, <1>2, SpreadPush DEF Line
<1>5. Line(k, x, y)'
  BY <1>1, <1>2, <1>3, <1>4 DEF Line
<1>6. Lies(k, x, y)'
  BY <1>1, <1>2 DEF Lies, After, Small
<1>7. Holds(k, x, y)'
  BY <1>1, <1>2 DEF Holds, Done, Small, Intact
<1>8. p'.sizes \in Seq(Sizes) /\ (c'.pc = "idle" => c'.bufs = << >>)
  BY <1>1 DEF LineInv
<1> QED
  BY <1>1, <1>2, <1>5, <1>6, <1>7, <1>8, LineIntro

(* A buffer is placed after the last one, or in front of the first: what   *)
(* createPoolBuffer read of the start offset is old only when the buffer   *)
(* that it would protect has been used.                                    *)
LEMMA PlaceLine ==
    ASSUME IInv, LineInv, p.pc = "check", NEW offset \in Nat, offset + realBufferSize <= size,
           Place(offset), UNCHANGED <<start, size, pool, queue, c>>,
           offset = end \/ (offset = 0 /\ Fits /\ ~AtEnd /\ FitsAtFront(p.tmp))
    PROVE  LineInv'
<1> USE Parts, Constants
<1>0. /\ p \in ProducerTypes(size) /\ realBufferSize \in Nat /\ realBufferSize \in Sizes
      /\ p.sizes \in Seq(Sizes)
  <2>1. p.sizes \in Seq(Sizes) /\ p.sizes # << >>
    BY DEF IInv, LineInv, Making
  <2>2. realBufferSize \in Sizes /\ realBufferSize \in Nat
    BY <2>1 DEF realBufferSize, Sizes
  <2> QED
    BY <2>1, <2>2 DEF IInv
<1> DEFINE b == [id |-> (p.new.id % Ids) + 1, offset |-> offset, size |-> realBufferSize]
<1>1. /\ p'.pc = "copy" /\ p'.sizes = p.sizes /\ p'.made = p.made /\ p'.new = b
      /\ end' = offset + realBufferSize
  BY <1>0 DEF Place, ProducerTypes
<1>2. b.id # p.new.id /\ b.offset = offset /\ b.size = realBufferSize
  BY NextId
<1> HIDE DEF b
<1>3. PICK k \in 0..2, x \in Placed(size), y \in Placed(size) :
        Line(k, x, y) /\ Lies(k, x, y) /\ Holds(k, x, y)
  BY DEF LineInv
<1>4. Todo' = Todo /\ Todo \in Nat /\ Todo >= 1
  BY <1>1, TodoParts DEF Todo, Making
<1>5. k \in {0, 1}
  BY <1>3, <1>4 DEF Line
<1>6. Line(k, x, y)'
  BY <1>1, <1>2, <1>3, <1>4, <1>5 DEF Line
<1>7. Lies(k, x, y)'
  <2>1. realBufferSize > 0
    BY <1>0 DEF Sizes
  <2>2. End(b) = end' /\ b.size \in Sizes
    BY <1>0, <1>1, <1>2 DEF End
  <2>3. offset = end \/ (offset = 0 /\ (realBufferSize < end \/ ~(2 * realBufferSize <= size)))
    BY <1>0, <2>1 DEF AtEnd
  <2>4. After(b, end)
    BY <1>2, <2>3 DEF After, Small
  <2>5. k = 0 => After(b, start)
    BY <1>3, <2>4 DEF Lies
  <2>6. k = 1 => End(x) = end /\ After(b, End(x))
    BY <1>3, <2>4 DEF Lies
  <2>7. ASSUME k = 1, ~Done, Small(x)
        PROVE  Apart(x, b)
    <3>1. /\ End(x) = x.offset + x.size /\ x.offset \in Nat /\ x.size \in Nat /\ x.size > 0
      BY <1>3, <2>7, BufferParts DEF End, Lies, Sizes
    <3>2. p.tmp = start /\ After(x, start) /\ End(b) = offset + realBufferSize
      BY <1>2, <1>3, <2>7 DEF Lies, Done, End
    <3>3. CASE offset = end
      BY <1>2, <2>6, <2>7, <3>3 DEF Apart
    <3>4. CASE offset = 0 /\ Fits /\ ~AtEnd /\ FitsAtFront(p.tmp)
      <4>1. end + realBufferSize > size /\ (realBufferSize < start \/ start = end)
        BY <1>0, <3>2, <3>4 DEF AtEnd, FitsAtFront
      <4>2. x.offset = start \/ (x.offset = 0 /\ x.size < start)
        BY <2>7, <3>2 DEF After
      <4>3. end = x.offset + x.size
        BY <2>6, <2>7, <3>1
      <4>4. ~(start > end)
        <5> SUFFICES ASSUME start > end PROVE FALSE
          OBVIOUS
        <5>1. Remaining(start, size) = start - end
          BY RoomInFull DEF IInv
        <5>2. start - end >= realBufferSize
          BY <3>2, <3>4, <5>1 DEF Fits
        <5> QED
          BY <1>0, <4>1, <5>2
      <4>5. realBufferSize <= x.offset
        BY <1>0, <3>1, <4>1, <4>2, <4>3, <4>4
      <4> QED
        BY <1>0, <1>2, <3>2, <3>4, <4>5 DEF Apart
    <3> QED
      BY <3>3, <3>4
  <2>8. /\ k > 0 => IF c.pc = "clear" THEN start = End(x) ELSE After(x, start)
        /\ k > 0 => x.size \in Sizes
    BY <1>3 DEF Lies
  <2>9. UNCHANGED <<start, size, c>>
    OBVIOUS
  <2> QED
    BY <1>1, <1>5, <2>2, <2>5, <2>6, <2>7, <2>8, <2>9 DEF Lies, After, Small, Done
<1>8. Holds(k, x, y)'
  BY <1>3 DEF Holds, Done, Small, Intact
<1>9. p'.sizes \in Seq(Sizes) /\ (c'.pc = "idle" => c'.bufs = << >>)
  BY <1>0, <1>1 DEF LineInv
<1> QED
  BY <1>3, <1>6, <1>7, <1>8, <1>9, LineIntro

LEMMA CheckLine ==
    ASSUME IInv, LineInv, Check
    PROVE  LineInv'
<1> USE Parts, Constants
<1>0. p \in ProducerTypes(size) /\ p.pc = "check" /\ realBufferSize \in Nat
  BY DEF IInv, Check, Making
<1>1. UNCHANGED <<start, size, pool, queue, c>>
  BY DEF Check
<1>2. CASE Fits /\ AtEnd /\ Place(end)
  BY <1>0, <1>1, <1>2, PlaceLine DEF AtEnd
<1>3. CASE Fits /\ ~AtEnd /\ FitsAtFront(p.tmp) /\ Place(0)
  <2>1. 0 + realBufferSize <= size
    BY <1>0, <1>3, FrontFits
  <2> QED
    BY <1>0, <1>1, <1>3, <2>1, PlaceLine
<1>4. ASSUME NEW pc \in {"wrap", "thrown", "space"}, p' = [p EXCEPT !.pc = pc], UNCHANGED end
      PROVE  LineInv'
  <2>1. p'.pc = pc /\ p'.sizes = p.sizes /\ p'.made = p.made /\ p'.new = p.new
    BY <1>0, <1>4 DEF ProducerTypes
  <2>2. Todo \in Nat /\ (Todo' = Todo \/ Todo' = 0)
    BY <1>0, <2>1, TodoParts DEF Todo, Making
  <2>3. p'.sizes \in Seq(Sizes)
    BY <2>1 DEF LineInv
  <2>4. \A k \in 0..2 : \A x, y \in Placed(size) : Line(k, x, y) => k + Todo' <= 2
    BY <2>2 DEF Line
  <2> QED
    BY <1>0, <1>1, <1>4, <2>1, <2>3, <2>4, ProducerMoves
<1> QED
  BY <1>2, <1>3, <1>4 DEF Check

(* The units of a buffer inside the vector. *)
LEMMA UnitInside ==
    ASSUME IInv, NEW o \in Nat, NEW n \in Nat, o + n <= size, NEW u \in o..(o + n - 1)
    PROVE  u < size /\ u \in 0..(MaxBufferPoolSize - 1)
<1>1. size \in Nat /\ MaxBufferPoolSize \in Nat /\ size <= MaxBufferPoolSize
  BY Parts, Constants
<1> QED
  BY <1>1

(* The copy leaves a small buffer that is in use alone. *)
LEMMA CopyLine ==
    ASSUME IInv, LineInv, Copy
    PROVE  LineInv'
<1> USE Parts, Constants
<1>0. p \in ProducerTypes(size) /\ p.new \in Placed(size)
  BY DEF IInv
<1> DEFINE b == p.new
<1>1. /\ p.pc = "copy" /\ p'.pc = "full" /\ p'.sizes = p.sizes /\ p'.made = Append(p.made, b)
      /\ p'.new = b /\ UNCHANGED <<start, end, size, queue, c>>
  BY <1>0 DEF Copy, ProducerTypes
<1>2. PICK k \in 0..2, x \in Placed(size), y \in Placed(size) :
        Line(k, x, y) /\ Lies(k, x, y) /\ Holds(k, x, y)
  BY DEF LineInv
<1>3. Todo \in Nat /\ Todo >= 1 /\ Todo' = Todo - 1
  BY <1>1, TodoParts DEF Todo, Making
<1>4. /\ b.offset \in Nat /\ b.size \in Nat /\ b.offset + b.size <= size
      /\ End(b) = b.offset + b.size
  BY <1>0, BufferParts DEF End
<1>5. pool' = [u \in 0..(MaxBufferPoolSize - 1) |->
                 IF u \in b.offset..(b.offset + b.size - 1) THEN b.id ELSE pool[u]]
  BY DEF Copy, IInv
<1>6. Intact(b)'
  <2> SUFFICES ASSUME NEW u \in b.offset..(b.offset + b.size - 1)
               PROVE  u < size /\ pool'[u] = b.id
    BY <1>1 DEF Intact
  <2>1. u < size /\ u \in 0..(MaxBufferPoolSize - 1)
    BY <1>4, UnitInside
  <2> QED
    BY <1>5, <2>1
<1>7. ASSUME NEW a \in Placed(size), Apart(a, b), Intact(a)
      PROVE  Intact(a)'
  <2>1. a.offset \in Nat /\ a.size \in Nat /\ End(a) = a.offset + a.size /\ End(a) <= size
    BY BufferParts DEF End
  <2> SUFFICES ASSUME NEW u \in a.offset..(a.offset + a.size - 1)
               PROVE  u < size /\ pool'[u] = a.id
    BY <1>1 DEF Intact
  <2>2. u < size /\ pool[u] = a.id
    BY <1>7 DEF Intact
  <2>3. u \in 0..(MaxBufferPoolSize - 1)
    BY <2>1, <2>2
  <2>4. u \notin b.offset..(b.offset + b.size - 1)
    <3>1. ASSUME NEW o \in Nat, NEW n \in Nat, NEW q \in Nat, NEW m \in Nat,
                 o + n <= q \/ q + m <= o, NEW v \in o..(o + n - 1)
          PROVE  v \notin q..(q + m - 1)
      BY <3>1
    <3>2. a.offset + a.size <= b.offset \/ b.offset + b.size <= a.offset
      BY <1>4, <1>7, <2>1 DEF Apart
    <3> QED
      BY <1>4, <2>1, <3>1, <3>2
  <2> QED
    BY <1>5, <2>2, <2>3, <2>4
<1>8. p'.sizes \in Seq(Sizes) /\ (c'.pc = "idle" => c'.bufs = << >>)
  BY <1>1 DEF LineInv
<1>9. CASE k = 0
  <2>1. Spread(1, b, y, c'.bufs, queue', p'.made)
    BY <1>1, <1>2, <1>9, SpreadCopy DEF Line
  <2>2. Line(1, b, y)'
    BY <1>1, <1>2, <1>3, <1>9, <2>1 DEF Line
  <2>3. c.pc # "clear"
    BY <1>2, <1>9 DEF Line, Spread, IInv
  <2>4. Lies(1, b, y)'
    BY <1>1, <1>2, <1>9, <2>3 DEF Lies, After, Small
  <2>5. Holds(1, b, y)'
    BY <1>6 DEF Holds
  <2> QED
    BY <1>0, <1>1, <1>2, <1>8, <2>2, <2>4, <2>5, LineIntro
<1>10. CASE k = 1
  <2>1. Spread(2, x, b, c'.bufs, queue', p'.made)
    BY <1>1, <1>2, <1>10, SpreadCopy DEF Line
  <2>2. Line(2, x, b)'
    BY <1>1, <1>2, <1>3, <1>10, <2>1 DEF Line
  <2>3. Lies(2, x, b)'
    BY <1>1, <1>2, <1>10 DEF Lies, After, Small
  <2>4. Holds(2, x, b)'
    <3> SUFFICES ASSUME ~Done, Small(x) PROVE Intact(x)'
      BY <1>1, <1>6 DEF Holds, Done, Small
    <3>1. Apart(x, b) /\ Intact(x)
      BY <1>1, <1>2, <1>10 DEF Lies, Holds
    <3> QED
      BY <1>7, <3>1
  <2> QED
    BY <1>0, <1>1, <1>2, <1>8, <2>2, <2>3, <2>4, LineIntro
<1>11. k # 2
  BY <1>2, <1>3 DEF Line
<1> QED
  BY <1>9, <1>10, <1>11

(* The OpenGL thread takes a command, gets its pointers, uses them and     *)
(* starts to remove the first buffer.                                      *)
LEMMA ConsumerMoves ==
    ASSUME IInv, LineInv, UNCHANGED <<end, size, pool, p>>, c'.pc # "idle",
           NEW k \in 0..2, NEW x \in Placed(size), NEW y \in Placed(size),
           Line(k, x, y), Lies(k, x, y), Holds(k, x, y),
           Spread(k, x, y, c'.bufs, queue', p'.made),
           \/ c'.pc = "clear" /\ start' = End(x) /\ k > 0
           \/ c'.pc # "clear" /\ c.pc # "clear" /\ start' = start,
           Done => Done' /\ c'.bufs = c.bufs
    PROVE  LineInv'
<1>1. Todo' = Todo
  BY DEF Todo
<1>2. Line(k, x, y)'
  BY <1>1 DEF Line
<1>3. Lies(k, x, y)'
  BY DEF Lies, After, Small
<1>4. Holds(k, x, y)'
  BY DEF Holds, Small, Intact
<1>5. p'.sizes \in Seq(Sizes) /\ x \in Placed(size') /\ y \in Placed(size')
  BY DEF LineInv
<1> QED
  BY <1>2, <1>3, <1>4, <1>5, LineIntro

LEMMA DequeueLine ==
    ASSUME IInv, LineInv, Dequeue
    PROVE  LineInv'
<1>0. c \in ConsumerTypes(size)
  BY DEF IInv
<1>1. /\ c.pc = "idle" /\ c.bufs = << >> /\ queue # << >>
      /\ c'.pc = "get" /\ c'.bufs = Head(queue) /\ queue' = Tail(queue)
      /\ UNCHANGED <<start, end, size, pool, p>>
  BY <1>0 DEF Dequeue, ConsumerTypes, LineInv
<1>2. PICK k \in 0..2, x \in Placed(size), y \in Placed(size) :
        Line(k, x, y) /\ Lies(k, x, y) /\ Holds(k, x, y)
  BY DEF LineInv
<1>3. Spread(k, x, y, c'.bufs, queue', p'.made)
  BY <1>1, <1>2, SpreadDequeue DEF Line
<1>4. ~Done
  BY <1>1 DEF Done
<1> QED
  BY <1>1, <1>2, <1>3, <1>4, ConsumerMoves

LEMMA UseLine ==
    ASSUME IInv, LineInv, getBufferFromPool \/ Use
    PROVE  LineInv'
<1>0. c \in ConsumerTypes(size)
  BY DEF IInv
<1>1. /\ c.pc \in {"get", "use"} /\ c'.pc \in {"get", "use", "remove"} /\ c'.bufs = c.bufs
      /\ UNCHANGED <<start, end, size, pool, queue, p>>
  <2>1. CASE getBufferFromPool
    BY <1>0, <2>1 DEF getBufferFromPool, ConsumerTypes
  <2>2. CASE Use
    BY <1>0, <2>2 DEF Use, ConsumerTypes
  <2> QED
    BY <2>1, <2>2
<1>2. PICK k \in 0..2, x \in Placed(size), y \in Placed(size) :
        Line(k, x, y) /\ Lies(k, x, y) /\ Holds(k, x, y)
  BY DEF LineInv
<1>3. Spread(k, x, y, c'.bufs, queue', p'.made)
  BY <1>1, <1>2 DEF Line
<1>4. ~Done
  BY <1>1 DEF Done
<1> QED
  BY <1>1, <1>2, <1>3, <1>4, ConsumerMoves

LEMMA RemoveStartLine ==
    ASSUME IInv, LineInv, RemoveStart
    PROVE  LineInv'
<1>0. c \in ConsumerTypes(size) /\ c.bufs # << >>
  BY DEF IInv, RemoveStart
<1>1. /\ c.pc = "remove" /\ c'.pc = "clear" /\ c'.bufs = c.bufs
      /\ start' = Head(c.bufs).offset + Head(c.bufs).size
      /\ UNCHANGED <<end, size, pool, queue, p>>
  BY <1>0 DEF RemoveStart, ConsumerTypes
<1>2. PICK k \in 0..2, x \in Placed(size), y \in Placed(size) :
        Line(k, x, y) /\ Lies(k, x, y) /\ Holds(k, x, y)
  BY DEF LineInv
<1>3. Spread(k, x, y, c.bufs, queue, p.made)
  BY <1>2 DEF Line
<1>4. Head(c.bufs) = x /\ k > 0
  BY <1>0, <1>3, SpreadRemove
<1>5. start' = End(x)
  BY <1>1, <1>4 DEF End
<1>6. Done' /\ Spread(k, x, y, c'.bufs, queue', p'.made)
  BY <1>1, <1>3 DEF Done
<1> QED
  BY <1>1, <1>2, <1>4, <1>5, <1>6, ConsumerMoves

(* The second buffer becomes the first. *)
LEMMA RemoveEndLine ==
    ASSUME IInv, LineInv, RemoveEnd
    PROVE  LineInv'
<1>0. c \in ConsumerTypes(size) /\ c.bufs # << >> /\ p \in ProducerTypes(size)
  BY DEF IInv, RemoveEnd
<1>1. /\ c.pc = "clear" /\ c'.bufs = Tail(c.bufs)
      /\ c'.pc = (IF Tail(c.bufs) = << >> THEN "idle" ELSE "remove")
      /\ p'.pc = p.pc /\ p'.sizes = p.sizes /\ p'.made = p.made /\ p'.tmp = p.tmp
      /\ p'.new = p.new /\ UNCHANGED <<start, end, size, pool, queue>>
  BY <1>0 DEF RemoveEnd, ConsumerTypes, ProducerTypes
<1>2. PICK k \in 0..2, x \in Placed(size), y \in Placed(size) :
        Line(k, x, y) /\ Lies(k, x, y) /\ Holds(k, x, y)
  BY DEF LineInv
<1>3. /\ k \in {1, 2} /\ Spread(k - 1, y, y, c'.bufs, queue', p'.made)
      /\ c'.bufs = << >> => c.bufs = <<x>>
  BY <1>0, <1>1, <1>2, SpreadRemove DEF Line
<1>4. /\ Todo' = Todo /\ Todo \in Nat /\ k + Todo <= 2
      /\ p.pc \in {"copy", "check"} => Todo >= 1
  BY <1>1, <1>2, TodoParts DEF Todo, Making, Line
<1>5. k = 2 => p.pc \notin {"copy", "check"}
  BY <1>4
<1>6. Line(k - 1, y, y)'
  BY <1>1, <1>2, <1>3, <1>4, <1>5 DEF Line
<1>7. Lies(k - 1, y, y)'
  <2>1. c'.pc # "clear" /\ start = End(x)
    BY <1>1, <1>2, <1>3 DEF Lies
  <2>2. CASE k = 1
    BY <1>1, <1>2, <2>1, <2>2 DEF Lies, After, Small
  <2>3. CASE k = 2
    BY <1>1, <1>2, <1>5, <2>1, <2>3 DEF Lies, After, Small
  <2> QED
    BY <1>3, <2>2, <2>3
<1>8. Holds(k - 1, y, y)'
  <2> SUFFICES ASSUME k = 2, ~Done', Small(y)' PROVE Intact(y)'
    BY <1>3 DEF Holds
  <2>1. c'.bufs = << >>
    BY <1>1 DEF Done
  <2>2. Intact(y)
    BY <1>1, <1>2, <1>3, <2>1 DEF Holds, Small
  <2> QED
    BY <1>1, <2>2 DEF Intact
<1>9. /\ p'.sizes \in Seq(Sizes) /\ (c'.pc = "idle" => c'.bufs = << >>) /\ k - 1 \in 0..2
      /\ y \in Placed(size')
  BY <1>1, <1>3 DEF LineInv
<1> QED
  BY <1>1, <1>2, <1>6, <1>7, <1>8, <1>9, LineIntro

LEMMA InitLine == Init => LineInv
<1> SUFFICES ASSUME Init PROVE LineInv
  OBVIOUS
<1>1. NoBuffer \in Placed(size)
  BY Constants DEF Init, NoBuffer, Placed, Buffers
<1>2. p.pc = "idle" /\ p.sizes = << >> /\ c.pc = "idle" /\ c.bufs = << >> /\ start = end
  BY DEF Init
<1>3. Line(0, NoBuffer, NoBuffer)
  BY <1>2 DEF Init, Line, Spread, Todo, Making
<1>4. Lies(0, NoBuffer, NoBuffer) /\ Holds(0, NoBuffer, NoBuffer)
  BY <1>2 DEF Lies, Holds
<1>5. << >> \in Seq(Sizes)
  OBVIOUS
<1> QED
  BY <1>1, <1>2, <1>3, <1>4, <1>5 DEF LineInv

LEMMA NextLine ==
    ASSUME TwoBuffers, IInv, RoomInv, LineInv, HeldInv, [Next]_vars
    PROVE  LineInv'
<1>1. CASE UNCHANGED vars
  BY <1>1 DEF vars, LineInv, Line, Lies, After, Small, Holds, Intact, Done, Todo
<1>2. CASE Next
  BY <1>2, BeginLine, ReadStartLine, CheckLine, CopyLine, SetFullLine, PushLine, WaitWrapLine,
     WaitSpaceLine, DequeueLine, UseLine, RemoveStartLine, RemoveEndLine
  DEF Next, CreatePoolBuffer, PerformCommand
<1> QED
  BY <1>1, <1>2

LEMMA LineFollows == IInv /\ LineInv => DataIntact
<1> SUFFICES ASSUME IInv, LineInv, NEW b \in Unused, Small(b)
             PROVE  Intact(b)
  BY DEF DataIntact, Intact, Small
<1>1. PICK k \in 0..2, x \in Placed(size), y \in Placed(size) :
        Line(k, x, y) /\ Lies(k, x, y) /\ Holds(k, x, y)
  BY DEF LineInv
<1>2. Spread(k, x, y, c.bufs, queue, p.made) /\ Queued = All(queue)
  BY <1>1 DEF Line, Queued, All
<1>3. CASE ~Done
  <2>1. Unused \subseteq Range(p.made) \cup Queued \cup Range(c.bufs)
    BY DEF Unused
  <2>2. (k > 0 /\ b = x) \/ (k = 2 /\ b = y)
    BY <1>2, <2>1, SpreadSets
  <2> QED
    BY <1>1, <1>3, <2>2 DEF Holds
<1>4. CASE Done
  <2>1. Unused = Range(p.made) \cup Queued /\ c.bufs # << >>
    BY <1>4 DEF Unused, Done, IInv
  <2>2. k = 2 /\ c.bufs = <<x>> /\ b = y
    BY <1>2, <2>1, SpreadSets
  <2> QED
    BY <1>1, <2>2 DEF Holds
<1> QED
  BY <1>3, <1>4

LEMMA WaitSpaceHeld ==
    ASSUME IInv, RoomInv, LineInv, HeldInv, WaitSpace
    PROVE  HeldInv'
<1>0. p \in ProducerTypes(size) /\ c \in ConsumerTypes(size)
  BY DEF IInv
<1>1. p.pc = "space" /\ p'.sizes = p.sizes /\ Looks("space")
  BY <1>0 DEF WaitSpace, Looks, Retry, Resize, Sleep, ProducerTypes
<1>2. CASE UNCHANGED <<size, c>>
  BY <1>1, <1>2 DEF HeldInv
<1>3. CASE RemainingGrown = realBufferSize /\ size < realBufferSize /\ Resize
  <2>3. realBufferSize = MaxBufferPoolSize /\ \E x, y \in Placed(size) : Line(0, x, y)
    BY <1>1, <1>3, EmptyWhenResized
  <2>4. c.bufs = << >>
    BY <2>3 DEF Line, Spread
  <2>5. ~(c.got > 0)
    BY <2>4 DEF IInv, HeldInv
  <2>6. c'.pc = c.pc /\ c'.got = c.got /\ c'.stale = FALSE /\ size' = MaxBufferPoolSize
    <3>1. c' = [c EXCEPT !.stale = c.got > 0] /\ size' = realBufferSize
      BY <1>3 DEF Resize
    <3>2. (c.got > 0) = FALSE
      BY <2>5
    <3>3. c' = [c EXCEPT !.stale = FALSE]
      BY <3>1, <3>2, Zenon
    <3> QED
      BY <1>0, <2>3, <3>1, <3>3 DEF ConsumerTypes
  <2> QED
    BY <1>1, <2>6 DEF HeldInv
<1> QED
  BY <1>2, <1>3 DEF WaitSpace, Sleep

LEMMA NextHeld ==
    ASSUME OneGrowth, IInv, RoomInv, LineInv, HeldInv, [Next]_vars
    PROVE  HeldInv'
<1>0. p \in ProducerTypes(size) /\ c \in ConsumerTypes(size)
  BY DEF IInv
<1>1. ASSUME NEW sizes \in Commands, Begin(sizes)
      PROVE  HeldInv'
  <2>1. p'.sizes = sizes /\ UNCHANGED <<size, c>>
    BY <1>0, <1>1 DEF Begin, ProducerTypes
  <2> QED
    BY <2>1 DEF HeldInv, OneGrowth
<1>2. CASE ReadStart \/ Check \/ Copy \/ Push \/ WaitWrap
  <2>1. p'.sizes = p.sizes /\ UNCHANGED <<size, c>>
    BY <1>0, <1>2
    DEF ReadStart, Check, Place, Copy, Push, WaitWrap, Retry, Sleep, ProducerTypes
  <2> QED
    BY <2>1 DEF HeldInv
<1>3. CASE SetFull
  <2>1. p'.sizes = Tail(p.sizes) /\ p.sizes # << >> /\ UNCHANGED <<size, c>>
    BY <1>0, <1>3 DEF SetFull, ProducerTypes, IInv, Making
  <2> QED
    BY <2>1 DEF HeldInv
<1>4. CASE WaitSpace
  BY <1>4, WaitSpaceHeld
<1>5. CASE Dequeue
  <2>1. c.pc = "idle" /\ c'.got = c.got /\ c'.pc = "get" /\ c'.stale = c.stale
    BY <1>0, <1>5 DEF Dequeue, ConsumerTypes
  <2>2. UNCHANGED <<size, p>>
    BY <1>5 DEF Dequeue
  <2> QED
    BY <2>1, <2>2 DEF HeldInv
<1>6. CASE getBufferFromPool
  <2>1. c'.pc \in {"get", "use"} /\ c'.stale = c.stale
    BY <1>0, <1>6 DEF getBufferFromPool, ConsumerTypes
  <2>2. UNCHANGED <<size, p>>
    BY <1>6 DEF getBufferFromPool
  <2> QED
    BY <2>1, <2>2 DEF HeldInv
<1>7. CASE Use
  <2>1. c'.got = 0 /\ c'.stale = FALSE /\ UNCHANGED <<size, p>>
    BY <1>0, <1>7 DEF Use, ConsumerTypes
  <2> QED
    BY <2>1 DEF HeldInv
<1>8. CASE RemoveStart \/ RemoveEnd
  <2>1. /\ c.pc \in {"remove", "clear"} /\ c'.got = c.got /\ c'.stale = c.stale
        /\ p'.sizes = p.sizes /\ UNCHANGED size
    BY <1>0, <1>8 DEF RemoveStart, RemoveEnd, ConsumerTypes, ProducerTypes
  <2> QED
    BY <2>1 DEF HeldInv
<1>9. CASE UNCHANGED vars
  BY <1>9 DEF vars, HeldInv
<1> QED
  BY <1>1, <1>2, <1>3, <1>4, <1>5, <1>6, <1>7, <1>8, <1>9
  DEF Next, CreatePoolBuffer, PerformCommand

LEMMA InitHeld == Init => RoomInv /\ HeldInv
<1> SUFFICES ASSUME Init PROVE RoomInv /\ HeldInv
  OBVIOUS
<1>1. /\ c.pc = "idle" /\ c.got = 0 /\ c.stale = FALSE /\ mutex = FALSE
      /\ p.pc = "idle" /\ p.sizes = << >> /\ size = StartBufferPoolSize
  BY DEF Init
<1> QED
  BY <1>1 DEF RoomInv, HeldInv

(* createPoolBuffer reads the start offset and m_full without the mutex.   *)
(* With at most two buffers in the pool, each no larger than half of the   *)
(* first vector or larger than all of it, and one size to grow to, it      *)
(* never overwrites the data of a buffer of at most half of the vector     *)
(* that the OpenGL thread has not used: for all sizes of the vector and of *)
(* the buffers, commands of one or of two buffers, every interleaving, and *)
(* before and after the vector is resized.  It says nothing of the larger  *)
(* buffer that the vector was resized for, which may be overwritten while  *)
(* it is queued.                                                           *)
THEOREM TwoBuffersIntact ==
    ASSUME TwoBuffers, OneGrowth
    PROVE  Spec => []DataIntact
  BY InitInside, NextInside, NextRoom, InitLine, NextLine, InitHeld, NextHeld, LineFollows,
     PTL DEF Spec

(* With at most two buffers in the pool and one size to grow to, the       *)
(* vector is never moved while the OpenGL thread holds a pointer that      *)
(* getBufferFromPool returned.                                             *)
THEOREM PointersStayValid ==
    ASSUME TwoBuffers, OneGrowth
    PROVE  Spec => []NoDangling
<1>1. HeldInv => NoDangling
  BY DEF HeldInv, NoDangling
<1> QED
  BY <1>1, InitInside, NextInside, NextRoom, InitLine, NextLine, InitHeld, NextHeld, PTL DEF Spec
=============================================================================
