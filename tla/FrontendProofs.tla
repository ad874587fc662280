--------------------------- MODULE FrontendProofs ----------------------------
(***************************************************************************)
(* Theorems about Frontend, for every depth of the queue, every set of     *)
(* calls, buffers and jobs, and every bound.                               *)
(*                                                                         *)
(* The inductive invariant has four parts, each of which relies on those   *)
(* before it.  Control relates where the two threads and the frontend are. *)
(* Queues says which objects are in use, by which command, and when a      *)
(* synced command has been executed.  Counting (without the race           *)
(* "counter") relates the counter of queued frames to the queue.  JobDone  *)
(* (without the races of savestate jobs) follows a job.                    *)
(***************************************************************************)
EXTENDS Frontend, FiniteSetTheorems, FunctionTheorems, WellFoundedInduction, TLAPS

EmuAt == {"new", "game", "wake", "wait", "limit", "block", "asleep", "load", "store",
          "save", "restore", "worked", "stored", "forget", "complete", "result", "clear",
          "unname", "quitted", "ended"}
GlAt == {"start", "top", "drain", "dequeue", "callback", "store", "notify", "yield",
         "exit", "over"}
FrontAt == {"unloaded", "idle", "run", "fname", "loop", "return", "unload"}

-----------------------------------------------------------------------------
(* Where the threads are. *)

CallRecs == [id : Nat, skip : BOOLEAN]
Refs == (Types \cup {"wake"}) \X Nat

EmuType == emu \in [at : EmuAt, command : Refs, count : Int, ret : BOOLEAN]
GlType == gl \in [at : GlAt, command : Refs, ending : BOOLEAN, count : Int]
FrontType == front \in [at : FrontAt, buffer : Buffers \cup {NoBuffer}]
StateType == state \in [job : Jobs \cup {"nothing"}, fname : Buffers \cup {NoBuffer},
                        complete : BOOLEAN, result : BOOLEAN, lock : BOOLEAN]
FramesType == skip \in BOOLEAN /\ presented \in BOOLEAN /\ swapped \in BOOLEAN

Types1 == EmuType /\ GlType /\ FrontType /\ StateType /\ FramesType /\ swaps \in Int

(* The game has ended, or is about to. *)
Stopped == emu.at \in {"quitted", "ended"} \/ (emu.at = "wait" /\ emu.command[1] = "quit")

Control ==
    /\ active \in {"front", "loop"} /\ stop \in BOOLEAN /\ safe \in BOOLEAN
    /\ emu.at = "new" => front.at = "idle" /\ active = "front" /\ gl.at = "start"
    /\ gl.at = "start" => emu.at = "new" \/ (active = "loop" /\ front.at = "run")
    /\ front.at = "unloaded" => emu.at = "ended" /\ gl.at = "over" /\ active = "front"
    /\ front.at \notin {"unloaded", "unload"} => ~Stopped
    /\ stop <=> front.at = "unload"
    /\ emu.at = "wake" => emu.command[1] \in Priority
    /\ active = "loop" => front.at \in {"run", "loop", "unload"}
    /\ safe => gl.at \in {"over", "start"}
    /\ front.at \in {"idle", "run", "return"} => state.complete
    /\ active = "front" /\ front.at = "run" => gl.at = "callback"

(* No job is left when a game is unloaded.  When a job has been cleared,   *)
(* another one may have been stored before its buffer is forgotten.        *)
Doing == emu.at \in {"save", "restore", "worked", "stored", "forget", "complete", "result", "clear"}
JobOwned == state.job # "nothing" => \/ front.at \in {"fname", "loop"} /\ ~state.complete
                                     \/ Doing

-----------------------------------------------------------------------------
(* The objects of the pools. *)

Objects == [inUse : BOOLEAN, executed : BOOLEAN, call : CallRecs]

PoolType ==
    /\ pool \in [Types -> [objects : Seq(Objects), index : Nat]]
    /\ \A t \in Types : pool[t].index <= Len(pool[t].objects)

Typed ==
    /\ Types1
    /\ queue \in Seq(Refs) /\ priority \in Seq(Refs) /\ pending \in Seq(CallRecs)
    /\ Len(pending) = Len(queue)
    /\ PoolType

(* The shutdown command is the last one, and the last that is executed. *)
Leaving == gl.ending \/ gl.at \in {"exit", "over"}
LastCommand ==
    /\ gl.ending => gl.at = "yield"
    /\ \A i \in DOMAIN queue : queue[i][1] = "shutdown" => i = Len(queue) /\ emu.at = "ended"
    /\ Leaving => emu.at = "ended" /\ queue = << >>
    /\ emu.at = "ended" /\ ~Leaving => queue # << >> /\ queue[Len(queue)][1] = "shutdown"

Base == Typed /\ Control /\ LastCommand /\ JobOwned

(* The references to all objects, and those to objects in use. *)
Slots == UNION {{<<t, j>> : j \in DOMAIN pool[t].objects} : t \in Types}
Held(r) == r \in Slots /\ Object(r).inUse

Swapping == gl.at \in {"callback", "store", "notify"}
Waiting == emu.at \in {"wake", "wait"}

(* Each queued command has its object for itself. *)
Owned ==
    /\ \A i \in DOMAIN queue : queue[i] = Wake \/ (Held(queue[i]) /\ queue[i][1] \notin Priority)
    /\ \A i, j \in DOMAIN queue : queue[i] = queue[j] /\ queue[i] # Wake => i = j
    /\ Swapping => /\ Held(gl.command) /\ gl.command[1] = "swap"
                   /\ \A i \in DOMAIN queue : queue[i] # gl.command
    /\ priority # << >> => /\ priority = <<emu.command>> /\ Waiting
                           /\ Held(emu.command) /\ emu.command[1] \in Priority

(* A synced command that is queued is the one that the thread waits for,   *)
(* and no object says that it was executed but that one's.                 *)
Awaited ==
    /\ Waiting => emu.command \in Slots /\ emu.command[1] \in Synced
    /\ \A r \in Slots : Object(r).executed => Waiting /\ r = emu.command
    /\ \A i \in DOMAIN queue : queue[i][1] \in Synced =>
           emu.at = "wait" /\ queue[i] = emu.command /\ ~Object(emu.command).executed
    /\ priority # << >> => ~Object(emu.command).executed

(* ShownAsProduced, whatever the emulation thread does meanwhile. *)
Shown == active = "front" /\ front.at = "run" => presented = Object(gl.command).call.skip

Queues == Owned /\ Awaited /\ OwnArguments /\ Shown

-----------------------------------------------------------------------------
(* The counter of queued frames, when its updates are atomic. *)

Counting ==
    /\ swaps \in Nat
    /\ swaps = SwapsQueued(queue) + ShownNow
    /\ emu.at = "store" => emu.count = swaps /\ gl.at # "store"
    /\ gl.at = "store" => gl.count = swaps /\ emu.at # "store"
    /\ emu.at \in {"load", "store"} => swaps <= MAX_SWAP
    /\ swaps <= MAX_SWAP + 1

(* A job, when the accesses to its variables do not race.  Between its     *)
(* work and its end the emulation thread has an outcome to report, and the *)
(* buffer that the job was done with is the one that this outcome means.   *)
Said(outcome) == served = IF outcome THEN front.buffer ELSE NoBuffer

JobDone ==
    /\ Doing => front.at # "fname"
    /\ emu.at = "unname" => state.complete \/ (front.at = "fname" /\ state.lock)
    /\ emu.at \in {"save", "restore"} =>
           /\ front.at = "loop" /\ ~state.complete /\ served = NoBuffer
           /\ state.fname = front.buffer /\ front.buffer # NoBuffer
    /\ emu.at = "worked" => front.at = "loop" /\ ~state.complete
    /\ emu.at = "stored" => front.at = "loop" /\ state.complete
    /\ emu.at \in {"forget", "complete"} /\ ~state.complete => front.at = "loop"
    /\ emu.at \in {"result", "clear"} => state.complete
    /\ emu.at \in {"worked", "stored", "forget", "complete", "result"}
       /\ front.at \in {"loop", "return"} => Said(emu.ret)
    /\ front.at \in {"fname", "loop"} /\ ~state.complete => Doing \/ state.job # "nothing"
    /\ front.at = "fname" => ~state.complete /\ front.buffer # NoBuffer
    /\ front.at = "loop" /\ ~state.complete /\ ~Doing =>
           state.fname = front.buffer /\ front.buffer # NoBuffer
    /\ front.at = "loop" /\ ~state.complete /\ ~Doing => served = NoBuffer
    /\ front.at \notin {"loop", "return"} => served = NoBuffer
    /\ front.at = "loop" /\ state.complete /\ emu.at \notin {"stored", "result"} => Said(state.result)
    /\ front.at = "return" => Said(state.result)
-----------------------------------------------------------------------------
(* Numbers: least elements, the choice of objects and of names for calls.  *)

LEMMA Constants ==
    /\ MAX_SWAP \in Nat /\ MAX_SWAP > 0
    /\ Calls \subseteq {"draw", "get", "gen"} /\ NoBuffer \notin Buffers
    /\ Skips \subseteq BOOLEAN
  BY FrontendAssumption DEF FrontendAssumption

LEMMA LeastExists ==
    ASSUME NEW S, S \subseteq Nat, S # {}
    PROVE  \E x \in S : \A y \in S : x <= y
<1>1. PICK x \in S : \A y \in S : ~(<<y, x>> \in OpToRel(<, Nat))
  BY NatLessThanWellFounded, WFMin
<1>2. ASSUME NEW y \in S PROVE x <= y
  <2>1. <<y, x>> \in Nat \X Nat
    OBVIOUS
  <2>2. ~(y < x)
    BY <1>1, <2>1 DEF OpToRel
  <2> QED
    BY <2>2
<1> QED
  BY <1>2

(* An object that is taken from the pool was free. *)
LEMMA AvailableIsFree ==
    ASSUME PoolType, NEW t \in Types, Free(t) # {}
    PROVE  getAvailableObject(t) \in Free(t)
<1> DEFINE n == Len(pool[t].objects)
           S == {Distance(t, j) : j \in Free(t)}
<1>1. n \in Nat /\ DOMAIN pool[t].objects = 1..n /\ pool[t].index \in 0..n
  BY DEF PoolType
<1>2. Free(t) \subseteq 1..n
  BY <1>1 DEF Free
<1>3. n \in Nat \ {0}
  BY <1>1, <1>2
<1>4. ASSUME NEW j \in Free(t) PROVE Distance(t, j) \in Nat
  <2>1. j - 1 + n - pool[t].index \in Int
    BY <1>1, <1>2
  <2> HIDE DEF n
  <2>2. \A i \in Int : i % n \in Nat
    BY <1>3
  <2> QED
    BY <2>1, <2>2 DEF Distance, n
<1>5. S \subseteq Nat /\ S # {}
  BY <1>4
<1>6. PICK d \in S : \A e \in S : d <= e
  <2> HIDE DEF S
  <2> QED
    BY <1>5, LeastExists
<1>7. \E j \in Free(t) : \A k \in Free(t) : Distance(t, j) <= Distance(t, k)
  BY <1>6
<1> QED
  BY <1>7 DEF getAvailableObject

LEMMA TwoMeet ==
    ASSUME NEW A, NEW B, NEW f \in [A -> B], IsFiniteSet(A), IsFiniteSet(B),
           Cardinality(B) < Cardinality(A)
    PROVE  \E x, y \in A : x # y /\ f[x] = f[y]
  BY FS_PigeonHole

(* Some number up to n + 1 is not among n numbers. *)
LEMMA NewIdType ==
    ASSUME pending \in Seq(CallRecs)
    PROVE  NewId \in Nat
<1> DEFINE n == Len(pending)
           S == {i \in 1..(n + 1) : \A j \in DOMAIN pending : pending[j].id # i}
<1>1. n \in Nat /\ DOMAIN pending = 1..n
  OBVIOUS
<1>2. S # {}
  <2> SUFFICES ASSUME S = {} PROVE FALSE
    OBVIOUS
  <2>1. \A i \in 1..(n + 1) : \E j \in 1..n : pending[j].id = i
    BY <1>1
  <2> DEFINE f == [i \in 1..(n + 1) |-> CHOOSE j \in 1..n : pending[j].id = i]
  <2>2. ASSUME NEW i \in 1..(n + 1) PROVE f[i] \in 1..n /\ pending[f[i]].id = i
    BY <2>1
  <2>3. f \in [1..(n + 1) -> 1..n]
    BY <2>2
  <2> DEFINE A == 1..(n + 1)
             B == 1..n
  <2> HIDE DEF n
  <2>3a. /\ IsFiniteSet(1..(n + 1)) /\ Cardinality(1..(n + 1)) = n + 1
        /\ IsFiniteSet(1..n) /\ Cardinality(1..n) = n
    BY <1>1, FS_Interval
  <2>4. IsFiniteSet(A) /\ IsFiniteSet(B) /\ Cardinality(B) < Cardinality(A)
    BY <2>3a, <1>1
  <2> HIDE DEF f, A, B
  <2>5. f \in [A -> B]
    BY <2>3 DEF A, B
  <2>6. \E x, y \in A : x # y /\ f[x] = f[y]
    BY <2>4, <2>5, TwoMeet
  <2> QED
    BY <2>2, <2>6 DEF A
<1>3. S \subseteq Nat
  BY <1>1
<1>4. \E x \in S : \A y \in S : x <= y
  <2> HIDE DEF S
  <2> QED
    BY <1>2, <1>3, LeastExists
<1>5. Min(S) \in S
  <2> HIDE DEF S
  <2> QED
    BY <1>4 DEF Min
<1> QED
  BY <1>3, <1>5 DEF NewId

-----------------------------------------------------------------------------
(* The number of swap commands in a queue. *)

SwapsAt(q) == {i \in DOMAIN q : q[i][1] = "swap"}

LEMMA SwapsFinite ==
    ASSUME NEW R, NEW q \in Seq(R)
    PROVE  /\ IsFiniteSet(SwapsAt(q)) /\ SwapsQueued(q) = Cardinality(SwapsAt(q))
           /\ SwapsQueued(q) \in Nat
<1>1. Len(q) \in Nat /\ DOMAIN q = 1..Len(q)
  OBVIOUS
<1>2. IsFiniteSet(1..Len(q))
  BY <1>1, FS_Interval
<1>3. IsFiniteSet(SwapsAt(q))
  BY <1>1, <1>2, FS_Subset DEF SwapsAt
<1>4. SwapsQueued(q) = Cardinality(SwapsAt(q))
  BY DEF SwapsQueued, SwapsAt
<1> QED
  BY <1>3, <1>4, FS_CardinalityType

LEMMA SwapsAppend ==
    ASSUME NEW R, NEW q \in Seq(R), NEW r \in R
    PROVE  SwapsQueued(Append(q, r)) = SwapsQueued(q) + (IF r[1] = "swap" THEN 1 ELSE 0)
<1> DEFINE a == Append(q, r)
           n == Len(q) + 1
<1>1. /\ a \in Seq(R) /\ DOMAIN a = 1..n /\ DOMAIN q = 1..Len(q) /\ Len(q) \in Nat
      /\ a[n] = r /\ \A i \in 1..Len(q) : a[i] = q[i]
  OBVIOUS
<1>2. n \notin SwapsAt(q)
  BY <1>1 DEF SwapsAt
<1>3. SwapsAt(a) = IF r[1] = "swap" THEN SwapsAt(q) \cup {n} ELSE SwapsAt(q)
  <2> HIDE DEF a
  <2>1. \A i : i \in DOMAIN a <=> i \in DOMAIN q \/ i = n
    BY <1>1
  <2> HIDE DEF n
  <2>2. \A i : i \in SwapsAt(a) <=> i \in SwapsAt(q) \/ (i = n /\ r[1] = "swap")
    BY <1>1, <2>1 DEF SwapsAt
  <2> QED
    BY <2>2
<1> HIDE DEF n
<1>4. Cardinality(SwapsAt(q) \cup {n}) = Cardinality(SwapsAt(q)) + 1
  BY <1>2, SwapsFinite, FS_AddElement
<1>5. SwapsQueued(q) = Cardinality(SwapsAt(q)) /\ SwapsQueued(q) \in Nat
  BY SwapsFinite
<1>6. SwapsQueued(a) = Cardinality(SwapsAt(a))
  <2> HIDE DEF a
  <2> QED
    BY <1>1, SwapsFinite
<1> QED
  BY <1>3, <1>4, <1>5, <1>6

LEMMA SwapsTail ==
    ASSUME NEW R, NEW q \in Seq(R), q # << >>
    PROVE  SwapsQueued(q) = SwapsQueued(Tail(q)) + (IF Head(q)[1] = "swap" THEN 1 ELSE 0)
<1> DEFINE u == Tail(q)
           n == Len(q)
           S == SwapsAt(q) \ {1}
           T == SwapsAt(u)
<1>1. /\ u \in Seq(R) /\ DOMAIN u = 1..(n - 1) /\ DOMAIN q = 1..n /\ n \in Nat /\ n > 0
      /\ \A i \in 1..(n - 1) : u[i] = q[i + 1]
      /\ Head(q) = q[1]
  OBVIOUS
<1> HIDE DEF u, n
<1>2. \A i : i \in T <=> i \in 1..(n - 1) /\ q[i + 1][1] = "swap"
  BY <1>1 DEF SwapsAt
<1>3. \A i : i \in S <=> i \in 2..n /\ q[i][1] = "swap"
  BY <1>1 DEF SwapsAt
<1>4. 1 \in SwapsAt(q) <=> Head(q)[1] = "swap"
  BY <1>1 DEF SwapsAt
<1>5. /\ IsFiniteSet(SwapsAt(q)) /\ SwapsQueued(q) = Cardinality(SwapsAt(q))
      /\ IsFiniteSet(T) /\ SwapsQueued(u) = Cardinality(T) /\ SwapsQueued(u) \in Nat
      /\ SwapsQueued(q) \in Nat
  BY <1>1, SwapsFinite
<1>6. Cardinality(S) = IF 1 \in SwapsAt(q) THEN Cardinality(SwapsAt(q)) - 1
                       ELSE Cardinality(SwapsAt(q))
  BY <1>5, FS_RemoveElement
<1>7. Cardinality(S) = Cardinality(T)
  <2> DEFINE f == [i \in T |-> i + 1]
  <2> HIDE DEF T, S
  <2>1. f \in [T -> S]
    BY <1>1, <1>2, <1>3
  <2>2. \A i, j \in T : f[i] = f[j] => i = j
    BY <1>1, <1>2
  <2>3. \A k \in S : k - 1 \in T /\ f[k - 1] = k
    BY <1>1, <1>2, <1>3
  <2> HIDE DEF f
  <2>4. f \in Bijection(T, S)
    BY <2>1, <2>2, <2>3, Fun_IsBij
  <2> QED
    BY <1>5, <2>4, FS_Bijection DEF ExistsBijection
<1> QED
  BY <1>4, <1>5, <1>6, <1>7 DEF u

-----------------------------------------------------------------------------
(* What the operations on the pools do to objects. *)

LEMMA SlotsAre ==
    /\ \A r : r \in Slots <=> \E t \in Types : \E j \in DOMAIN pool[t].objects : r = <<t, j>>
    /\ \A t \in Types : \A j : <<t, j>> \in Slots <=> j \in DOMAIN pool[t].objects
<1>1. \A r : r \in Slots <=> \E t \in Types : \E j \in DOMAIN pool[t].objects : r = <<t, j>>
  BY DEF Slots
<1>2. ASSUME NEW t \in Types, NEW j, <<t, j>> \in Slots
      PROVE  j \in DOMAIN pool[t].objects
  <2>1. PICK u \in Types : \E k \in DOMAIN pool[u].objects : <<t, j>> = <<u, k>>
    BY <1>1, <1>2
  <2> QED
    BY <2>1
<1> QED
  BY <1>1, <1>2

LEMMA SlotsAreNext ==
    \A r : (r \in Slots)' <=> \E t \in Types : \E j \in DOMAIN pool'[t].objects : r = <<t, j>>
  BY DEF Slots

(* An object is taken for a call: a free one or a new one. *)
Takes(r, c) ==
    /\ Slots' = Slots \cup {r}
    /\ \A q \in Slots : q # r => Object(q)' = Object(q)
    /\ ~Held(r)
    /\ Object(r)'.inUse /\ Object(r)'.call = c
    /\ Object(r)'.executed => r \in Slots /\ Object(r).executed

(* One object is changed, to o. *)
Changes(r, o) ==
    /\ Slots' = Slots
    /\ \A q \in Slots : q # r => Object(q)' = Object(q)
    /\ Object(r)' = o

LEMMA Replaced ==
    ASSUME PoolType, NEW t \in Types, NEW os \in Seq(Objects), NEW k \in Nat, k <= Len(os),
           pool' = [pool EXCEPT ![t] = [objects |-> os, index |-> k]]
    PROVE  /\ PoolType'
           /\ \A u \in Types : u # t => pool'[u] = pool[u]
           /\ pool'[t].objects = os
  BY DEF PoolType

LEMMA InUse ==
    ASSUME NEW x \in Objects, NEW c \in CallRecs
    PROVE  LET o == [x EXCEPT !.inUse = TRUE, !.call = c]
           IN  o \in Objects /\ o.inUse /\ o.call = c /\ o.executed = x.executed
  BY DEF Objects

LEMMA PoolTakes ==
    ASSUME PoolType, NEW t \in Types, NEW c \in CallRecs, NEW g, g = getFromPool(t, c),
           pool' = [pool EXCEPT ![t] = [objects |-> g.objects, index |-> g.index]]
    PROVE  PoolType' /\ g.at \in Nat /\ Takes(<<t, g.at>>, c)
<1> DEFINE os == pool[t].objects
           n == Len(os)
           r == <<t, g.at>>
<1>1. os \in Seq(Objects) /\ n \in Nat /\ DOMAIN os = 1..n
  BY DEF PoolType
<1>2. /\ g.objects \in Seq(Objects) /\ g.index \in Nat /\ g.index <= Len(g.objects)
      /\ g.at \in Nat /\ g.at \in DOMAIN g.objects
      /\ DOMAIN g.objects = DOMAIN os \cup {g.at}
      /\ \A j \in DOMAIN os : j # g.at => g.objects[j] = os[j]
      /\ g.at \in DOMAIN os => ~os[g.at].inUse
      /\ g.objects[g.at].inUse /\ g.objects[g.at].call = c
      /\ g.objects[g.at].executed => g.at \in DOMAIN os /\ os[g.at].executed
  <2>1. CASE Free(t) = {}
    <3> DEFINE a == Append(os, NewObject(c))
    <3>1. NewObject(c) \in Objects
      BY DEF NewObject, Objects
    <3>2. /\ a \in Seq(Objects) /\ Len(a) = n + 1 /\ DOMAIN a = 1..(n + 1)
          /\ \A j \in 1..n : a[j] = os[j]
          /\ a[n + 1] = NewObject(c)
      BY <1>1, <3>1
    <3>3. g.objects = a /\ g.index = 0 /\ g.at = n + 1
      BY <2>1 DEF getFromPool
    <3> HIDE DEF a, n, os
    <3>4. NewObject(c).inUse /\ ~NewObject(c).executed /\ NewObject(c).call = c
      BY DEF NewObject
    <3>5. n + 1 \in Nat /\ 0 \in Nat /\ n + 1 \in 1..(n + 1) /\ 0 <= n + 1 /\ n + 1 \notin 1..n
          /\ 1..(n + 1) = 1..n \cup {n + 1}
      BY <1>1
    <3> QED
      BY <1>1, <3>2, <3>3, <3>4, <3>5
  <2>2. CASE Free(t) # {}
    <3> DEFINE j == getAvailableObject(t)
               a == [os EXCEPT ![j].inUse = TRUE, ![j].call = c]
    <3>1. j \in 1..n /\ ~os[j].inUse
      BY <1>1, <2>2, AvailableIsFree DEF Free, IsFree
    <3>2. g.objects = a /\ g.index = j % n /\ g.at = j
      BY <2>2 DEF getFromPool
    <3> HIDE DEF j
    <3>3. os[j] \in Objects
      BY <1>1, <3>1
    <3>4. /\ a \in Seq(Objects) /\ Len(a) = n /\ DOMAIN a = 1..n
          /\ \A i \in 1..n : i # j => a[i] = os[i]
          /\ a[j].inUse /\ a[j].call = c /\ a[j].executed = os[j].executed
      <4> DEFINE o == [os[j] EXCEPT !.inUse = TRUE, !.call = c]
      <4>1. o \in Objects /\ o.inUse /\ o.call = c /\ o.executed = os[j].executed
        BY <3>3, InUse
      <4>2. a = [os EXCEPT ![j] = o]
        BY Zenon
      <4> HIDE DEF a, o, os
      <4> QED
        BY <1>1, <3>1, <4>1, <4>2
    <3> HIDE DEF a, os
    <3>5. j % n \in Nat /\ j % n <= n
      BY <1>1, <3>1
    <3> QED
      BY <1>1, <3>1, <3>2, <3>4, <3>5
  <2> QED
    BY <2>1, <2>2
<1>3. /\ PoolType'
      /\ \A u \in Types : u # t => pool'[u] = pool[u]
      /\ pool'[t].objects = g.objects
  <2> HIDE DEF os
  <2>1. g.objects \in Seq(Objects) /\ g.index \in Nat /\ g.index <= Len(g.objects)
    BY <1>2
  <2> QED
    BY <2>1, Replaced
<1>4. \A q : (q \in Slots)' <=> q \in Slots \/ q = r
  <2>1. ASSUME NEW q PROVE (q \in Slots)' => q \in Slots \/ q = r
    <3> SUFFICES ASSUME (q \in Slots)' PROVE q \in Slots \/ q = r
      OBVIOUS
    <3>1. PICK u \in Types : \E j \in DOMAIN pool'[u].objects : q = <<u, j>>
      BY SlotsAreNext
    <3>2. PICK j \in DOMAIN pool'[u].objects : q = <<u, j>>
      BY <3>1
    <3>3. CASE u = t
      BY <1>2, <1>3, <3>2, <3>3, SlotsAre
    <3>4. CASE u # t
      BY <1>3, <3>2, <3>4, SlotsAre
    <3> QED
      BY <3>3, <3>4
  <2>2. (r \in Slots)'
    <3>1. g.at \in DOMAIN pool'[t].objects
      BY <1>2, <1>3
    <3> QED
      BY <3>1, SlotsAreNext
  <2>3. ASSUME NEW q \in Slots PROVE (q \in Slots)'
    <3>1. PICK u \in Types : \E j \in DOMAIN pool[u].objects : q = <<u, j>>
      BY SlotsAre
    <3>2. DOMAIN pool[u].objects \subseteq DOMAIN pool'[u].objects
      BY <1>2, <1>3
    <3> QED
      BY <3>1, <3>2, SlotsAreNext
  <2> QED
    BY <2>1, <2>2, <2>3
<1>5. Slots' = Slots \cup {r}
  BY <1>4
<1>6. ASSUME NEW q \in Slots, q # r PROVE Object(q)' = Object(q)
  <2>1. PICK u \in Types : \E j \in DOMAIN pool[u].objects : q = <<u, j>>
    BY SlotsAre
  <2>2. PICK j \in DOMAIN pool[u].objects : q = <<u, j>>
    BY <2>1
  <2>3. pool'[u].objects[j] = pool[u].objects[j]
    BY <1>2, <1>3, <1>6, <2>2
  <2> QED
    BY <2>2, <2>3 DEF Object
<1>7. Object(r)' = g.objects[g.at] /\ Object(r) = os[g.at]
  BY <1>3 DEF Object
<1>8. r \in Slots <=> g.at \in DOMAIN os
  BY SlotsAre
<1> QED
  BY <1>2, <1>3, <1>5, <1>6, <1>7, <1>8 DEF Takes, Held

LEMMA PoolChanges ==
    ASSUME PoolType, NEW t \in Types, NEW j \in DOMAIN pool[t].objects, NEW o \in Objects,
           pool' = [pool EXCEPT ![t].objects = [pool[t].objects EXCEPT ![j] = o]]
    PROVE  PoolType' /\ Changes(<<t, j>>, o)
<1> DEFINE os == [pool[t].objects EXCEPT ![j] = o]
<1>1. /\ pool[t].objects \in Seq(Objects) /\ pool[t].index \in Nat
      /\ pool[t].index <= Len(pool[t].objects)
  BY DEF PoolType
<1>2. /\ os \in Seq(Objects) /\ Len(os) = Len(pool[t].objects)
      /\ DOMAIN os = DOMAIN pool[t].objects /\ os[j] = o
      /\ \A i \in DOMAIN os : i # j => os[i] = pool[t].objects[i]
  BY <1>1
<1> HIDE DEF os
<1>3. pool' = [pool EXCEPT ![t] = [objects |-> os, index |-> pool[t].index]]
  <2>1. pool[t] \in [objects : Seq(Objects), index : Nat]
    BY DEF PoolType
  <2>2. [pool[t] EXCEPT !.objects = os] = [objects |-> os, index |-> pool[t].index]
    BY <2>1
  <2>3. pool' = [pool EXCEPT ![t] = [pool[t] EXCEPT !.objects = os]]
    BY Zenon DEF os
  <2> QED
    BY <2>2, <2>3
<1>4. /\ PoolType'
      /\ \A u \in Types : u # t => pool'[u] = pool[u]
      /\ pool'[t].objects = os
  BY <1>1, <1>2, <1>3, Replaced
<1>5. \A u \in Types : DOMAIN pool'[u].objects = DOMAIN pool[u].objects
  BY <1>2, <1>4
<1>6. Slots' = Slots
  BY <1>5 DEF Slots
<1>7. ASSUME NEW q \in Slots, q # <<t, j>> PROVE Object(q)' = Object(q)
  <2>1. PICK u \in Types : \E i \in DOMAIN pool[u].objects : q = <<u, i>>
    BY SlotsAre
  <2>2. PICK i \in DOMAIN pool[u].objects : q = <<u, i>>
    BY <2>1
  <2>3. pool'[u].objects[i] = pool[u].objects[i]
    BY <1>2, <1>4, <1>7, <2>2
  <2> QED
    BY <2>2, <2>3 DEF Object
<1>8. Object(<<t, j>>)' = o
  BY <1>2, <1>4 DEF Object
<1> QED
  BY <1>4, <1>6, <1>7, <1>8 DEF Changes

(* What is left of Execute for the other proofs: it takes the object r for *)
(* the call c, and queues r.                                               *)
Issues(r, c, next) ==
    IF r[1] \in Priority
    THEN /\ priority' = Append(priority, r)
         /\ emu' = [emu EXCEPT !.at = "wake", !.command = r]
         /\ UNCHANGED <<queue, pending>>
    ELSE /\ queue' = Append(queue, r) /\ pending' = Append(pending, c)
         /\ emu' = IF r[1] \in Synced THEN [emu EXCEPT !.at = "wait", !.command = r]
                   ELSE Resting(next)
         /\ UNCHANGED priority

LEMMA ExecuteIssues ==
    ASSUME Typed, NEW t \in Types, NEW next, Execute(t, next)
    PROVE  \E r \in Types \X Nat, c \in CallRecs :
               /\ r[1] = t /\ c.skip = (t = "swap" /\ skip)
               /\ PoolType' /\ Takes(r, c) /\ Issues(r, c, next)
<1> DEFINE call == [id |-> NewId, skip |-> t = "swap" /\ skip]
<1>1. call \in CallRecs
  <2>1. NewId \in Nat
    BY NewIdType DEF Typed
  <2>2. (t = "swap" /\ skip) \in BOOLEAN
    OBVIOUS
  <2> QED
    BY <2>1, <2>2 DEF CallRecs
<1>2. PICK c \in CallRecs : c = call
  BY <1>1
<1>3. c.skip = (t = "swap" /\ skip)
  BY <1>2
<1>4. PICK g : g = getFromPool(t, c)
  OBVIOUS
<1>5. /\ pool' = [pool EXCEPT ![t] = [objects |-> g.objects, index |-> g.index]]
      /\ Issues(<<t, g.at>>, c, next)
  <2>1. <<t, g.at>>[1] = t
    OBVIOUS
  <2> QED
    BY <1>2, <1>4, <2>1 DEF Execute, Issues
<1>6. PoolType' /\ g.at \in Nat /\ Takes(<<t, g.at>>, c)
  BY <1>4, <1>5, PoolTakes DEF Typed
<1> QED
  BY <1>3, <1>5, <1>6

(* The command r is executed and its object is released. *)
Releases(r, executed) ==
    \E o \in Objects : Changes(r, o) /\ ~o.inUse /\ o.executed = executed

LEMMA SlotParts ==
    ASSUME NEW r \in Slots
    PROVE  r = <<r[1], r[2]>> /\ r[1] \in Types /\ r[2] \in DOMAIN pool[r[1]].objects
<1>1. PICK t \in Types : \E j \in DOMAIN pool[t].objects : r = <<t, j>>
  BY SlotsAre
<1> QED
  BY <1>1

LEMMA Released ==
    ASSUME NEW os \in Seq(Objects), NEW j \in DOMAIN os
    PROVE  /\ Release(os, j)[j] \in Objects /\ ~Release(os, j)[j].inUse
           /\ Release(os, j) = [os EXCEPT ![j] = Release(os, j)[j]]
           /\ Release(os, j)[j].executed = os[j].executed
<1> DEFINE o == [os[j] EXCEPT !.inUse = FALSE, !.call = NoCall]
<1>1. os[j] \in Objects
  OBVIOUS
<1>2. NoCall \in CallRecs
  BY DEF NoCall, CallRecs
<1>3. o \in Objects /\ ~o.inUse /\ o.executed = os[j].executed
  BY <1>1, <1>2 DEF Objects
<1>4. Release(os, j) = [os EXCEPT ![j] = o]
  BY Zenon DEF Release
<1> HIDE DEF o
<1>5. Release(os, j)[j] = o
  BY <1>4
<1> QED
  BY <1>3, <1>4, <1>5

LEMMA PerformReleases ==
    ASSUME PoolType, NEW r \in Slots, performCommand(r)
    PROVE  /\ PoolType' /\ Releases(r, r[1] \in Synced)
           /\ pending' = IF r[1] \in Priority THEN pending ELSE Tail(pending)
<1> DEFINE t == r[1]
           j == r[2]
           os == pool[t].objects
           x == Release(os, j)[j]
           o == [x EXCEPT !.executed = t \in Synced]
<1>1. r = <<t, j>> /\ t \in Types /\ j \in DOMAIN os
  BY SlotParts
<1>2. os \in Seq(Objects)
  BY <1>1 DEF PoolType
<1>3. x \in Objects /\ ~x.inUse /\ Release(os, j) = [os EXCEPT ![j] = x]
  BY <1>1, <1>2, Released
<1>4. pool' = [pool EXCEPT ![t].objects = [Release(os, j) EXCEPT ![j].executed = t \in Synced]]
  BY DEF performCommand
<1>5. o \in Objects /\ ~o.inUse /\ o.executed = (t \in Synced)
  <2>1. (t \in Synced) \in BOOLEAN
    OBVIOUS
  <2> HIDE DEF x, t
  <2> QED
    BY <1>3, <2>1 DEF Objects
<1>6. [Release(os, j) EXCEPT ![j].executed = t \in Synced] = [os EXCEPT ![j] = o]
  <2> HIDE DEF os, j, t
  <2>1. DOMAIN Release(os, j) = DOMAIN os
    BY <1>3
  <2>2. [Release(os, j) EXCEPT ![j].executed = t \in Synced] = [Release(os, j) EXCEPT ![j] = o]
    BY Zenon
  <2> HIDE DEF o
  <2>3. [Release(os, j) EXCEPT ![j] = o] = [os EXCEPT ![j] = o]
    BY <1>3, <2>1
  <2> QED
    BY <2>2, <2>3
<1>7. pool' = [pool EXCEPT ![t].objects = [os EXCEPT ![j] = o]]
  BY <1>4, <1>6
<1>8. PICK p \in Objects : p = o
  BY <1>5
<1>9. PoolType' /\ Changes(<<t, j>>, p)
  <2> HIDE DEF o
  <2> QED
    BY <1>1, <1>7, <1>8, PoolChanges
<1>10. Releases(r, t \in Synced)
  <2> HIDE DEF o
  <2> QED
    BY <1>1, <1>5, <1>8, <1>9 DEF Releases
<1> QED
  BY <1>9, <1>10 DEF performCommand

LEMMA ReduceReleases ==
    ASSUME PoolType, NEW r \in Slots, r[1] = "swap",
           pool' = [pool EXCEPT !["swap"].objects = Release(@, r[2])]
    PROVE  PoolType' /\ Releases(r, Object(r).executed)
<1> DEFINE j == r[2]
           os == pool["swap"].objects
           o == Release(os, j)[j]
<1>1. r = <<"swap", j>> /\ "swap" \in Types /\ j \in DOMAIN os
  BY SlotParts
<1>2. os \in Seq(Objects)
  BY <1>1 DEF PoolType
<1>3. o \in Objects /\ ~o.inUse /\ o.executed = os[j].executed /\ Release(os, j) = [os EXCEPT ![j] = o]
  BY <1>1, <1>2, Released
<1>4. pool' = [pool EXCEPT !["swap"].objects = [os EXCEPT ![j] = o]]
  BY <1>3
<1>5. Object(r).executed = os[j].executed
  BY <1>1 DEF Object
<1>6. PICK x \in Objects : x = o
  BY <1>3
<1>7. PoolType' /\ Changes(<<"swap", j>>, x)
  <2>1. pool' = [pool EXCEPT !["swap"].objects = [pool["swap"].objects EXCEPT ![j] = x]]
    BY <1>4, <1>6, Zenon
  <2> QED
    BY <1>1, <2>1, PoolChanges
<1> HIDE DEF o
<1> QED
  BY <1>1, <1>3, <1>5, <1>6, <1>7 DEF Releases

LEMMA WaitAnswers ==
    ASSUME PoolType, NEW r \in Slots,
           pool' = [pool EXCEPT ![r[1]].objects[r[2]].executed = FALSE]
    PROVE  /\ PoolType'
           /\ \E o \in Objects : /\ Changes(r, o) /\ ~o.executed
                                 /\ o.inUse = Object(r).inUse /\ o.call = Object(r).call
<1> DEFINE t == r[1]
           j == r[2]
           os == pool[t].objects
           o == [os[j] EXCEPT !.executed = FALSE]
<1>1. r = <<t, j>> /\ t \in Types /\ j \in DOMAIN os
  BY SlotParts
<1>2. os \in Seq(Objects) /\ os[j] \in Objects
  BY <1>1 DEF PoolType
<1>3. o \in Objects /\ ~o.executed /\ o.inUse = os[j].inUse /\ o.call = os[j].call
  <2> HIDE DEF os
  <2> QED
    BY <1>2 DEF Objects
<1>4. pool' = [pool EXCEPT ![t].objects = [os EXCEPT ![j] = o]]
  BY Zenon
<1>5. Object(r) = os[j]
  BY DEF Object
<1>6. PICK x \in Objects : x = o
  BY <1>3
<1>7. PoolType' /\ Changes(<<t, j>>, x)
  <2>1. pool' = [pool EXCEPT ![t].objects = [pool[t].objects EXCEPT ![j] = x]]
    BY <1>4, <1>6, Zenon
  <2> QED
    BY <1>1, <2>1, PoolChanges
<1> HIDE DEF o, os
<1> QED
  BY <1>1, <1>3, <1>5, <1>6, <1>7

-----------------------------------------------------------------------------
(* The invariant, and the steps that leave the queues and the pools alone. *)

Inv == Base /\ Queues

LEMMA Typing ==
    ASSUME Inv
    PROVE  /\ EmuType /\ GlType /\ FrontType /\ StateType /\ FramesType /\ swaps \in Int
           /\ PoolType
           /\ Control /\ LastCommand /\ JobOwned /\ Owned /\ Awaited /\ OwnArguments /\ Shown
  BY DEF Inv, Base, Typed, Types1, Queues

LEMMA TypedKept ==
    ASSUME Inv, UNCHANGED commands, Types1'
    PROVE  Typed'
  BY DEF Inv, Base, Typed, PoolType, commands

LEMMA QueuesKept ==
    ASSUME Inv, UNCHANGED commands,
           UNCHANGED <<emu.at, emu.command>> \/ (~Waiting /\ ~Waiting'),
           Swapping' => Swapping /\ UNCHANGED gl.command,
           Shown'
    PROVE  Queues'
<1>1. UNCHANGED Slots /\ \A r : UNCHANGED Object(r)
  BY DEF commands, Slots, Object
<1>2. \A r : Held(r)' <=> Held(r)
  BY <1>1 DEF Held
<1>3. Owned'
  BY <1>2, Typing DEF Owned, commands, Waiting
<1>4. Awaited'
  <2>1. UNCHANGED <<queue, priority>>
    BY DEF commands
  <2>2. CASE UNCHANGED <<emu.at, emu.command>>
    BY <1>1, <2>1, <2>2, Typing DEF Awaited, Waiting
  <2>3. CASE ~Waiting /\ ~Waiting'
    <3>1. emu.at # "wait" /\ emu'.at # "wait"
      BY <2>3 DEF Waiting
    <3> QED
      BY <1>1, <2>1, <2>3, <3>1, Typing DEF Awaited, Owned
  <2> QED
    BY <2>2, <2>3
<1>5. OwnArguments'
  BY <1>1, Typing DEF OwnArguments, commands
<1> QED
  BY <1>3, <1>4, <1>5 DEF Queues

LEMMA Alone ==
    ASSUME Inv, UNCHANGED commands, Types1', Control', LastCommand', JobOwned', Shown',
           UNCHANGED <<emu.at, emu.command>> \/ (~Waiting /\ ~Waiting'),
           Swapping' => Swapping /\ UNCHANGED gl.command
    PROVE  Inv'
  BY TypedKept, QueuesKept DEF Inv, Base

(* Steps of the emulation thread. *)
Works == \E o \in Outcomes : savestates_save(o) \/ savestates_load(o)

LEMMA EmulationAlone ==
    ASSUME Inv, \/ SwapBuffers \/ TestLimit \/ Block \/ LoadCount
                \/ Interrupt \/ Works \/ Forget \/ StateChanged \/ savestates_clear_job
    PROVE  Inv'
<1> USE DEF SwapBuffers, TestLimit, Block, LoadCount, Interrupt, Works, savestates_save,
            savestates_load, Forget, StateChanged, n64StateCallback, savestates_clear_job
<1>1. UNCHANGED <<gl, front, active, commands, frames, swaps, ends>>
  BY DEF jobs
<1>2. EmuType'
  <2>1. CASE SwapBuffers
    BY <2>1, Typing DEF EmuType, EmuAt
  <2>2. CASE TestLimit
    BY <2>2, Typing DEF EmuType, EmuAt
  <2>3. CASE Block
    BY <2>3, Typing DEF EmuType, EmuAt
  <2>4. CASE LoadCount
    BY <2>4, Typing DEF EmuType, EmuAt
  <2>5. CASE Interrupt
    BY <2>5, Typing DEF EmuType, EmuAt
  <2>6. CASE Works
    BY <2>6, Typing DEF EmuType, EmuAt
  <2>7. CASE Forget
    BY <2>7, Typing DEF EmuType, EmuAt
  <2>8. CASE StateChanged
    BY <2>8, Typing DEF EmuType, EmuAt
  <2>9. CASE savestates_clear_job
    BY <2>9, Typing DEF EmuType, EmuAt
  <2> QED
    BY <2>1, <2>2, <2>3, <2>4, <2>5, <2>6, <2>7, <2>8, <2>9
<1>3. StateType'
  <2>1. CASE Works
    BY <2>1, Typing DEF StateType
  <2>2. CASE Forget
    BY <2>2, Typing DEF StateType
  <2>3. CASE StateChanged
    BY <2>3, Typing DEF StateType, EmuType
  <2>4. CASE savestates_clear_job
    BY <2>4, Typing DEF StateType
  <2>5. CASE SwapBuffers \/ TestLimit \/ Block \/ LoadCount \/ Interrupt
    BY <2>5, Typing DEF StateType, jobs
  <2> QED
    BY <2>1, <2>2, <2>3, <2>4, <2>5
<1>4. Types1'
  BY <1>1, <1>2, <1>3, Typing DEF Types1, GlType, FrontType, FramesType, frames
<1>5. Control'
  BY <1>1, Typing, ZenonT(30) DEF Control, EmuType, StateType, Stopped, ends, jobs
<1>6. LastCommand'
  BY <1>1, Typing DEF LastCommand, EmuType, Leaving, commands
<1>7. JobOwned'
  BY <1>1, Typing DEF JobOwned, EmuType, StateType, Doing, jobs
<1>8. ~Waiting /\ ~Waiting'
  BY Typing DEF Waiting, EmuType
<1>9. Shown'
  BY <1>1, Typing DEF Shown, commands, frames, Object
<1> QED
  BY <1>1, <1>4, <1>5, <1>6, <1>7, <1>8, <1>9, Alone DEF Swapping

(* Steps of commandLoop. *)
LEMMA LoopAlone ==
    ASSUME Inv, Start \/ Peek \/ LoadCountDown \/ StoreCountDown \/ Yield \/ Exit
    PROVE  Inv'
<1> USE DEF Start, Peek, LoadCountDown, StoreCountDown, Yield, Exit, Runs
<1>1. UNCHANGED <<emu, front, commands, frames, jobs>> /\ active = "loop"
  OBVIOUS
<1>2. GlType' /\ swaps' \in Int
  <2>1. CASE Start
    BY <2>1, Typing DEF GlType, GlAt
  <2>2. CASE Peek
    BY <2>2, Typing DEF GlType, GlAt
  <2>3. CASE LoadCountDown
    BY <2>3, Typing DEF GlType, GlAt
  <2>4. CASE StoreCountDown
    <3>1. gl.count - 1 \in Int
      BY Typing DEF GlType
    <3>2. gl' = [gl EXCEPT !.at = "notify", !.count = 0]
      BY <2>4
    <3>3. ASSUME NEW a \in GlAt, NEW n \in Int, gl' = [gl EXCEPT !.at = a, !.count = n]
          PROVE  GlType'
      BY <3>3, Typing DEF GlType
    <3>4. "notify" \in GlAt /\ 0 \in Int
      BY DEF GlAt
    <3> QED
      BY <2>4, <3>1, <3>2, <3>3, <3>4
  <2>5. CASE Yield
    BY <2>5, Typing DEF GlType, GlAt
  <2>6. CASE Exit
    BY <2>6, Typing DEF GlType, GlAt
  <2> QED
    BY <2>1, <2>2, <2>3, <2>4, <2>5, <2>6
<1>3. Types1'
  BY <1>1, <1>2, Typing DEF Types1, EmuType, FrontType, FramesType, StateType, frames, jobs
<1>4. Control'
  <2>1. CASE Start
    BY <1>1, <2>1, Typing DEF Control, GlType, Stopped, LastCommand, Leaving, ends, jobs
  <2>2. CASE Peek
    BY <1>1, <2>2, Typing DEF Control, GlType, Stopped, LastCommand, Leaving, ends, jobs
  <2>3. CASE LoadCountDown
    BY <1>1, <2>3, Typing DEF Control, GlType, Stopped, LastCommand, Leaving, ends, jobs
  <2>4. CASE StoreCountDown
    BY <1>1, <2>4, Typing DEF Control, GlType, Stopped, LastCommand, Leaving, ends, jobs
  <2>5. CASE Yield
    BY <1>1, <2>5, Typing DEF Control, GlType, Stopped, LastCommand, Leaving, ends, jobs
  <2>6. CASE Exit
    BY <1>1, <2>6, Typing DEF Control, GlType, Stopped, LastCommand, Leaving, ends, jobs
  <2> QED
    BY <2>1, <2>2, <2>3, <2>4, <2>5, <2>6
<1>5. LastCommand'
  BY <1>1, Typing DEF LastCommand, GlType, Leaving, commands
<1>6. JobOwned'
  BY <1>1, Typing DEF JobOwned, Doing, jobs
<1>7. Swapping' => Swapping /\ UNCHANGED gl.command
  BY <1>1, Typing DEF Swapping, GlType
<1>8. Shown'
  BY <1>1, Typing DEF Shown, Control, LastCommand, Leaving, Stopped
<1> QED
  BY <1>1, <1>3, <1>4, <1>5, <1>6, <1>7, <1>8, Alone

(* Steps of the frontend. *)
LEMMA LoadGameKeeps ==
    ASSUME Inv, retro_load_game
    PROVE  Inv'
<1> USE DEF retro_load_game, In
<1>1. UNCHANGED commands /\ active = "front"
  OBVIOUS
<1>2. Types1'
  BY Typing, Constants
     DEF Types1, EmuType, GlType, FrontType, StateType, FramesType, EmuAt, GlAt, FrontAt, frames, jobs
<1>3. Control' /\ JobOwned'
  BY Typing DEF Control, JobOwned, EmuType, GlType, FrontType, StateType, Stopped, Doing, ends, jobs
<1>4. LastCommand'
  BY <1>1, Typing DEF LastCommand, Leaving, EmuType, GlType, commands, Control
<1>5. /\ UNCHANGED <<emu.at, emu.command>> \/ (~Waiting /\ ~Waiting')
      /\ Swapping' => Swapping /\ UNCHANGED gl.command
  BY Typing DEF Swapping, Waiting, EmuType, GlType, Control
<1>6. Shown'
  BY <1>1, Typing DEF Shown, Control, FrontType
<1> QED
  BY <1>1, <1>2, <1>3, <1>4, <1>5, <1>6, Alone

LEMMA RunKeeps ==
    ASSUME Inv, retro_run
    PROVE  Inv'
<1> USE DEF retro_run, In
<1>1. UNCHANGED commands /\ active = "front"
  OBVIOUS
<1>2. Types1'
  <2>1. EmuType' /\ FrontType'
    BY Typing DEF EmuType, FrontType, EmuAt, FrontAt
  <2>2. FramesType'
    BY Typing, Constants DEF FramesType
  <2>3. GlType' /\ StateType' /\ swaps' \in Int
    BY Typing DEF GlType, StateType, jobs
  <2> QED
    BY <2>1, <2>2, <2>3 DEF Types1
<1>3. Control' /\ JobOwned'
  BY Typing DEF Control, JobOwned, EmuType, GlType, FrontType, StateType, Stopped, Doing, ends, jobs
<1>4. LastCommand'
  BY <1>1, Typing DEF LastCommand, Leaving, EmuType, GlType, commands, Control
<1>5. /\ UNCHANGED <<emu.at, emu.command>> \/ (~Waiting /\ ~Waiting')
      /\ Swapping' => Swapping /\ UNCHANGED gl.command
  BY Typing DEF Swapping, Waiting, EmuType, GlType, Control
<1>6. Shown'
  BY <1>1, Typing DEF Shown, Control, FrontType
<1> QED
  BY <1>1, <1>2, <1>3, <1>4, <1>5, <1>6, Alone

LEMMA PresentKeeps ==
    ASSUME Inv, Present
    PROVE  Inv'
<1> USE DEF Present, In
<1>1. UNCHANGED commands /\ active = "front"
  OBVIOUS
<1>2. Types1'
  BY Typing, Constants
     DEF Types1, EmuType, GlType, FrontType, StateType, FramesType, EmuAt, GlAt, FrontAt, frames, jobs
<1>3. Control' /\ JobOwned'
  BY Typing DEF Control, JobOwned, EmuType, GlType, FrontType, StateType, Stopped, Doing, ends, jobs
<1>4. LastCommand'
  BY <1>1, Typing DEF LastCommand, Leaving, EmuType, GlType, commands, Control
<1>5. /\ UNCHANGED <<emu.at, emu.command>> \/ (~Waiting /\ ~Waiting')
      /\ Swapping' => Swapping /\ UNCHANGED gl.command
  BY Typing DEF Swapping, Waiting, EmuType, GlType, Control
<1>6. Shown'
  BY <1>1, Typing DEF Shown, Control, FrontType
<1> QED
  BY <1>1, <1>2, <1>3, <1>4, <1>5, <1>6, Alone

LEMMA StoreNameKeeps ==
    ASSUME Inv, StoreName
    PROVE  Inv'
<1> USE DEF StoreName, In
<1>1. UNCHANGED commands /\ active = "front"
  OBVIOUS
<1>2. Types1'
  BY Typing, Constants
     DEF Types1, EmuType, GlType, FrontType, StateType, FramesType, EmuAt, GlAt, FrontAt, frames, jobs
<1>3. Control' /\ JobOwned'
  BY Typing DEF Control, JobOwned, EmuType, GlType, FrontType, StateType, Stopped, Doing, ends, jobs
<1>4. LastCommand'
  BY <1>1, Typing DEF LastCommand, Leaving, EmuType, GlType, commands, Control
<1>5. /\ UNCHANGED <<emu.at, emu.command>> \/ (~Waiting /\ ~Waiting')
      /\ Swapping' => Swapping /\ UNCHANGED gl.command
  BY Typing DEF Swapping, Waiting, EmuType, GlType, Control
<1>6. Shown'
  BY <1>1, Typing DEF Shown, Control, FrontType
<1> QED
  BY <1>1, <1>2, <1>3, <1>4, <1>5, <1>6, Alone

LEMMA AwaitJobKeeps ==
    ASSUME Inv, AwaitJob
    PROVE  Inv'
<1> USE DEF AwaitJob, In
<1>1. UNCHANGED commands /\ active = "front"
  OBVIOUS
<1>2. Types1'
  BY Typing, Constants
     DEF Types1, EmuType, GlType, FrontType, StateType, FramesType, EmuAt, GlAt, FrontAt, frames, jobs
<1>3. Control' /\ JobOwned'
  BY Typing DEF Control, JobOwned, EmuType, GlType, FrontType, StateType, Stopped, Doing, ends, jobs
<1>4. LastCommand'
  BY <1>1, Typing DEF LastCommand, Leaving, EmuType, GlType, commands, Control
<1>5. /\ UNCHANGED <<emu.at, emu.command>> \/ (~Waiting /\ ~Waiting')
      /\ Swapping' => Swapping /\ UNCHANGED gl.command
  BY Typing DEF Swapping, Waiting, EmuType, GlType, Control
<1>6. Shown'
  BY <1>1, Typing DEF Shown, Control, FrontType
<1> QED
  BY <1>1, <1>2, <1>3, <1>4, <1>5, <1>6, Alone

LEMMA ReturnKeeps ==
    ASSUME Inv, Return
    PROVE  Inv'
<1> USE DEF Return, In
<1>1. UNCHANGED commands /\ active = "front"
  OBVIOUS
<1>2. Types1'
  BY Typing, Constants
     DEF Types1, EmuType, GlType, FrontType, StateType, FramesType, EmuAt, GlAt, FrontAt, frames, jobs
<1>3. Control' /\ JobOwned'
  BY Typing DEF Control, JobOwned, EmuType, GlType, FrontType, StateType, Stopped, Doing, ends, jobs
<1>4. LastCommand'
  BY <1>1, Typing DEF LastCommand, Leaving, EmuType, GlType, commands, Control
<1>5. /\ UNCHANGED <<emu.at, emu.command>> \/ (~Waiting /\ ~Waiting')
      /\ Swapping' => Swapping /\ UNCHANGED gl.command
  BY Typing DEF Swapping, Waiting, EmuType, GlType, Control
<1>6. Shown'
  BY <1>1, Typing DEF Shown, Control, FrontType
<1> QED
  BY <1>1, <1>2, <1>3, <1>4, <1>5, <1>6, Alone

LEMMA UnloadGameKeeps ==
    ASSUME Inv, retro_unload_game
    PROVE  Inv'
<1> USE DEF retro_unload_game, In
<1>1. UNCHANGED commands /\ active = "front"
  OBVIOUS
<1>2. Types1'
  BY Typing, Constants
     DEF Types1, EmuType, GlType, FrontType, StateType, FramesType, EmuAt, GlAt, FrontAt, frames, jobs
<1>3. Control' /\ JobOwned'
  BY Typing DEF Control, JobOwned, EmuType, GlType, FrontType, StateType, Stopped, Doing, ends, jobs
<1>4. LastCommand'
  BY <1>1, Typing DEF LastCommand, Leaving, EmuType, GlType, commands, Control
<1>5. /\ UNCHANGED <<emu.at, emu.command>> \/ (~Waiting /\ ~Waiting')
      /\ Swapping' => Swapping /\ UNCHANGED gl.command
  BY Typing DEF Swapping, Waiting, EmuType, GlType, Control
<1>6. Shown'
  BY <1>1, Typing DEF Shown, Control, FrontType
<1> QED
  BY <1>1, <1>2, <1>3, <1>4, <1>5, <1>6, Alone

LEMMA AwaitShutdownKeeps ==
    ASSUME Inv, AwaitShutdown
    PROVE  Inv'
<1> USE DEF AwaitShutdown, In
<1>1. UNCHANGED commands /\ active = "front"
  OBVIOUS
<1>2. CASE ~safe /\ active' = "loop" /\ UNCHANGED <<front, stop, state>>
  <2>1. UNCHANGED <<emu, gl, front, state, swaps, frames, stop, safe>> /\ active' = "loop"
    BY <1>2
  <2>2. Types1'
    BY <2>1, Typing DEF Types1, EmuType, GlType, FrontType, StateType, FramesType, frames
  <2>3. Control' /\ JobOwned'
    BY <2>1, Typing DEF Control, JobOwned, Stopped, Doing
  <2>4. LastCommand'
    BY <1>1, <2>1, Typing DEF LastCommand, Leaving, commands
  <2> QED
    BY <1>1, <2>1, <2>2, <2>3, <2>4, Alone DEF Swapping, Shown
<1>3. CASE ~(~safe /\ active' = "loop" /\ UNCHANGED <<front, stop, state>>)
  <2>1. /\ front.at = "unload" /\ safe /\ emu.at = "ended"
        /\ front' = [front EXCEPT !.at = "unloaded"]
        /\ state' = [state EXCEPT !.complete = FALSE]
        /\ ~stop' /\ UNCHANGED <<emu, gl, active, swaps, frames, safe>>
    BY <1>3
  <2>2. Types1'
    BY <2>1, Typing
       DEF Types1, EmuType, GlType, FrontType, StateType, FramesType, FrontAt, frames
  <2>3. front'.at = "unloaded" /\ state'.job = state.job
    BY <2>1, Typing DEF FrontType, StateType
  <2>4. Control' /\ JobOwned'
    BY <1>1, <2>1, <2>3, Typing DEF Control, JobOwned, Stopped, Doing
  <2>5. LastCommand'
    BY <1>1, <2>1, Typing DEF LastCommand, Leaving, commands
  <2> QED
    BY <1>1, <2>1, <2>2, <2>3, <2>4, <2>5, Alone DEF Swapping, Shown
<1> QED
  BY <1>2, <1>3

LEMMA SerializeKeeps ==
    ASSUME Inv, NEW buffer \in Buffers, NEW j \in Jobs, Serialize(buffer, j)
    PROVE  Inv'
<1> USE DEF Serialize, In
<1>1. UNCHANGED commands /\ active = "front"
  OBVIOUS
<1>2. Types1'
  <2>1. FrontType' /\ StateType' /\ FramesType'
    BY Typing, Constants, ZenonT(30)
       DEF Types1, FrontType, StateType, FramesType, FrontAt
  <2>2. UNCHANGED <<emu, gl, active, queue, priority, pending, swaps, served, ends>>
    BY <1>1 DEF jobs, commands
  <2> QED
    BY <2>1, <2>2, Typing DEF Types1, EmuType, GlType, ends
<1>3. Control' /\ JobOwned'
  BY Typing DEF Control, JobOwned, EmuType, GlType, FrontType, StateType, Stopped, Doing, ends, jobs
<1>4. LastCommand'
  BY <1>1, Typing DEF LastCommand, Leaving, EmuType, GlType, commands, Control
<1>5. /\ UNCHANGED <<emu.at, emu.command>> \/ (~Waiting /\ ~Waiting')
      /\ Swapping' => Swapping /\ UNCHANGED gl.command
  BY Typing DEF Swapping, Waiting, EmuType, GlType, Control
<1>6. Shown'
  BY <1>1, Typing DEF Shown, Control, FrontType
<1> QED
  BY <1>1, <1>2, <1>3, <1>4, <1>5, <1>6, Alone

-----------------------------------------------------------------------------
(* The invariant is preserved when a call is issued. *)

(* Where the emulation thread is when it issues a command of type t, and   *)
(* next if it does not wait for it.                                        *)
MayIssue(t, next) ==
    \/ t = "shutdown" /\ emu.at = "quitted" /\ next = "ended"
    \/ t = "quit" /\ emu.at = "game" /\ stop /\ next = "quitted"
    \/ t \notin {"shutdown", "quit"} /\ emu.at \in {"game", "store"} /\ next = "game"

LEMMA Appended ==
    ASSUME NEW R, NEW q \in Seq(R), NEW x \in R, NEW a, a = Append(q, x)
    PROVE  /\ a \in Seq(R) /\ a # << >> /\ Len(a) = Len(q) + 1 /\ Len(q) \in Nat
           /\ DOMAIN a = 1..(Len(q) + 1) /\ DOMAIN q = 1..Len(q)
           /\ a[Len(q) + 1] = x /\ \A i \in 1..Len(q) : a[i] = q[i]
  OBVIOUS

LEMMA IssueKeeps ==
    ASSUME Inv, NEW r \in Types \X Nat, NEW c \in CallRecs, NEW next,
           PoolType', Takes(r, c), Issues(r, c, next), MayIssue(r[1], next),
           UNCHANGED <<gl, front, active, frames, jobs, ends>>, swaps' \in Int
    PROVE  Inv'
<1>1. ~Waiting /\ emu.at \notin {"new", "ended", "wait", "wake"} /\ priority = << >>
  BY Typing DEF MayIssue, Waiting, Owned
<1>2. /\ r \in Refs /\ r # Wake /\ ~Held(r) /\ Held(r)'
      /\ r[1] \in Types /\ next \in EmuAt /\ ~(Object(r)'.executed)
  <2>1. r \in Refs /\ r # Wake /\ r[1] \in Types /\ next \in EmuAt
    BY DEF Refs, Wake, Types, MayIssue, EmuAt
  <2>2. r \in Slots => ~Object(r).executed
    BY <1>1, Typing DEF Awaited
  <2> QED
    BY <2>1, <2>2 DEF Takes, Held
<1>3. \A q : Held(q) => q # r /\ Object(q)' = Object(q) /\ Held(q)'
  BY <1>2 DEF Held, Takes
<1>4. /\ emu'.at \in {"wake", "wait"} => emu'.command = r /\ r[1] \in Synced
      /\ emu'.at = "wake" <=> r[1] \in Priority
      /\ emu'.at = "wait" <=> r[1] \in Synced \ Priority
      /\ emu'.at \in {"wake", "wait", next}
      /\ EmuType'
  <2>1. CASE r[1] \in Priority
    <3>1. emu' = [emu EXCEPT !.at = "wake", !.command = r]
      BY <2>1 DEF Issues
    <3> QED
      BY <1>2, <2>1, <3>1, Typing DEF EmuType, EmuAt, Priority, Synced
  <2>2. CASE r[1] \in Synced \ Priority
    <3>1. emu' = [emu EXCEPT !.at = "wait", !.command = r]
      BY <2>2 DEF Issues
    <3> QED
      BY <1>2, <2>2, <3>1, Typing DEF EmuType, EmuAt
  <2>3. CASE r[1] \notin Synced /\ r[1] \notin Priority
    <3>1. emu' = Resting(next)
      BY <2>3 DEF Issues
    <3>2. Wake \in Refs
      BY DEF Wake, Refs
    <3>3. next \notin {"wake", "wait"}
      BY DEF MayIssue
    <3> QED
      BY <1>2, <2>3, <3>1, <3>2, <3>3 DEF EmuType, EmuAt, Resting
  <2> QED
    BY <2>1, <2>2, <2>3
<1>5. Types1'
  BY <1>4, Typing DEF Types1, GlType, FrontType, StateType, FramesType, jobs, frames
<1>6. /\ queue \in Seq(Refs) /\ pending \in Seq(CallRecs) /\ Len(pending) = Len(queue)
      /\ PoolType'
  BY DEF Inv, Base, Typed
<1>7. \/ r[1] \in Priority /\ UNCHANGED <<queue, pending>> /\ priority' = <<r>>
      \/ /\ r[1] \notin Priority /\ UNCHANGED priority
         /\ queue' = Append(queue, r) /\ pending' = Append(pending, c)
  BY <1>1, <1>2 DEF Issues
<1>7a. ASSUME r[1] \notin Priority
       PROVE  /\ queue' \in Seq(Refs) /\ Len(queue') = Len(queue) + 1 /\ queue' # << >>
              /\ DOMAIN queue' = 1..(Len(queue) + 1) /\ DOMAIN queue = 1..Len(queue)
              /\ Len(queue) \in Nat /\ queue'[Len(queue) + 1] = r
              /\ \A i \in 1..Len(queue) : queue'[i] = queue[i]
              /\ pending' \in Seq(CallRecs) /\ Len(pending') = Len(queue) + 1
              /\ pending'[Len(queue) + 1] = c
              /\ \A i \in 1..Len(queue) : pending'[i] = pending[i]
  <2>1. queue' = Append(queue, r) /\ pending' = Append(pending, c)
    BY <1>7, <1>7a
  <2>2. PICK a, b : a = queue' /\ b = pending'
    OBVIOUS
  <2>3. /\ a \in Seq(Refs) /\ a # << >> /\ Len(a) = Len(queue) + 1 /\ Len(queue) \in Nat
        /\ DOMAIN a = 1..(Len(queue) + 1) /\ DOMAIN queue = 1..Len(queue)
        /\ a[Len(queue) + 1] = r /\ \A i \in 1..Len(queue) : a[i] = queue[i]
    <3>1. queue \in Seq(Refs) /\ r \in Refs /\ a = Append(queue, r)
      BY <1>2, <1>6, <2>1, <2>2
    <3> QED
      BY <3>1, Appended
  <2>4. /\ b \in Seq(CallRecs) /\ Len(b) = Len(pending) + 1 /\ b[Len(pending) + 1] = c
        /\ \A i \in 1..Len(pending) : b[i] = pending[i]
    BY <1>6, <2>1, <2>2, Appended
  <2> QED
    BY <1>6, <2>2, <2>3, <2>4
<1>8. Typed'
  <2>0. priority \in Seq(Refs) /\ <<r>> \in Seq(Refs)
    BY <1>1, <1>2
  <2>1. CASE r[1] \in Priority
    BY <1>5, <1>6, <1>7, <2>0, <2>1 DEF Typed
  <2>2. CASE r[1] \notin Priority
    BY <1>5, <1>6, <1>7, <1>7a, <2>0, <2>2 DEF Typed
  <2> QED
    BY <2>1, <2>2
<1>9. /\ emu'.at = "ended" <=> r[1] = "shutdown"
      /\ Stopped' => stop \/ emu.at = "quitted"
  BY <1>4 DEF MayIssue, Stopped, Synced, Priority
<1>10. Control'
  <2>1. UNCHANGED <<gl, front, active, stop, safe, state>>
    BY DEF ends, jobs
  <2>2. emu'.at # "new" /\ emu.at # "new" /\ emu.at # "ended"
    BY <1>1, <1>4 DEF MayIssue
  <2>3. front.at \notin {"unloaded", "unload"} => ~(Stopped')
    BY <1>9, Typing DEF Control, Stopped
  <2> QED
    BY <1>4, <2>1, <2>2, <2>3, Typing DEF Control
<1>11. JobOwned'
  BY <1>1, Typing DEF JobOwned, MayIssue, Doing, jobs
<1>12. LastCommand'
  <2>1. ~Leaving /\ ~Leaving' /\ ~gl.ending /\ ~gl'.ending
    BY <1>1, Typing DEF LastCommand, Leaving
  <2>2. \A i \in DOMAIN queue : queue[i][1] # "shutdown"
    BY <1>1, Typing DEF LastCommand
  <2>3. CASE r[1] \in Priority
    BY <1>7, <1>9, <2>1, <2>2, <2>3 DEF LastCommand, Priority
  <2>4. CASE r[1] \notin Priority
    <3>1. /\ DOMAIN queue' = 1..(Len(queue) + 1) /\ DOMAIN queue = 1..Len(queue)
          /\ Len(queue) \in Nat
          /\ Len(queue') = Len(queue) + 1 /\ queue'[Len(queue) + 1] = r /\ queue' # << >>
          /\ \A i \in 1..Len(queue) : queue'[i] = queue[i]
      BY <1>7a, <2>4
    <3>2. \A i \in DOMAIN queue' : queue'[i][1] = "shutdown" => i = Len(queue') /\ r[1] = "shutdown"
      BY <2>2, <3>1
    <3> QED
      BY <1>9, <2>1, <3>1, <3>2 DEF LastCommand
  <2> QED
    BY <2>3, <2>4
<1>13. Queues'
  <2>1. \A i \in DOMAIN queue : /\ queue[i] = Wake \/ (Held(queue[i]) /\ queue[i][1] \notin Priority)
                                /\ queue[i] # r /\ queue[i][1] \notin Synced
    BY <1>1, <1>2, <1>3, Typing DEF Owned, Awaited, Waiting
  <2>2. Swapping => Held(gl.command) /\ gl.command[1] = "swap" /\ gl.command # r
    BY <1>3, Typing DEF Owned
  <2>3. \A q \in Slots' : ~(Object(q)'.executed)
    BY <1>1, <1>2, Typing DEF Takes, Awaited
  <2>4. CASE r[1] \in Priority
    <3>1. UNCHANGED <<queue, pending, gl>> /\ priority' = <<r>> /\ emu'.at = "wake" /\ emu'.command = r
      BY <1>4, <1>7, <2>4
    <3>2. Owned'
      BY <1>2, <1>3, <2>1, <2>2, <2>4, <3>1, Typing DEF Owned, Waiting, Swapping
    <3>3. Awaited'
      BY <1>2, <2>1, <2>3, <3>1, <1>4 DEF Awaited, Waiting, Held
    <3>4. OwnArguments'
      BY <1>3, <2>1, <3>1, Typing DEF OwnArguments
    <3>5. Shown'
      BY <1>3, <2>2, Typing DEF Shown, Control, Swapping, frames
    <3> QED
      BY <3>2, <3>3, <3>4, <3>5 DEF Queues
  <2>5. CASE r[1] \notin Priority
    <3>1. /\ UNCHANGED <<priority, gl>>
          /\ DOMAIN queue' = 1..(Len(queue) + 1) /\ DOMAIN queue = 1..Len(queue)
          /\ Len(queue) \in Nat /\ queue'[Len(queue) + 1] = r
          /\ \A i \in 1..Len(queue) : queue'[i] = queue[i]
          /\ Len(pending') = Len(queue') /\ pending'[Len(queue) + 1] = c
          /\ \A i \in 1..Len(queue) : pending'[i] = pending[i]
      BY <1>6, <1>7, <1>7a, <2>5
    <3>2. Owned'
      <4>1. \A i \in DOMAIN queue' : \/ i \in DOMAIN queue /\ queue'[i] = queue[i]
                                     \/ i = Len(queue) + 1 /\ queue'[i] = r
        BY <3>1
      <4>2. \A i \in DOMAIN queue' :
                queue'[i] = Wake \/ (Held(queue[i])' /\ queue'[i][1] \notin Priority)
        BY <1>2, <1>3, <2>1, <2>5, <4>1
      <4>3. \A i, j \in DOMAIN queue' : queue'[i] = queue'[j] /\ queue'[i] # Wake => i = j
        BY <2>1, <4>1, Typing DEF Owned
      <4>4. Swapping' => /\ Held(gl.command)' /\ gl'.command[1] = "swap"
                         /\ \A i \in DOMAIN queue' : queue'[i] # gl'.command
        BY <1>3, <2>2, <3>1, <4>1, Typing DEF Owned, Swapping
      <4>5. priority' = << >>
        BY <1>1, <3>1
      <4> QED
        BY <4>2, <4>3, <4>4, <4>5 DEF Owned
    <3>3. Awaited'
      <4>1. Waiting' => emu'.command = r /\ r \in Slots' /\ r[1] \in Synced
        BY <1>2, <1>4 DEF Waiting, Held
      <4>2. \A i \in DOMAIN queue' : queue'[i][1] \in Synced =>
                queue'[i] = r /\ emu'.at = "wait" /\ emu'.command = r
        BY <1>4, <2>1, <2>5, <3>1
      <4>3. priority' = << >>
        BY <1>1, <3>1
      <4> QED
        BY <1>2, <2>3, <4>1, <4>2, <4>3 DEF Awaited
    <3>4. OwnArguments'
      <4>1. Object(r)'.call = c
        BY DEF Takes
      <4>2. \A i \in DOMAIN queue' : queue'[i] # Wake => Object(queue[i])'.call = pending'[i]
        BY <1>3, <2>1, <3>1, <4>1, Typing DEF OwnArguments
      <4> QED
        BY <3>1, <4>2 DEF OwnArguments
    <3>5. Shown'
      BY <1>3, <2>2, Typing DEF Shown, Control, Swapping, frames
    <3> QED
      BY <3>2, <3>3, <3>4, <3>5 DEF Queues
  <2> QED
    BY <2>4, <2>5
<1> QED
  BY <1>8, <1>10, <1>11, <1>12, <1>13 DEF Inv, Base

LEMMA CallKeeps ==
    ASSUME Inv, NEW t \in Types, Call(t)
    PROVE  Inv'
<1>1. Execute(t, "game") /\ emu.at = "game" /\ t \notin {"shutdown", "quit"}
  BY Constants DEF Call
<1>2. PICK r \in Types \X Nat, c \in CallRecs :
          r[1] = t /\ PoolType' /\ Takes(r, c) /\ Issues(r, c, "game")
  BY <1>1, ExecuteIssues DEF Inv, Base
<1>3. MayIssue(r[1], "game")
  BY <1>1, <1>2 DEF MayIssue
<1>4. UNCHANGED <<gl, front, active, frames, jobs, ends>> /\ swaps' \in Int
  BY Typing DEF Call
<1> QED
  BY <1>2, <1>3, <1>4, IssueKeeps

LEMMA StoreCountKeeps ==
    ASSUME Inv, StoreCount
    PROVE  Inv'
<1>1. Execute("swap", "game") /\ emu.at = "store" /\ "swap" \in Types
  BY DEF StoreCount, Types
<1>2. PICK r \in Types \X Nat, c \in CallRecs :
          r[1] = "swap" /\ PoolType' /\ Takes(r, c) /\ Issues(r, c, "game")
  BY <1>1, ExecuteIssues DEF Inv, Base
<1>3. MayIssue(r[1], "game")
  BY <1>1, <1>2 DEF MayIssue
<1>4. UNCHANGED <<gl, front, active, frames, jobs, ends>>
  BY DEF StoreCount
<1>5. swaps' \in Int
  BY Typing DEF StoreCount, EmuType
<1> QED
  BY <1>2, <1>3, <1>4, <1>5, IssueKeeps

LEMMA QuitKeeps ==
    ASSUME Inv, Quit
    PROVE  Inv'
<1>1. UNCHANGED <<gl, front, active, frames, jobs, ends>> /\ swaps' \in Int
  BY Typing DEF Quit
<1>2. CASE emu.at = "game" /\ stop /\ Execute("quit", "quitted")
  <2>1. PICK r \in Types \X Nat, c \in CallRecs :
            r[1] = "quit" /\ PoolType' /\ Takes(r, c) /\ Issues(r, c, "quitted")
    BY <1>2, ExecuteIssues DEF Inv, Base, Types
  <2>2. MayIssue(r[1], "quitted")
    BY <1>2, <2>1 DEF MayIssue
  <2> QED
    BY <1>1, <2>1, <2>2, IssueKeeps
<1>3. CASE emu.at = "quitted" /\ Execute("shutdown", "ended")
  <2>1. PICK r \in Types \X Nat, c \in CallRecs :
            r[1] = "shutdown" /\ PoolType' /\ Takes(r, c) /\ Issues(r, c, "ended")
    BY <1>3, ExecuteIssues DEF Inv, Base, Types
  <2>2. MayIssue(r[1], "ended")
    BY <1>3, <2>1 DEF MayIssue
  <2> QED
    BY <1>1, <2>1, <2>2, IssueKeeps
<1> QED
  BY <1>2, <1>3 DEF Quit

LEMMA EnqueueWakeKeeps ==
    ASSUME Inv, EnqueueWake
    PROVE  Inv'
<1>1. /\ emu.at = "wake" /\ emu' = [emu EXCEPT !.at = "wait"]
      /\ queue' = Append(queue, Wake) /\ pending' = Append(pending, NoCall)
      /\ UNCHANGED <<gl, front, active, pool, priority, swaps, skip, presented, swapped, state,
                     stop, safe>>
  BY DEF EnqueueWake, frames, jobs, ends
<1>2. emu'.at = "wait" /\ emu'.command = emu.command /\ EmuType'
  BY <1>1, Typing DEF EmuType, EmuAt
<1>3. Wake \in Refs /\ NoCall \in CallRecs /\ Wake[1] = "wake" /\ Wake[1] \notin Synced
  BY DEF Wake, NoCall, Refs, CallRecs, Synced
<1>4. /\ queue \in Seq(Refs) /\ pending \in Seq(CallRecs) /\ Len(pending) = Len(queue)
      /\ priority \in Seq(Refs)
  BY DEF Inv, Base, Typed
<1>5. /\ queue' \in Seq(Refs) /\ queue' # << >> /\ Len(queue') = Len(queue) + 1
      /\ Len(queue) \in Nat
      /\ DOMAIN queue' = 1..(Len(queue) + 1) /\ DOMAIN queue = 1..Len(queue)
      /\ queue'[Len(queue) + 1] = Wake /\ \A i \in 1..Len(queue) : queue'[i] = queue[i]
  <2>1. PICK a : a = queue'
    OBVIOUS
  <2>2. a = Append(queue, Wake)
    BY <1>1, <2>1
  <2> QED
    BY <1>3, <1>4, <2>1, <2>2, Appended
<1>6. /\ pending' \in Seq(CallRecs) /\ Len(pending') = Len(queue')
      /\ \A i \in 1..Len(queue) : pending'[i] = pending[i]
  <2>1. PICK a : a = pending'
    OBVIOUS
  <2>2. a = Append(pending, NoCall)
    BY <1>1, <2>1
  <2>3. /\ a \in Seq(CallRecs) /\ Len(a) = Len(pending) + 1
        /\ \A i \in 1..Len(pending) : a[i] = pending[i]
    BY <1>3, <1>4, <2>2, Appended
  <2> QED
    BY <1>4, <1>5, <2>1, <2>3
<1>7. Typed'
  <2>1. Types1'
    BY <1>1, <1>2, Typing DEF Types1, GlType, FrontType, StateType, FramesType
  <2>2. PoolType'
    BY <1>1, Typing DEF PoolType
  <2> QED
    BY <1>1, <1>4, <1>5, <1>6, <2>1, <2>2 DEF Typed
<1>8. Control' /\ JobOwned'
  <2>1. emu.command[1] \in Priority
    BY <1>1, Typing DEF Control
  <2>2. ~Stopped /\ ~Stopped'
    BY <1>1, <1>2, <2>1 DEF Stopped, Priority
  <2> QED
    BY <1>1, <1>2, <2>2, Typing DEF Control, JobOwned, Doing
<1>9. \A i \in DOMAIN queue' : \/ i \in DOMAIN queue /\ queue'[i] = queue[i]
                               \/ i = Len(queue) + 1 /\ queue'[i] = Wake
  BY <1>5
<1>10. LastCommand'
  <2>1. ~Leaving /\ ~Leaving' /\ ~gl.ending
    BY <1>1, Typing DEF LastCommand, Leaving
  <2>2. \A i \in DOMAIN queue' : queue'[i][1] # "shutdown"
    BY <1>1, <1>3, <1>9, Typing DEF LastCommand
  <2> QED
    BY <1>1, <1>2, <2>1, <2>2 DEF LastCommand
<1>11. UNCHANGED Slots /\ \A q : UNCHANGED Object(q)
  BY <1>1 DEF Slots, Object
<1>12. \A q : Held(q)' <=> Held(q)
  BY <1>11 DEF Held
<1>13. Owned'
  <2>1. \A i \in DOMAIN queue' :
            queue'[i] = Wake \/ (Held(queue[i])' /\ queue'[i][1] \notin Priority)
    BY <1>9, <1>12, Typing DEF Owned
  <2>2. \A i, j \in DOMAIN queue' : queue'[i] = queue'[j] /\ queue'[i] # Wake => i = j
    BY <1>9, Typing DEF Owned
  <2>3. Swapping' => /\ Held(gl.command)' /\ gl'.command[1] = "swap"
                     /\ \A i \in DOMAIN queue' : queue'[i] # gl'.command
    BY <1>1, <1>3, <1>9, <1>12, Typing DEF Owned, Swapping
  <2>4. priority' # << >> => /\ priority' = <<emu'.command>> /\ Waiting'
                             /\ Held(emu.command)' /\ emu'.command[1] \in Priority
    BY <1>1, <1>2, <1>12, Typing DEF Owned, Waiting
  <2> QED
    BY <2>1, <2>2, <2>3, <2>4 DEF Owned
<1>14. Awaited'
  <2>1. Waiting /\ Waiting' /\ emu.at # "wait"
    BY <1>1, <1>2 DEF Waiting
  <2>2. \A i \in DOMAIN queue' : queue'[i][1] \notin Synced
    BY <1>3, <1>9, <2>1, Typing DEF Awaited
  <2> QED
    BY <1>1, <1>2, <1>11, <2>1, <2>2, Typing DEF Awaited
<1>15. OwnArguments'
  BY <1>5, <1>6, <1>9, <1>11, Typing DEF OwnArguments
<1>16. Shown'
  BY <1>1, <1>11, Typing DEF Shown
<1> QED
  BY <1>7, <1>8, <1>10, <1>13, <1>14, <1>15, <1>16 DEF Inv, Base, Queues

LEMMA WaitOnCommandKeeps ==
    ASSUME Inv, waitOnCommand
    PROVE  Inv'
<1>1. PICK r : r = emu.command
  OBVIOUS
<1>2. /\ emu.at = "wait" /\ Object(r).executed
      /\ emu' = Resting(IF r[1] = "quit" THEN "quitted" ELSE "game")
      /\ UNCHANGED <<gl, front, active, queue, priority, pending, swaps, frames, jobs, ends>>
      /\ pool' = [pool EXCEPT ![r[1]].objects[r[2]].executed = FALSE]
  BY <1>1 DEF waitOnCommand
<1>3. r \in Slots
  BY <1>1, <1>2, Typing DEF Awaited, Waiting
<1>4. PICK o \in Objects : /\ PoolType' /\ Changes(r, o) /\ ~o.executed
                           /\ o.inUse = Object(r).inUse /\ o.call = Object(r).call
  BY <1>2, <1>3, Typing, WaitAnswers
<1>5. /\ Slots' = Slots
      /\ \A q \in Slots : Object(q)'.inUse = Object(q).inUse /\ Object(q)'.call = Object(q).call
      /\ ~(Object(r)'.executed)
      /\ \A q \in Slots : q # r => Object(q)'.executed = Object(q).executed
  BY <1>3, <1>4 DEF Changes
<1>6. \A q : Held(q)' <=> Held(q)
  BY <1>5 DEF Held
<1>7. /\ emu'.at \in {"quitted", "game"} /\ (emu'.at = "quitted" <=> emu.command[1] = "quit")
      /\ EmuType'
  <2>1. emu' = Resting(IF emu.command[1] = "quit" THEN "quitted" ELSE "game")
    BY <1>1, <1>2
  <2>2. emu'.at = IF emu.command[1] = "quit" THEN "quitted" ELSE "game"
    BY <2>1 DEF Resting
  <2>3. EmuType'
    BY <2>1, <1>2, SMTT(30) DEF Resting, EmuType, EmuAt, Wake, Refs
  <2> QED
    BY <2>2, <2>3
<1>8. Typed'
  <2>1. Types1'
    BY <1>2, <1>7, Typing DEF Types1, GlType, FrontType, StateType, FramesType, frames, jobs
  <2> QED
    BY <1>2, <1>4, <2>1 DEF Typed, Inv, Base
<1>9. Control' /\ JobOwned'
  BY <1>2, <1>7, Typing DEF Control, Stopped, JobOwned, Doing, jobs, ends
<1>10. LastCommand'
  BY <1>2, <1>7, Typing DEF LastCommand, Leaving
<1>11. priority = << >> /\ \A i \in DOMAIN queue : queue[i][1] \notin Synced
  BY <1>1, <1>2, Typing DEF Awaited
<1>12. ~Waiting'
  BY <1>7 DEF Waiting
<1>13. Owned'
  BY <1>2, <1>6, <1>11, Typing DEF Owned, Swapping
<1>14. Awaited'
  <2>1. \A q \in Slots' : ~(Object(q)'.executed)
    BY <1>1, <1>5, Typing DEF Awaited
  <2> QED
    BY <1>2, <1>11, <1>12, <2>1 DEF Awaited
<1>15. OwnArguments'
  BY <1>2, <1>5, Typing DEF OwnArguments, Owned, Held
<1>16. Shown'
  BY <1>2, <1>5, Typing DEF Shown, Control, Owned, Held, Swapping, frames
<1> QED
  BY <1>8, <1>9, <1>10, <1>13, <1>14, <1>15, <1>16 DEF Inv, Base, Queues

-----------------------------------------------------------------------------
(* The invariant is preserved when the loop takes a command.               *)

LEMMA Tailed ==
    ASSUME NEW R, NEW q \in Seq(R), q # << >>, NEW a, a = Tail(q)
    PROVE  /\ a \in Seq(R) /\ Len(q) \in Nat /\ Len(q) > 0 /\ Len(a) = Len(q) - 1
           /\ DOMAIN a = 1..(Len(q) - 1) /\ DOMAIN q = 1..Len(q)
           /\ Head(q) = q[1] /\ \A i \in 1..(Len(q) - 1) : a[i] = q[i + 1]
           /\ Len(q) = 1 => a = << >>
  OBVIOUS

(* The command r at the head of the queue is taken. *)
LEMMA TakeOff ==
    ASSUME Inv, queue # << >>, NEW r, r = Head(queue),
           queue' = Tail(queue), pending' = Tail(pending)
    PROVE  /\ queue' \in Seq(Refs) /\ pending' \in Seq(CallRecs) /\ Len(pending') = Len(queue')
           /\ Len(queue') = Len(queue) - 1 /\ Len(queue) \in Nat /\ Len(queue) > 0
           /\ DOMAIN queue' = 1..Len(queue') /\ DOMAIN queue = 1..Len(queue)
           /\ \A i \in DOMAIN queue' : /\ i + 1 \in DOMAIN queue /\ queue'[i] = queue[i + 1]
                                       /\ pending'[i] = pending[i + 1]
                                       /\ queue'[i] = r => r = Wake
           /\ queue[1] = r /\ 1 \in DOMAIN queue
           /\ Len(queue) = 1 => queue' = << >>
<1>1. queue \in Seq(Refs) /\ pending \in Seq(CallRecs) /\ Len(pending) = Len(queue)
  BY DEF Inv, Base, Typed
<1>2. PICK a, b : a = queue' /\ b = pending'
  OBVIOUS
<1>3. /\ a \in Seq(Refs) /\ Len(queue) \in Nat /\ Len(queue) > 0 /\ Len(a) = Len(queue) - 1
      /\ DOMAIN a = 1..(Len(queue) - 1) /\ DOMAIN queue = 1..Len(queue)
      /\ Head(queue) = queue[1] /\ \A i \in 1..(Len(queue) - 1) : a[i] = queue[i + 1]
      /\ Len(queue) = 1 => a = << >>
  <2>1. a = Tail(queue)
    BY <1>2
  <2> QED
    BY <1>1, <2>1, Tailed
<1>4. /\ b \in Seq(CallRecs) /\ Len(b) = Len(pending) - 1
      /\ \A i \in 1..(Len(pending) - 1) : b[i] = pending[i + 1]
  <2>1. b = Tail(pending)
    BY <1>2
  <2>2. pending # << >>
    BY <1>1, <1>3
  <2> QED
    BY <1>1, <2>1, <2>2, Tailed
<1>5. \A i \in 1..(Len(queue) - 1) : i + 1 \in DOMAIN queue /\ i + 1 # 1
  BY <1>3
<1>6. 1 \in DOMAIN queue
  BY <1>3
<1>7. \A i \in 1..(Len(queue) - 1) : queue[i + 1] = queue[1] => queue[1] = Wake
  BY <1>5, <1>6, Typing DEF Owned
<1> QED
  BY <1>1, <1>2, <1>3, <1>4, <1>5, <1>6, <1>7

(* What remains of the queue is as it was. *)
LEMMA RestKeeps ==
    ASSUME Inv, queue # << >>, NEW r, r = Head(queue),
           queue' = Tail(queue), pending' = Tail(pending),
           UNCHANGED <<emu, priority>>, Slots' = Slots,
           \A q \in Slots : q # r => Object(q)' = Object(q),
           r # Wake => (Object(r)'.executed => Object(r).executed \/ r[1] \in Synced),
           Swapping' => gl'.command = r /\ r[1] = "swap" /\ Held(r)'
    PROVE  Owned' /\ Awaited' /\ OwnArguments'
<1>1. /\ Len(pending') = Len(queue') /\ queue[1] = r /\ 1 \in DOMAIN queue
      /\ \A i \in DOMAIN queue' : /\ i + 1 \in DOMAIN queue /\ queue'[i] = queue[i + 1]
                                  /\ pending'[i] = pending[i + 1] /\ i \in Nat
                                  /\ queue'[i] = r => r = Wake
  BY TakeOff
<1>2. r = Wake \/ (Held(r) /\ r[1] \notin Priority)
  BY <1>1, Typing DEF Owned
<1>3. \A q : Held(q) /\ q # r => Held(q)' /\ Object(q)' = Object(q)
  BY DEF Held
<1>4. Wake \notin Slots /\ Wake[1] \notin Synced
  BY SlotParts DEF Wake, Types, Synced
<1>5. \A i \in DOMAIN queue' :
          queue'[i] = Wake \/ (/\ Held(queue[i])' /\ queue'[i][1] \notin Priority
                               /\ Object(queue[i])' = Object(queue[i + 1]))
  BY <1>1, <1>3, Typing DEF Owned
<1>6. priority # << >> => /\ Held(emu.command) /\ emu.command # r
                          /\ Held(emu.command)' /\ Object(emu.command)' = Object(emu.command)
  <2> SUFFICES ASSUME priority # << >>
               PROVE  /\ Held(emu.command) /\ emu.command # r
                      /\ Held(emu.command)' /\ Object(emu.command)' = Object(emu.command)
    OBVIOUS
  <2>1. Held(emu.command) /\ emu.command[1] \in Priority
    BY Typing DEF Owned
  <2>2. emu.command # r
    BY <1>2, <1>4, <2>1 DEF Held
  <2> QED
    BY <1>3, <2>1, <2>2
<1>7. Owned'
  <2>1. \A i, j \in DOMAIN queue' : queue'[i] = queue'[j] /\ queue'[i] # Wake => i = j
    <3> SUFFICES ASSUME NEW i \in DOMAIN queue', NEW j \in DOMAIN queue',
                        queue'[i] = queue'[j], queue'[i] # Wake
                 PROVE  i = j
      OBVIOUS
    <3>1. i + 1 = j + 1
      BY <1>1, Typing DEF Owned
    <3> QED
      BY <1>1, <3>1
  <2>2. Swapping' => /\ Held(gl.command)' /\ gl'.command[1] = "swap"
                     /\ \A i \in DOMAIN queue' : queue'[i] # gl'.command
    BY <1>1, <1>4 DEF Held, Wake
  <2>3. priority' # << >> => /\ priority' = <<emu'.command>> /\ Waiting'
                             /\ Held(emu.command)' /\ emu'.command[1] \in Priority
    BY <1>6, Typing DEF Owned, Waiting
  <2> QED
    BY <1>5, <2>1, <2>2, <2>3 DEF Owned
<1>8. Awaited'
  <2>1. Waiting' => emu'.command \in Slots' /\ emu'.command[1] \in Synced
    BY Typing DEF Awaited, Waiting
  <2>2. ASSUME NEW q \in Slots, Object(q)'.executed
        PROVE  Waiting /\ q = emu.command
    <3>1. CASE q # r
      BY <2>2, <3>1, Typing DEF Awaited
    <3>2. CASE q = r
      <4>1. Object(r).executed \/ r[1] \in Synced
        BY <1>4, <2>2, <3>2
      <4> QED
        BY <1>1, <3>2, <4>1, Typing DEF Awaited, Waiting
    <3> QED
      BY <3>1, <3>2
  <2>3. ASSUME NEW i \in DOMAIN queue', queue'[i][1] \in Synced
        PROVE  emu.at = "wait" /\ queue'[i] = emu.command /\ ~(Object(emu.command)'.executed)
    <3>1. /\ emu.at = "wait" /\ queue'[i] = emu.command /\ ~Object(emu.command).executed
          /\ emu.command \in Slots /\ emu.command # r
      BY <1>1, <1>4, <2>3, Typing DEF Awaited, Waiting
    <3> QED
      BY <3>1
  <2>4. priority # << >> => ~(Object(emu.command)'.executed)
    BY <1>6, Typing DEF Awaited
  <2> QED
    BY <2>1, <2>2, <2>3, <2>4 DEF Awaited, Waiting
<1>9. OwnArguments'
  BY <1>1, <1>5, Typing DEF OwnArguments
<1> QED
  BY <1>7, <1>8, <1>9

LEMMA DequeueNothingKeeps ==
    ASSUME Inv, DequeueNothing
    PROVE  Inv'
<1>1. /\ gl.at = "dequeue" /\ active = "loop" /\ gl' = [gl EXCEPT !.at = "yield"]
      /\ UNCHANGED <<emu, front, active, pool, priority, swaps, skip, presented, swapped,
                     state, stop, safe>>
  BY DEF DequeueNothing, Runs, frames, jobs, ends
<1>2. gl'.at = "yield" /\ gl'.ending = gl.ending /\ GlType' /\ ~gl.ending
  BY <1>1, Typing DEF GlType, GlAt, LastCommand
<1>3. Types1' /\ PoolType'
  BY <1>1, <1>2, Typing DEF Types1, EmuType, FrontType, StateType, FramesType, PoolType
<1>4. Control' /\ JobOwned'
  BY <1>1, <1>2, Typing DEF Control, Stopped, JobOwned, Doing
<1>5. CASE queue = << >> /\ UNCHANGED <<queue, pending>>
  <2>1. LastCommand'
    BY <1>1, <1>2, <1>5, Typing DEF LastCommand, Leaving
  <2>2. Shown' /\ UNCHANGED commands
    BY <1>1, <1>5 DEF Shown, commands
  <2> QED
    BY <1>1, <1>2, <1>3, <1>4, <2>1, <2>2, Alone DEF Swapping
<1>6. CASE queue # << >> /\ Head(queue) = Wake /\ queue' = Tail(queue) /\ pending' = Tail(pending)
  <2>1. /\ queue' \in Seq(Refs) /\ pending' \in Seq(CallRecs) /\ Len(pending') = Len(queue')
        /\ Len(queue') = Len(queue) - 1 /\ Len(queue) \in Nat /\ Len(queue) > 0
        /\ DOMAIN queue' = 1..Len(queue') /\ DOMAIN queue = 1..Len(queue)
        /\ \A i \in DOMAIN queue' : i + 1 \in DOMAIN queue /\ queue'[i] = queue[i + 1]
        /\ queue[1] = Wake
    BY <1>6, TakeOff
  <2>2. Owned' /\ Awaited' /\ OwnArguments'
    <3>1. UNCHANGED Slots /\ \A q : UNCHANGED Object(q)
      BY <1>1 DEF Slots, Object
    <3>2. PICK r : r = Head(queue)
      OBVIOUS
    <3> QED
      BY <1>1, <1>2, <1>6, <3>1, <3>2, RestKeeps DEF Swapping
  <2>3. LastCommand'
    <3>1. ~Leaving /\ ~Leaving' /\ ~gl'.ending
      BY <1>1, <1>2 DEF Leaving
    <3>2. \A i \in DOMAIN queue' : queue'[i][1] = "shutdown" => i = Len(queue') /\ emu.at = "ended"
      BY <2>1, Typing DEF LastCommand
    <3>3. ASSUME emu.at = "ended"
          PROVE  queue' # << >> /\ queue'[Len(queue')][1] = "shutdown"
      <4>1. queue[Len(queue)][1] = "shutdown"
        BY <3>1, <3>3, Typing DEF LastCommand
      <4>2. Len(queue) # 1
        BY <2>1, <4>1 DEF Wake
      <4>3. Len(queue') \in DOMAIN queue' /\ Len(queue') + 1 = Len(queue)
        BY <2>1, <4>2
      <4> QED
        BY <2>1, <4>1, <4>3
    <3> QED
      BY <1>1, <3>1, <3>2, <3>3 DEF LastCommand
  <2>4. Typed'
    BY <1>1, <1>3, <2>1 DEF Typed, Inv, Base
  <2>5. Shown'
    BY <1>1 DEF Shown
  <2> QED
    BY <1>4, <2>2, <2>3, <2>4, <2>5 DEF Inv, Base, Queues
<1> QED
  BY <1>5, <1>6 DEF DequeueNothing

LEMMA DequeueKeeps ==
    ASSUME Inv, Dequeue
    PROVE  Inv'
<1>1. PICK r : r = Head(queue)
  OBVIOUS
<1>2. /\ gl.at = "dequeue" /\ active = "loop" /\ queue # << >> /\ r # Wake /\ r[1] # "swap"
      /\ performCommand(r) /\ queue' = Tail(queue)
      /\ gl' = [gl EXCEPT !.at = "yield", !.ending = r[1] = "shutdown"]
      /\ UNCHANGED <<emu, front, active, priority, swaps, skip, presented, swapped, state,
                     stop, safe>>
  BY <1>1 DEF Dequeue, Runs, frames, jobs, ends
<1>3. r = queue[1] /\ 1 \in DOMAIN queue
  <2>1. queue \in Seq(Refs)
    BY DEF Inv, Base, Typed
  <2> QED
    BY <1>1, <1>2, <2>1
<1>4. r \in Slots /\ r[1] \notin Priority
  BY <1>2, <1>3, Typing DEF Owned, Held
<1>5. PoolType' /\ Releases(r, r[1] \in Synced) /\ pending' = Tail(pending)
  BY <1>2, <1>4, Typing, PerformReleases
<1>6. /\ queue' \in Seq(Refs) /\ pending' \in Seq(CallRecs) /\ Len(pending') = Len(queue')
      /\ Len(queue') = Len(queue) - 1 /\ Len(queue) \in Nat /\ Len(queue) > 0
      /\ DOMAIN queue' = 1..Len(queue') /\ DOMAIN queue = 1..Len(queue)
      /\ \A i \in DOMAIN queue' : i + 1 \in DOMAIN queue /\ queue'[i] = queue[i + 1]
      /\ Len(queue) = 1 => queue' = << >>
  BY <1>1, <1>2, <1>5, TakeOff
<1>7. gl'.at = "yield" /\ (gl'.ending <=> r[1] = "shutdown") /\ GlType' /\ ~gl.ending
  <2>1. PICK b \in BOOLEAN : b = (r[1] = "shutdown")
    OBVIOUS
  <2>2. gl' = [gl EXCEPT !.at = "yield", !.ending = b]
    BY <1>2, <2>1
  <2>3. gl'.at = "yield" /\ gl'.ending = b /\ GlType'
    BY <2>2, Typing DEF GlType, GlAt
  <2> QED
    BY <1>2, <2>1, <2>3, Typing DEF LastCommand
<1>8. Typed'
  <2>1. Types1'
    BY <1>2, <1>7, Typing DEF Types1, EmuType, FrontType, StateType, FramesType
  <2> QED
    BY <1>2, <1>5, <1>6, <2>1 DEF Typed, Inv, Base
<1>9. Control' /\ JobOwned'
  BY <1>2, <1>7, Typing DEF Control, Stopped, JobOwned, Doing
<1>10. LastCommand'
  <2>1. ~Leaving /\ (Leaving' <=> r[1] = "shutdown")
    BY <1>2, <1>7 DEF Leaving
  <2>2. \A i \in DOMAIN queue' : queue'[i][1] = "shutdown" => i = Len(queue') /\ emu.at = "ended"
    BY <1>6, Typing DEF LastCommand
  <2>3. r[1] = "shutdown" => emu.at = "ended" /\ queue' = << >>
    BY <1>3, <1>6, Typing DEF LastCommand
  <2>4. ASSUME emu.at = "ended", r[1] # "shutdown"
        PROVE  queue' # << >> /\ queue'[Len(queue')][1] = "shutdown"
    <3>1. queue[Len(queue)][1] = "shutdown"
      BY <2>1, <2>4, Typing DEF LastCommand
    <3>2. Len(queue) # 1
      BY <1>3, <2>4, <3>1
    <3>3. Len(queue') \in DOMAIN queue' /\ Len(queue') + 1 = Len(queue)
      BY <1>6, <3>2
    <3> QED
      BY <1>6, <3>1, <3>3
  <2> QED
    BY <1>2, <1>7, <2>1, <2>2, <2>3, <2>4 DEF LastCommand
<1>11. Owned' /\ Awaited' /\ OwnArguments'
  <2>1. PICK o \in Objects : Changes(r, o) /\ ~o.inUse /\ o.executed = (r[1] \in Synced)
    BY <1>5 DEF Releases
  <2>2. /\ Slots' = Slots /\ \A q \in Slots : q # r => Object(q)' = Object(q)
        /\ Object(r)'.executed => r[1] \in Synced
    BY <2>1 DEF Changes
  <2> QED
    BY <1>1, <1>2, <1>5, <1>7, <2>2, RestKeeps DEF Swapping
<1>12. Shown'
  BY <1>2 DEF Shown
<1> QED
  BY <1>8, <1>9, <1>10, <1>11, <1>12 DEF Inv, Base, Queues

LEMMA SwapCommandKeeps ==
    ASSUME Inv, SwapCommand
    PROVE  Inv'
<1>1. PICK r : r = Head(queue)
  OBVIOUS
<1>2. /\ gl.at = "dequeue" /\ active = "loop" /\ queue # << >> /\ r[1] = "swap"
      /\ queue' = Tail(queue) /\ pending' = Tail(pending)
      /\ presented' = Object(r).call.skip /\ swapped' = TRUE /\ active' = "front"
      /\ gl' = [gl EXCEPT !.at = "callback", !.command = r]
      /\ UNCHANGED <<emu, front, pool, priority, swaps, skip, state, stop, safe>>
  BY <1>1 DEF SwapCommand, Runs, jobs, ends
<1>3. r = queue[1] /\ 1 \in DOMAIN queue /\ r \in Refs
  <2>1. queue \in Seq(Refs)
    BY DEF Inv, Base, Typed
  <2> QED
    BY <1>1, <1>2, <2>1
<1>4. r # Wake /\ Held(r)
  <2>1. r # Wake
    BY <1>2 DEF Wake
  <2> QED
    BY <1>3, <2>1, Typing DEF Owned
<1>5. UNCHANGED Slots /\ \A q : UNCHANGED Object(q)
  BY <1>2 DEF Slots, Object
<1>6. /\ queue' \in Seq(Refs) /\ pending' \in Seq(CallRecs) /\ Len(pending') = Len(queue')
      /\ Len(queue') = Len(queue) - 1 /\ Len(queue) \in Nat /\ Len(queue) > 0
      /\ DOMAIN queue' = 1..Len(queue') /\ DOMAIN queue = 1..Len(queue)
      /\ \A i \in DOMAIN queue' : i + 1 \in DOMAIN queue /\ queue'[i] = queue[i + 1]
  BY <1>1, <1>2, TakeOff
<1>7. /\ gl'.at = "callback" /\ gl'.command = r /\ gl'.ending = gl.ending /\ ~gl.ending
      /\ GlType'
  BY <1>2, <1>3, Typing DEF GlType, GlAt, LastCommand
<1>8. Object(r).call.skip \in BOOLEAN
  <2>1. r = <<r[1], r[2]>> /\ r[1] \in Types /\ r[2] \in DOMAIN pool[r[1]].objects
    BY <1>4, SlotParts DEF Held
  <2>2. Object(r) \in Objects
    BY <2>1, Typing DEF PoolType, Object
  <2> QED
    BY <2>2 DEF Objects, CallRecs
<1>9. Typed'
  <2>1. EmuType' /\ FrontType' /\ StateType' /\ swaps' \in Int /\ PoolType'
    BY <1>2, Typing DEF EmuType, FrontType, StateType, PoolType
  <2>2. FramesType'
    BY <1>2, <1>8, Typing DEF FramesType
  <2> QED
    BY <1>2, <1>6, <1>7, <2>1, <2>2 DEF Typed, Types1, Inv, Base
<1>10. Control' /\ JobOwned'
  BY <1>2, <1>7, Typing DEF Control, Stopped, JobOwned, Doing
<1>11. LastCommand'
  <2>1. ~Leaving /\ ~Leaving'
    BY <1>2, <1>7 DEF Leaving
  <2>2. \A i \in DOMAIN queue' : queue'[i][1] = "shutdown" => i = Len(queue') /\ emu.at = "ended"
    BY <1>6, Typing DEF LastCommand
  <2>3. ASSUME emu.at = "ended"
        PROVE  queue' # << >> /\ queue'[Len(queue')][1] = "shutdown"
    <3>1. queue[Len(queue)][1] = "shutdown"
      BY <2>1, <2>3, Typing DEF LastCommand
    <3>2. Len(queue) # 1
      BY <1>2, <1>3, <3>1
    <3>3. Len(queue') \in DOMAIN queue' /\ Len(queue') + 1 = Len(queue)
      BY <1>6, <3>2
    <3> QED
      BY <1>6, <3>1, <3>3
  <2> QED
    BY <1>2, <1>7, <2>1, <2>2, <2>3 DEF LastCommand
<1>12. Owned' /\ Awaited' /\ OwnArguments'
  <2>1. Held(r)' <=> Held(r)
    BY <1>5 DEF Held
  <2> QED
    BY <1>1, <1>2, <1>4, <1>5, <1>7, <2>1, RestKeeps
<1>13. Shown'
  BY <1>2, <1>5, <1>7 DEF Shown
<1> QED
  BY <1>9, <1>10, <1>11, <1>12, <1>13 DEF Inv, Base, Queues

LEMMA DequeuePriorityKeeps ==
    ASSUME Inv, DequeuePriority
    PROVE  Inv'
<1>1. /\ gl.at = "drain" /\ active = "loop"
      /\ UNCHANGED <<emu, front, active, queue, swaps, skip, presented, swapped, state, stop, safe>>
  BY DEF DequeuePriority, Runs, frames, jobs, ends
<1>2. Control' /\ JobOwned' /\ Shown' /\ LastCommand' /\ GlType' /\ gl'.at \in {"drain", "yield"}
  <2>1. CASE priority = << >>
    <3>1. gl' = [gl EXCEPT !.at = "yield"]
      BY <2>1 DEF DequeuePriority
    <3>2. gl'.at = "yield" /\ gl'.ending = gl.ending /\ GlType'
      BY <3>1, Typing DEF GlType, GlAt
    <3> QED
      BY <1>1, <3>2, Typing
         DEF Control, Stopped, JobOwned, Doing, Shown, LastCommand, Leaving
  <2>2. CASE priority # << >>
    <3>1. UNCHANGED gl
      BY <2>2 DEF DequeuePriority
    <3> QED
      BY <1>1, <3>1, Typing
         DEF Control, Stopped, JobOwned, Doing, Shown, LastCommand, Leaving, GlType
  <2> QED
    BY <2>1, <2>2
<1>3. Types1'
  BY <1>1, <1>2, Typing DEF Types1, EmuType, FrontType, StateType, FramesType
<1>4. ~Swapping /\ ~Swapping'
  BY <1>1, <1>2 DEF Swapping
<1>5. CASE priority = << >>
  <2>1. UNCHANGED commands
    BY <1>1, <1>5 DEF DequeuePriority, commands
  <2> QED
    BY <1>1, <1>2, <1>3, <1>4, <2>1, Alone
<1>6. CASE priority # << >>
  <2>1. PICK r : r = Head(priority)
    OBVIOUS
  <2>2. /\ priority = <<r>> /\ r = emu.command /\ Waiting /\ Held(r) /\ r[1] \in Priority
        /\ r[1] \in Synced
    <3>1. priority = <<emu.command>> /\ Waiting /\ Held(emu.command) /\ emu.command[1] \in Priority
      BY <1>6, Typing DEF Owned
    <3> QED
      BY <2>1, <3>1 DEF Priority, Synced
  <2>3. performCommand(r) /\ priority' = Tail(priority)
    BY <1>6, <2>1 DEF DequeuePriority
  <2>4. priority' = << >>
    BY <2>2, <2>3
  <2>5. PoolType' /\ Releases(r, TRUE) /\ pending' = pending
    <3>1. (r[1] \in Synced) = TRUE
      BY <2>2
    <3>2. r \in Slots
      BY <2>2 DEF Held
    <3>3. PoolType' /\ Releases(r, r[1] \in Synced) /\ pending' = pending
      BY <2>2, <2>3, <3>2, Typing, PerformReleases
    <3> QED
      BY <3>1, <3>3
  <2>6. Slots' = Slots /\ \A q \in Slots : q # r => Object(q)' = Object(q)
    BY <2>5 DEF Releases, Changes
  <2>7. \A i \in DOMAIN queue : /\ queue[i] # r /\ queue[i][1] \notin Synced
                                /\ queue[i] = Wake \/ (/\ Held(queue[i])' /\ queue[i][1] \notin Priority
                                                       /\ Object(queue[i])' = Object(queue[i]))
    <3>1. ASSUME NEW i \in DOMAIN queue PROVE queue[i][1] \notin Synced \/ queue[i] = r
      BY <2>2, Typing DEF Awaited
    <3>2. ASSUME NEW i \in DOMAIN queue PROVE queue[i] # r
      BY <2>2, Typing DEF Owned, Wake, Priority
    <3> QED
      BY <1>1, <2>6, <3>1, <3>2, Typing DEF Owned, Held
  <2>8. Owned'
    BY <1>1, <1>4, <2>4, <2>7, Typing DEF Owned
  <2>9. Awaited'
    BY <1>1, <2>2, <2>4, <2>6, <2>7, Typing DEF Awaited, Waiting
  <2>10. OwnArguments'
    BY <1>1, <2>5, <2>7, Typing DEF OwnArguments
  <2>11. Typed'
    <3>1. queue \in Seq(Refs) /\ pending \in Seq(CallRecs) /\ Len(pending) = Len(queue)
      BY DEF Inv, Base, Typed
    <3> QED
      BY <1>1, <1>3, <2>4, <2>5, <3>1 DEF Typed
  <2> QED
    BY <1>2, <2>8, <2>9, <2>10, <2>11 DEF Inv, Base, Queues
<1> QED
  BY <1>5, <1>6

LEMMA ReduceSwapBuffersQueuedKeeps ==
    ASSUME Inv, ReduceSwapBuffersQueued
    PROVE  Inv'
<1>1. PICK r : r = gl.command
  OBVIOUS
<1>2. /\ gl.at = "notify" /\ active = "loop"
      /\ emu' = IF swaps <= MAX_SWAP /\ emu.at = "asleep" THEN [emu EXCEPT !.at = "limit"] ELSE emu
      /\ pool' = [pool EXCEPT !["swap"].objects = Release(@, r[2])]
      /\ gl' = [gl EXCEPT !.at = "yield", !.command = Wake]
      /\ UNCHANGED <<front, active, queue, priority, pending, swaps, skip, presented, swapped,
                     state, stop, safe>>
  BY <1>1 DEF ReduceSwapBuffersQueued, Runs, frames, jobs, ends
<1>3. Held(r) /\ r \in Slots /\ r[1] = "swap" /\ \A i \in DOMAIN queue : queue[i] # r
  BY <1>1, <1>2, Typing DEF Owned, Swapping, Held
<1>4. PoolType' /\ Releases(r, Object(r).executed)
  BY <1>2, <1>3, Typing, ReduceReleases
<1>5. /\ Slots' = Slots /\ \A q \in Slots : q # r => Object(q)' = Object(q)
      /\ Object(r)'.executed = Object(r).executed
  BY <1>4 DEF Releases, Changes
<1>6. gl'.at = "yield" /\ gl'.ending = gl.ending /\ GlType' /\ ~gl.ending
  <2>1. Wake \in Refs
    BY DEF Wake, Refs
  <2> QED
    BY <1>2, <2>1, Typing DEF GlType, GlAt, LastCommand
<1>7. /\ EmuType' /\ emu'.command = emu.command
      /\ emu'.at = emu.at \/ (emu.at = "asleep" /\ emu'.at = "limit")
  BY <1>2, Typing DEF EmuType, EmuAt
<1>8. Typed'
  <2>1. Types1'
    BY <1>2, <1>6, <1>7, Typing DEF Types1, FrontType, StateType, FramesType
  <2> QED
    BY <1>2, <1>4, <2>1 DEF Typed, Inv, Base
<1>9. Control' /\ JobOwned' /\ LastCommand'
  <2>1. Control'
    BY <1>2, <1>6, <1>7, Typing DEF Control, Stopped
  <2>2. JobOwned'
    BY <1>2, <1>7, Typing DEF JobOwned, Doing
  <2>3. LastCommand'
    BY <1>2, <1>6, <1>7, Typing DEF LastCommand, Leaving
  <2> QED
    BY <2>1, <2>2, <2>3
<1>10. (Waiting' <=> Waiting) /\ (emu'.at = "wait" <=> emu.at = "wait")
  BY <1>7 DEF Waiting
<1>11. Waiting => emu.command # r
  BY <1>3, Typing DEF Awaited, Synced
<1>12. \A q : Held(q) /\ q # r => Held(q)' /\ Object(q)' = Object(q)
  BY <1>5 DEF Held
<1>13. Owned'
  <2>1. ~(Swapping')
    BY <1>6 DEF Swapping
  <2>2. priority' # << >> => /\ priority' = <<emu'.command>> /\ Waiting'
                             /\ Held(emu.command)' /\ emu'.command[1] \in Priority
    BY <1>2, <1>7, <1>10, <1>11, <1>12, Typing DEF Owned
  <2>3. \A i \in DOMAIN queue' :
            queue'[i] = Wake \/ (Held(queue[i])' /\ queue'[i][1] \notin Priority)
    BY <1>2, <1>3, <1>12, Typing DEF Owned
  <2> QED
    BY <1>2, <2>1, <2>2, <2>3, Typing DEF Owned
<1>14. Awaited'
  <2>1. Waiting' => emu'.command \in Slots' /\ emu'.command[1] \in Synced
    BY <1>5, <1>7, <1>10, Typing DEF Awaited
  <2>2. \A q \in Slots' : Object(q)'.executed => Waiting' /\ q = emu'.command
    BY <1>5, <1>7, <1>10, Typing DEF Awaited
  <2>3. Waiting => Object(emu.command)' = Object(emu.command)
    <3> SUFFICES ASSUME Waiting PROVE Object(emu.command)' = Object(emu.command)
      OBVIOUS
    <3>1. emu.command \in Slots /\ emu.command # r
      BY <1>11, Typing DEF Awaited
    <3>2. PICK q : q = emu.command
      OBVIOUS
    <3> QED
      BY <1>5, <1>7, <3>1, <3>2
  <2>4. priority # << >> => Waiting
    BY Typing DEF Owned
  <2>5. \A i \in DOMAIN queue' : queue'[i][1] \in Synced =>
            emu'.at = "wait" /\ queue'[i] = emu'.command /\ ~(Object(emu.command)'.executed)
    BY <1>2, <1>7, <1>10, <2>3, Typing DEF Awaited, Waiting
  <2>6. priority' # << >> => ~(Object(emu.command)'.executed)
    BY <1>2, <2>3, <2>4, Typing DEF Awaited
  <2> QED
    BY <2>1, <2>2, <2>5, <2>6 DEF Awaited
<1>15. OwnArguments'
  BY <1>2, <1>3, <1>12, Typing DEF OwnArguments, Owned
<1>16. Shown'
  BY <1>2 DEF Shown
<1> QED
  BY <1>8, <1>9, <1>13, <1>14, <1>15, <1>16 DEF Inv, Base, Queues

LEMMA InvInit == Init => Inv
<1> SUFFICES ASSUME Init PROVE Inv
  OBVIOUS
<1> USE DEF Init
<1>1. NoCall \in CallRecs /\ Wake \in Refs
  BY DEF NoCall, CallRecs, Wake, Refs
<1>2. Types1
  <2>1. EmuType
    BY <1>1 DEF EmuType, EmuAt, Resting
  <2>2. GlType
    BY <1>1 DEF GlType, GlAt
  <2>3. FrontType
    BY DEF FrontType, FrontAt
  <2>4. StateType
    BY DEF StateType
  <2>5. FramesType
    BY Zenon DEF FramesType
  <2>6. swaps \in Int
    OBVIOUS
  <2> QED
    BY <2>1, <2>2, <2>3, <2>4, <2>5, <2>6 DEF Types1
<1>3. PoolType
  <2> DEFINE o == [inUse |-> FALSE, executed |-> FALSE, call |-> NoCall]
  <2>1. o \in Objects
    BY <1>1 DEF Objects
  <2> HIDE DEF o
  <2>2. <<o>> \in Seq(Objects) /\ Len(<<o>>) = 1
    BY <2>1
  <2>3. pool = [t \in Types |-> [objects |-> <<o>>, index |-> 0]]
    BY DEF o
  <2> HIDE DEF Init
  <2> QED
    BY <2>2, <2>3 DEF PoolType
<1>4. Typed
  <2>1. << >> \in Seq(Refs) /\ << >> \in Seq(CallRecs)
    OBVIOUS
  <2> QED
    BY <1>2, <1>3, <2>1 DEF Typed
<1>5. Control /\ JobOwned /\ LastCommand
  <2>1. /\ emu.at = "ended" /\ gl.at = "over" /\ gl.ending = FALSE /\ front.at = "unloaded"
        /\ active = "front" /\ state.job = "nothing" /\ stop = FALSE /\ safe = FALSE
        /\ queue = << >> /\ DOMAIN queue = {}
    BY DEF Resting
  <2> HIDE DEF Init
  <2> QED
    BY <2>1 DEF Control, JobOwned, LastCommand, Stopped, Doing, Leaving
<1>6. \A r \in Slots : ~Object(r).executed
  <2>1. \A t \in Types : DOMAIN pool[t].objects = {1} /\ ~pool[t].objects[1].executed
    OBVIOUS
  <2> QED
    BY <2>1, SlotsAre DEF Object
<1>7. Owned /\ OwnArguments /\ Shown
  BY DEF Owned, OwnArguments, Shown, Swapping
<1>8. Awaited
  BY <1>6 DEF Awaited, Waiting, Resting
<1> QED
  BY <1>4, <1>5, <1>7, <1>8 DEF Inv, Base, Queues

LEMMA StutterKeeps ==
    ASSUME Inv, UNCHANGED vars
    PROVE  Inv'
<1>1. UNCHANGED <<emu, gl, front, active, commands, swaps, skip, presented, swapped, state, stop,
                  safe>>
  BY DEF vars, frames, jobs, ends
<1>2. Types1'
  BY <1>1, Typing DEF Types1, EmuType, GlType, FrontType, StateType, FramesType
<1>3. Control' /\ JobOwned'
  BY <1>1, Typing DEF Control, Stopped, JobOwned, Doing
<1>4. LastCommand'
  BY <1>1, Typing DEF LastCommand, Leaving, commands
<1>5. Shown'
  BY <1>1, Typing DEF Shown, Object, commands
<1> QED
  BY <1>1, <1>2, <1>3, <1>4, <1>5, Alone DEF Swapping

LEMMA InvNext ==
    ASSUME Inv, [Next]_vars
    PROVE  Inv'
<1>1. CASE Emulation
  BY <1>1, CallKeeps, EnqueueWakeKeeps, WaitOnCommandKeeps, StoreCountKeeps, QuitKeeps,
     EmulationAlone DEF Emulation, Works
<1>2. CASE commandLoop
  BY <1>2, DequeuePriorityKeeps, DequeueNothingKeeps, DequeueKeeps, SwapCommandKeeps,
     ReduceSwapBuffersQueuedKeeps, LoopAlone DEF commandLoop
<1>3. CASE FrontendThread
  BY <1>3, LoadGameKeeps, RunKeeps, PresentKeeps, SerializeKeeps, StoreNameKeeps, AwaitJobKeeps,
     ReturnKeeps, UnloadGameKeeps, AwaitShutdownKeeps DEF FrontendThread
<1>4. CASE UNCHANGED vars
  BY <1>4, StutterKeeps
<1> QED
  BY <1>1, <1>2, <1>3, <1>4 DEF Next

(* Control and Queues hold for every set of races: what the threads do to  *)
(* the command queues and the pools is under their mutexes.                *)
THEOREM Invariant == Spec => []Inv
  BY InvInit, InvNext, PTL DEF Spec

(* The calls without priority are executed in their order and each with    *)
(* its own arguments: getAvailableObject never takes an object whose       *)
(* command is queued, whatever races.                                      *)
THEOREM CallsInOrder == Spec => []OwnArguments
<1>1. Inv => OwnArguments
  BY Typing
<1> QED
  BY <1>1, Invariant, PTL

(* When waitOnCommand returns, its command has been executed: no synced    *)
(* command is left in a queue while the emulation thread is between calls. *)
THEOREM WaitsForItsOwn == Spec => []ReturnsExecuted
<1>1. ASSUME Inv PROVE ReturnsExecuted
  <2> SUFFICES ASSUME emu.at \in {"game", "quitted"},
                      NEW r \in Range(queue) \cup Range(priority), r[1] \in Synced
               PROVE  FALSE
    BY DEF ReturnsExecuted
  <2>1. ~Waiting /\ emu.at # "wait"
    BY DEF Waiting
  <2>2. priority = << >>
    BY <2>1, <1>1, Typing DEF Owned
  <2>3. r \in Range(queue)
    BY <2>2 DEF Range
  <2>4. PICK i \in DOMAIN queue : r = queue[i]
    BY <2>3 DEF Range
  <2> QED
    BY <2>1, <2>4, <1>1, Typing DEF Awaited
<1> QED
  BY <1>1, Invariant, PTL

(* A frame is presented or skipped as retro_run had asked for when the     *)
(* game produced it, however many frames are queued meanwhile.             *)
THEOREM SkipsTheRightFrame == Spec => []ShownAsProduced
<1>1. Inv => ShownAsProduced
  BY Typing DEF Shown, ShownAsProduced, In
<1> QED
  BY <1>1, Invariant, PTL

-----------------------------------------------------------------------------
(* The counter of queued frames.                                           *)

LEMMA QueueTyped ==
    ASSUME Inv
    PROVE  /\ queue \in Seq(Refs) /\ SwapsQueued(queue) \in Nat /\ ShownNow \in {0, 1}
           /\ (ShownNow = 1 <=> gl.at \in {"callback", "store"})
<1>1. queue \in Seq(Refs)
  BY DEF Inv, Base, Typed
<1> QED
  BY <1>1, SwapsFinite DEF ShownNow

(* Steps that leave the counter and the number of frames alone. *)
LEMMA CountKept ==
    ASSUME Counting, UNCHANGED <<swaps, SwapsQueued(queue), ShownNow>>,
           emu'.at = "store" => UNCHANGED <<emu.at, emu.count>>,
           emu'.at = "load" => emu.at = "load" \/ swaps <= MAX_SWAP,
           gl'.at = "store" => UNCHANGED <<gl.at, gl.count>>
    PROVE  Counting'
  BY DEF Counting

LEMMA TailCounts ==
    ASSUME Inv, queue # << >>, queue' = Tail(queue)
    PROVE  SwapsQueued(queue) = SwapsQueued(queue)' + (IF Head(queue)[1] = "swap" THEN 1 ELSE 0)
  BY QueueTyped, SwapsTail

(* Issuing a command counts a frame if it is a swap. *)
LEMMA ExecuteCounts ==
    ASSUME Inv, NEW t \in Types, NEW next, Execute(t, next)
    PROVE  /\ SwapsQueued(queue)' = SwapsQueued(queue) + (IF t = "swap" THEN 1 ELSE 0)
           /\ emu'.at \in {"wake", "wait", next}
           /\ t = "swap" => emu'.at = next
<1>1. PICK r \in Types \X Nat, c \in CallRecs : r[1] = t /\ Issues(r, c, next)
  BY ExecuteIssues DEF Inv, Base
<1>2. r \in Refs
  BY DEF Refs
<1>3. SwapsQueued(queue)' = SwapsQueued(queue) + (IF t = "swap" THEN 1 ELSE 0)
  <2>1. CASE t \in Priority
    <3>1. queue' = queue /\ t # "swap"
      BY <1>1, <2>1 DEF Issues, Priority
    <3> QED
      BY <3>1, QueueTyped
  <2>2. CASE t \notin Priority
    <3>1. queue' = Append(queue, r)
      BY <1>1, <2>2 DEF Issues
    <3>2. SwapsQueued(Append(queue, r)) = SwapsQueued(queue) + (IF r[1] = "swap" THEN 1 ELSE 0)
      BY <1>2, QueueTyped, SwapsAppend
    <3> QED
      BY <1>1, <3>1, <3>2
  <2> QED
    BY <2>1, <2>2
<1>4. emu \in [at : EmuAt, command : Refs, count : Int, ret : BOOLEAN]
  BY Typing DEF EmuType
<1>5. emu'.at \in {"wake", "wait", next} /\ (t \notin Priority \cup Synced => emu'.at = next)
  <2>1. CASE t \in Priority
    <3>1. emu' = [emu EXCEPT !.at = "wake", !.command = r]
      BY <1>1, <2>1 DEF Issues
    <3> QED
      BY <1>4, <2>1, <3>1
  <2>2. CASE t \in Synced \ Priority
    <3>1. emu' = [emu EXCEPT !.at = "wait", !.command = r]
      BY <1>1, <2>2 DEF Issues
    <3> QED
      BY <1>4, <2>2, <3>1
  <2>3. CASE t \notin Synced /\ t \notin Priority
    <3>1. emu' = Resting(next)
      BY <1>1, <2>3 DEF Issues
    <3> QED
      BY <3>1 DEF Resting
  <2> QED
    BY <2>1, <2>2, <2>3
<1> QED
  BY <1>3, <1>5 DEF Priority, Synced

LEMMA WakeCounts ==
    ASSUME Inv, queue' = Append(queue, Wake)
    PROVE  SwapsQueued(queue)' = SwapsQueued(queue)
<1>1. Wake \in Refs /\ Wake[1] # "swap"
  BY DEF Wake, Refs
<1> QED
  BY <1>1, QueueTyped, SwapsAppend

LEMMA NextQueueTyped ==
    ASSUME Inv, [Next]_vars
    PROVE  SwapsQueued(queue)' \in Nat
<1>1. Inv'
  BY InvNext
<1>2. queue' \in Seq(Refs)
  BY <1>1 DEF Inv, Base, Typed
<1> QED
  BY <1>2, SwapsFinite

LEMMA CountingNext ==
    ASSUME Inv, Counting, [Next]_vars, "counter" \notin Races
    PROVE  Counting'
<1> USE Typing DEF EmuType, GlType
<1>1. CASE \E t \in Types : Call(t)
  <2>1. PICK t \in Types : Call(t)
    BY <1>1
  <2>2. Execute(t, "game") /\ t # "swap" /\ UNCHANGED <<gl, swaps>>
    BY <2>1, Constants DEF Call
  <2>3. SwapsQueued(queue)' = SwapsQueued(queue) /\ emu'.at \in {"wake", "wait", "game"}
    BY <2>2, ExecuteCounts, QueueTyped
  <2> QED
    BY <2>2, <2>3, CountKept DEF ShownNow
<1>2. CASE EnqueueWake
  <2>1. SwapsQueued(queue)' = SwapsQueued(queue)
    BY <1>2, WakeCounts DEF EnqueueWake
  <2> QED
    BY <1>2, <2>1, CountKept DEF EnqueueWake, ShownNow
<1>3. CASE waitOnCommand
  BY <1>3, CountKept DEF waitOnCommand, Resting, ShownNow
<1>4. CASE SwapBuffers \/ TestLimit \/ Block
  BY <1>4, CountKept DEF SwapBuffers, TestLimit, Block, ShownNow, commands
<1>5. CASE LoadCount
  BY <1>5 DEF LoadCount, Through, Counting, ShownNow, commands
<1>6. CASE StoreCount
  <2>1. /\ Execute("swap", "game") /\ emu.at = "store" /\ swaps' = emu.count + 1
        /\ UNCHANGED gl /\ "swap" \in Types
    BY <1>6 DEF StoreCount, Types
  <2>2. SwapsQueued(queue)' = SwapsQueued(queue) + 1 /\ emu'.at = "game"
    BY <2>1, ExecuteCounts
  <2> QED
    BY <2>1, <2>2, Constants, QueueTyped DEF Counting, ShownNow
<1>7. CASE Interrupt \/ Works \/ Forget \/ StateChanged \/ savestates_clear_job
  <2>1. UNCHANGED <<queue, swaps, gl>> /\ emu'.at \notin {"load", "store"}
    BY <1>7 DEF Interrupt, Works, savestates_save, savestates_load, Forget, StateChanged,
                n64StateCallback, savestates_clear_job, commands
  <2> QED
    BY <2>1, CountKept DEF ShownNow
<1>8. CASE Quit
  <2>1. PICK t \in {"quit", "shutdown"}, next \in {"quitted", "ended"} : Execute(t, next)
    BY <1>8 DEF Quit
  <2>2. t \in Types /\ t # "swap"
    BY DEF Types
  <2>3. /\ SwapsQueued(queue)' = SwapsQueued(queue)
        /\ emu'.at \in {"wake", "wait", "quitted", "ended"}
    BY <2>1, <2>2, ExecuteCounts, QueueTyped
  <2>4. UNCHANGED <<gl, swaps>>
    BY <1>8 DEF Quit
  <2> QED
    BY <2>3, <2>4, CountKept DEF ShownNow
<1>9. CASE Start \/ Peek \/ Yield \/ Exit
  <2>1. /\ UNCHANGED <<queue, swaps, emu>> /\ gl.at \notin {"callback", "store"}
        /\ gl'.at \notin {"callback", "store"}
    BY <1>9 DEF Start, Peek, Yield, Exit, Runs, commands
  <2> QED
    BY <2>1, CountKept DEF ShownNow
<1>10. CASE DequeuePriority
  <2>1. /\ UNCHANGED <<queue, swaps, emu>> /\ gl.at \notin {"callback", "store"}
        /\ gl'.at \notin {"callback", "store"}
    BY <1>10 DEF DequeuePriority, Runs
  <2> QED
    BY <2>1, CountKept DEF ShownNow
<1>11. CASE DequeueNothing \/ Dequeue
  <2>1. /\ UNCHANGED <<swaps, emu>> /\ gl.at = "dequeue" /\ gl'.at = "yield"
        /\ \/ UNCHANGED queue
           \/ queue # << >> /\ queue' = Tail(queue) /\ Head(queue)[1] # "swap"
    <3>1. CASE DequeueNothing
      <4>1. Head(queue) = Wake => Head(queue)[1] # "swap"
        BY DEF Wake
      <4> QED
        BY <3>1, <4>1 DEF DequeueNothing, Runs
    <3>2. CASE Dequeue
      <4>1. gl'.at = "yield"
        BY <3>2 DEF Dequeue
      <4> QED
        BY <3>2, <4>1 DEF Dequeue, Runs
    <3> QED
      BY <1>11, <3>1, <3>2
  <2>2. UNCHANGED SwapsQueued(queue)
    BY <2>1, TailCounts, QueueTyped, NextQueueTyped
  <2> QED
    BY <2>1, <2>2, CountKept DEF ShownNow
<1>12. CASE SwapCommand
  <2>1. /\ UNCHANGED <<swaps, emu>> /\ gl.at = "dequeue" /\ gl'.at = "callback"
        /\ queue # << >> /\ queue' = Tail(queue) /\ Head(queue)[1] = "swap"
    BY <1>12 DEF SwapCommand, Runs
  <2>2. SwapsQueued(queue) = SwapsQueued(queue)' + 1
    BY <2>1, TailCounts
  <2>3. SwapsQueued(queue)' \in Nat
    BY NextQueueTyped
  <2> QED
    BY <2>1, <2>2, <2>3 DEF Counting, ShownNow
<1>13. CASE LoadCountDown
  BY <1>13 DEF LoadCountDown, Runs, Through, Counting, ShownNow, commands
<1>14. CASE StoreCountDown
  <2>1. /\ gl.at = "store" /\ gl'.at = "notify" /\ swaps' = gl.count - 1
        /\ UNCHANGED <<emu, queue>>
    BY <1>14 DEF StoreCountDown, Runs, commands
  <2> QED
    BY <2>1, Constants, QueueTyped DEF Counting, ShownNow
<1>15. CASE ReduceSwapBuffersQueued
  <2>1. /\ UNCHANGED <<queue, swaps>> /\ gl.at = "notify" /\ gl'.at = "yield"
        /\ UNCHANGED emu \/ emu'.at = "limit"
    BY <1>15 DEF ReduceSwapBuffersQueued, Runs
  <2> QED
    BY <2>1, CountKept DEF ShownNow
<1>16. CASE FrontendThread
  <2>1. /\ UNCHANGED <<queue, swaps>>
        /\ UNCHANGED emu \/ emu'.at \in {"new", "game"}
        /\ UNCHANGED gl \/ (gl.at = "over" /\ gl'.at = "start")
    BY <1>16
       DEF FrontendThread, retro_load_game, retro_run, Present, Serialize, StoreName, AwaitJob,
           Return, retro_unload_game, AwaitShutdown, In, commands, Control
  <2> QED
    BY <2>1, CountKept DEF ShownNow
<1>17. CASE UNCHANGED vars
  BY <1>17, CountKept DEF vars, commands, ShownNow
<1> QED
  BY <1>1, <1>2, <1>3, <1>4, <1>5, <1>6, <1>7, <1>8, <1>9, <1>10, <1>11, <1>12, <1>13, <1>14,
     <1>15, <1>16, <1>17 DEF Next, Emulation, Works, commandLoop

(* m_swapBuffersQueued is the number of frames that are queued or being    *)
(* shown, at every step of the two threads, if ++ and -- are atomic.       *)
THEOREM CountInvariant ==
    ASSUME "counter" \notin Races
    PROVE  Spec => [](Inv /\ Counting)
<1>1. ASSUME Init PROVE Counting
  <2>1. queue = << >> /\ swaps = 0 /\ emu.at = "ended" /\ gl.at = "over"
    BY <1>1 DEF Init, Resting
  <2>2. SwapsQueued(queue) = 0
    <3>1. {i \in DOMAIN queue : queue[i][1] = "swap"} = {}
      BY <2>1
    <3> QED
      BY <3>1, FS_EmptySet DEF SwapsQueued
  <2> QED
    BY <2>1, <2>2, Constants DEF Counting, ShownNow
<1>2. ASSUME Inv, Counting, [Next]_vars PROVE Counting'
  BY <1>2, CountingNext
<1> QED
  BY <1>1, <1>2, InvInit, InvNext, PTL DEF Spec

(* The variables of the three threads hold values of their types, the      *)
(* object pools keep their index inside, and m_swapBuffersQueued does not  *)
(* go below 0, if its ++ and -- do not interrupt each other.               *)
THEOREM FrontendTypes ==
    ASSUME "counter" \notin Races
    PROVE  Spec => []TypeOK
<1>1. ASSUME Inv, Counting PROVE TypeOK
  <2>1. emu.at \in EmuAt /\ gl.at \in GlAt /\ front.at \in FrontAt
    BY <1>1, Typing DEF EmuType, GlType, FrontType
  <2>2. \A t \in Types : pool[t].index \in 0..Len(pool[t].objects)
    BY <1>1, Typing DEF PoolType
  <2> QED
    BY <1>1, <2>1, <2>2, Typing
       DEF TypeOK, Counting, Control, EmuAt, GlAt, FrontAt, Finishing
<1> QED
  BY <1>1, CountInvariant, PTL

(* WaitForSwapBuffersQueued keeps the game at most ThreadedRenderer-       *)
(* QueueDepth frames ahead of the one that is shown, if the ++ and -- of   *)
(* m_swapBuffersQueued do not interrupt each other.                        *)
THEOREM DepthIsKept ==
    ASSUME "counter" \notin Races
    PROVE  Spec => []FramesAhead
<1>1. ASSUME Inv, Counting PROVE FramesAhead
  BY <1>1 DEF Counting, FramesAhead
<1> QED
  BY <1>1, CountInvariant, PTL

(* retro_unload_game returns when the loop is over, which is when it has   *)
(* executed the shutdown command, the last that is queued: the next game   *)
(* finds no command, no frame and no job of this one.                      *)
THEOREM CleanShutdown ==
    ASSUME "counter" \notin Races
    PROVE  Spec => []NothingLeft
<1>1. ASSUME Inv, Counting PROVE NothingLeft
  <2> SUFFICES ASSUME front.at = "unloaded"
               PROVE  /\ queue = << >> /\ priority = << >> /\ pending = << >>
                      /\ swaps = 0 /\ state.job = "nothing"
    BY DEF NothingLeft
  <2>1. emu.at = "ended" /\ gl.at = "over"
    BY <1>1, Typing DEF Control
  <2>2. queue = << >>
    BY <1>1, <2>1, Typing DEF LastCommand, Leaving
  <2>3. priority = << >>
    BY <1>1, <2>1, Typing DEF Owned, Waiting
  <2>4. pending = << >>
    BY <1>1, <2>2 DEF Inv, Base, Typed
  <2>5. swaps = 0
    <3>1. {i \in DOMAIN queue : queue[i][1] = "swap"} = {}
      BY <2>2
    <3>2. SwapsQueued(queue) = 0
      BY <3>1, FS_EmptySet DEF SwapsQueued
    <3> QED
      BY <1>1, <2>1, <3>2 DEF Counting, ShownNow
  <2>6. state.job = "nothing"
    BY <1>1, <2>1, Typing DEF JobOwned, Doing
  <2> QED
    BY <2>2, <2>3, <2>4, <2>5, <2>6
<1> QED
  BY <1>1, CountInvariant, PTL

-----------------------------------------------------------------------------
(* Savestate jobs.                                                         *)

(* Steps that leave the variables of jobs alone. *)
Busy == Doing \/ emu.at = "unname"

LEMMA JobKept ==
    ASSUME JobDone, UNCHANGED <<front, state, served>>,
           UNCHANGED <<emu.at, emu.ret>> \/ (~Busy /\ ~Busy')
    PROVE  JobDone'
  BY DEF JobDone, Doing, Busy, Said

(* Steps of the emulation thread that do a job, report it and clear it. *)
LEMMA JobSteps ==
    ASSUME Inv, JobDone, {"job", "result", "clear"} \cap Races = {},
           Interrupt \/ Works \/ Forget \/ StateChanged \/ savestates_clear_job
    PROVE  JobDone'
<1> USE Typing DEF EmuType, FrontType, StateType
<1>1. UNCHANGED front
  BY DEF Interrupt, Works, savestates_save, savestates_load, Forget, StateChanged,
         n64StateCallback, savestates_clear_job
<1>2. CASE Interrupt
  <2>1. /\ emu.at = "game" /\ state.job # "nothing" /\ front.at # "fname"
        /\ emu'.at \in {"save", "restore"} /\ UNCHANGED <<state, served>>
    BY <1>2 DEF Interrupt, Through, jobs
  <2>2. front.at = "loop" /\ ~state.complete
    BY <2>1 DEF JobOwned, Doing
  <2> QED
    BY <1>1, <2>1, <2>2 DEF JobDone, Doing, Said
<1>3. CASE Works
  <2>1. PICK o \in Outcomes : savestates_save(o) \/ savestates_load(o)
    BY <1>3 DEF Works
  <2>2. /\ emu.at \in {"save", "restore"} /\ front.at = "loop" /\ ~state.complete
        /\ served = NoBuffer /\ state.fname = front.buffer /\ front.buffer # NoBuffer
    BY <2>1 DEF savestates_save, savestates_load, JobDone
  <2>3. /\ emu'.at \in {"worked", "forget"} /\ emu'.ret = (o = "done")
        /\ served' = IF o = "done" THEN front.buffer ELSE NoBuffer
        /\ UNCHANGED state.complete
    BY <2>1, <2>2 DEF savestates_save, savestates_load
  <2> QED
    BY <1>1, <2>2, <2>3 DEF JobDone, Doing, Said
<1>4. CASE Forget
  <2>1. /\ emu.at = "forget" /\ emu'.at = "complete" /\ emu'.ret = emu.ret
        /\ UNCHANGED <<state.complete, state.result, state.job, served>>
    BY <1>4 DEF Forget
  <2> QED
    BY <1>1, <2>1 DEF JobDone, Doing, Said
<1>5. CASE StateChanged /\ emu.at \in {"worked", "complete"}
  <2>1. /\ emu'.at = IF emu.at = "worked" THEN "stored" ELSE "result"
        /\ emu'.ret = emu.ret /\ state'.complete = TRUE
        /\ UNCHANGED <<state.result, state.job, served>>
    BY <1>5 DEF StateChanged, n64StateCallback
  <2> QED
    BY <1>1, <1>5, <2>1 DEF JobDone, Doing, Said
<1>6. CASE StateChanged /\ emu.at \in {"stored", "result"}
  <2>1. /\ emu'.at = IF emu.at = "stored" THEN "forget" ELSE "clear"
        /\ emu'.ret = emu.ret /\ state'.result = emu.ret
        /\ UNCHANGED <<state.complete, state.job, served>>
    BY <1>6 DEF StateChanged, n64StateCallback
  <2> QED
    BY <1>1, <1>6, <2>1 DEF JobDone, Doing, Said
<1>7. CASE savestates_clear_job /\ emu.at = "clear"
  <2>1. emu'.at = "unname" /\ UNCHANGED <<state.complete, state.result, served>>
    BY <1>7 DEF savestates_clear_job
  <2> QED
    BY <1>1, <1>7, <2>1 DEF JobDone, Doing, Said
<1>8. CASE savestates_clear_job /\ emu.at = "unname"
  <2>1. /\ emu'.at = "game" /\ ~state.lock
        /\ UNCHANGED <<state.complete, state.result, state.job, served>>
    BY <1>8 DEF savestates_clear_job
  <2> QED
    BY <1>1, <1>8, <2>1 DEF JobDone, Doing, Said
<1> QED
  BY <1>2, <1>3, <1>4, <1>5, <1>6, <1>7, <1>8
     DEF StateChanged, n64StateCallback, savestates_clear_job

LEMMA JobNext ==
    ASSUME Inv, JobDone, [Next]_vars, {"job", "result", "clear"} \cap Races = {}
    PROVE  JobDone'
<1> USE Typing DEF EmuType, FrontType, StateType
<1>1. CASE \E t \in Types : Call(t)
  <2>1. PICK t \in Types : Call(t)
    BY <1>1
  <2>2. Execute(t, "game") /\ emu.at = "game" /\ UNCHANGED <<front, state, served>> /\ t # "swap"
    BY <2>1, Constants DEF Call, jobs
  <2>3. emu'.at \in {"wake", "wait", "game"}
    BY <2>2, ExecuteCounts
  <2> QED
    BY <2>2, <2>3, JobKept DEF Busy, Doing
<1>2. CASE StoreCount \/ Quit
  <2>1. /\ \E t \in Types, next \in {"game", "quitted", "ended"} : Execute(t, next)
        /\ UNCHANGED <<front, state, served>> /\ emu.at \in {"store", "game", "quitted"}
    BY <1>2 DEF StoreCount, Quit, Types, jobs
  <2>2. emu'.at \in {"wake", "wait", "game", "quitted", "ended"}
    BY <2>1, ExecuteCounts
  <2> QED
    BY <2>1, <2>2, JobKept DEF Busy, Doing
<1>3. CASE EnqueueWake \/ waitOnCommand \/ SwapBuffers \/ TestLimit \/ Block \/ LoadCount
  <2>1. UNCHANGED <<front, state, served>> /\ ~Busy /\ ~Busy'
    <3>1. CASE waitOnCommand
      <4>1. UNCHANGED <<front, state, served>> /\ emu.at = "wait"
            /\ emu'.at = IF emu.command[1] = "quit" THEN "quitted" ELSE "game"
        BY <3>1 DEF waitOnCommand, Resting, jobs
      <4> QED
        BY <4>1 DEF Busy, Doing
    <3>2. CASE EnqueueWake \/ SwapBuffers \/ TestLimit \/ Block \/ LoadCount
      <4>1. CASE EnqueueWake
        BY <4>1 DEF EnqueueWake, jobs, Busy, Doing
      <4>2. CASE SwapBuffers \/ TestLimit
        BY <4>2 DEF SwapBuffers, TestLimit, jobs, Busy, Doing
      <4>3. CASE Block \/ LoadCount
        BY <4>3 DEF Block, LoadCount, jobs, Busy, Doing
      <4> QED
        BY <3>2, <4>1, <4>2, <4>3
    <3> QED
      BY <1>3, <3>1, <3>2
  <2> QED
    BY <2>1, JobKept
<1>4. CASE Interrupt \/ Works \/ Forget \/ StateChanged \/ savestates_clear_job
  BY <1>4, JobSteps
<1>5. CASE commandLoop
  <2>1. UNCHANGED <<front, state, served>> /\ (UNCHANGED emu \/ (emu.at = "asleep" /\ emu'.at = "limit"))
    BY <1>5 DEF commandLoop, Start, Peek, DequeuePriority, DequeueNothing, Dequeue, SwapCommand,
                LoadCountDown, StoreCountDown, ReduceSwapBuffersQueued, Yield, Exit, jobs
  <2> QED
    BY <2>1, JobKept DEF Busy, Doing
<1>6. CASE FrontendThread
  <2> USE DEF In, JobDone, Doing, Said
  <2>1. CASE retro_load_game
    BY <2>1 DEF retro_load_game, Control
  <2>2. CASE retro_run
    BY <2>2 DEF retro_run, jobs
  <2>3. CASE Present
    BY <2>3 DEF Present, jobs
  <2>4. CASE \E buffer \in Buffers, j \in Jobs : Serialize(buffer, j)
    <3>1. PICK buffer \in Buffers, j \in Jobs : Serialize(buffer, j)
      BY <2>4
    <3>2. /\ front.at = "idle" /\ UNCHANGED <<emu, served, state.lock>>
          /\ emu.at \notin Finishing \/ Jammed
          /\ front' = [at |-> "fname", buffer |-> buffer]
          /\ ~(state'.complete) /\ state'.job = j
      BY <3>1 DEF Serialize, Through
    <3>3. buffer # NoBuffer /\ j # "nothing"
      BY FrontendAssumption DEF FrontendAssumption
    <3> QED
      BY <3>2, <3>3 DEF Finishing, Jammed
  <2>5. CASE StoreName
    <3>1. /\ front.at = "fname" /\ front'.at = "loop" /\ front'.buffer = front.buffer
          /\ state'.fname = front.buffer /\ state'.job = state.job
          /\ state'.complete = state.complete /\ UNCHANGED <<emu, served>> /\ ~state.lock
      BY <2>5 DEF StoreName
    <3> QED
      BY <3>1
  <2>6. CASE AwaitJob
    <3>1. UNCHANGED <<emu, state, served>> /\ front.at = "loop" /\ front'.buffer = front.buffer
      BY <2>6 DEF AwaitJob, jobs
    <3>2. \/ state.complete /\ front'.at = "return" /\ emu.at \notin {"stored", "result"}
          \/ UNCHANGED front
      BY <2>6 DEF AwaitJob, Through
    <3> QED
      BY <3>1, <3>2
  <2>7. CASE Return
    BY <2>7 DEF Return, jobs
  <2>8. CASE retro_unload_game
    BY <2>8 DEF retro_unload_game, jobs
  <2>9. CASE AwaitShutdown
    <3>1. /\ UNCHANGED <<emu, served>> /\ front.at = "unload"
          /\ front'.at \in {"unload", "unloaded"}
          /\ UNCHANGED state \/ emu.at = "ended"
      BY <2>9 DEF AwaitShutdown
    <3> QED
      BY <3>1
  <2> QED
    BY <1>6, <2>1, <2>2, <2>3, <2>4, <2>5, <2>6, <2>7, <2>8, <2>9 DEF FrontendThread
<1>7. CASE UNCHANGED vars
  BY <1>7, JobKept DEF vars, jobs, Busy, Doing
<1> QED
  BY <1>1, <1>2, <1>3, <1>4, <1>5, <1>6, <1>7 DEF Next, Emulation, Works

(* When retro_serialize or retro_unserialize returns, the job was done     *)
(* with the buffer of this call, or failed, and the result says which, if  *)
(* the two threads' accesses to the variables of the job do not race.      *)
(* Every outcome is covered, also that of a load that keeps the lock, and  *)
(* every order of the two reports of a save and the frontend's steps.      *)
THEOREM JobsDoneWithTheirBuffer ==
    ASSUME {"job", "result", "clear"} \cap Races = {}
    PROVE  Spec => []OwnBuffer
<1>1. ASSUME Init PROVE JobDone
  BY <1>1 DEF Init, Resting, JobDone, Doing, Said
<1>2. ASSUME Inv, JobDone, [Next]_vars PROVE JobDone'
  BY <1>2, JobNext
<1>3. ASSUME JobDone PROVE OwnBuffer
  BY <1>3 DEF JobDone, OwnBuffer, Said
<1> QED
  BY <1>1, <1>2, <1>3, InvInit, InvNext, PTL DEF Spec

=============================================================================
