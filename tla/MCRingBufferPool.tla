-------------------------- MODULE MCRingBufferPool --------------------------
(* Instances of RingBufferPool for TLC. *)
EXTENDS RingBufferPool

Single(sizes) == {<<n>> : n \in sizes}

(* No command is larger than half of a pool of 6.  glDrawElements copies   *)
(* vertices and indices before it queues the call.                         *)
Halves == Single({1, 2, 3}) \cup {<<1, 2>>}

(* One makes a pool of 6 grow, one is too large for a pool of 7. *)
Oversized == Halves \cup Single({7, 8})
=============================================================================
