-------------------------- MODULE MCSendBufferPool --------------------------
(* The send buffer pool for TLC: handles are interchangeable. *)
EXTENDS SendBufferPool, FiniteSetsExt, TLC

HandleSymmetry == Permutations(Handles)

(* "A fixed-capacity send buffer pool": the memory that the pool keeps for *)
(* later, in all its free lists, is no more than its capacity.  The lists  *)
(* have no limit of their own; a buffer that was made to grow joins another *)
(* list than the one the next request of its class looks at.               *)
KeptBytes == MapThenSumSet(LAMBDA s : s * free[s], Sizes)
FixedCapacity == KeptBytes <= Capacity
=============================================================================
