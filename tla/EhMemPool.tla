------------------------------ MODULE EhMemPool ------------------------------
(***************************************************************************)
(* Memory pools (src/src/eh_mem_pool.c): a fixed number of blocks with a   *)
(* list node for each.  The nodes of the free blocks are linked, the node  *)
(* of a block in use points to itself.  Allocation and release are one     *)
(* critical section each, except that a release computes the index before. *)
(* Pointers are offsets from the first block, modulo PoolWidth.            *)
(***************************************************************************)
EXTENDS Integers, FiniteSets, SequencesExt

CONSTANTS
  PoolNums,   \* the numbers of blocks a pool is created with
  PoolSize,   \* align_size: the size of a block, rounded up
  PoolWidth,  \* pointers are integers modulo PoolWidth
  PoolPtrs,   \* the pointers the program releases
  PoolNull    \* the end of the list

ASSUME PoolAssumption ==
  /\ PoolNums \subseteq Nat \ {0}   \* with 0 the loop that links the nodes does not end
  /\ PoolSize \in Nat \ {0} /\ PoolWidth \in Nat
  /\ \A n \in PoolNums : n * PoolSize <= PoolWidth
  /\ PoolPtrs \subseteq 0 .. PoolWidth - 1
  /\ PoolNull \notin Nat

VARIABLES
  poolHead,   \* free_list_head.next
  poolNext,   \* next of each node of free_list, none without a pool
  poolTaken,  \* history: the pointers that have been allocated and not released
  poolLast    \* history: the pointer the last allocation has returned, or PoolNull

poolVars == <<poolHead, poolNext, poolTaken, poolLast>>

PoolStart == poolHead = PoolNull /\ poolNext = << >> /\ poolTaken = {} /\ poolLast = PoolNull

\* The indices are those of C, from 0.
PoolIndices == DOMAIN poolNext
PoolExists == PoolIndices # {}

\* eh_mem_pool_create
PoolCreate(n) ==
  /\ ~PoolExists
  /\ poolHead' = 0
  /\ poolNext' = [i \in 0 .. n - 1 |-> IF i = n - 1 THEN PoolNull ELSE i + 1]
  /\ UNCHANGED <<poolTaken, poolLast>>

\* eh_mem_pool_destroy, which frees the pool with its blocks in use as well.
PoolDestroy ==
  /\ PoolExists
  /\ poolHead' = PoolNull /\ poolNext' = << >>
  /\ poolTaken' = {} /\ poolLast' = PoolNull

\* eh_mem_pool_idx_is_used
PoolIsUsed(i) == poolNext[i] = i

\* eh_mem_pool_alloc
PoolAlloc ==
  /\ PoolExists
  /\ IF poolHead = PoolNull
     THEN poolLast' = PoolNull /\ UNCHANGED <<poolHead, poolNext, poolTaken>>
     ELSE /\ poolHead' = poolNext[poolHead]
          /\ poolNext' = [poolNext EXCEPT ![poolHead] = poolHead]
          /\ poolLast' = poolHead * PoolSize
          /\ poolTaken' = poolTaken \cup {poolLast'}

\* Mutant: a block that is free is released once more.
PoolReleaseMutant(ptr) ==
  LET i == ptr \div PoolSize
  IN  /\ PoolExists
      /\ i \in PoolIndices
      /\ poolNext' = [poolNext EXCEPT ![i] = poolHead]
      /\ poolHead' = i
      /\ poolTaken' = poolTaken \ {i * PoolSize}
      /\ UNCHANGED poolLast

\* eh_mem_pool_free; a pointer that is not into the blocks, and one into a block
\* that is free already, change nothing.
PoolRelease(ptr) ==
  LET i == ptr \div PoolSize
  IN  /\ PoolExists
      /\ i \in PoolIndices
      /\ PoolIsUsed(i)
      /\ poolNext' = [poolNext EXCEPT ![i] = poolHead]
      /\ poolHead' = i
      /\ poolTaken' = poolTaken \ {i * PoolSize}
      /\ UNCHANGED poolLast

\* eh_mem_pool_ptr_to_idx
PoolPtrToIdx(ptr) ==
  IF ptr < Cardinality(PoolIndices) * PoolSize /\ ptr % PoolSize = 0 THEN ptr \div PoolSize ELSE -1

PoolNextStep ==
  \/ \E n \in PoolNums : PoolCreate(n)
  \/ PoolDestroy
  \/ PoolAlloc
  \/ \E ptr \in PoolPtrs : PoolRelease(ptr)

PoolSpec == PoolStart /\ [][PoolNextStep]_poolVars

-----------------------------------------------------------------------------
\* The nodes that are reached in so many steps from the head.
PoolReached(k) ==
  LET at[j \in 0 .. k] == IF j = 0 THEN poolHead
                          ELSE IF at[j - 1] = PoolNull THEN PoolNull ELSE poolNext[at[j - 1]]
  IN  at[k]

\* After any eh_mem_pool_alloc and eh_mem_pool_free: the free list ends, it holds exactly the nodes that do not point to
\* themselves, the others are those of the blocks that are out, and a block
\* that is handed out is not out already: whatever is released twice or by a
\* foreign pointer in between.
PoolInv ==
  LET n    == Cardinality(PoolIndices)
      free == {PoolReached(k) : k \in 0 .. n} \ {PoolNull}
  IN  /\ PoolReached(n) = PoolNull
      /\ free = {i \in PoolIndices : ~PoolIsUsed(i)}
      /\ poolTaken = {i * PoolSize : i \in PoolIndices \ free}
      /\ Cardinality(poolTaken) + Cardinality(free) = n
      /\ poolLast # PoolNull => PoolPtrToIdx(poolLast) \in PoolIndices
=============================================================================
