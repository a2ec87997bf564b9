-------------------------------- MODULE EhMem --------------------------------
(***************************************************************************)
(* The heap (src/src/eh_mem.c): a list of free blocks in the order of      *)
(* their addresses, each behind a header with its size.  eh_malloc takes   *)
(* the first block that is large enough and splits it when that is worth a *)
(* block, eh_free puts a block back and joins it with its neighbours.      *)
(* Both are one critical section.  The memory of the heaps is numbered by  *)
(* bytes; what the program writes to its memory is left out.               *)
(***************************************************************************)
EXTENDS Integers, FiniteSets, SequencesExt

CONSTANTS
  MemAlign,    \* EH_MEM_ALIGN_SIZE
  MemHead,     \* EH_MEM_BLOCK_HEAD_SIZE
  MemWidth,    \* sizes and addresses are integers modulo MemWidth
  MemStatic,   \* the heap of the configuration: its first byte and its size
  MemExtra,    \* the heaps the program may register
  MemMaxHeaps, \* EH_MEM_HEAP_ARRAY_NUM
  MemRequests  \* the sizes the program asks for

MemUp(n) == ((n + MemAlign - 1) \div MemAlign) * MemAlign
MemDown(n) == (n \div MemAlign) * MemAlign

(* The block that a whole heap makes, and the bytes it takes up. *)
HeapBlock(h) ==
  [at |-> MemUp(h.start), size |-> MemDown(h.start + h.size) - MemUp(h.start) - MemHead]
BlockBytes(b) == b.at .. b.at + MemHead + b.size - 1

(* Heaps are disjoint and below the highest address; one that is smaller than its *)
(* header once its ends are aligned would get a size below zero.                   *)
ASSUME MemAssumption ==
  /\ MemAlign \in Nat \ {0} /\ MemHead \in Nat \ {0} /\ MemHead % MemAlign = 0
  /\ MemWidth \in Nat \ {0} /\ MemWidth % MemAlign = 0
  /\ MemRequests \subseteq 0 .. MemWidth - 1
  /\ \A h \in MemExtra \cup {MemStatic} :
       /\ h.start \in Nat \ {0} /\ h.size \in Nat
       /\ HeapBlock(h).size >= 0 /\ h.start + h.size < MemWidth
  /\ \A g, h \in MemExtra \cup {MemStatic} :
       g # h => g.start + g.size <= h.start \/ h.start + h.size <= g.start

VARIABLES
  memHeaps,    \* mem_heap_array
  memUp,       \* eh_mem_init has run
  memFree,     \* the list that begins at first_block: address and size of the blocks
  memUsed,     \* the size in the header of each block that is in use, by its address
  memFreeSize, \* mem_free_size
  memUseCnt,   \* mem_use_block_cnt
  memMin       \* mem_min_ever_free_size_level

memVars == <<memHeaps, memUp, memFree, memUsed, memFreeSize, memUseCnt, memMin>>

MemStart ==
  /\ memHeaps = <<MemStatic>>
  /\ memUp = FALSE
  /\ memFree = << >> /\ memUsed = << >>
  /\ memFreeSize = 0 /\ memUseCnt = 0 /\ memMin = 0

-----------------------------------------------------------------------------
Meets(b, c) == b.at + b.size + MemHead = c.at

\* Mutant: the block behind the new one is never joined.
MemInsertMutant(list, b) ==
  LET i      == Cardinality({k \in DOMAIN list : list[k].at < b.at})
      before == i > 0 /\ Meets(list[i], b)
      joined == [at   |-> IF before THEN list[i].at ELSE b.at,
                 size |-> b.size + IF before THEN list[i].size + MemHead ELSE 0]
  IN  SubSeq(list, 1, IF before THEN i - 1 ELSE i) \o <<joined>> \o SubSeq(list, i + 1, Len(list))

\* eh_mem_insert: the list with a block in its place, joined with the blocks it meets.
MemInsert(list, b) ==
  LET i      == Cardinality({k \in DOMAIN list : list[k].at < b.at})
      before == i > 0 /\ Meets(list[i], b)
      behind == i < Len(list) /\ Meets(b, list[i + 1])
      joined == [at   |-> IF before THEN list[i].at ELSE b.at,
                 size |-> b.size + (IF before THEN list[i].size + MemHead ELSE 0)
                                 + (IF behind THEN list[i + 1].size + MemHead ELSE 0)]
  IN  SubSeq(list, 1, IF before THEN i - 1 ELSE i) \o <<joined>>
      \o SubSeq(list, IF behind THEN i + 2 ELSE i + 1, Len(list))

\* What eh_mem_insert adds to mem_free_size: the block, and a header for each join.
MemGain(list, b) == b.size + MemHead * (Len(list) + 1 - Len(MemInsert(list, b)))

\* The list that eh_mem_init makes of the first heaps.
MemBuilt(heaps) ==
  LET built[k \in 0 .. Len(heaps)] ==
        IF k = 0 THEN << >> ELSE MemInsert(built[k - 1], HeapBlock(heaps[k]))
  IN  built[Len(heaps)]

\* What the blocks of a list hold.
MemTotal(list) ==
  LET total[k \in 0 .. Len(list)] == IF k = 0 THEN 0 ELSE total[k - 1] + list[k].size
  IN  total[Len(list)]

\* eh_mem_heap_register; a heap that is registered after eh_mem_init is not used.
MemRegister(h) ==
  /\ Len(memHeaps) < MemMaxHeaps
  /\ h \notin Range(memHeaps)
  /\ memHeaps' = Append(memHeaps, h)
  /\ UNCHANGED <<memUp, memFree, memUsed, memFreeSize, memUseCnt, memMin>>

\* eh_mem_init
MemInit ==
  /\ ~memUp
  /\ memUp' = TRUE
  /\ memFree' = MemBuilt(memHeaps)
  /\ memFreeSize' = MemTotal(memFree')
  /\ memMin' = memFreeSize'
  /\ memUseCnt' = 0
  /\ UNCHANGED <<memHeaps, memUsed>>

\* The size that is looked for, 0 when rounding up has passed the highest number.
MemSize(n) == LET up == MemUp(n) % MemWidth IN IF up < n THEN 0 ELSE up

\* The first block that is large enough, 0 if there is none.
FirstFit(size) ==
  LET fits == {i \in DOMAIN memFree : memFree[i].size >= size}
  IN  IF fits = {} THEN 0 ELSE CHOOSE i \in fits : \A j \in fits : i <= j

MemFinds(n) == MemSize(n) # 0 /\ memFreeSize >= MemSize(n) /\ FirstFit(MemSize(n)) # 0

\* eh_malloc; when nothing is found it returns NULL and changes nothing.  The
\* rest of the block is split off when it is larger than a header and a unit.
MemMalloc(n) ==
  LET size == MemSize(n)
      i    == FirstFit(size)
      b    == memFree[i]
      rest == [at |-> b.at + size + MemHead, size |-> (b.size - size - MemHead) % MemWidth]
      splits == rest.size > MemAlign /\ b.size > rest.size
  IN  /\ memUp
      /\ MemFinds(n)
      /\ memFree' = SubSeq(memFree, 1, i - 1) \o (IF splits THEN <<rest>> ELSE << >>)
                    \o SubSeq(memFree, i + 1, Len(memFree))
      /\ memUsed' = [a \in DOMAIN memUsed \cup {b.at} |->
                       IF a = b.at THEN IF splits THEN size ELSE b.size ELSE memUsed[a]]
      /\ memFreeSize' = memFreeSize - b.size + IF splits THEN rest.size ELSE 0
      /\ memMin' = IF memFreeSize' < memMin THEN memFreeSize' ELSE memMin
      /\ memUseCnt' = memUseCnt + 1
      /\ UNCHANGED <<memHeaps, memUp>>

\* eh_free of a block in use
MemRelease(a) ==
  LET b == [at |-> a, size |-> memUsed[a]]
  IN  /\ memFree' = MemInsert(memFree, b)
      /\ memUsed' = [c \in DOMAIN memUsed \ {a} |-> memUsed[c]]
      /\ memFreeSize' = memFreeSize + MemGain(memFree, b)
      /\ memUseCnt' = memUseCnt - 1
      /\ UNCHANGED <<memHeaps, memUp, memMin>>

MemNext ==
  \/ \E h \in MemExtra : MemRegister(h)
  \/ MemInit
  \/ \E n \in MemRequests : MemMalloc(n)
  \/ \E a \in DOMAIN memUsed : MemRelease(a)

MemSpec == MemStart /\ [][MemNext]_memVars

-----------------------------------------------------------------------------
UsedBlocks == {[at |-> a, size |-> memUsed[a]] : a \in DOMAIN memUsed}
FreeBytes == UNION {BlockBytes(b) : b \in Range(memFree)}
UsedBytes == UNION {BlockBytes(b) : b \in UsedBlocks}
AllBlocks == UsedBlocks \cup Range(memFree)

\* The blocks are disjoint and aligned, and no byte of a heap is lost by any
\* sequence of splits and joins: without blocks in use the heap is whole again.
MemTiles ==
  /\ \A b, c \in AllBlocks : b # c => BlockBytes(b) \cap BlockBytes(c) = {}
  /\ \A b \in AllBlocks : b.at % MemAlign = 0 /\ b.size % MemAlign = 0
  /\ memUp => \E k \in 1 .. Len(memHeaps) :
       FreeBytes \cup UsedBytes = UNION {BlockBytes(HeapBlock(memHeaps[i])) : i \in 1 .. k}

\* The free list is in order and neighbours have been joined.
MemOrdered ==
  \A i, j \in DOMAIN memFree :
    i < j => memFree[i].at < memFree[j].at /\ ~Meets(memFree[i], memFree[j])

\* The counters say what the lists hold.
MemCounts ==
  /\ memFreeSize = MemTotal(memFree)
  /\ memUseCnt = Cardinality(DOMAIN memUsed)
  /\ 0 <= memMin /\ memMin <= memFreeSize

\* eh_malloc finds memory exactly when some gap between the blocks in use is
\* long enough for the header and the size, however the heap is fragmented and
\* however the counter of free bytes and the rounding of the size go.
MemFindsSpace ==
  \A n \in MemRequests \ {0} :
    MemFinds(n) <=> \E a \in FreeBytes :
      a % MemAlign = 0 /\ a .. a + MemHead + MemUp(n) - 1 \subseteq FreeBytes

\* Whatever sequence of eh_malloc and eh_free (and of heaps registered beforehand)
\* ran, eh_mem_insert has kept the list of free blocks and the counters true:
\* nothing overlaps, nothing is lost, and a request that fits is served.
MemInv == MemTiles /\ MemOrdered /\ MemCounts /\ MemFindsSpace
=============================================================================
