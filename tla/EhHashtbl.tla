------------------------------ MODULE EhHashtbl ------------------------------
(***************************************************************************)
(* The hash table (src/src/general/eh_hashtbl.c).  It doubles when it is   *)
(* loaded, and the nodes are not moved then: the new half of the buckets   *)
(* is "unmade" (next is NULL) until a node is looked up or inserted there, *)
(* which moves the nodes of the bucket that still holds them.  A bucket    *)
(* may be unmade through several doublings.                                *)
(*                                                                         *)
(* Keys are pairs of a hash value and a name, so that keys may collide;    *)
(* the size is a power of two, so h & mask is h % size.                    *)
(***************************************************************************)
EXTENDS Integers, SequencesExt

CONSTANTS
  HashNodes,       \* nodes the program can have at a time
  HashKeys,        \* keys: records with fields hash and name
  HashMin,         \* EH_CONFIG_HASHTBL_MIN_SIZE
  HashMax,         \* bound: the table is not doubled beyond this size, for want of memory
  HashThresholds,  \* values of the first threshold, the minimal size times the load factor
  HashUnmade,      \* a bucket whose next is NULL
  HashNoKey        \* no node is allocated here

(* A threshold of 0, of a load factor below 1/HashMin, doubles the table at every insertion. *)
ASSUME HashAssumption ==
  /\ HashMin \in Nat \ {0} /\ HashMax \in Nat
  /\ HashThresholds \subseteq Nat \ {0}
  /\ \A k \in HashKeys : k.hash \in Nat
  /\ IsFiniteSet(HashNodes) /\ HashUnmade \notin Seq(HashNodes)
  /\ HashNoKey \notin HashKeys

VARIABLES
  hashTable,      \* table: the nodes of each bucket or HashUnmade; none without a table
  hashThreshold,  \* threshold
  hashCount,      \* count
  hashKey         \* the key of each node, HashNoKey without a node

hashVars == <<hashTable, hashThreshold, hashCount, hashKey>>

HashStart ==
  /\ hashTable = << >> /\ hashThreshold = 0 /\ hashCount = 0
  /\ hashKey = [n \in HashNodes |-> HashNoKey]

HashBuckets == DOMAIN hashTable
HashExists == HashBuckets # {}
HashSize == Cardinality(HashBuckets)          \* mask + 1
HashMade(i) == hashTable[i] # HashUnmade      \* ~eh_hash_table_node_is_need_remake
HashAllocated == {n \in HashNodes : hashKey[n] # HashNoKey}
HashVal(n) == hashKey[n].hash

\* The bucket where the nodes of a key belong.
HashIndex(table, hash) == hash % Cardinality(DOMAIN table)

HashIn(n, i) == HashMade(i) /\ n \in Range(hashTable[i])
HashInserted(n) == \E i \in HashBuckets : HashIn(n, i)   \* eh_hashtbl_node_is_insert
HashBucketOf(n) == CHOOSE i \in HashBuckets : HashIn(n, i)
HashWithout(s, n) == RemoveAt(s, CHOOSE i \in DOMAIN s : s[i] = n)
HashUnlinked(n) == [hashTable EXCEPT ![HashBucketOf(n)] = HashWithout(@, n)]

\* eh_hashtbl_create; it fails without a change.
HashCreate(threshold) ==
  /\ ~HashExists
  /\ hashTable' = [i \in 0 .. HashMin - 1 |-> << >>]
  /\ hashThreshold' = threshold
  /\ hashCount' = 0
  /\ UNCHANGED hashKey

\* eh_hashtbl_destroy, with the nodes that are in the table; each made bucket is emptied.
HashDestroy ==
  /\ HashExists
  /\ hashTable' = << >>
  /\ hashKey' = [n \in HashNodes |-> IF HashInserted(n) THEN HashNoKey ELSE hashKey[n]]
  /\ hashThreshold' = 0 /\ hashCount' = 0

\* Mutant: the new half is initialised as empty lists.
HashResizedMutant ==
  [i \in 0 .. 2 * HashSize - 1 |-> IF i < HashSize THEN hashTable[i] ELSE << >>]

\* eh_hashtbl_resize
HashResized ==
  [i \in 0 .. 2 * HashSize - 1 |-> IF i < HashSize THEN hashTable[i] ELSE HashUnmade]

\* The loop at the head of eh_hashtbl_try_remake: the bucket that holds the nodes
\* of an unmade one, at the largest smaller mask where one is made.
HashHolder(table, i) ==
  LET at[size \in 1 .. Cardinality(DOMAIN table)] ==
        IF size = 1 \/ table[i % size] # HashUnmade THEN i % size ELSE at[size \div 2]
  IN  at[Cardinality(DOMAIN table) \div 2]

\* The body of the loop over that bucket: a node goes to the front of the one where
\* it belongs, which is made by that.
HashMoved(table, n, old) ==
  LET j == HashIndex(table, HashVal(n))
  IN  IF j = old THEN table
      ELSE [table EXCEPT ![old] = HashWithout(@, n),
                         ![j] = <<n>> \o (IF @ = HashUnmade THEN << >> ELSE @)]

\* eh_hashtbl_try_remake
HashRemade(table, i) ==
  LET old == HashHolder(table, i)
      moved[k \in 0 .. Len(table[old])] ==
        IF k = 0 THEN table ELSE HashMoved(moved[k - 1], table[old][k], old)
      all == moved[Len(table[old])]
  IN  IF table[i] # HashUnmade THEN table
      ELSE IF all[i] = HashUnmade THEN [all EXCEPT ![i] = << >>] ELSE all

\* eh_hashtbl_node_new_refresh, eh_hashtbl_node_new_with_string_refresh, and
\* eh_hashtbl_node_new with the refresh that has to follow
HashNew(n, key) ==
  /\ n \notin HashAllocated
  /\ hashKey' = [hashKey EXCEPT ![n] = key]
  /\ UNCHANGED <<hashTable, hashThreshold, hashCount>>

\* eh_hashtbl_insert; without memory for a larger table nothing changes.
HashInsert(n) ==
  /\ HashExists
  /\ n \in HashAllocated
  /\ ~HashInserted(n)
  /\ LET grow  == hashCount + 1 >= hashThreshold
         table == IF grow THEN HashResized ELSE hashTable
         i     == HashIndex(table, HashVal(n))
     IN  /\ grow => 2 * HashSize <= HashMax
         /\ hashTable' = [HashRemade(table, i) EXCEPT ![i] = <<n>> \o @]
         /\ hashThreshold' = IF grow THEN 2 * hashThreshold ELSE hashThreshold
  /\ hashCount' = hashCount + 1
  /\ UNCHANGED hashKey

\* eh_hashtbl_remove
HashRemove(n) ==
  /\ HashInserted(n)
  /\ hashTable' = HashUnlinked(n)
  /\ hashCount' = hashCount - 1
  /\ UNCHANGED <<hashThreshold, hashKey>>

\* eh_hashtbl_node_delete
HashDelete(n) ==
  /\ n \in HashAllocated
  /\ hashTable' = IF HashInserted(n) THEN HashUnlinked(n) ELSE hashTable
  /\ hashCount' = IF HashInserted(n) THEN hashCount - 1 ELSE hashCount
  /\ hashKey' = [hashKey EXCEPT ![n] = HashNoKey]
  /\ UNCHANGED hashThreshold

\* eh_hashtbl_node_renew to another length of the value: a new node takes the place
\* of the old one; without memory nothing changes.
HashRenew(old, new) ==
  /\ old \in HashAllocated
  /\ new \notin HashAllocated
  /\ hashKey' = [hashKey EXCEPT ![new] = hashKey[old], ![old] = HashNoKey]
  /\ hashTable' = IF HashInserted(old)
                  THEN [hashTable EXCEPT ![HashBucketOf(old)] = ReplaceAll(@, old, new)]
                  ELSE hashTable
  /\ UNCHANGED <<hashThreshold, hashCount>>

\* eh_hashtbl_node_key_refresh unlinks the node and links it into a bucket that it does
\* not remake.  If that is unmade, eh_list_add stores through its null pointer.
HashTraps(n, key) == HashInserted(n) /\ ~HashMade(HashIndex(hashTable, key.hash))

\* The program writes another key into a node and calls eh_hashtbl_node_key_refresh.
\* Where that traps the node is in no list, but counted; what the program does after
\* the trap is nobody's guess and no property looks at it.
HashRefresh(n, key) ==
  /\ n \in HashAllocated
  /\ hashKey' = [hashKey EXCEPT ![n] = key]
  /\ \/ ~HashInserted(n) /\ UNCHANGED hashTable
     \/ HashTraps(n, key) /\ hashTable' = HashUnlinked(n)
     \/ /\ HashInserted(n) /\ ~HashTraps(n, key)
        /\ hashTable' = [HashUnlinked(n) EXCEPT ![HashIndex(hashTable, key.hash)] = <<n>> \o @]
  /\ UNCHANGED <<hashThreshold, hashCount>>

\* eh_hashtbl_find, eh_hashtbl_find_with_string and the heads of the walks over the
\* nodes of a key remake the bucket; what a find returns is the first node there
\* with the key.
HashFind(key) ==
  /\ HashExists
  /\ hashTable' = HashRemade(hashTable, HashIndex(hashTable, key.hash))
  /\ UNCHANGED <<hashThreshold, hashCount, hashKey>>

HashFound(key) ==
  LET i == HashIndex(hashTable, key.hash)
  IN  {n \in Range(HashRemade(hashTable, i)[i]) : hashKey[n] = key}

\* eh_hashtbl_for_each_safe
HashWalk == FlattenSeq([i \in 1 .. HashSize |-> IF HashMade(i - 1) THEN hashTable[i - 1] ELSE << >>])

HashNext ==
  \/ \E t \in HashThresholds : HashCreate(t)
  \/ HashDestroy
  \/ \E n \in HashNodes, k \in HashKeys : HashNew(n, k)
  \/ \E n \in HashNodes, k \in HashKeys : HashRefresh(n, k)
  \/ \E n \in HashNodes : HashInsert(n)
  \/ \E n \in HashNodes : HashRemove(n)
  \/ \E n \in HashNodes : HashDelete(n)
  \/ \E old, new \in HashNodes : HashRenew(old, new)
  \/ \E k \in HashKeys : HashFind(k)

HashSpec == HashStart /\ [][HashNext]_hashVars

\* A program that does not run into the trap.  It may not see which buckets are made,
\* but looking the new key up before it changes the key (HashFind) makes the bucket.
HashAvoidsTrap ==
  \A n \in HashNodes, k \in HashKeys : HashTraps(n, k) => ~HashRefresh(n, k)

HashCarefulNext == HashNext /\ HashAvoidsTrap

-----------------------------------------------------------------------------
\* After any number of doublings (eh_hashtbl_insert) and of moves of single buckets on
\* the first look (eh_hashtbl_try_remake), eh_hashtbl_find of a key sees exactly the
\* nodes in the table that have the key, a walk meets every node of the table once,
\* the count is theirs, and the table is no larger than its threshold makes it.
HashInv ==
  HashExists =>
    LET inserted == {n \in HashNodes : HashInserted(n)}
    IN  /\ \A k \in HashKeys : HashFound(k) = {n \in inserted : hashKey[n] = k}
        /\ IsInjective(HashWalk) /\ ToSet(HashWalk) = inserted
        /\ hashCount = Cardinality(inserted)
        /\ inserted \subseteq HashAllocated
        /\ hashCount < hashThreshold

\* eh_hashtbl.h:106 has eh_hashtbl_node_key_refresh called after every change of a key
\* in the node: afterwards a node of the table is found by its new key.  It is not, once
\* the table has grown and the bucket of the new key has not been looked at.
RefreshedIsFound ==
  [][\A n \in HashNodes, k \in HashKeys :
       HashInserted(n) /\ HashRefresh(n, k) => n \in HashFound(k)']_hashVars
=============================================================================
