------------------------------ MODULE EhList ------------------------------
(***************************************************************************)
(* The two kinds of lists: circular doubly linked ones                     *)
(* (src/src/general/include/eh_list.h) and singly linked ones with a       *)
(* pointer to the last node (eh_llist.h, eh_llist.c), pointer by pointer,  *)
(* with the walks whose body may remove the node it is at.                 *)
(*                                                                         *)
(* The callers' obligations are guards: a node is added only when it is on *)
(* no list, and a list is not changed behind a walk in any other way.      *)
(***************************************************************************)
EXTENDS Integers, FiniteSets, SequencesExt

CONSTANTS
  ListHeads,  \* list heads, of either kind
  ListNodes,  \* nodes, of either kind
  ListNull    \* NULL

ASSUME ListAssumption ==
  /\ ListHeads \cap ListNodes = {} /\ ListNull \notin ListHeads \cup ListNodes
  /\ IsFiniteSet(ListNodes)

VARIABLES
  dlist,     \* doubly linked: next and prev of the heads and the nodes
  dContent,  \* history: the nodes each doubly linked list should hold
  dWalk,     \* a walk over one: its head and direction, pos, n, history: the nodes seen and those to see
  llist,     \* singly linked: next of the nodes, first and last of the heads
  lContent,  \* history: the nodes each singly linked list should hold
  lWalk      \* a walk over one: its head, prev, pos, _next is read at each step; history as above

listVars == <<dlist, dContent, dWalk, llist, lContent, lWalk>>
dVars == <<dlist, dContent, dWalk>>
lVars == <<llist, lContent, lWalk>>

NoWalk == [head |-> ListNull, side |-> "next", prev |-> ListNull, pos |-> ListNull, n |-> ListNull,
           seen |-> << >>, all |-> << >>]

ListStart ==
  /\ LET self == [x \in ListHeads \cup ListNodes |-> x]
     IN  dlist = [next |-> self, prev |-> self]
  /\ dContent = [h \in ListHeads |-> << >>]
  /\ dWalk = NoWalk
  /\ llist = [next  |-> [n \in ListNodes |-> n],
              first |-> [h \in ListHeads |-> ListNull],
              last  |-> [h \in ListHeads |-> ListNull]]
  /\ lContent = [h \in ListHeads |-> << >>]
  /\ lWalk = NoWalk

Holds(content, n) == \E h \in ListHeads : n \in Range(content[h])
PlaceOf(s, n) == CHOOSE i \in DOMAIN s : s[i] = n
Without(content, n) ==
  [h \in ListHeads |-> IF n \in Range(content[h]) THEN RemoveAt(content[h], PlaceOf(content[h], n)) ELSE content[h]]

-----------------------------------------------------------------------------
\* __eh_list_add, __eh_list_del, eh_list_head_init
DBetween(d, new, prev, next) ==
  [next |-> [d.next EXCEPT ![new] = next, ![prev] = new],
   prev |-> [d.prev EXCEPT ![next] = new, ![new] = prev]]
DOut(d, n) ==
  [next |-> [d.next EXCEPT ![d.prev[n]] = d.next[n]],
   prev |-> [d.prev EXCEPT ![d.next[n]] = d.prev[n]]]
DSet(d, x, to) == [next |-> [d.next EXCEPT ![x] = to], prev |-> [d.prev EXCEPT ![x] = to]]

\* Mutant: the node is linked behind the node after the place.
DPlacedMutant(d, n, h, tail) ==
  IF tail THEN DBetween(d, n, d.prev[h], h) ELSE DBetween(d, n, h, d.next[d.next[h]])

\* eh_list_add, eh_list_add_tail
DPlaced(d, n, h, tail) ==
  IF tail THEN DBetween(d, n, d.prev[h], h) ELSE DBetween(d, n, h, d.next[h])
Placed(s, n, tail) == IF tail THEN Append(s, n) ELSE <<n>> \o s

\* A head whose list has been spliced into another one is not used before it is initialised.
DUsable(h) == dlist.next[h] = h \/ dContent[h] # << >>
DIdle == dWalk = NoWalk

DAdd(n, h, tail) ==
  /\ DIdle
  /\ ~Holds(dContent, n) /\ DUsable(h)
  /\ dlist' = DPlaced(dlist, n, h, tail)
  /\ dContent' = [dContent EXCEPT ![h] = Placed(@, n, tail)]
  /\ UNCHANGED dWalk

\* eh_list_del, eh_list_del_init; the latter may be called for a node on no list.
DDel(n, init) ==
  /\ DIdle
  /\ Holds(dContent, n) \/ (init /\ dlist.next[n] = n)
  /\ dlist' = DSet(DOut(dlist, n), n, IF init THEN n ELSE ListNull)
  /\ dContent' = Without(dContent, n)
  /\ UNCHANGED dWalk

\* eh_list_move, eh_list_move_tail
DMove(n, h, tail) ==
  /\ DIdle
  /\ Holds(dContent, n) \/ dlist.next[n] = n
  /\ DUsable(h)
  /\ dlist' = DPlaced(DOut(dlist, n), n, h, tail)
  /\ dContent' = [Without(dContent, n) EXCEPT ![h] = Placed(@, n, tail)]
  /\ UNCHANGED dWalk

\* eh_list_splice, eh_list_splice_init
DSplice(g, h, init) ==
  LET first == dlist.next[g]
      last  == dlist.prev[g]
      at    == dlist.next[h]
      d     == [next |-> [dlist.next EXCEPT ![h] = first, ![last] = at],
                prev |-> [dlist.prev EXCEPT ![first] = h, ![at] = last]]
  IN  /\ DIdle
      /\ g # h /\ dContent[g] # << >> /\ DUsable(h)
      /\ dlist' = IF init THEN DSet(d, g, g) ELSE d
      /\ dContent' = [dContent EXCEPT ![g] = << >>, ![h] = dContent[g] \o @]
      /\ UNCHANGED dWalk

DHeadInit(h) ==
  /\ DIdle
  /\ dContent[h] = << >>
  /\ dlist' = DSet(dlist, h, h)
  /\ UNCHANGED <<dContent, dWalk>>

\* eh_list_for_each_safe and, with side prev, eh_list_for_each_prev_safe; from the
\* head, or behind a node the program has found (the _continue_safe ones)
DWalkStart(h, side, from) ==
  LET s == IF side = "next" THEN dContent[h] ELSE Reverse(dContent[h])
      pos == dlist[side][IF from = 0 THEN h ELSE s[from]]
  IN  /\ DIdle
      /\ DUsable(h) /\ from \in 0 .. Len(s)
      /\ dWalk' = [NoWalk EXCEPT !.head = h, !.side = side, !.pos = pos, !.n = dlist[side][pos],
                                 !.all = SubSeq(s, from + 1, Len(s))]
      /\ UNCHANGED <<dlist, dContent>>

\* The body leaves the node, deletes it, or moves it to another list; then pos is n
\* and n is read there.
DWalkStep(body, to) ==
  LET pos == dWalk.pos
  IN  /\ ~DIdle /\ pos # dWalk.head
      /\ CASE body = "leave"  -> UNCHANGED <<dlist, dContent>>
           [] body = "delete" -> /\ dlist' = DSet(DOut(dlist, pos), pos, ListNull)
                                 /\ dContent' = Without(dContent, pos)
           [] body = "move"   -> /\ to # dWalk.head /\ DUsable(to)
                                 /\ dlist' = DPlaced(DOut(dlist, pos), pos, to, TRUE)
                                 /\ dContent' = [Without(dContent, pos) EXCEPT ![to] = Append(@, pos)]
      /\ dWalk' = [dWalk EXCEPT !.pos = dWalk.n, !.n = dlist'[dWalk.side][dWalk.n], !.seen = Append(@, pos)]

DWalkEnd ==
  /\ ~DIdle /\ dWalk.pos = dWalk.head
  /\ dWalk' = NoWalk
  /\ UNCHANGED <<dlist, dContent>>

-----------------------------------------------------------------------------
\* A head is read and written as a node whose next is first.
LNext(l, x) == IF x \in ListHeads THEN l.first[x] ELSE l.next[x]
LSetNext(l, x, to) == IF x \in ListHeads THEN [l EXCEPT !.first[x] = to] ELSE [l EXCEPT !.next[x] = to]
LIdle == lWalk = NoWalk

\* eh_llist_add_batch of the nodes from first to last, eh_llist_add, eh_llist_push
LFront(l, first, last, h) ==
  LET l2 == [l EXCEPT !.next[last] = l.first[h], !.first[h] = first]
  IN  IF l.first[h] = ListNull THEN [l2 EXCEPT !.last[h] = last] ELSE l2

\* eh_llist_add_batch_tail, eh_llist_add_tail, eh_llist_enqueue
LBack(l, first, last, h) ==
  LET l2 == [l EXCEPT !.next[last] = ListNull]
  IN  IF l.first[h] = ListNull
      THEN [l2 EXCEPT !.first[h] = first, !.last[h] = last]
      ELSE [[l2 EXCEPT !.next[l.last[h]] = first] EXCEPT !.last[h] = last]

LAdd(n, h, tail) ==
  /\ LIdle
  /\ ~Holds(lContent, n)
  /\ llist' = IF tail THEN LBack(llist, n, n, h) ELSE LFront(llist, n, n, h)
  /\ lContent' = [lContent EXCEPT ![h] = Placed(@, n, tail)]
  /\ UNCHANGED lWalk

\* A whole list is added to another one: eh_llist_head_move_init to a head of the
\* caller, and its first and last node as a batch.
LAddBatch(g, h, tail) ==
  LET emptied == [llist EXCEPT !.first[g] = ListNull, !.last[g] = ListNull]
  IN  /\ LIdle
      /\ g # h /\ llist.first[g] # ListNull
      /\ llist' = IF tail THEN LBack(emptied, llist.first[g], llist.last[g], h)
                  ELSE LFront(emptied, llist.first[g], llist.last[g], h)
      /\ lContent' = [lContent EXCEPT ![g] = << >>,
                                      ![h] = IF tail THEN @ \o lContent[g] ELSE lContent[g] \o @]
      /\ UNCHANGED lWalk

\* eh_llist_insert behind a node of the list or at its head
LInsert(prev, n, h) ==
  LET l == LSetNext([llist EXCEPT !.next[n] = LNext(llist, prev)], prev, n)
      i == IF prev = h THEN 0 ELSE PlaceOf(lContent[h], prev)
  IN  /\ LIdle
      /\ prev = h \/ prev \in Range(lContent[h])
      /\ ~Holds(lContent, n)
      /\ llist' = IF LNext(llist, prev) = ListNull THEN [l EXCEPT !.last[h] = n] ELSE l
      /\ lContent' = [lContent EXCEPT ![h] = InsertAt(@, i + 1, n)]
      /\ UNCHANGED lWalk

\* eh_llist_pop, eh_llist_dequeue, eh_llist_del_first_init, and without the init
\* eh_llist_del_first: last is not written, also when the list is empty then.
LPop(h, init) ==
  LET n == llist.first[h]
      l == [llist EXCEPT !.first[h] = llist.next[n]]
  IN  /\ LIdle
      /\ n # ListNull
      /\ llist' = IF init THEN [l EXCEPT !.next[n] = n] ELSE l
      /\ lContent' = [lContent EXCEPT ![h] = Tail(@)]
      /\ UNCHANGED lWalk

\* eh_llist_del_node_in_for_each_safe; last becomes the head when that is prev.
LDeleted(l, h, prev, next) ==
  LET l2 == LSetNext(l, prev, next)
  IN  IF next = ListNull THEN [l2 EXCEPT !.last[h] = prev] ELSE l2

\* eh_llist_for_each_safe
LWalkStart(h) ==
  /\ LIdle
  /\ lWalk' = [NoWalk EXCEPT !.head = h, !.prev = h, !.pos = llist.first[h], !.all = lContent[h]]
  /\ UNCHANGED <<llist, lContent>>

\* The body leaves the node or deletes it; prev stays where it is if its next has become _next.
LWalkStep(delete) ==
  LET pos  == lWalk.pos
      next == llist.next[pos]
      after == LDeleted(llist, lWalk.head, lWalk.prev, next)
  IN  /\ ~LIdle /\ pos # ListNull
      /\ llist' = IF delete THEN after ELSE llist
      /\ lContent' = IF delete THEN Without(lContent, pos) ELSE lContent
      /\ lWalk' = [lWalk EXCEPT !.prev = IF LNext(llist', lWalk.prev) = next THEN @ ELSE pos,
                                !.pos = next, !.seen = Append(@, pos)]

LWalkEnd ==
  /\ ~LIdle /\ lWalk.pos = ListNull
  /\ lWalk' = NoWalk
  /\ UNCHANGED <<llist, lContent>>

-----------------------------------------------------------------------------
DNextStep ==
  \/ \E n \in ListNodes, h \in ListHeads, b \in BOOLEAN : DAdd(n, h, b)
  \/ \E n \in ListNodes, b \in BOOLEAN : DDel(n, b)
  \/ \E n \in ListNodes, h \in ListHeads, b \in BOOLEAN : DMove(n, h, b)
  \/ \E g, h \in ListHeads, b \in BOOLEAN : DSplice(g, h, b)
  \/ \E h \in ListHeads : DHeadInit(h)
  \/ \E h \in ListHeads, side \in {"next", "prev"}, from \in 0 .. Cardinality(ListNodes) : DWalkStart(h, side, from)
  \/ \E body \in {"leave", "delete", "move"}, h \in ListHeads : DWalkStep(body, h)
  \/ DWalkEnd

LNextStep ==
  \/ \E n \in ListNodes, h \in ListHeads, b \in BOOLEAN : LAdd(n, h, b)
  \/ \E g, h \in ListHeads, b \in BOOLEAN : LAddBatch(g, h, b)
  \/ \E prev \in ListHeads \cup ListNodes, n \in ListNodes, h \in ListHeads : LInsert(prev, n, h)
  \/ \E h \in ListHeads, b \in BOOLEAN : LPop(h, b)
  \/ \E h \in ListHeads : LWalkStart(h)
  \/ \E b \in BOOLEAN : LWalkStep(b)
  \/ LWalkEnd

ListSpec ==
  /\ ListStart
  /\ [][(DNextStep /\ UNCHANGED lVars) \/ (LNextStep /\ UNCHANGED dVars)]_listVars

-----------------------------------------------------------------------------
\* What a loop sees that follows the pointers from x to the end, at most so many nodes.
Followed(next, x, end) ==
  LET f[k \in 0 .. Cardinality(ListNodes) + 1] ==
        IF k = 0 THEN <<x>> ELSE IF Last(f[k - 1]) \in {end, ListNull} THEN f[k - 1]
                                 ELSE Append(f[k - 1], next[Last(f[k - 1])])
  IN  f[Cardinality(ListNodes) + 1]

\* A list of eh_list.h or eh_llist.h reads the same forwards and backwards, the last node is known where there
\* is one, and a walk of the safe macros (eh_list_for_each_safe,
\* eh_list_for_each_prev_safe, eh_llist_for_each_safe) meets the nodes it has set out to meet, each once and in their
\* order, whichever of them its body has removed.
ListInv ==
  /\ \A h \in ListHeads : DUsable(h) =>
       /\ Followed(dlist.next, dlist.next[h], h) = Append(dContent[h], h)
       /\ Followed(dlist.prev, dlist.prev[h], h) = Append(Reverse(dContent[h]), h)
  /\ ~DIdle => dWalk.seen \o Followed(dlist[dWalk.side], dWalk.pos, dWalk.head) = Append(dWalk.all, dWalk.head)
  /\ \A h \in ListHeads :
       /\ Followed(llist.next, llist.first[h], ListNull) = Append(lContent[h], ListNull)
       /\ lContent[h] # << >> => llist.last[h] = Last(lContent[h])
  /\ ~LIdle => lWalk.seen \o Followed(llist.next, lWalk.pos, ListNull) = Append(lWalk.all, ListNull)
=============================================================================
