---------------------------- MODULE EhLists_proofs ----------------------------
(***************************************************************************)
(* The lists of eh_list.h and eh_llist.h are the sequences of nodes that   *)
(* the program has put into them, whatever the heads and the nodes are,    *)
(* and a walk meets every node that was on its list when it began and that *)
(* its own body has not taken away; and the hash table, whose buckets are  *)
(* such lists, finds what was inserted.                                    *)
(*                                                                         *)
(* The invariant of the proof for the lists says it of the pointers: from  *)
(* the head of a list, next leads through its content in order and back to *)
(* the head, and prev through the same content backwards; no node is in    *)
(* two contents or twice in one.  A walk cuts its list in two, and what it *)
(* has seen followed by the second part is what it had to see.             *)
(*                                                                         *)
(* The one for the hash table is about the sizes the table has had: a node *)
(* is in the bucket of its hash value for the largest of them where that   *)
(* bucket is made, which is its home; the loop of eh_hashtbl_try_remake    *)
(* finds that home and brings its nodes where they belong.                 *)
(***************************************************************************)
EXTENDS EhList, EhHashtbl, EhLibrary_proofs, SequenceTheorems

-----------------------------------------------------------------------------
(* Chains of nodes.                                                        *)

\* From x along f: the nodes of s in their order, and then the end.
FirstOf(s, end) == IF Len(s) = 0 THEN end ELSE s[1]
Chained(x, f, end, s) ==
  /\ x = FirstOf(s, end)
  /\ \A i \in 1 .. Len(s) : f[s[i]] = IF i = Len(s) THEN end ELSE s[i + 1]

\* No element occurs twice.
Once(s) == \A i, j \in 1 .. Len(s) : s[i] = s[j] => i = j
Among(n, s) == \E i \in 1 .. Len(s) : s[i] = n
Apart(s, t) == \A i \in 1 .. Len(s), j \in 1 .. Len(t) : s[i] # t[j]

\* Where the elements of two joined sequences are.
Joined(S, a, b) ==
  /\ a \o b \in Seq(S) /\ Len(a \o b) = Len(a) + Len(b)
  /\ Len(a) \in Nat /\ Len(b) \in Nat
  /\ \A i \in 1 .. Len(a) : (a \o b)[i] = a[i] /\ i \in 1 .. Len(a) + Len(b) /\ a[i] \in S
  /\ \A i \in 1 .. Len(b) : (a \o b)[Len(a) + i] = b[i] /\ Len(a) + i \in 1 .. Len(a) + Len(b) /\ b[i] \in S
  /\ \A i \in 1 .. Len(a) + Len(b) : i \in 1 .. Len(a) \/ \E j \in 1 .. Len(b) : i = Len(a) + j

\* Where the elements of two joined sequences are.
LEMMA JoinFacts ==
  ASSUME NEW S, NEW a \in Seq(S), NEW b \in Seq(S)
  PROVE  Joined(S, a, b)
  <1>1. /\ a \o b \in Seq(S) /\ Len(a \o b) = Len(a) + Len(b)
        /\ Len(a) \in Nat /\ Len(b) \in Nat
        /\ \A i \in 1 .. Len(a) : (a \o b)[i] = a[i] /\ i \in 1 .. Len(a) + Len(b) /\ a[i] \in S
        /\ \A i \in 1 .. Len(b) : (a \o b)[Len(a) + i] = b[i] /\ Len(a) + i \in 1 .. Len(a) + Len(b) /\ b[i] \in S
    OBVIOUS
  <1>2. ASSUME NEW i \in 1 .. Len(a) + Len(b), i \notin 1 .. Len(a)
        PROVE  \E j \in 1 .. Len(b) : i = Len(a) + j
    <2>1. i - Len(a) \in 1 .. Len(b) /\ i = Len(a) + (i - Len(a))
      BY <1>1, <1>2
    <2> QED
      BY <2>1
  <1> QED
    BY <1>1, <1>2 DEF Joined

\* Two joined sequences have no element twice.
LEMMA OnceJoined ==
  ASSUME NEW S, NEW a \in Seq(S), NEW b \in Seq(S)
  PROVE  Once(a \o b) <=> Once(a) /\ Once(b) /\ Apart(a, b)
  <1> DEFINE la == Len(a)
             lb == Len(b)
             c == a \o b
  <1>1. /\ Len(c) = la + lb /\ la \in Nat /\ lb \in Nat
        /\ \A i \in 1 .. la : c[i] = a[i] /\ i \in 1 .. la + lb
        /\ \A i \in 1 .. lb : c[la + i] = b[i] /\ la + i \in 1 .. la + lb
        /\ \A i \in 1 .. la + lb : i \in 1 .. la \/ \E j \in 1 .. lb : i = la + j
    BY JoinFacts DEF Joined
  <1> HIDE DEF la, lb, c
  <1>2. ASSUME Once(c)
        PROVE  Once(a) /\ Once(b) /\ Apart(a, b)
    <2>1. \A i, j \in 1 .. la + lb : c[i] = c[j] => i = j
      BY <1>1, <1>2 DEF Once
    <2>2. Once(a)
      BY <1>1, <2>1 DEF Once, la
    <2>3. Once(b)
      <3> SUFFICES ASSUME NEW i \in 1 .. lb, NEW j \in 1 .. lb, b[i] = b[j] PROVE i = j
        BY DEF Once, lb
      <3>1. la + i = la + j
        BY <1>1, <2>1
      <3> QED
        BY <1>1, <3>1
    <2>4. Apart(a, b)
      <3> SUFFICES ASSUME NEW i \in 1 .. la, NEW j \in 1 .. lb, a[i] = b[j] PROVE FALSE
        BY DEF Apart, la, lb
      <3>1. i = la + j
        BY <1>1, <2>1
      <3> QED
        BY <1>1, <3>1
    <2> QED
      BY <2>2, <2>3, <2>4
  <1>3. ASSUME Once(a), Once(b), Apart(a, b)
        PROVE  Once(c)
    <2> SUFFICES ASSUME NEW i \in 1 .. la + lb, NEW j \in 1 .. la + lb, c[i] = c[j] PROVE i = j
      BY <1>1 DEF Once
    <2>1. CASE i \in 1 .. la /\ j \in 1 .. la
      BY <1>1, <1>3, <2>1 DEF Once, la
    <2>2. CASE i \in 1 .. la /\ j \notin 1 .. la
      <3>1. PICK k \in 1 .. lb : j = la + k
        BY <1>1, <2>2
      <3>2. a[i] = b[k]
        BY <1>1, <2>2, <3>1
      <3> QED
        BY <1>3, <2>2, <3>2 DEF Apart, la, lb
    <2>3. CASE i \notin 1 .. la /\ j \in 1 .. la
      <3>1. PICK k \in 1 .. lb : i = la + k
        BY <1>1, <2>3
      <3>2. a[j] = b[k]
        BY <1>1, <2>3, <3>1
      <3> QED
        BY <1>3, <2>3, <3>2 DEF Apart, la, lb
    <2>4. CASE i \notin 1 .. la /\ j \notin 1 .. la
      <3>1. PICK k \in 1 .. lb : i = la + k
        BY <1>1, <2>4
      <3>2. PICK m \in 1 .. lb : j = la + m
        BY <1>1, <2>4
      <3>3. b[k] = b[m]
        BY <1>1, <3>1, <3>2
      <3>4. k = m
        BY <1>3, <3>3 DEF Once, lb
      <3> QED
        BY <3>1, <3>2, <3>4
    <2> QED
      BY <2>1, <2>2, <2>3, <2>4
  <1> QED
    BY <1>2, <1>3 DEF c

\* An element of two joined sequences is in one of them.
LEMMA AmongJoined ==
  ASSUME NEW S, NEW a \in Seq(S), NEW b \in Seq(S), NEW n
  PROVE  Among(n, a \o b) <=> Among(n, a) \/ Among(n, b)
  <1> DEFINE la == Len(a)
             lb == Len(b)
             c == a \o b
  <1>1. /\ Len(c) = la + lb /\ la \in Nat /\ lb \in Nat
        /\ \A i \in 1 .. la : c[i] = a[i] /\ i \in 1 .. la + lb
        /\ \A i \in 1 .. lb : c[la + i] = b[i] /\ la + i \in 1 .. la + lb
        /\ \A i \in 1 .. la + lb : i \in 1 .. la \/ \E j \in 1 .. lb : i = la + j
    BY JoinFacts DEF Joined
  <1> HIDE DEF la, lb, c
  <1>2. /\ Among(n, a) <=> \E i \in 1 .. la : a[i] = n
        /\ Among(n, b) <=> \E i \in 1 .. lb : b[i] = n
        /\ Among(n, c) <=> \E i \in 1 .. Len(c) : c[i] = n
    BY DEF Among, la, lb
  <1>3. ASSUME Among(n, c)
        PROVE  Among(n, a) \/ Among(n, b)
    <2>1. PICK i \in 1 .. la + lb : c[i] = n
      BY <1>1, <1>2, <1>3
    <2>2. CASE i \in 1 .. la
      BY <1>1, <1>2, <2>1, <2>2
    <2>3. CASE i \notin 1 .. la
      <3>1. PICK j \in 1 .. lb : i = la + j
        BY <1>1, <2>3
      <3> QED
        BY <1>1, <1>2, <2>1, <3>1
    <2> QED
      BY <2>2, <2>3
  <1>4. Among(n, a) => Among(n, c)
    BY <1>1, <1>2
  <1>5. Among(n, b) => Among(n, c)
    BY <1>1, <1>2
  <1> QED
    BY <1>3, <1>4, <1>5 DEF c

\* Two joined sequences are a chain when each is one and the first leads to the second.
LEMMA ChainJoined ==
  ASSUME NEW S, NEW a \in Seq(S), NEW b \in Seq(S), NEW x, NEW f, NEW end
  PROVE  /\ FirstOf(a \o b, end) = FirstOf(a, FirstOf(b, end))
         /\ Chained(x, f, end, a \o b) <=> Chained(x, f, FirstOf(b, end), a) /\ Chained(FirstOf(b, end), f, end, b)
  <1> DEFINE la == Len(a)
             lb == Len(b)
             c == a \o b
             lc == Len(c)
             e == FirstOf(b, end)
  <1>1. /\ lc = la + lb /\ la \in Nat /\ lb \in Nat
        /\ \A i \in 1 .. la : c[i] = a[i] /\ i \in 1 .. la + lb
        /\ \A i \in 1 .. lb : c[la + i] = b[i] /\ la + i \in 1 .. la + lb
        /\ \A i \in 1 .. la + lb : i \in 1 .. la \/ \E j \in 1 .. lb : i = la + j
    BY JoinFacts DEF Joined
  <1>2. FirstOf(b, end) = IF lb = 0 THEN end ELSE b[1]
    BY DEF FirstOf
  <1>3. /\ \A y, g, z : Chained(y, g, z, a) <=> /\ y = FirstOf(a, z)
                                                /\ \A i \in 1 .. la : g[a[i]] = IF i = la THEN z ELSE a[i + 1]
        /\ \A y, g, z : Chained(y, g, z, b) <=> /\ y = FirstOf(b, z)
                                                /\ \A i \in 1 .. lb : g[b[i]] = IF i = lb THEN z ELSE b[i + 1]
        /\ \A y, g, z : Chained(y, g, z, c) <=> /\ y = FirstOf(c, z)
                                                /\ \A i \in 1 .. lc : g[c[i]] = IF i = lc THEN z ELSE c[i + 1]
    BY DEF Chained
  <1>4. FirstOf(c, end) = FirstOf(a, e)
    <2>1. FirstOf(c, end) = (IF lc = 0 THEN end ELSE c[1]) /\ FirstOf(a, e) = IF la = 0 THEN e ELSE a[1]
      BY DEF FirstOf
    <2>2. CASE la = 0
      <3>1. lc = lb
        BY <1>1, <2>2
      <3>2. lb # 0 => c[1] = b[1]
        <4> SUFFICES ASSUME lb # 0 PROVE c[1] = b[1]
          OBVIOUS
        <4>1. 1 \in 1 .. lb /\ la + 1 = 1
          BY <1>1, <2>2
        <4> HIDE DEF la, lb, c, lc
        <4> QED
          BY <1>1, <4>1
      <3> HIDE DEF la, lb, c, lc, e
      <3> QED
        BY <1>2, <2>1, <2>2, <3>1, <3>2 DEF e
    <2>3. CASE la # 0
      <3>1. 1 \in 1 .. la /\ lc # 0
        BY <1>1, <2>3
      <3> HIDE DEF la, lb, c, lc, e
      <3> QED
        BY <1>1, <2>1, <2>3, <3>1
    <2> QED
      BY <2>2, <2>3
  <1> HIDE DEF la, lb, c, lc, e
  <1>5. ASSUME Chained(x, f, end, c)
        PROVE  Chained(x, f, e, a) /\ Chained(e, f, end, b)
    <2>1. x = FirstOf(c, end) /\ \A i \in 1 .. lc : f[c[i]] = IF i = lc THEN end ELSE c[i + 1]
      BY <1>3, <1>5
    <2>2. ASSUME NEW i \in 1 .. la
          PROVE  f[a[i]] = IF i = la THEN e ELSE a[i + 1]
      <3>1. f[a[i]] = IF i = lc THEN end ELSE c[i + 1]
        BY <1>1, <2>1
      <3>2. CASE i # la
        <4>1. i + 1 \in 1 .. la /\ i # lc
          BY <1>1, <3>2
        <4> QED
          BY <1>1, <3>1, <3>2, <4>1
      <3>3. CASE i = la /\ lb = 0
        BY <1>1, <1>2, <3>1, <3>3 DEF e
      <3>4. CASE i = la /\ lb # 0
        <4>1. 1 \in 1 .. lb /\ i # lc /\ i + 1 = la + 1
          BY <1>1, <3>4
        <4>2. c[la + 1] = b[1]
          BY <1>1, <4>1
        <4> QED
          BY <1>2, <3>1, <3>4, <4>1, <4>2 DEF e
      <3> QED
        BY <3>2, <3>3, <3>4
    <2>3. ASSUME NEW i \in 1 .. lb
          PROVE  f[b[i]] = IF i = lb THEN end ELSE b[i + 1]
      <3>1. f[b[i]] = IF la + i = lc THEN end ELSE c[(la + i) + 1]
        BY <1>1, <2>1
      <3>2. la + i = lc <=> i = lb
        BY <1>1
      <3>3. i # lb => c[(la + i) + 1] = b[i + 1]
        <4> SUFFICES ASSUME i # lb PROVE c[(la + i) + 1] = b[i + 1]
          OBVIOUS
        <4>1. i + 1 \in 1 .. lb /\ (la + i) + 1 = la + (i + 1)
          BY <1>1
        <4> QED
          BY <1>1, <4>1
      <3> QED
        BY <3>1, <3>2, <3>3
    <2> QED
      BY <1>3, <1>4, <2>1, <2>2, <2>3 DEF e
  <1>6. ASSUME Chained(x, f, e, a), Chained(e, f, end, b)
        PROVE  Chained(x, f, end, c)
    <2>1. /\ x = FirstOf(a, e)
          /\ \A i \in 1 .. la : f[a[i]] = IF i = la THEN e ELSE a[i + 1]
          /\ \A i \in 1 .. lb : f[b[i]] = IF i = lb THEN end ELSE b[i + 1]
      BY <1>3, <1>6
    <2>2. ASSUME NEW i \in 1 .. lc
          PROVE  f[c[i]] = IF i = lc THEN end ELSE c[i + 1]
      <3>1. CASE i \in 1 .. la
        <4>1. f[c[i]] = IF i = la THEN e ELSE a[i + 1]
          BY <1>1, <2>1, <3>1
        <4>2. CASE i # la
          <5>1. i + 1 \in 1 .. la /\ i # lc
            BY <1>1, <3>1, <4>2
          <5> QED
            BY <1>1, <4>1, <4>2, <5>1
        <4>3. CASE i = la /\ lb = 0
          BY <1>1, <1>2, <4>1, <4>3 DEF e
        <4>4. CASE i = la /\ lb # 0
          <5>1. 1 \in 1 .. lb /\ i # lc /\ i + 1 = la + 1
            BY <1>1, <4>4
          <5>2. c[la + 1] = b[1]
            BY <1>1, <5>1
          <5> QED
            BY <1>2, <4>1, <4>4, <5>1, <5>2 DEF e
        <4> QED
          BY <4>2, <4>3, <4>4
      <3>2. CASE i \notin 1 .. la
        <4>1. PICK j \in 1 .. lb : i = la + j
          BY <1>1, <3>2
        <4>2. f[c[i]] = IF j = lb THEN end ELSE b[j + 1]
          BY <1>1, <2>1, <4>1
        <4>3. i = lc <=> j = lb
          BY <1>1, <4>1
        <4>4. j # lb => c[i + 1] = b[j + 1]
          <5> SUFFICES ASSUME j # lb PROVE c[i + 1] = b[j + 1]
            OBVIOUS
          <5>1. j + 1 \in 1 .. lb /\ i + 1 = la + (j + 1)
            BY <1>1, <4>1
          <5>2. c[la + (j + 1)] = b[j + 1]
            BY <1>1, <5>1
          <5> QED
            BY <5>1, <5>2
        <4> QED
          BY <4>2, <4>3, <4>4
      <3> QED
        BY <3>1, <3>2
    <2> QED
      BY <1>3, <1>4, <2>1, <2>2
  <1> QED
    BY <1>4, <1>5, <1>6 DEF c, e

\* A chain of one node.
LEMMA ChainOne ==
  ASSUME NEW x, NEW f, NEW end, NEW n
  PROVE  Chained(x, f, end, <<n>>) <=> x = n /\ f[n] = end
  BY DEF Chained, FirstOf

\* An empty chain.
LEMMA ChainNone ==
  ASSUME NEW x, NEW f, NEW end
  PROVE  Chained(x, f, end, << >>) <=> x = end
  BY DEF Chained, FirstOf

\* Where a node is.
Surrounded(S, s, k) ==
  \E a, b \in Seq(S) : /\ s = (a \o <<s[k]>>) \o b
                       /\ RemoveAt(s, k) = a \o b
                       /\ Len(a) = k - 1
                       /\ a = SubSeq(s, 1, k - 1) /\ b = SubSeq(s, k + 1, Len(s))

\* An element of a sequence is between those before it and those behind it.
LEMMA Around ==
  ASSUME NEW S, NEW s \in Seq(S), NEW k \in 1 .. Len(s)
  PROVE  Surrounded(S, s, k)
  <1> DEFINE a == SubSeq(s, 1, k - 1)
             b == SubSeq(s, k + 1, Len(s))
  <1>1. a \in Seq(S) /\ b \in Seq(S) /\ Len(a) = k - 1 /\ Len(b) = Len(s) - k
    OBVIOUS
  <1>2. s = (a \o <<s[k]>>) \o b
    <2>1. /\ k \in 1 .. Len(s) + 1 /\ k - 1 \in 0 .. Len(s) /\ k \in k - 1 .. Len(s)
          /\ 1 \in 1 .. Len(s) + 1 /\ k \in 0 .. Len(s) /\ Len(s) \in k .. Len(s)
      OBVIOUS
    <2>2. a \o <<s[k]>> = SubSeq(s, 1, k)
      <3>1. k \in 1 .. Len(s) /\ 1 \in 1 .. Len(s) /\ k \in 1 .. Len(s)
        BY <2>1
      <3> QED
        BY <3>1, SubSeqRecursiveSecond
    <2>3. SubSeq(s, 1, k) \o b = SubSeq(s, 1, Len(s))
      BY <2>1, ConcatAdjacentSubSeq
    <2>4. SubSeq(s, 1, Len(s)) = s
      BY SubSeqFull
    <2> QED
      BY <2>2, <2>3, <2>4
  <1>3. RemoveAt(s, k) = a \o b
    BY DEF RemoveAt
  <1> QED
    BY <1>1, <1>2, <1>3 DEF Surrounded

\* A sequence of one element.
LEMMA AmongOne ==
  ASSUME NEW n, NEW m
  PROVE  Among(n, <<m>>) <=> n = m
  BY DEF Among

\* A sequence read backwards.
LEMMA BackIs ==
  ASSUME NEW S, NEW s \in Seq(S)
  PROVE  /\ Reverse(s) \in Seq(S) /\ Len(Reverse(s)) = Len(s)
         /\ \A i \in 1 .. Len(s) : Len(s) + 1 - i \in 1 .. Len(s) /\ Reverse(s)[i] = s[Len(s) + 1 - i]
                                   /\ Reverse(s)[Len(s) + 1 - i] = s[i]
         /\ \A n : Among(n, Reverse(s)) <=> Among(n, s)
         /\ Once(s) => Once(Reverse(s))
  <1> DEFINE r == Reverse(s)
             l == Len(s)
  <1>1. r \in Seq(S) /\ Len(r) = l /\ l \in Nat
    BY DEF Reverse
  <1>2. \A i \in 1 .. l : r[i] = s[l + 1 - i] /\ r[l + 1 - i] = s[i] /\ l + 1 - i \in 1 .. l
    <2> TAKE i \in 1 .. l
    <2>1. l + 1 - i \in 1 .. l /\ l + 1 - (l + 1 - i) = i
      BY <1>1
    <2>2. \A j \in 1 .. l : r[j] = s[(l - j) + 1]
      BY <1>1 DEF Reverse
    <2>3. (l - i) + 1 = l + 1 - i /\ (l - (l + 1 - i)) + 1 = i
      BY <1>1
    <2> HIDE DEF r, l
    <2> QED
      BY <2>1, <2>2, <2>3
  <1> HIDE DEF r
  <1>3. \A n : Among(n, r) <=> Among(n, s)
    <2> TAKE n
    <2>1. Among(n, r) => Among(n, s)
      <3> SUFFICES ASSUME NEW i \in 1 .. l, r[i] = n PROVE Among(n, s)
        BY <1>1 DEF Among
      <3>1. l + 1 - i \in 1 .. l /\ s[l + 1 - i] = n
        BY <1>2
      <3> QED
        BY <3>1 DEF Among
    <2>2. Among(n, s) => Among(n, r)
      <3> SUFFICES ASSUME NEW i \in 1 .. l, s[i] = n PROVE Among(n, r)
        BY <1>1 DEF Among
      <3>1. l + 1 - i \in 1 .. l /\ r[l + 1 - i] = n
        BY <1>2
      <3> QED
        BY <1>1, <3>1 DEF Among
    <2> QED
      BY <2>1, <2>2
  <1>4. Once(s) => Once(r)
    <2> SUFFICES ASSUME Once(s), NEW i \in 1 .. l, NEW j \in 1 .. l, r[i] = r[j] PROVE i = j
      BY <1>1 DEF Once
    <2>1. l + 1 - i = l + 1 - j
      BY <1>2 DEF Once
    <2> QED
      BY <1>1, <2>1
  <1> QED
    BY <1>1, <1>2, <1>3, <1>4 DEF r

\* Two joined sequences read backwards.
LEMMA BackJoined ==
  ASSUME NEW S, NEW a \in Seq(S), NEW b \in Seq(S)
  PROVE  Reverse(a \o b) = Reverse(b) \o Reverse(a)
  <1> DEFINE la == Len(a)
             lb == Len(b)
             c == a \o b
             ra == Reverse(a)
             rb == Reverse(b)
             l == Reverse(c)
             r == rb \o ra
  <1>1. /\ c \in Seq(S) /\ Len(c) = la + lb /\ la \in Nat /\ lb \in Nat
        /\ \A i \in 1 .. la : c[i] = a[i]
        /\ \A i \in 1 .. lb : c[la + i] = b[i]
    BY JoinFacts DEF Joined
  <1>2. /\ ra \in Seq(S) /\ Len(ra) = la /\ rb \in Seq(S) /\ Len(rb) = lb
        /\ \A i \in 1 .. la : ra[i] = a[la + 1 - i]
        /\ \A i \in 1 .. lb : rb[i] = b[lb + 1 - i]
    BY BackIs
  <1>3. l \in Seq(S) /\ Len(l) = la + lb /\ \A i \in 1 .. la + lb : l[i] = c[la + lb + 1 - i]
    <2> HIDE DEF la, lb, c, l
    <2>1. l \in Seq(S) /\ Len(l) = Len(c) /\ \A i \in 1 .. Len(c) : l[i] = c[Len(c) + 1 - i]
      BY <1>1, BackIs DEF l
    <2> QED
      BY <1>1, <2>1
  <1>4. /\ r \in Seq(S) /\ Len(r) = lb + la
        /\ \A i \in 1 .. lb : r[i] = rb[i]
        /\ \A i \in 1 .. la : r[lb + i] = ra[i]
    <2> HIDE DEF la, lb, ra, rb
    <2>1. /\ rb \o ra \in Seq(S) /\ Len(rb \o ra) = Len(rb) + Len(ra)
          /\ \A i \in 1 .. Len(rb) : (rb \o ra)[i] = rb[i]
          /\ \A i \in 1 .. Len(ra) : (rb \o ra)[Len(rb) + i] = ra[i]
      <3>1. rb \in Seq(S) /\ ra \in Seq(S)
        BY <1>2
      <3> QED
        <4>1. Joined(S, rb, ra)
          BY <3>1, JoinFacts
        <4> QED
          BY <4>1 DEF Joined
    <2> QED
      BY <1>2, <2>1 DEF r
  <1> HIDE DEF la, lb, c, ra, rb, l, r
  <1>5. ASSUME NEW i \in 1 .. la + lb
        PROVE  l[i] = r[i]
    <2>1. l[i] = c[la + lb + 1 - i]
      BY <1>3
    <2>2. CASE i \in 1 .. lb
      <3>1. lb + 1 - i \in 1 .. lb /\ la + lb + 1 - i = la + (lb + 1 - i)
        BY <1>1, <2>2
      <3>2. c[la + (lb + 1 - i)] = b[lb + 1 - i]
        BY <1>1, <3>1
      <3> QED
        BY <1>2, <1>4, <2>1, <2>2, <3>1, <3>2
    <2>3. CASE i \notin 1 .. lb
      <3> DEFINE j == i - lb
      <3>1. j \in 1 .. la /\ i = lb + j /\ la + lb + 1 - i = la + 1 - j /\ la + 1 - j \in 1 .. la
        BY <1>1, <2>3
      <3> HIDE DEF j
      <3>2. c[la + 1 - j] = a[la + 1 - j]
        BY <1>1, <3>1
      <3>3. r[lb + j] = ra[j] /\ ra[j] = a[la + 1 - j]
        BY <1>2, <1>4, <3>1
      <3> QED
        BY <2>1, <3>1, <3>2, <3>3
    <2> QED
      BY <2>2, <2>3
  <1>6. Len(l) = Len(r) /\ \A i \in 1 .. Len(l) : l[i] = r[i]
    BY <1>1, <1>3, <1>4, <1>5
  <1>7. l = r
    BY <1>3, <1>4, <1>6, SeqEqual
  <1> QED
    BY <1>7 DEF l, r, c, ra, rb

\* One element read backwards.
LEMMA BackOne ==
  ASSUME NEW n
  PROVE  Reverse(<<n>>) = <<n>>
  BY DEF Reverse

-----------------------------------------------------------------------------
(* What the lists hold.                                                    *)

\* The contents: no node is on two lists or twice on one.
Tidy(c) ==
  /\ c \in [ListHeads -> Seq(ListNodes)]
  /\ \A h \in ListHeads : Once(c[h])
  /\ \A g, h \in ListHeads : g # h => Apart(c[g], c[h])

\* A node is on a list when it is in the content of one.
LEMMA HeldIs ==
  ASSUME NEW c \in [ListHeads -> Seq(ListNodes)], NEW n
  PROVE  /\ Holds(c, n) <=> \E h \in ListHeads : Among(n, c[h])
         /\ \A h \in ListHeads : n \in Range(c[h]) <=> Among(n, c[h])
  <1>1. \A h \in ListHeads : n \in Range(c[h]) <=> Among(n, c[h])
    <2> TAKE h \in ListHeads
    <2>1. c[h] \in Seq(ListNodes) /\ DOMAIN c[h] = 1 .. Len(c[h])
      OBVIOUS
    <2> QED
      BY <2>1 DEF Range, Among
  <1> QED
    BY <1>1 DEF Holds

\* The contents stay tidy when that of one list is replaced by nodes no other list has.
LEMMA TidySet ==
  ASSUME NEW c, Tidy(c), NEW h \in ListHeads, NEW s \in Seq(ListNodes), Once(s),
         \A g \in ListHeads : g # h => Apart(s, c[g])
  PROVE  Tidy([c EXCEPT ![h] = s])
  <1> DEFINE d == [c EXCEPT ![h] = s]
  <1>1. d \in [ListHeads -> Seq(ListNodes)] /\ d[h] = s /\ \A g \in ListHeads : g # h => d[g] = c[g]
    BY DEF Tidy
  <1> HIDE DEF d
  <1>2. \A g \in ListHeads : g # h => Apart(c[g], s)
    BY DEF Apart
  <1>3. \A g \in ListHeads : Once(d[g])
    BY <1>1 DEF Tidy
  <1>4. \A i, j \in ListHeads : i # j => Apart(d[i], d[j])
    BY <1>1, <1>2 DEF Tidy
  <1> QED
    BY <1>1, <1>3, <1>4 DEF Tidy, d

\* A node between two sequences, and the contents when that node is taken away.
Inside(a, n, b) == (a \o <<n>>) \o b
TakenOut(c, n, h, a, b) ==
  /\ c[h] = Inside(a, n, b)
  /\ Without(c, n) = [c EXCEPT ![h] = a \o b]
  /\ Tidy(Without(c, n)) /\ ~Holds(Without(c, n), n)
  /\ Once(a) /\ Once(b) /\ Apart(a, b) /\ ~Among(n, a) /\ ~Among(n, b)

\* A node between two sequences.
LEMMA BetweenIs ==
  ASSUME NEW S, NEW a \in Seq(S), NEW b \in Seq(S), NEW n \in S
  PROVE  /\ Inside(a, n, b) \in Seq(S)
         /\ \A m : Among(m, Inside(a, n, b)) <=> Among(m, a) \/ m = n \/ Among(m, b)
         /\ Once(Inside(a, n, b)) <=> Once(a) /\ Once(b) /\ Apart(a, b) /\ ~Among(n, a) /\ ~Among(n, b)
         /\ \A x, f, end : Chained(x, f, end, Inside(a, n, b)) <=>
              Chained(x, f, n, a) /\ f[n] = FirstOf(b, end) /\ Chained(FirstOf(b, end), f, end, b)
         /\ Reverse(Inside(a, n, b)) = Inside(Reverse(b), n, Reverse(a))
  <1> DEFINE o == <<n>>
             an == a \o o
  <1>1. o \in Seq(S) /\ an \in Seq(S) /\ Len(o) = 1 /\ o[1] = n
    OBVIOUS
  <1>2. an \o b \in Seq(S)
    BY <1>1
  <1> HIDE DEF an
  <1>3. ASSUME NEW m
        PROVE  Among(m, an \o b) <=> Among(m, a) \/ m = n \/ Among(m, b)
    BY <1>1, AmongJoined, AmongOne DEF an
  <1>4. Once(an \o b) <=> Once(a) /\ Once(b) /\ Apart(a, b) /\ ~Among(n, a) /\ ~Among(n, b)
    <2>1. Once(an \o b) <=> Once(an) /\ Once(b) /\ Apart(an, b)
      BY <1>1, OnceJoined
    <2>2. Once(an) <=> Once(a) /\ Apart(a, o)
      <3>1. Once(an) <=> Once(a) /\ Once(o) /\ Apart(a, o)
        BY <1>1, OnceJoined DEF an
      <3>2. Once(o)
        BY DEF Once
      <3> QED
        BY <3>1, <3>2
    <2>3. Apart(a, o) <=> ~Among(n, a)
      BY DEF Apart, Among
    <2>4. Apart(an, b) <=> Apart(a, b) /\ ~Among(n, b)
      <3> DEFINE l == Len(a)
      <3>1. /\ Len(an) = l + 1 /\ l \in Nat
            /\ \A i \in 1 .. l : an[i] = a[i] /\ i \in 1 .. l + 1
            /\ an[l + 1] = n /\ l + 1 \in 1 .. l + 1
            /\ \A i \in 1 .. l + 1 : i \in 1 .. l \/ i = l + 1
        <4>1. /\ Len(an) = l + 1 /\ l \in Nat
              /\ \A i \in 1 .. l : an[i] = a[i] /\ i \in 1 .. l + 1
          BY <1>1, JoinFacts DEF an, Joined
        <4>2. an[l + 1] = n
          <5>1. 1 \in 1 .. Len(o)
            BY <1>1
          <5>2. an[Len(a) + 1] = o[1]
            BY <1>1, <5>1, JoinFacts DEF an, Joined
          <5> QED
            BY <1>1, <5>2
        <4> QED
          BY <4>1, <4>2
      <3>2. Apart(an, b) <=> \A i \in 1 .. l + 1, j \in 1 .. Len(b) : an[i] # b[j]
        BY <3>1 DEF Apart
      <3>3. Apart(a, b) <=> \A i \in 1 .. l, j \in 1 .. Len(b) : a[i] # b[j]
        BY DEF Apart
      <3>4. Among(n, b) <=> \E j \in 1 .. Len(b) : b[j] = n
        BY DEF Among
      <3> HIDE DEF l
      <3> QED
        BY <3>1, <3>2, <3>3, <3>4
    <2> QED
      BY <2>1, <2>2, <2>3, <2>4
  <1>5. ASSUME NEW x, NEW f, NEW end
        PROVE  Chained(x, f, end, an \o b) <=>
                 Chained(x, f, n, a) /\ f[n] = FirstOf(b, end) /\ Chained(FirstOf(b, end), f, end, b)
    <2> DEFINE e == FirstOf(b, end)
    <2>1. Chained(x, f, end, an \o b) <=> Chained(x, f, e, an) /\ Chained(e, f, end, b)
      BY <1>1, ChainJoined
    <2> HIDE DEF e
    <2>2. FirstOf(o, e) = n
      BY DEF FirstOf
    <2>3. Chained(x, f, e, an) <=> Chained(x, f, FirstOf(o, e), a) /\ Chained(FirstOf(o, e), f, e, o)
      BY <1>1, ChainJoined DEF an
    <2>4. Chained(n, f, e, o) <=> f[n] = e
      BY ChainOne
    <2> QED
      BY <2>1, <2>2, <2>3, <2>4 DEF e
  <1>6. Reverse(an \o b) = (Reverse(b) \o o) \o Reverse(a)
    <2>1. Reverse(an \o b) = Reverse(b) \o Reverse(an)
      BY <1>1, BackJoined
    <2>2. Reverse(an) = o \o Reverse(a)
      <3>1. Reverse(an) = Reverse(o) \o Reverse(a)
        BY <1>1, BackJoined DEF an
      <3> QED
        BY <3>1, BackOne
    <2>3. Reverse(a) \in Seq(S) /\ Reverse(b) \in Seq(S)
      BY BackIs
    <2> DEFINE ra == Reverse(a)
               rb == Reverse(b)
    <2>4. rb \o (o \o ra) = (rb \o o) \o ra
      <3>1. ra \in Seq(S) /\ rb \in Seq(S) /\ o \in Seq(S)
        BY <1>1, <2>3
      <3> HIDE DEF ra, rb, o
      <3> QED
        BY <3>1, ConcatAssociative
    <2> QED
      BY <2>1, <2>2, <2>4
  <1> QED
    BY <1>2, <1>3, <1>4, <1>5, <1>6 DEF Inside, an

\* Taking a node away leaves what was before and behind it.
LEMMA WithoutIs ==
  ASSUME NEW c, Tidy(c), NEW n \in ListNodes, NEW h \in ListHeads, Among(n, c[h])
  PROVE  \E a, b \in Seq(ListNodes) : TakenOut(c, n, h, a, b)
  <1> DEFINE s == c[h]
             k == PlaceOf(s, n)
             w == Without(c, n)
  <1>1. c \in [ListHeads -> Seq(ListNodes)] /\ s \in Seq(ListNodes) /\ Once(s) /\ DOMAIN s = 1 .. Len(s)
    BY DEF Tidy
  <1>2. k \in 1 .. Len(s) /\ s[k] = n
    <2>1. \E i \in DOMAIN s : s[i] = n
      BY <1>1 DEF Among
    <2> QED
      BY <1>1, <2>1 DEF PlaceOf
  <1> HIDE DEF k
  <1>3. PICK a, b \in Seq(ListNodes) : s = (a \o <<n>>) \o b /\ RemoveAt(s, k) = a \o b
    <2>1. \E a, b \in Seq(ListNodes) : s = (a \o <<s[k]>>) \o b /\ RemoveAt(s, k) = a \o b
      <3> HIDE DEF s
      <3>1. \E a, b \in Seq(ListNodes) : /\ s = (a \o <<s[k]>>) \o b
                                        /\ RemoveAt(s, k) = a \o b
                                        /\ Len(a) = k - 1
                                        /\ a = SubSeq(s, 1, k - 1) /\ b = SubSeq(s, k + 1, Len(s))
        <4>1. s \in Seq(ListNodes) /\ k \in 1 .. Len(s)
          BY <1>1, <1>2
        <4> QED
          <5>1. Surrounded(ListNodes, s, k)
            BY <4>1, Around
          <5> QED
            BY <5>1 DEF Surrounded
      <3> QED
        BY <3>1
    <2> HIDE DEF s
    <2> QED
      BY <1>2, <2>1
  <1>4. /\ s = Inside(a, n, b)
        /\ Once(a) /\ Once(b) /\ Apart(a, b) /\ ~Among(n, a) /\ ~Among(n, b)
    <2>1. s = Inside(a, n, b)
      BY <1>3 DEF Inside
    <2> HIDE DEF s
    <2>2. Once(Inside(a, n, b)) <=> Once(a) /\ Once(b) /\ Apart(a, b) /\ ~Among(n, a) /\ ~Among(n, b)
      BY BetweenIs
    <2> QED
      BY <1>1, <2>1, <2>2
  <1>5. \A g \in ListHeads : g # h => ~Among(n, c[g])
    <2> SUFFICES ASSUME NEW g \in ListHeads, g # h, NEW i \in 1 .. Len(c[g]), c[g][i] = n PROVE FALSE
      BY DEF Among
    <2>1. Apart(c[g], c[h])
      BY DEF Tidy
    <2> QED
      BY <1>2, <2>1 DEF Apart
  <1>6. w = [c EXCEPT ![h] = a \o b]
    <2>1. \A g \in ListHeads : n \in Range(c[g]) <=> g = h
      BY <1>1, <1>5, HeldIs
    <2>2. \A g \in ListHeads : w[g] = IF g = h THEN a \o b ELSE c[g]
      <3> TAKE g \in ListHeads
      <3>1. w[g] = IF n \in Range(c[g]) THEN RemoveAt(c[g], PlaceOf(c[g], n)) ELSE c[g]
        BY DEF Without
      <3> QED
        BY <1>3, <2>1, <3>1 DEF k
    <2>3. w = [g \in ListHeads |-> w[g]]
      BY DEF Without
    <2> HIDE DEF w
    <2> QED
      BY <1>1, <2>2, <2>3
  <1>7. a \o b \in Seq(ListNodes) /\ Once(a \o b)
    BY <1>4, OnceJoined
  <1>8. \A m : Among(m, a \o b) => Among(m, s)
    <2> HIDE DEF s
    <2> QED
      BY <1>4, AmongJoined, BetweenIs
  <1>9. \A g \in ListHeads : g # h => Apart(a \o b, c[g])
    <2> SUFFICES ASSUME NEW g \in ListHeads, g # h, NEW i \in 1 .. Len(a \o b), NEW j \in 1 .. Len(c[g]),
                        (a \o b)[i] = c[g][j]
                 PROVE  FALSE
      BY DEF Apart
    <2>1. Among(c[g][j], a \o b)
      BY DEF Among
    <2>2. Among(c[g][j], c[h])
      BY <1>8, <2>1
    <2>3. Apart(c[g], c[h])
      BY DEF Tidy
    <2> QED
      BY <2>2, <2>3 DEF Among, Apart
  <1>10. Tidy(w)
    <2> DEFINE t == a \o b
    <2>1. t \in Seq(ListNodes) /\ Once(t) /\ \A g \in ListHeads : g # h => Apart(t, c[g])
      BY <1>7, <1>9
    <2> HIDE DEF t
    <2>2. Tidy([c EXCEPT ![h] = t])
      BY <2>1, TidySet
    <2> HIDE DEF w
    <2> QED
      BY <1>6, <2>2 DEF t
  <1>11. ~Holds(w, n)
    <2>1. ~Among(n, a \o b)
      BY <1>4, AmongJoined
    <2>2. w[h] = a \o b /\ \A g \in ListHeads : g # h => w[g] = c[g]
      BY <1>1, <1>6
    <2>3. w \in [ListHeads -> Seq(ListNodes)]
      BY <1>10 DEF Tidy
    <2> HIDE DEF w
    <2>4. \A g \in ListHeads : ~Among(n, w[g])
      BY <1>5, <2>1, <2>2
    <2>5. Holds(w, n) <=> \E g \in ListHeads : Among(n, w[g])
      BY <2>3, HeldIs
    <2> QED
      BY <2>4, <2>5
  <1> QED
    BY <1>4, <1>6, <1>10, <1>11 DEF TakenOut

\* A node that is on no list is not taken away.
LEMMA WithoutNone ==
  ASSUME NEW c, Tidy(c), NEW n, ~Holds(c, n)
  PROVE  Without(c, n) = c
  <1>1. c \in [ListHeads -> Seq(ListNodes)]
    BY DEF Tidy
  <1>2. \A h \in ListHeads : n \notin Range(c[h])
    BY DEF Holds
  <1> QED
    BY <1>1, <1>2 DEF Without

LastOf(s, start) == IF Len(s) = 0 THEN start ELSE s[Len(s)]

\* Two functions with the same pointers at the nodes of a chain; at all but its last.
SameOn(f, g, s) == \A i \in 1 .. Len(s) : g[s[i]] = f[s[i]]
SameBut(f, g, s) == \A i \in 1 .. Len(s) : i # Len(s) => g[s[i]] = f[s[i]]

\* A chain stays when the pointers of its nodes do.
LEMMA ChainSame ==
  ASSUME NEW s, NEW x, NEW f, NEW g, NEW end, Chained(x, f, end, s), SameOn(f, g, s)
  PROVE  Chained(x, g, end, s)
  BY DEF Chained, SameOn

\* A chain leads elsewhere when the pointer of its last node is changed.
LEMMA ChainTurned ==
  ASSUME NEW S, NEW s \in Seq(S), Len(s) # 0, NEW x, NEW f, NEW g, NEW end, NEW new,
         Chained(x, f, end, s), SameBut(f, g, s), g[s[Len(s)]] = new
  PROVE  Chained(x, g, new, s)
  <1>1. \A i \in 1 .. Len(s) : g[s[i]] = IF i = Len(s) THEN new ELSE s[i + 1]
    BY DEF Chained, SameBut
  <1>2. FirstOf(s, new) = FirstOf(s, end)
    BY DEF FirstOf
  <1> QED
    BY <1>1, <1>2 DEF Chained

\* A chain is put in front of another one.
LEMMA LinkFront ==
  ASSUME NEW S, NEW s \in Seq(S), NEW t \in Seq(S), Len(s) # 0, NEW f, NEW g, NEW x, NEW y, NEW z, NEW end,
         Chained(x, f, y, s), Chained(z, f, end, t),
         SameBut(f, g, s), g[s[Len(s)]] = z, SameOn(f, g, t)
  PROVE  Chained(x, g, end, s \o t)
  <1>1. Chained(x, g, z, s)
    BY ChainTurned
  <1>2. Chained(z, g, end, t) /\ z = FirstOf(t, end)
    <2>1. z = FirstOf(t, end)
      BY DEF Chained
    <2> QED
      BY <2>1, ChainSame
  <1> QED
    BY <1>1, <1>2, ChainJoined

\* A chain is put behind another one, which may be empty.
LEMMA LinkBack ==
  ASSUME NEW S, NEW s \in Seq(S), NEW t \in Seq(S), Len(s) # 0, NEW f, NEW g, NEW x, NEW y, NEW z, NEW end,
         Chained(x, f, y, s), Chained(z, f, end, t),
         SameBut(f, g, s), g[s[Len(s)]] = end, SameBut(f, g, t), Len(t) # 0 => g[t[Len(t)]] = x
  PROVE  Chained(IF Len(t) = 0 THEN x ELSE z, g, end, t \o s)
  <1> DEFINE v == IF Len(t) = 0 THEN x ELSE z
  <1>1. Chained(x, g, end, s) /\ x = FirstOf(s, end)
    <2>1. x = FirstOf(s, end)
      BY DEF Chained, FirstOf
    <2>2. Chained(x, g, end, s)
      BY ChainTurned
    <2> QED
      BY <2>1, <2>2
  <1>2. Chained(v, g, x, t)
    <2>1. CASE Len(t) = 0
      <3>1. v = FirstOf(t, x)
        BY <2>1 DEF FirstOf
      <3>2. \A i \in 1 .. Len(t) : FALSE
        BY <2>1
      <3> QED
        BY <3>1, <3>2 DEF Chained
    <2>2. CASE Len(t) # 0
      BY <2>2, ChainTurned
    <2> QED
      BY <2>1, <2>2
  <1> HIDE DEF v
  <1>3. Chained(v, g, end, t \o s)
    BY <1>1, <1>2, ChainJoined
  <1> QED
    BY <1>3 DEF v

\* A node is taken out of a chain by the pointer in front of it.
LEMMA LinkOut ==
  ASSUME NEW S, NEW a \in Seq(S), NEW b \in Seq(S), NEW n \in S, NEW f, NEW g, NEW z, NEW end,
         Chained(z, f, end, Inside(a, n, b)),
         SameBut(f, g, a), Len(a) # 0 => g[a[Len(a)]] = f[n], SameOn(f, g, b)
  PROVE  Chained(IF Len(a) = 0 THEN f[n] ELSE z, g, end, a \o b)
  <1> DEFINE v == IF Len(a) = 0 THEN f[n] ELSE z
  <1>1. Chained(z, f, n, a) /\ f[n] = FirstOf(b, end) /\ Chained(FirstOf(b, end), f, end, b)
    BY BetweenIs
  <1>2. Chained(FirstOf(b, end), g, end, b)
    BY <1>1, ChainSame
  <1>3. Chained(v, g, f[n], a)
    <2>1. CASE Len(a) = 0
      <3>1. v = FirstOf(a, f[n])
        BY <2>1 DEF FirstOf
      <3>2. \A i \in 1 .. Len(a) : FALSE
        BY <2>1
      <3> QED
        BY <3>1, <3>2 DEF Chained
    <2>2. CASE Len(a) # 0
      BY <1>1, <2>2, ChainTurned
    <2> QED
      BY <2>1, <2>2
  <1> HIDE DEF v
  <1>4. Chained(v, g, end, a \o b)
    BY <1>1, <1>2, <1>3, ChainJoined
  <1> QED
    BY <1>4 DEF v

\* A node is put into a chain by the pointer in front of it and its own.
LEMMA LinkAt ==
  ASSUME NEW S, NEW a \in Seq(S), NEW b \in Seq(S), NEW n \in S, NEW f, NEW g, NEW z, NEW end,
         Chained(z, f, end, a \o b),
         SameBut(f, g, a), Len(a) # 0 => g[a[Len(a)]] = n, SameOn(f, g, b), g[n] = FirstOf(b, end)
  PROVE  Chained(IF Len(a) = 0 THEN n ELSE z, g, end, Inside(a, n, b))
  <1> DEFINE v == IF Len(a) = 0 THEN n ELSE z
             e == FirstOf(b, end)
  <1>1. Chained(z, f, e, a) /\ Chained(e, f, end, b)
    BY ChainJoined
  <1>2. Chained(e, g, end, b)
    BY <1>1, ChainSame
  <1>3. Chained(v, g, n, a)
    <2>1. CASE Len(a) = 0
      <3>1. v = FirstOf(a, n)
        BY <2>1 DEF FirstOf
      <3>2. \A i \in 1 .. Len(a) : FALSE
        BY <2>1
      <3> QED
        BY <3>1, <3>2 DEF Chained
    <2>2. CASE Len(a) # 0
      BY <1>1, <2>2, ChainTurned
    <2> QED
      BY <2>1, <2>2
  <1> HIDE DEF v
  <1>4. Chained(v, g, end, Inside(a, n, b))
    BY <1>2, <1>3, BetweenIs
  <1> QED
    BY <1>4 DEF v

-----------------------------------------------------------------------------
\* A list holds no more nodes than there are.
LEMMA OnceBounded ==
  ASSUME NEW s \in Seq(ListNodes), Once(s)
  PROVE  Len(s) <= Cardinality(ListNodes) /\ Cardinality(ListNodes) \in Nat
  <1> DEFINE l == Len(s)
  <1>1. l \in Nat /\ s \in [1 .. l -> ListNodes] /\ 1 \in Int /\ l \in Int
    OBVIOUS
  <1>2. IsFiniteSet(1 .. l) /\ Cardinality(1 .. l) = l
    <2>1. /\ IsFiniteSet(1 .. l)
          /\ Cardinality(1 .. l) = IF 1 > l THEN 0 ELSE l - 1 + 1
      BY <1>1, FS_Interval, Zenon
    <2> QED
      BY <1>1, <2>1
  <1>3. IsFiniteSet(ListNodes) /\ Cardinality(ListNodes) \in Nat
    BY ListAssumption, FS_CardinalityType
  <1>4. s \in Injection(1 .. l, ListNodes)
    BY <1>1 DEF Injection, IsInjective, Once
  <1>5. Cardinality(1 .. l) <= Cardinality(ListNodes)
    BY <1>2, <1>3, <1>4, FS_Injection
  <1> QED
    BY <1>2, <1>3, <1>5

\* The first element alone.
LEMMA FirstAlone ==
  ASSUME NEW t
  PROVE  SubSeq(t, 1, 1) = <<t[1]>>
  <1> DEFINE S == {t[1]}
             u == SubSeq(t, 1, 1)
             v == <<t[1]>>
  <1>1. u \in Seq(S) /\ Len(u) = 1 /\ u[1] = t[1]
    <2>1. /\ u \in Seq(S)
          /\ Len(u) = IF 1 <= 1 THEN 1 - 1 + 1 ELSE 0
          /\ \A i \in 1 .. 1 - 1 + 1 : u[i] = t[1 + i - 1]
      <3>1. \A i \in 1 .. 1 : t[i] \in S
        OBVIOUS
      <3>2. 1 \in Int
        OBVIOUS
      <3> QED
        BY <3>1, <3>2, SubSeqProperties
    <2> QED
      BY <2>1
  <1>2. v \in Seq(S) /\ Len(v) = 1 /\ v[1] = t[1]
    OBVIOUS
  <1>3. \A i \in 1 .. Len(u) : u[i] = v[i]
    <2> HIDE DEF u, v
    <2> QED
      BY <1>1, <1>2
  <1> HIDE DEF u, v, S
  <1>4. Len(u) = Len(v)
    BY <1>1, <1>2
  <1>5. u = v
    BY <1>1, <1>2, <1>3, <1>4, SeqEqual
  <1> QED
    BY <1>5 DEF u, v

\* The function that follows the pointers, by its recursion.
FollowStep(next, x, end, n, g) ==
  [k \in 0 .. n |-> IF k = 0 THEN <<x>>
     ELSE IF Last(g[k - 1]) \in {end, ListNull} THEN g[k - 1] ELSE Append(g[k - 1], next[Last(g[k - 1])])]

\* The recursive function that follows the pointers has one value.
LEMMA FollowedOnce ==
  ASSUME NEW next, NEW x, NEW end, NEW n \in Nat, NEW f, NEW g,
         f = FollowStep(next, x, end, n, f), g = FollowStep(next, x, end, n, g)
  PROVE  f[n] = g[n]
  <1> DEFINE S == {k \in Nat : k <= n => f[k] = g[k]}
  <1>1. 0 \in S
    <2>1. 0 \in 0 .. n
      OBVIOUS
    <2>2. f[0] = <<x>> /\ g[0] = <<x>>
      BY <2>1 DEF FollowStep
    <2> QED
      BY <2>2
  <1>2. ASSUME NEW k \in Nat, k \in S
        PROVE  k + 1 \in S
    <2> SUFFICES ASSUME k + 1 <= n PROVE f[k + 1] = g[k + 1]
      OBVIOUS
    <2> DEFINE m == k + 1
    <2>1. m \in 0 .. n /\ m # 0 /\ m - 1 = k /\ k <= n
      OBVIOUS
    <2>2. f[k] = g[k]
      BY <1>2, <2>1
    <2> HIDE DEF m
    <2>3. f[m] = IF Last(f[k]) \in {end, ListNull} THEN f[k] ELSE Append(f[k], next[Last(f[k])])
      <3>1. FollowStep(next, x, end, n, f)[m] = IF Last(f[k]) \in {end, ListNull} THEN f[k] ELSE Append(f[k], next[Last(f[k])])
        BY <2>1, Zenon DEF FollowStep
      <3> QED
        BY <3>1
    <2>4. g[m] = IF Last(g[k]) \in {end, ListNull} THEN g[k] ELSE Append(g[k], next[Last(g[k])])
      <3>1. FollowStep(next, x, end, n, g)[m] = IF Last(g[k]) \in {end, ListNull} THEN g[k] ELSE Append(g[k], next[Last(g[k])])
        BY <2>1, Zenon DEF FollowStep
      <3> QED
        BY <3>1
    <2>5. f[m] = g[m]
      BY <2>2, <2>3, <2>4, Zenon
    <2> QED
      BY <2>5 DEF m
  <1>3. Nat \subseteq S
    <2> HIDE DEF S
    <2> QED
      BY <1>1, <1>2, SetInduction
  <1>4. n \in S /\ n <= n
    BY <1>3
  <1> QED
    BY <1>4

\* Following the pointers of a chain visits its nodes in their order and then its end.
LEMMA FollowedIs ==
  ASSUME NEW next, NEW x, NEW end, end \notin ListNodes, NEW s \in Seq(ListNodes), Once(s), Chained(x, next, end, s)
  PROVE  Followed(next, x, end) = Append(s, end)
  <1> DEFINE n == Cardinality(ListNodes) + 1
             l == Len(s)
             t == Append(s, end)
             g == [k \in 0 .. n |-> SubSeq(t, 1, IF k < l THEN k + 1 ELSE l + 1)]
  <1>1. n \in Nat /\ l \in Nat /\ l + 1 <= n
    BY OnceBounded
  <1>2. /\ Len(t) = l + 1 /\ t[l + 1] = end
        /\ \A i \in 1 .. l : t[i] = s[i] /\ s[i] \in ListNodes
    OBVIOUS
  <1>3. t[1] = x /\ \A i \in 1 .. l : t[i + 1] = next[t[i]] /\ t[i] \notin {end, ListNull}
    <2>1. t[1] = x
      <3>1. x = IF l = 0 THEN end ELSE s[1]
        BY DEF Chained, FirstOf
      <3>2. l # 0 => 1 \in 1 .. l
        BY <1>1
      <3>3. l = 0 => t[1] = end
        BY <1>2
      <3> HIDE DEF t, l
      <3> QED
        BY <1>2, <3>1, <3>2, <3>3
    <2>2. ASSUME NEW i \in 1 .. l
          PROVE  t[i + 1] = next[t[i]] /\ t[i] \notin {end, ListNull}
      <3>1. next[s[i]] = IF i = l THEN end ELSE s[i + 1]
        BY DEF Chained
      <3>2. t[i + 1] = IF i = l THEN end ELSE s[i + 1]
        OBVIOUS
      <3>3. t[i] = s[i] /\ s[i] \in ListNodes
        BY <1>2
      <3> HIDE DEF t, l
      <3> QED
        BY <3>1, <3>2, <3>3, ListAssumption
    <2> QED
      BY <2>1, <2>2
  <1>4. \A k \in 0 .. l : SubSeq(t, 1, k + 1) # << >> /\ Last(SubSeq(t, 1, k + 1)) = t[k + 1]
    BY <1>2 DEF Last
  <1>5. \A k \in 1 .. l : SubSeq(t, 1, k + 1) = Append(SubSeq(t, 1, k), t[k + 1])
    OBVIOUS
  <1>6. SubSeq(t, 1, 1) = <<x>>
    <2>1. SubSeq(t, 1, 1) = <<t[1]>>
      BY FirstAlone
    <2> QED
      BY <1>3, <2>1
  <1>7. SubSeq(t, 1, l + 1) = t
    OBVIOUS
  <1> HIDE DEF t, l, n
  <1>8. ASSUME NEW k \in 0 .. n
        PROVE  g[k] = FollowStep(next, x, end, n, g)[k]
    <2>1. CASE k = 0
      <3>1. FollowStep(next, x, end, n, g)[k] = <<x>>
        BY <2>1 DEF FollowStep
      <3>2. g[k] = SubSeq(t, 1, IF k < l THEN k + 1 ELSE l + 1)
        OBVIOUS
      <3> HIDE DEF g
      <3>3. CASE l = 0
        BY <1>6, <2>1, <3>1, <3>2, <3>3
      <3>4. CASE l # 0
        <4>1. 0 < l
          BY <1>1, <3>4
        <4> QED
          BY <1>1, <1>6, <2>1, <3>1, <3>2, <4>1
      <3> QED
        BY <3>3, <3>4
    <2>2. CASE k # 0
      <3> DEFINE j == k - 1
      <3>1. j \in 0 .. n /\ j + 1 = k
        BY <1>1, <2>2
      <3> HIDE DEF j
      <3>2. /\ g[k] = SubSeq(t, 1, IF k < l THEN k + 1 ELSE l + 1)
            /\ g[j] = SubSeq(t, 1, IF j < l THEN j + 1 ELSE l + 1)
        BY <3>1
      <3> HIDE DEF g
      <3>3. FollowStep(next, x, end, n, g)[k]
              = IF Last(g[j]) \in {end, ListNull} THEN g[j] ELSE Append(g[j], next[Last(g[j])])
        BY <2>2 DEF FollowStep, j
      <3>4. CASE k <= l
        <4>1. k \in 1 .. l /\ j \in 0 .. l /\ j < l
          BY <1>1, <2>2, <3>1, <3>4
        <4>2. g[j] = SubSeq(t, 1, k) /\ Last(g[j]) = t[k]
          BY <1>4, <3>1, <3>2, <4>1
        <4>3. g[k] = SubSeq(t, 1, k + 1)
          <5>1. CASE k = l
            BY <1>1, <3>2, <5>1
          <5>2. CASE k # l
            BY <1>1, <3>2, <3>4, <5>2
          <5> QED
            BY <5>1, <5>2
        <4>4. g[k] = Append(g[j], next[t[k]])
          BY <1>3, <1>5, <4>1, <4>2, <4>3
        <4> QED
          BY <1>3, <3>3, <4>1, <4>2, <4>4
      <3>5. CASE ~(k <= l)
        <4>1. ~(j < l) /\ ~(k < l)
          BY <1>1, <3>1, <3>5
        <4>2. g[j] = t /\ g[k] = t
          BY <1>7, <3>2, <4>1
        <4>3. Last(t) = end
          BY <1>2 DEF Last
        <4> QED
          BY <3>3, <4>2, <4>3
      <3> QED
        BY <3>4, <3>5
    <2> QED
      BY <2>1, <2>2
  <1>9. g = FollowStep(next, x, end, n, g)
    <2>1. FollowStep(next, x, end, n, g) = [k \in 0 .. n |-> FollowStep(next, x, end, n, g)[k]]
      BY DEF FollowStep
    <2>2. g = [k \in 0 .. n |-> g[k]]
      OBVIOUS
    <2> HIDE DEF g
    <2> QED
      BY <1>8, <2>1, <2>2
  <1>10. g[n] = t
    <2>1. n \in 0 .. n /\ ~(n < l)
      BY <1>1
    <2> QED
      BY <1>7, <2>1
  <1> DEFINE at == CHOOSE f : f = FollowStep(next, x, end, n, f)
  <1>11. Followed(next, x, end) = at[n]
    BY DEF Followed, FollowStep, n
  <1>12. at = FollowStep(next, x, end, n, at)
    <2> HIDE DEF g
    <2>1. \E f : f = FollowStep(next, x, end, n, f)
      BY <1>9
    <2> QED
      BY <2>1, Zenon
  <1> HIDE DEF at, g
  <1>13. at[n] = g[n]
    BY <1>1, <1>9, <1>12, FollowedOnce
  <1> QED
    BY <1>10, <1>11, <1>13 DEF t

-----------------------------------------------------------------------------
(* Rings of a head and nodes.                                              *)

\* What a pointer is of and to, and the pointers of one direction.
ListPlaces == ListHeads \cup ListNodes
Pointers == [ListPlaces -> ListPlaces \cup {ListNull}]
Elsewhere(f, g, X) == \A x \in ListPlaces : x \notin X => g[x] = f[x]
Ring(f, h, s) == Chained(f[h], f, h, s)

\* The ends of a list change places when it is read backwards.
LEMMA BackEnds ==
  ASSUME NEW S, NEW s \in Seq(S), NEW h
  PROVE  FirstOf(Reverse(s), h) = LastOf(s, h) /\ LastOf(Reverse(s), h) = FirstOf(s, h)
  <1>1. Len(Reverse(s)) = Len(s) /\ Len(s) \in Nat
    BY BackIs
  <1>2. CASE Len(s) = 0
    BY <1>1, <1>2 DEF FirstOf, LastOf
  <1>3. CASE Len(s) # 0
    <2>1. 1 \in 1 .. Len(s) /\ Len(s) \in 1 .. Len(s) /\ Len(s) + 1 - 1 = Len(s) /\ Len(s) + 1 - Len(s) = 1
      BY <1>1, <1>3
    <2>2. Reverse(s)[1] = s[Len(s)] /\ Reverse(s)[Len(s)] = s[1]
      BY <2>1, BackIs
    <2> QED
      BY <1>1, <1>3, <2>2 DEF FirstOf, LastOf
  <1> QED
    BY <1>2, <1>3

\* Where a chain of nodes is changed behind its last node, or behind the head.
LEMMA EndsChange ==
  ASSUME NEW f, NEW g, NEW h \in ListHeads, NEW a \in Seq(ListNodes), Once(a), NEW X,
         Elsewhere(f, g, X \cup {LastOf(a, h)}), \A x \in X : ~Among(x, a)
  PROVE  SameBut(f, g, a)
  <1> SUFFICES ASSUME NEW i \in 1 .. Len(a), i # Len(a) PROVE g[a[i]] = f[a[i]]
    BY DEF SameBut
  <1>1. a[i] \in ListNodes /\ a[i] \in ListPlaces /\ Len(a) # 0 /\ Len(a) \in 1 .. Len(a)
    BY DEF ListPlaces
  <1>2. a[i] # LastOf(a, h)
    BY <1>1 DEF LastOf, Once
  <1>3. a[i] \notin X
    BY DEF Among
  <1> QED
    BY <1>1, <1>2, <1>3 DEF Elsewhere

\* The pointers of the nodes that are not among those changed stay.
LEMMA OthersKept ==
  ASSUME NEW f, NEW g, NEW s \in Seq(ListNodes), NEW X, Elsewhere(f, g, X), \A x \in X : ~Among(x, s)
  PROVE  SameOn(f, g, s)
  BY DEF SameOn, Elsewhere, Among, ListPlaces

\* The first and the last node of a list are on it, or it is the head itself.
LEMMA LastAmong ==
  ASSUME NEW h \in ListHeads, NEW a \in Seq(ListNodes)
  PROVE  /\ LastOf(a, h) = h \/ Among(LastOf(a, h), a)
         /\ FirstOf(a, h) = h \/ Among(FirstOf(a, h), a)
         /\ LastOf(a, h) \in ListPlaces /\ FirstOf(a, h) \in ListPlaces
         /\ \A x : Among(x, a) => x \in ListNodes /\ x # h
  <1>1. CASE Len(a) = 0
    BY <1>1, ListAssumption DEF LastOf, FirstOf, Among, ListPlaces
  <1>2. CASE Len(a) # 0
    <2>1. 1 \in 1 .. Len(a) /\ Len(a) \in 1 .. Len(a)
      BY <1>2
    <2>2. a[1] \in ListNodes /\ a[Len(a)] \in ListNodes
      BY <2>1
    <2> QED
      BY <1>2, <2>1, <2>2, ListAssumption DEF LastOf, FirstOf, Among, ListPlaces
  <1> QED
    BY <1>1, <1>2

\* A node is taken out of a ring.
LEMMA RingOut ==
  ASSUME NEW f, NEW g, NEW h \in ListHeads, NEW a \in Seq(ListNodes), NEW b \in Seq(ListNodes), NEW n \in ListNodes,
         Once(Inside(a, n, b)), Ring(f, h, Inside(a, n, b)),
         Elsewhere(f, g, {LastOf(a, h)}), g[LastOf(a, h)] = FirstOf(b, h)
  PROVE  Ring(g, h, a \o b) /\ (Len(a \o b) = 0 => g[h] = h)
  <1>1. Once(a) /\ Once(b) /\ Apart(a, b) /\ f[n] = FirstOf(b, h)
    <2>1. /\ Once(Inside(a, n, b)) <=> Once(a) /\ Once(b) /\ Apart(a, b) /\ ~Among(n, a) /\ ~Among(n, b)
          /\ Chained(f[h], f, h, Inside(a, n, b)) =>
               Chained(f[h], f, n, a) /\ f[n] = FirstOf(b, h) /\ Chained(FirstOf(b, h), f, h, b)
      BY BetweenIs
    <2> QED
      BY <2>1 DEF Ring
  <1>2. SameBut(f, g, a)
    <2> DEFINE X == {}
    <2>1. Elsewhere(f, g, X \cup {LastOf(a, h)}) /\ \A x \in X : ~Among(x, a)
      BY DEF Elsewhere
    <2> HIDE DEF X
    <2> QED
      BY <1>1, <2>1, EndsChange
  <1>3. SameOn(f, g, b)
    <2>1. ~Among(LastOf(a, h), b)
      BY <1>1, LastAmong DEF Among, Apart
    <2> QED
      BY <2>1, OthersKept
  <1>4. g[h] = IF Len(a) = 0 THEN f[n] ELSE f[h]
    <2>1. CASE Len(a) = 0
      BY <1>1, <2>1 DEF LastOf
    <2>2. CASE Len(a) # 0
      <3>1. LastOf(a, h) \in ListNodes
        BY <2>2 DEF LastOf
      <3> QED
        BY <2>2, <3>1, ListAssumption DEF Elsewhere, ListPlaces
    <2> QED
      BY <2>1, <2>2
  <1>5. Len(a) # 0 => g[a[Len(a)]] = f[n]
    BY <1>1 DEF LastOf
  <1>6. Chained(IF Len(a) = 0 THEN f[n] ELSE f[h], g, h, a \o b)
    BY <1>2, <1>3, <1>5, LinkOut DEF Ring
  <1>7. ASSUME Len(a \o b) = 0
        PROVE  g[h] = h
    <2>1. Len(a) = 0 /\ Len(b) = 0
      BY <1>7
    <2> QED
      BY <1>1, <1>4, <2>1 DEF FirstOf
  <1> QED
    BY <1>4, <1>6, <1>7 DEF Ring

\* A node is put at the back of a ring.
LEMMA RingBack ==
  ASSUME NEW f, NEW g, NEW h \in ListHeads, NEW s \in Seq(ListNodes), NEW n \in ListNodes,
         Once(s), ~Among(n, s), Ring(f, h, s),
         Elsewhere(f, g, {n, LastOf(s, h)}), g[LastOf(s, h)] = n, g[n] = h
  PROVE  Ring(g, h, s \o <<n>>)
  <1> DEFINE o == <<n>>
  <1>1. o \in Seq(ListNodes) /\ Len(o) = 1 /\ o[1] = n
    OBVIOUS
  <1>2. Chained(n, f, f[n], o)
    BY ChainOne
  <1>3. SameBut(f, g, o) /\ g[o[Len(o)]] = h
    BY <1>1 DEF SameBut
  <1>4. SameBut(f, g, s)
    <2> DEFINE X == {n}
    <2>1. Elsewhere(f, g, X \cup {LastOf(s, h)}) /\ \A x \in X : ~Among(x, s)
      BY DEF Elsewhere
    <2> HIDE DEF X
    <2> QED
      BY <2>1, EndsChange
  <1>5. Len(s) # 0 => g[s[Len(s)]] = n
    BY DEF LastOf
  <1>6. g[h] = IF Len(s) = 0 THEN n ELSE f[h]
    <2>1. CASE Len(s) = 0
      BY <2>1 DEF LastOf
    <2>2. CASE Len(s) # 0
      <3>1. LastOf(s, h) \in ListNodes
        BY <2>2 DEF LastOf
      <3> QED
        BY <2>2, <3>1, ListAssumption DEF Elsewhere, ListPlaces
    <2> QED
      BY <2>1, <2>2
  <1> HIDE DEF o
  <1>7. Chained(IF Len(s) = 0 THEN n ELSE f[h], g, h, s \o o)
    <2>1. Chained(f[h], f, h, s) /\ Len(o) # 0 /\ o \in Seq(ListNodes)
      BY <1>1 DEF Ring
    <2> QED
      BY <2>1, <1>2, <1>3, <1>4, <1>5, LinkBack, Zenon
  <1> QED
    BY <1>6, <1>7 DEF Ring, o

\* A node is put at the front of a ring.
LEMMA RingFront ==
  ASSUME NEW f, NEW g, NEW h \in ListHeads, NEW s \in Seq(ListNodes), NEW n \in ListNodes,
         ~Among(n, s), Ring(f, h, s),
         Elsewhere(f, g, {n, h}), g[h] = n, g[n] = FirstOf(s, h)
  PROVE  Ring(g, h, <<n>> \o s)
  <1> DEFINE o == <<n>>
  <1>1. o \in Seq(ListNodes) /\ Len(o) = 1 /\ o[1] = n
    OBVIOUS
  <1>2. Chained(n, f, f[n], o)
    BY ChainOne
  <1>3. SameBut(f, g, o) /\ g[o[Len(o)]] = f[h]
    <2>1. f[h] = FirstOf(s, h)
      BY DEF Ring, Chained
    <2> QED
      BY <1>1, <2>1 DEF SameBut
  <1>4. SameOn(f, g, s)
    <2>1. ~Among(h, s)
      BY LastAmong
    <2> QED
      BY <2>1, OthersKept
  <1> HIDE DEF o
  <1>5. Chained(n, g, h, o \o s)
    <2>1. Chained(f[h], f, h, s) /\ Len(o) # 0 /\ o \in Seq(ListNodes)
      BY <1>1 DEF Ring
    <2> QED
      BY <2>1, <1>2, <1>3, <1>4, LinkFront, Zenon
  <1> QED
    BY <1>5 DEF Ring, o

\* The pointer of a node in a ring is to the one behind it.
LEMMA RingMiddle ==
  ASSUME NEW f, NEW h \in ListHeads, NEW a \in Seq(ListNodes), NEW b \in Seq(ListNodes), NEW n \in ListNodes,
         Ring(f, h, Inside(a, n, b))
  PROVE  f[n] = FirstOf(b, h)
  BY BetweenIs DEF Ring

\* The other rings are left alone.
LEMMA RingKept ==
  ASSUME NEW f, NEW g, NEW h \in ListHeads, NEW s \in Seq(ListNodes), NEW X,
         Ring(f, h, s), Elsewhere(f, g, X), h \notin X, \A x \in X : ~Among(x, s)
  PROVE  Ring(g, h, s)
  <1>1. SameOn(f, g, s)
    BY OthersKept
  <1>2. g[h] = f[h]
    BY DEF Elsewhere, ListPlaces
  <1> QED
    BY <1>1, <1>2, ChainSame DEF Ring

\* A whole ring at the front or the back of another one.
LEMMA RingSpliced ==
  ASSUME NEW f, NEW g, NEW h \in ListHeads, NEW k \in ListHeads, h # k,
         NEW s \in Seq(ListNodes), NEW t \in Seq(ListNodes), Len(s) # 0, Once(s), Apart(s, t),
         Ring(f, k, s), Ring(f, h, t),
         Elsewhere(f, g, {h, LastOf(s, k)}), g[h] = FirstOf(s, k), g[LastOf(s, k)] = FirstOf(t, h)
  PROVE  Ring(g, h, s \o t)
  <1>1. LastOf(s, k) = s[Len(s)] /\ Among(LastOf(s, k), s)
    BY DEF LastOf, Among
  <1>2. SameBut(f, g, s)
    <2>1. {h, LastOf(s, k)} = {h} \cup {LastOf(s, k)} /\ ~Among(h, s)
      BY LastAmong
    <2> QED
      BY <2>1, EndsChange
  <1>3. SameOn(f, g, t)
    <2>1. ~Among(h, t) /\ ~Among(LastOf(s, k), t)
      BY <1>1, LastAmong DEF Among, Apart
    <2> QED
      BY <2>1, OthersKept
  <1>4. Chained(FirstOf(s, k), f, k, s) /\ f[h] = FirstOf(t, h)
    BY DEF Ring, Chained
  <1>5. Chained(FirstOf(s, k), g, h, s \o t)
    BY <1>1, <1>2, <1>3, <1>4, LinkFront DEF Ring
  <1> QED
    BY <1>5 DEF Ring

\* A whole ring is put at the back of another one.
LEMMA RingSplicedBack ==
  ASSUME NEW f, NEW g, NEW h \in ListHeads, NEW k \in ListHeads, h # k,
         NEW s \in Seq(ListNodes), NEW t \in Seq(ListNodes), Len(s) # 0, Once(s), Once(t), Apart(s, t),
         Ring(f, k, s), Ring(f, h, t),
         Elsewhere(f, g, {LastOf(s, k), LastOf(t, h)}), g[LastOf(t, h)] = FirstOf(s, k), g[LastOf(s, k)] = h
  PROVE  Ring(g, h, t \o s)
  <1>1. LastOf(s, k) = s[Len(s)] /\ Among(LastOf(s, k), s)
    BY DEF LastOf, Among
  <1>2. SameBut(f, g, s)
    <2>1. {LastOf(s, k), LastOf(t, h)} = {LastOf(t, h)} \cup {LastOf(s, k)} /\ ~Among(LastOf(t, h), s)
      BY LastAmong DEF Among, Apart
    <2> QED
      BY <2>1, EndsChange
  <1>3. SameBut(f, g, t)
    <2>1. {LastOf(s, k), LastOf(t, h)} = {LastOf(s, k)} \cup {LastOf(t, h)} /\ ~Among(LastOf(s, k), t)
      BY <1>1, LastAmong DEF Among, Apart
    <2> QED
      BY <2>1, EndsChange
  <1>4. Chained(FirstOf(s, k), f, k, s)
    BY DEF Ring, Chained
  <1>5. g[h] = IF Len(t) = 0 THEN FirstOf(s, k) ELSE f[h]
    <2>1. CASE Len(t) = 0
      BY <2>1 DEF LastOf
    <2>2. CASE Len(t) # 0
      <3>1. LastOf(t, h) \in ListNodes /\ LastOf(s, k) \in ListNodes
        BY <1>1, <2>2, LastAmong DEF LastOf
      <3> QED
        BY <2>2, <3>1, ListAssumption DEF Elsewhere, ListPlaces
    <2> QED
      BY <2>1, <2>2
  <1>6. Len(t) # 0 => g[t[Len(t)]] = FirstOf(s, k)
    BY DEF LastOf
  <1>7. Chained(IF Len(t) = 0 THEN FirstOf(s, k) ELSE f[h], g, h, t \o s)
    BY <1>1, <1>2, <1>3, <1>4, <1>6, LinkBack DEF Ring
  <1> QED
    BY <1>5, <1>7 DEF Ring

-----------------------------------------------------------------------------
(* The lists of eh_list.h.                                                 *)

\* The pointers in both directions, the ring of one list, and a head that is initialised.
DShape(d) ==
  /\ d = [next |-> d.next, prev |-> d.prev]
  /\ d.next \in Pointers /\ d.prev \in Pointers
DLinked(d, c, h) == Ring(d.next, h, c[h]) /\ Ring(d.prev, h, Reverse(c[h]))
DReady(d, c, h) == d.next[h] = h \/ Len(c[h]) # 0

\* The lists are sound; what a node off the lists points to may be anything for those of N.
DSound(d, c, N) ==
  /\ DShape(d) /\ Tidy(c)
  /\ \A h \in ListHeads : DReady(d, c, h) => DLinked(d, c, h)
  /\ \A n \in ListNodes : n \notin N /\ ~Holds(c, n) /\ d.next[n] = n => d.prev[n] = n

\* The heads that were initialised still are.
DStillReady(d, c, e, w) == \A h \in ListHeads : DReady(d, c, h) => DReady(e, w, h)

\* A sound change of the pointers at some places, of one list.
DChange(d, c, e, w, h, N, M, X, Y) ==
  /\ DSound(d, c, M) /\ DShape(e) /\ Tidy(w) /\ DLinked(e, w, h)
  /\ \A k \in ListHeads : k # h => w[k] = c[k]
  /\ Elsewhere(d.next, e.next, X) /\ Elsewhere(d.prev, e.prev, Y)
  /\ \A x \in X \cup Y : x = h \/ Among(x, c[h]) \/ x \in N
  /\ N \subseteq ListNodes /\ \A x \in N : ~Holds(c, x) \/ Among(x, c[h])
  /\ \A n \in ListNodes : n \notin N /\ ~Holds(w, n) => n \notin M /\ ~Holds(c, n)

\* An operation on one list keeps all lists sound when it keeps that list linked and leaves the others alone.
LEMMA DChanged ==
  ASSUME NEW d, NEW c, NEW e, NEW w, NEW h \in ListHeads, NEW N, NEW M, NEW X, NEW Y,
         DChange(d, c, e, w, h, N, M, X, Y)
  PROVE  DSound(e, w, N)
  <1> USE DEF DChange
  <1>1. c \in [ListHeads -> Seq(ListNodes)] /\ \A k \in ListHeads : c[k] \in Seq(ListNodes)
    BY DEF DSound, Tidy
  <1>2. ASSUME NEW k \in ListHeads, k # h, NEW x, x \in X \cup Y
        PROVE  x # k /\ ~Among(x, c[k])
    <2>1. Apart(c[h], c[k])
      BY <1>2 DEF DSound, Tidy
    <2>2. CASE x = h
      BY <1>1, <1>2, <2>2, LastAmong
    <2>3. CASE Among(x, c[h])
      <3>1. x \in ListNodes
        BY <1>1, <2>3, LastAmong
      <3>2. ~Among(x, c[k])
        BY <2>1, <2>3 DEF Among, Apart
      <3> QED
        BY <3>1, <3>2, ListAssumption
    <2>4. CASE x \in N /\ ~Among(x, c[h])
      <3>1. x \in ListNodes /\ ~Holds(c, x)
        BY <2>4
      <3>2. ~Among(x, c[k])
        BY <1>1, <3>1, HeldIs
      <3> QED
        BY <3>1, <3>2, ListAssumption
    <2> QED
      BY <1>2, <2>2, <2>3, <2>4
  <1>3. ASSUME NEW k \in ListHeads, k # h, DReady(e, w, k)
        PROVE  DLinked(e, w, k)
    <2>1. w[k] = c[k] /\ k \notin X /\ k \notin Y
      BY <1>2, <1>3
    <2>2. e.next[k] = d.next[k]
      BY <2>1 DEF Elsewhere, ListPlaces
    <2>3. DLinked(d, c, k)
      BY <1>3, <2>1, <2>2 DEF DSound, DReady
    <2>4. Ring(e.next, k, c[k])
      <3>1. Ring(d.next, k, c[k]) /\ \A x \in X : ~Among(x, c[k])
        BY <1>2, <1>3, <2>3 DEF DLinked
      <3> QED
        BY <1>1, <2>1, <3>1, RingKept
    <2>5. Ring(e.prev, k, Reverse(c[k]))
      <3> DEFINE r == Reverse(c[k])
      <3>1. r \in Seq(ListNodes) /\ \A x \in Y : ~Among(x, r)
        <4>1. c[k] \in Seq(ListNodes) /\ \A x \in Y : ~Among(x, c[k])
          BY <1>1, <1>2, <1>3
        <4> QED
          BY <4>1, BackIs
      <3>2. Ring(d.prev, k, r)
        BY <2>3 DEF DLinked
      <3> HIDE DEF r
      <3>3. Ring(e.prev, k, r)
        BY <2>1, <3>1, <3>2, RingKept
      <3> QED
        BY <3>3 DEF r
    <2> QED
      BY <2>1, <2>4, <2>5 DEF DLinked
  <1>4. ASSUME NEW n \in ListNodes, n \notin N, ~Holds(w, n), e.next[n] = n
        PROVE  e.prev[n] = n
    <2>1. n \notin M /\ ~Holds(c, n)
      BY <1>4
    <2>2. n \notin X /\ n \notin Y
      <3>1. ~Among(n, c[h])
        BY <1>1, <2>1, HeldIs
      <3> QED
        BY <1>4, <3>1, ListAssumption
    <2>3. e.next[n] = d.next[n] /\ e.prev[n] = d.prev[n]
      BY <2>2 DEF Elsewhere, ListPlaces
    <2> QED
      BY <1>4, <2>1, <2>3 DEF DSound
  <1>5. \A k \in ListHeads : DReady(e, w, k) => DLinked(e, w, k)
    BY <1>3
  <1> QED
    BY <1>4, <1>5 DEF DSound

\* The heads of the lists an operation leaves alone stay initialised.
LEMMA DReadyKept ==
  ASSUME NEW d, NEW c, NEW e, NEW w, NEW h \in ListHeads, NEW X,
         \A k \in ListHeads : k # h => w[k] = c[k],
         Elsewhere(d.next, e.next, X), \A k \in ListHeads : k # h => k \notin X
  PROVE  \A k \in ListHeads : k # h /\ DReady(d, c, k) => DReady(e, w, k)
  BY DEF DReady, Elsewhere, ListPlaces

\* __eh_list_del
DOutDone(d, c, e, w, n) == DSound(e, w, {n}) /\ Tidy(w) /\ ~Holds(w, n) /\ DStillReady(d, c, e, w)

\* eh_list_del takes a node off its list.
LEMMA DOutHeld ==
  ASSUME NEW d, NEW c, NEW n \in ListNodes, DSound(d, c, {}), NEW h \in ListHeads, Among(n, c[h]),
         NEW e, e = DOut(d, n), NEW w, w = Without(c, n)
  PROVE  DOutDone(d, c, e, w, n)
  <1>1. PICK a, b \in Seq(ListNodes) : TakenOut(c, n, h, a, b)
    BY WithoutIs DEF DSound
  <1>2. /\ c[h] = Inside(a, n, b) /\ w = [c EXCEPT ![h] = a \o b] /\ Tidy(w) /\ ~Holds(w, n)
        /\ Once(Inside(a, n, b)) /\ Once(a) /\ Once(b) /\ Apart(a, b) /\ ~Among(n, a) /\ ~Among(n, b)
    <2>1. Once(c[h])
      BY DEF DSound, Tidy
    <2> QED
      BY <1>1, <2>1 DEF TakenOut
  <1>3. c \in [ListHeads -> Seq(ListNodes)] /\ w[h] = a \o b /\ \A k \in ListHeads : k # h => w[k] = c[k]
    BY <1>2 DEF DSound, Tidy
  <1> DEFINE ra == Reverse(a)
             rb == Reverse(b)
             p == LastOf(a, h)
             q == FirstOf(b, h)
  <1>4. ra \in Seq(ListNodes) /\ rb \in Seq(ListNodes) /\ FirstOf(ra, h) = p /\ LastOf(rb, h) = q
    BY BackIs, BackEnds
  <1>5. DLinked(d, c, h)
    <2>1. Len(c[h]) # 0
      BY <1>3 DEF Among
    <2> QED
      BY <2>1 DEF DSound, DReady
  <1>6. Ring(d.next, h, Inside(a, n, b)) /\ Ring(d.prev, h, Inside(rb, n, ra))
    <2>1. Reverse(Inside(a, n, b)) = Inside(rb, n, ra)
      BY BetweenIs
    <2> QED
      BY <1>2, <1>5, <2>1 DEF DLinked
  <1>7. Once(Inside(rb, n, ra))
    <2>1. Reverse(Inside(a, n, b)) = Inside(rb, n, ra) /\ Inside(a, n, b) \in Seq(ListNodes)
      BY BetweenIs
    <2> QED
      BY <1>2, <2>1, BackIs
  <1> HIDE DEF ra, rb
  <1>8. d.next[n] = q /\ d.prev[n] = p
    <2>1. d.next[n] = FirstOf(b, h)
      BY <1>6, RingMiddle
    <2>2. d.prev[n] = FirstOf(ra, h)
      BY <1>4, <1>6, RingMiddle
    <2> QED
      BY <1>4, <2>1, <2>2
  <1>9. /\ p \in ListPlaces /\ q \in ListPlaces
        /\ p = h \/ Among(p, a)
        /\ q = h \/ Among(q, b)
    BY LastAmong
  <1>10. p # n /\ q # n
    BY <1>2, <1>9, ListAssumption
  <1> HIDE DEF p, q
  <1>11. /\ DShape(d)
         /\ e.next = [d.next EXCEPT ![p] = q] /\ e.prev = [d.prev EXCEPT ![q] = p]
         /\ e = [next |-> e.next, prev |-> e.prev]
    BY <1>8 DEF DOut, DSound
  <1>12. /\ Elsewhere(d.next, e.next, {p}) /\ e.next[p] = q
         /\ Elsewhere(d.prev, e.prev, {q}) /\ e.prev[q] = p
         /\ DShape(e)
    BY <1>9, <1>11 DEF DShape, Pointers, Elsewhere
  <1>13. Ring(e.next, h, a \o b) /\ (Len(a \o b) = 0 => e.next[h] = h)
    <2> DEFINE f == d.next
               g == e.next
    <2>1. /\ Once(Inside(a, n, b)) /\ Ring(f, h, Inside(a, n, b))
          /\ Elsewhere(f, g, {LastOf(a, h)}) /\ g[LastOf(a, h)] = FirstOf(b, h)
      BY <1>2, <1>6, <1>12 DEF p, q
    <2> HIDE DEF f, g
    <2>2. Ring(g, h, a \o b) /\ (Len(a \o b) = 0 => g[h] = h)
      BY <2>1, RingOut
    <2> QED
      BY <2>2 DEF g
  <1>14. Ring(e.prev, h, rb \o ra)
    BY <1>4, <1>6, <1>7, <1>12, RingOut
  <1>15. DLinked(e, w, h)
    <2>1. Reverse(a \o b) = rb \o ra
      BY BackJoined DEF ra, rb
    <2> QED
      BY <1>3, <1>13, <1>14, <2>1 DEF DLinked
  <1>16. Among(p, c[h]) \/ p = h
    BY <1>2, <1>9, BetweenIs
  <1>17. Among(q, c[h]) \/ q = h
    BY <1>2, <1>9, BetweenIs
  <1>18. DSound(e, w, {n})
    <2> DEFINE N == {n}
               X == {p}
               Y == {q}
               M == {}
    <2>1. \A x \in X \cup Y : x = h \/ Among(x, c[h]) \/ x \in N
      BY <1>16, <1>17
    <2>2. N \subseteq ListNodes /\ \A x \in N : ~Holds(c, x) \/ Among(x, c[h])
      OBVIOUS
    <2>3. \A m \in ListNodes : m \notin N /\ ~Holds(w, m) => m \notin M /\ ~Holds(c, m)
      <3> SUFFICES ASSUME NEW m \in ListNodes, m # n, Holds(c, m) PROVE Holds(w, m)
        OBVIOUS
      <3>1. PICK k \in ListHeads : Among(m, c[k])
        BY <1>3, HeldIs
      <3>2. CASE k # h
        <4>1. Among(m, w[k])
          BY <1>3, <3>1, <3>2
        <4> QED
          BY <1>2, <4>1, HeldIs DEF Tidy
      <3>3. CASE k = h
        <4>1. Among(m, a) \/ Among(m, b)
          <5>1. Among(m, Inside(a, n, b)) <=> Among(m, a) \/ m = n \/ Among(m, b)
            BY BetweenIs
          <5> QED
            BY <1>2, <3>1, <3>3, <5>1
        <4>2. Among(m, w[h])
          BY <1>3, <4>1, AmongJoined
        <4> QED
          BY <1>2, <4>2, HeldIs DEF Tidy
      <3> QED
        BY <3>2, <3>3
    <2>4. Elsewhere(d.next, e.next, X) /\ Elsewhere(d.prev, e.prev, Y) /\ DSound(d, c, M)
      BY <1>12
    <2> HIDE DEF N, M, X, Y
    <2>5. DSound(e, w, N)
      <3>1. Tidy(w) /\ DShape(e) /\ \A k \in ListHeads : k # h => w[k] = c[k]
        BY <1>2, <1>3, <1>12
      <3>2. DChange(d, c, e, w, h, N, M, X, Y)
        BY <1>15, <2>1, <2>2, <2>3, <2>4, <3>1 DEF DChange
      <3> QED
        BY <3>2, DChanged
    <2> QED
      BY <2>5 DEF N
  <1>19. DStillReady(d, c, e, w)
    <2>1. DReady(e, w, h)
      BY <1>3, <1>13 DEF DReady
    <2> DEFINE X == {p}
    <2>2. Elsewhere(d.next, e.next, X) /\ \A k \in ListHeads : k # h => k \notin X
      <3>1. p = h \/ p \in ListNodes
        BY <1>9, LastAmong
      <3> QED
        BY <1>12, <3>1, ListAssumption
    <2> HIDE DEF X
    <2>3. \A k \in ListHeads : k # h /\ DReady(d, c, k) => DReady(e, w, k)
      BY <1>3, <2>2, DReadyKept
    <2> QED
      BY <2>1, <2>3 DEF DStillReady
  <1> QED
    BY <1>2, <1>18, <1>19 DEF DOutDone

\* eh_list_del of a node that is on a list or points to itself.
LEMMA DOutIs ==
  ASSUME NEW d, NEW c, NEW n \in ListNodes, DSound(d, c, {}), Holds(c, n) \/ d.next[n] = n,
         NEW e, e = DOut(d, n), NEW w, w = Without(c, n)
  PROVE  DOutDone(d, c, e, w, n)
  <1>1. CASE Holds(c, n)
    <2>1. PICK h \in ListHeads : Among(n, c[h])
      BY <1>1, HeldIs DEF DSound, Tidy
    <2> QED
      BY <2>1, DOutHeld
  <1>2. CASE ~Holds(c, n)
    <2>1. d.next[n] = n /\ d.prev[n] = n
      BY <1>2 DEF DSound
    <2>2. w = c
      BY <1>2, WithoutNone DEF DSound
    <2>3. e = d
      BY <2>1 DEF DOut, DSound, DShape, Pointers
    <2>4. DSound(d, c, {n})
      BY DEF DSound
    <2> QED
      BY <1>2, <2>2, <2>3, <2>4 DEF DOutDone, DStillReady, DSound
  <1> QED
    BY <1>1, <1>2

\* The pointers of a node that is on no list.
LEMMA DSetIs ==
  ASSUME NEW d, NEW c, NEW n \in ListNodes, DSound(d, c, {n}), ~Holds(c, n), NEW to \in {n, ListNull},
         NEW e, e = DSet(d, n, to)
  PROVE  DSound(e, c, {}) /\ DStillReady(d, c, e, c)
  <1>1. /\ Elsewhere(d.next, e.next, {n}) /\ e.next[n] = to
        /\ Elsewhere(d.prev, e.prev, {n}) /\ e.prev[n] = to
        /\ DShape(e)
    BY DEF DSound, DShape, Pointers, DSet, Elsewhere, ListPlaces
  <1>2. c \in [ListHeads -> Seq(ListNodes)] /\ n \notin ListHeads
    BY ListAssumption DEF DSound, Tidy
  <1>3. ASSUME NEW k \in ListHeads
        PROVE  DReady(e, c, k) <=> DReady(d, c, k)
    BY <1>1, <1>2 DEF DReady, Elsewhere, ListPlaces
  <1>4. ASSUME NEW k \in ListHeads, DLinked(d, c, k)
        PROVE  DLinked(e, c, k)
    <2> DEFINE s == c[k]
               r == Reverse(s)
               X == {n}
    <2>1. s \in Seq(ListNodes) /\ r \in Seq(ListNodes) /\ ~Among(n, s) /\ ~Among(n, r)
      BY <1>2, HeldIs, BackIs
    <2>2. Ring(d.next, k, s) /\ Ring(d.prev, k, r)
      BY <1>4 DEF DLinked
    <2>3. \A x \in X : ~Among(x, s) /\ ~Among(x, r)
      BY <2>1
    <2>4. k \notin X /\ Elsewhere(d.next, e.next, X) /\ Elsewhere(d.prev, e.prev, X)
      BY <1>1, <1>2
    <2> HIDE DEF s, r, X
    <2>5. Ring(e.next, k, s) /\ Ring(e.prev, k, r)
      BY <2>1, <2>2, <2>3, <2>4, RingKept
    <2> QED
      BY <2>5 DEF DLinked, s, r
  <1>5. \A k \in ListHeads : DReady(e, c, k) => DLinked(e, c, k)
    BY <1>3, <1>4 DEF DSound
  <1>6. ASSUME NEW m \in ListNodes, ~Holds(c, m), e.next[m] = m
        PROVE  e.prev[m] = m
    <2>1. CASE m = n
      BY <1>1, <1>6, <2>1
    <2>2. CASE m # n
      <3>1. e.next[m] = d.next[m] /\ e.prev[m] = d.prev[m]
        BY <1>1, <2>2 DEF Elsewhere, ListPlaces
      <3> QED
        BY <1>6, <2>2, <3>1 DEF DSound
    <2> QED
      BY <2>1, <2>2
  <1> QED
    BY <1>1, <1>3, <1>5, <1>6 DEF DSound, DStillReady

\* Appending is joining with one element.
LEMMA AppendJoined ==
  ASSUME NEW S, NEW s \in Seq(S), NEW n \in S
  PROVE  Append(s, n) = s \o <<n>>
  OBVIOUS

\* A node is put at an end of a list.
PlacedAt(d, c, e, n, h, t, X, Y) ==
  /\ DShape(e)
  /\ Elsewhere(d.next, e.next, X) /\ Elsewhere(d.prev, e.prev, Y)
  /\ \A x \in X \cup Y : x = h \/ Among(x, c[h]) \/ x \in {n}
  /\ Ring(e.next, h, t) /\ Ring(e.prev, h, Reverse(t))
  /\ h \in Y \/ h \in X

\* eh_list_add and eh_list_add_tail link the node into the ring of the list.
LEMMA DPlacedPoints ==
  ASSUME NEW d, NEW c, NEW n \in ListNodes, NEW h \in ListHeads, NEW tail \in BOOLEAN,
         DSound(d, c, {n}), ~Holds(c, n), DReady(d, c, h),
         NEW e, e = DPlaced(d, n, h, tail)
  PROVE  \E X, Y : PlacedAt(d, c, e, n, h, IF tail THEN c[h] \o <<n>> ELSE <<n>> \o c[h], X, Y)
  <1> DEFINE s == c[h]
             r == Reverse(s)
             p == LastOf(s, h)
             q == FirstOf(s, h)
             o == <<n>>
  <1>1. s \in Seq(ListNodes) /\ Once(s) /\ c \in [ListHeads -> Seq(ListNodes)]
    BY DEF DSound, Tidy
  <1>2. r \in Seq(ListNodes) /\ Once(r) /\ ~Among(n, s) /\ ~Among(n, r)
    BY <1>1, BackIs, HeldIs
  <1>3. FirstOf(r, h) = p /\ LastOf(r, h) = q
    BY <1>1, BackEnds
  <1>4. Ring(d.next, h, s) /\ Ring(d.prev, h, r)
    BY DEF DSound, DLinked
  <1>5. d.next[h] = q /\ d.prev[h] = p
    <2> HIDE DEF r
    <2> QED
      BY <1>3, <1>4 DEF Ring, Chained
  <1>6. /\ p \in ListPlaces /\ q \in ListPlaces /\ n \in ListPlaces /\ h \in ListPlaces
        /\ p = h \/ Among(p, s)
        /\ q = h \/ Among(q, s)
        /\ n # h /\ p # n /\ q # n
    <2>1. /\ p \in ListPlaces /\ q \in ListPlaces
          /\ p = h \/ Among(p, s)
          /\ q = h \/ Among(q, s)
      BY <1>1, LastAmong
    <2> HIDE DEF p, q
    <2> QED
      BY <1>2, <2>1, ListAssumption DEF ListPlaces
  <1>7. Reverse(s \o o) = o \o r /\ Reverse(o \o s) = r \o o
    <2>1. o \in Seq(ListNodes)
      OBVIOUS
    <2>2. Reverse(s \o o) = Reverse(o) \o r /\ Reverse(o \o s) = r \o Reverse(o)
      BY <1>1, <2>1, BackJoined
    <2> QED
      BY <2>2, BackOne
  <1>8. DShape(d)
    BY DEF DSound
  <1> HIDE DEF p, q, r, s
  <1>9. CASE tail
    <2>1. e = DBetween(d, n, p, h)
      BY <1>5, <1>9 DEF DPlaced
    <2>2. /\ e.next = [d.next EXCEPT ![n] = h, ![p] = n] /\ e.prev = [d.prev EXCEPT ![h] = n, ![n] = p]
          /\ e = [next |-> e.next, prev |-> e.prev]
      BY <2>1 DEF DBetween
    <2>3. /\ Elsewhere(d.next, e.next, {n, p}) /\ e.next[p] = n /\ e.next[n] = h
          /\ Elsewhere(d.prev, e.prev, {n, h}) /\ e.prev[h] = n /\ e.prev[n] = p
          /\ DShape(e)
      BY <1>6, <1>8, <2>2 DEF DShape, Pointers, Elsewhere
    <2>4. Ring(e.next, h, s \o o)
      BY <1>1, <1>2, <1>4, <2>3, RingBack DEF p
    <2>5. Ring(e.prev, h, o \o r)
      BY <1>2, <1>3, <1>4, <2>3, RingFront
    <2>6. \A x \in {n, p} \cup {n, h} : x = h \/ Among(x, s) \/ x \in {n}
      BY <1>6
    <2>7. PlacedAt(d, c, e, n, h, s \o o, {n, p}, {n, h})
      BY <1>7, <2>3, <2>4, <2>5, <2>6 DEF PlacedAt, s
    <2> QED
      BY <1>9, <2>7 DEF s
  <1>10. CASE ~tail
    <2>1. e = DBetween(d, n, h, q)
      BY <1>5, <1>10 DEF DPlaced
    <2>2. /\ e.next = [d.next EXCEPT ![n] = q, ![h] = n] /\ e.prev = [d.prev EXCEPT ![q] = n, ![n] = h]
          /\ e = [next |-> e.next, prev |-> e.prev]
      BY <2>1 DEF DBetween
    <2>3. /\ Elsewhere(d.next, e.next, {n, h}) /\ e.next[h] = n /\ e.next[n] = q
          /\ Elsewhere(d.prev, e.prev, {n, q}) /\ e.prev[q] = n /\ e.prev[n] = h
          /\ DShape(e)
      BY <1>6, <1>8, <2>2 DEF DShape, Pointers, Elsewhere
    <2>4. Ring(e.next, h, o \o s)
      BY <1>1, <1>2, <1>4, <2>3, RingFront DEF q
    <2>5. Ring(e.prev, h, r \o o)
      BY <1>2, <1>3, <1>4, <2>3, RingBack
    <2>6. \A x \in {n, h} \cup {n, q} : x = h \/ Among(x, s) \/ x \in {n}
      BY <1>6
    <2>7. PlacedAt(d, c, e, n, h, o \o s, {n, h}, {n, q})
      BY <1>7, <2>3, <2>4, <2>5, <2>6 DEF PlacedAt, s
    <2> QED
      BY <1>10, <2>7 DEF s
  <1> QED
    BY <1>9, <1>10

\* The contents when a node has been put at an end of a list.
WithNode(c, n, h, t, w) ==
  /\ t \in Seq(ListNodes) /\ Tidy(w) /\ Len(t) # 0
  /\ w[h] = t /\ \A k \in ListHeads : k # h => w[k] = c[k]
  /\ \A m : Holds(w, m) <=> Holds(c, m) \/ m = n

\* The contents stay tidy when a node that was on no list is put at an end of one.
LEMMA PlacedTidy ==
  ASSUME NEW c, Tidy(c), NEW n \in ListNodes, ~Holds(c, n), NEW h \in ListHeads, NEW tail \in BOOLEAN,
         NEW t, t = IF tail THEN c[h] \o <<n>> ELSE <<n>> \o c[h], NEW w, w = [c EXCEPT ![h] = t]
  PROVE  WithNode(c, n, h, t, w)
  <1> DEFINE s == c[h]
             o == <<n>>
  <1>1. s \in Seq(ListNodes) /\ Once(s) /\ c \in [ListHeads -> Seq(ListNodes)]
    BY DEF Tidy
  <1>2. \A k \in ListHeads : ~Among(n, c[k])
    BY <1>1, HeldIs
  <1>3. o \in Seq(ListNodes) /\ Once(o) /\ Apart(s, o) /\ Apart(o, s) /\ \A m : Among(m, o) <=> m = n
    <2>1. o \in Seq(ListNodes) /\ Once(o)
      BY DEF Once
    <2>2. Apart(s, o) /\ Apart(o, s)
      BY <1>2 DEF Apart, Among
    <2> QED
      BY <2>1, <2>2, AmongOne
  <1> HIDE DEF o, s
  <1>4. t = IF tail THEN s \o o ELSE o \o s
    BY DEF o, s
  <1>5. t \in Seq(ListNodes) /\ Once(t) /\ \A m : Among(m, t) <=> Among(m, s) \/ m = n
    <2>1. CASE tail
      <3>1. s \o o \in Seq(ListNodes) /\ Once(s \o o) /\ \A m : Among(m, s \o o) <=> Among(m, s) \/ Among(m, o)
        BY <1>1, <1>3, OnceJoined, AmongJoined
      <3> QED
        BY <1>3, <1>4, <2>1, <3>1
    <2>2. CASE ~tail
      <3>1. o \o s \in Seq(ListNodes) /\ Once(o \o s) /\ \A m : Among(m, o \o s) <=> Among(m, o) \/ Among(m, s)
        BY <1>1, <1>3, OnceJoined, AmongJoined
      <3> QED
        BY <1>3, <1>4, <2>2, <3>1
    <2> QED
      BY <2>1, <2>2
  <1>6. Len(t) # 0
    <2>1. Among(n, t)
      BY <1>5
    <2> QED
      BY <1>5, <2>1 DEF Among
  <1>7. w[h] = t /\ \A k \in ListHeads : k # h => w[k] = c[k]
    BY <1>1
  <1>8. \A g \in ListHeads : g # h => Apart(t, c[g])
    <2> SUFFICES ASSUME NEW g \in ListHeads, g # h, NEW i \in 1 .. Len(t), NEW j \in 1 .. Len(c[g]), t[i] = c[g][j]
                 PROVE  FALSE
      BY DEF Apart
    <2>1. Among(t[i], t) /\ Among(c[g][j], c[g])
      BY DEF Among
    <2>2. Apart(c[g], s)
      BY DEF Tidy, s
    <2>3. ~Among(t[i], s)
      BY <2>2 DEF Among, Apart
    <2>4. t[i] = n
      BY <1>5, <2>1, <2>3
    <2> QED
      BY <1>2, <2>1, <2>4
  <1>9. Tidy(w)
    BY <1>5, <1>8, TidySet
  <1>10. ASSUME NEW m
         PROVE  Holds(w, m) <=> Holds(c, m) \/ m = n
    <2>1. Holds(w, m) <=> \E k \in ListHeads : Among(m, w[k])
      BY <1>9, HeldIs DEF Tidy
    <2>2. Holds(c, m) <=> \E k \in ListHeads : Among(m, c[k])
      BY <1>1, HeldIs
    <2>3. \A k \in ListHeads : Among(m, w[k]) <=> Among(m, c[k]) \/ (k = h /\ m = n)
      <3> TAKE k \in ListHeads
      <3>1. CASE k = h
        BY <1>5, <1>7, <3>1 DEF s
      <3>2. CASE k # h
        BY <1>7, <3>2
      <3> QED
        BY <3>1, <3>2
    <2> QED
      BY <2>1, <2>2, <2>3
  <1> QED
    BY <1>5, <1>6, <1>7, <1>9, <1>10 DEF WithNode

\* eh_list_add and eh_list_add_tail keep the lists sound.
LEMMA DPlacedIs ==
  ASSUME NEW d, NEW c, NEW n \in ListNodes, NEW h \in ListHeads, NEW tail \in BOOLEAN,
         DSound(d, c, {n}), ~Holds(c, n), DReady(d, c, h),
         NEW e, e = DPlaced(d, n, h, tail), NEW w, w = [c EXCEPT ![h] = Placed(@, n, tail)]
  PROVE  DSound(e, w, {}) /\ DStillReady(d, c, e, w)
  <1> DEFINE t == IF tail THEN c[h] \o <<n>> ELSE <<n>> \o c[h]
             N == {n}
  <1>1. Tidy(c) /\ c[h] \in Seq(ListNodes)
    BY DEF DSound, Tidy
  <1>2. w = [c EXCEPT ![h] = t]
    BY <1>1, AppendJoined DEF Placed
  <1>3. PICK X, Y : PlacedAt(d, c, e, n, h, t, X, Y)
    BY DPlacedPoints
  <1> HIDE DEF t
  <1>4. /\ t \in Seq(ListNodes) /\ Tidy(w) /\ Len(t) # 0
        /\ w[h] = t /\ \A k \in ListHeads : k # h => w[k] = c[k]
        /\ \A m : Holds(w, m) <=> Holds(c, m) \/ m = n
    <2>1. t = IF tail THEN c[h] \o <<n>> ELSE <<n>> \o c[h]
      BY DEF t
    <2>2. WithNode(c, n, h, t, w)
      BY <1>1, <1>2, <2>1, PlacedTidy
    <2> QED
      BY <2>2 DEF WithNode
  <1>5. \A x \in X \cup Y : x = h \/ Among(x, c[h]) \/ x \in N
    BY <1>3 DEF PlacedAt
  <1>6. N \subseteq ListNodes /\ \A x \in N : ~Holds(c, x) \/ Among(x, c[h])
    OBVIOUS
  <1>7. \A m \in ListNodes : m \notin N /\ ~Holds(w, m) => m \notin N /\ ~Holds(c, m)
    BY <1>4
  <1>8. DSound(d, c, N)
    OBVIOUS
  <1> HIDE DEF N
  <1>9. DChange(d, c, e, w, h, N, N, X, Y)
    <2>1. DLinked(e, w, h)
      BY <1>3, <1>4 DEF PlacedAt, DLinked
    <2> QED
      BY <1>3, <1>4, <1>5, <1>6, <1>7, <1>8, <2>1 DEF PlacedAt, DChange
  <1>10. DSound(e, w, N)
    BY <1>9, DChanged
  <1>11. DSound(e, w, {})
    BY <1>4, <1>10 DEF DSound, N
  <1>12. DStillReady(d, c, e, w)
    <2>1. DReady(e, w, h)
      BY <1>4 DEF DReady
    <2>2. Elsewhere(d.next, e.next, X) /\ \A k \in ListHeads : k # h => k \notin X
      <3>1. \A x \in X : x = h \/ x \in ListNodes
        BY <1>1, <1>5, LastAmong DEF N
      <3> QED
        BY <1>3, <3>1, ListAssumption DEF PlacedAt
    <2>3. \A k \in ListHeads : k # h /\ DReady(d, c, k) => DReady(e, w, k)
      <3>1. \A k \in ListHeads : k # h => w[k] = c[k]
        BY <1>4
      <3> QED
        BY <2>2, <3>1 DEF DReady, Elsewhere, ListPlaces
    <2> QED
      BY <2>1, <2>3 DEF DStillReady
  <1> QED
    BY <1>11, <1>12

\* eh_list_head_init
LEMMA DHeadSet ==
  ASSUME NEW d, NEW c, NEW h \in ListHeads, DSound(d, c, {}), Len(c[h]) = 0, NEW e, e = DSet(d, h, h)
  PROVE  DSound(e, c, {}) /\ DStillReady(d, c, e, c)
  <1> DEFINE X == {h}
             N == {}
  <1>1. Tidy(c) /\ c[h] \in Seq(ListNodes) /\ DShape(d)
    BY DEF DSound, Tidy
  <1>2. /\ Elsewhere(d.next, e.next, X) /\ e.next[h] = h
        /\ Elsewhere(d.prev, e.prev, X) /\ e.prev[h] = h
        /\ DShape(e)
    BY <1>1 DEF DShape, Pointers, DSet, Elsewhere, ListPlaces
  <1>3. DLinked(e, c, h)
    <2>1. c[h] = << >> /\ Reverse(c[h]) = << >>
      <3>1. Reverse(c[h]) \in Seq(ListNodes) /\ Len(Reverse(c[h])) = 0
        BY <1>1, BackIs
      <3> QED
        BY <1>1, <3>1
    <2>2. Chained(h, e.next, h, << >>) /\ Chained(h, e.prev, h, << >>)
      BY ChainNone
    <2> QED
      BY <1>2, <2>1, <2>2 DEF DLinked, Ring
  <1>4. /\ \A x \in X \cup X : x = h \/ Among(x, c[h]) \/ x \in N
        /\ N \subseteq ListNodes /\ \A x \in N : ~Holds(c, x) \/ Among(x, c[h])
        /\ \A m \in ListNodes : m \notin N /\ ~Holds(c, m) => m \notin N /\ ~Holds(c, m)
        /\ DSound(d, c, N) /\ \A k \in ListHeads : k # h => k \notin X
    OBVIOUS
  <1> HIDE DEF X
  <1>5. DSound(e, c, N)
    <2> HIDE DEF N
    <2>1. DChange(d, c, e, c, h, N, N, X, X)
      BY <1>1, <1>2, <1>3, <1>4 DEF DChange
    <2> QED
      BY <2>1, DChanged
  <1>6. DStillReady(d, c, e, c)
    BY <1>2, <1>4 DEF DStillReady, DReady, Elsewhere, ListPlaces
  <1> QED
    BY <1>5, <1>6

\* eh_list_splice
Splicing(d, c, e, w, g, h) ==
  LET first == d.next[g]
      last  == d.prev[g]
      at    == d.next[h]
  IN  /\ e = [next |-> [d.next EXCEPT ![h] = first, ![last] = at],
              prev |-> [d.prev EXCEPT ![first] = h, ![at] = last]]
      /\ w = [c EXCEPT ![g] = << >>, ![h] = c[g] \o @]

\* The contents when a list has been emptied into another one.
WithSpliced(c, v, w, g, h) ==
  /\ Tidy(v) /\ Tidy(w)
  /\ v[g] = << >> /\ \A k \in ListHeads : k # g => v[k] = c[k]
  /\ w[h] = c[g] \o c[h] /\ \A k \in ListHeads : k # h => w[k] = v[k]
  /\ \A m : Holds(v, m) <=> Holds(c, m) /\ ~Among(m, c[g])
  /\ \A m : Holds(w, m) <=> Holds(c, m)

\* The contents stay tidy when a list is emptied into another one.
LEMMA SplicedTidy ==
  ASSUME NEW c, Tidy(c), NEW g \in ListHeads, NEW h \in ListHeads, g # h,
         NEW v, v = [c EXCEPT ![g] = << >>], NEW w, w = [v EXCEPT ![h] = c[g] \o c[h]]
  PROVE  WithSpliced(c, v, w, g, h)
  <1> DEFINE s == c[g]
             t == c[h]
             st == s \o t
             z == << >>
  <1>1. /\ s \in Seq(ListNodes) /\ Once(s) /\ t \in Seq(ListNodes) /\ Once(t) /\ Apart(s, t)
        /\ c \in [ListHeads -> Seq(ListNodes)]
    BY DEF Tidy
  <1>2. v[g] = << >> /\ \A k \in ListHeads : k # g => v[k] = c[k]
    BY <1>1
  <1>3. Tidy(v)
    <2>1. z \in Seq(ListNodes) /\ Once(z) /\ \A k \in ListHeads : k # g => Apart(z, c[k])
      BY DEF Once, Apart
    <2>2. v = [c EXCEPT ![g] = z]
      OBVIOUS
    <2> HIDE DEF z
    <2>3. Tidy([c EXCEPT ![g] = z])
      BY <2>1, TidySet
    <2> QED
      BY <2>2, <2>3
  <1>4. /\ st \in Seq(ListNodes) /\ Once(st)
        /\ \A m : Among(m, st) <=> Among(m, s) \/ Among(m, t)
    <2> HIDE DEF s, t
    <2> QED
      BY <1>1, OnceJoined, AmongJoined
  <1> HIDE DEF st, z
  <1>5. \A k \in ListHeads : k # h => Apart(st, v[k])
    <2> SUFFICES ASSUME NEW k \in ListHeads, k # h, NEW i \in 1 .. Len(st), NEW j \in 1 .. Len(v[k]), st[i] = v[k][j]
                 PROVE  FALSE
      BY DEF Apart
    <2>1. k # g
      BY <1>2
    <2>2. v[k] = c[k]
      BY <1>2, <2>1
    <2>3. Among(st[i], c[k]) /\ Among(st[i], st)
      BY <2>2 DEF Among
    <2>4. Apart(c[k], s) /\ Apart(c[k], t)
      BY <2>1 DEF Tidy
    <2>5. ~Among(st[i], s) /\ ~Among(st[i], t)
      BY <2>3, <2>4 DEF Among, Apart
    <2> QED
      BY <1>4, <2>3, <2>5
  <1>6. w = [v EXCEPT ![h] = st]
    BY DEF st
  <1>7. w[h] = st /\ \A k \in ListHeads : k # h => w[k] = v[k]
    BY <1>3, <1>6 DEF Tidy
  <1>8. Tidy(w)
    <2>1. Tidy([v EXCEPT ![h] = st])
      BY <1>3, <1>4, <1>5, TidySet
    <2> QED
      BY <1>6, <2>1
  <1>9. ASSUME NEW m
        PROVE  (Holds(v, m) <=> Holds(c, m) /\ ~Among(m, c[g])) /\ (Holds(w, m) <=> Holds(c, m))
    <2>1. /\ Holds(v, m) <=> \E k \in ListHeads : Among(m, v[k])
          /\ Holds(w, m) <=> \E k \in ListHeads : Among(m, w[k])
          /\ Holds(c, m) <=> \E k \in ListHeads : Among(m, c[k])
      BY <1>1, <1>3, <1>8, HeldIs DEF Tidy
    <2>2. ~Among(m, << >>)
      BY DEF Among
    <2>3. \A k \in ListHeads : k # g /\ Among(m, c[k]) => ~Among(m, c[g])
      <3> SUFFICES ASSUME NEW k \in ListHeads, k # g, Among(m, c[k]), Among(m, c[g]) PROVE FALSE
        OBVIOUS
      <3>1. Apart(c[k], c[g])
        BY DEF Tidy
      <3> QED
        BY <3>1 DEF Among, Apart
    <2> QED
      BY <1>2, <1>4, <1>7, <2>1, <2>2, <2>3
  <1> QED
    BY <1>2, <1>3, <1>7, <1>8, <1>9 DEF st, WithSpliced

\* The rings when one has been spliced into another.
SplicedRings(d, e, g, h, s, t) ==
  /\ DShape(e)
  /\ Elsewhere(d.next, e.next, {h, LastOf(s, g)}) /\ Elsewhere(d.prev, e.prev, {FirstOf(s, g), FirstOf(t, h)})
  /\ Ring(e.next, h, s \o t) /\ Ring(e.prev, h, Reverse(s \o t))
  /\ Among(FirstOf(s, g), s) /\ Among(LastOf(s, g), s)
  /\ FirstOf(t, h) = h \/ Among(FirstOf(t, h), t)
  /\ d.next[g] # g /\ e.next[g] = d.next[g]

\* eh_list_splice links the ring of one list into that of the other, in both directions.
LEMMA DSplicedRings ==
  ASSUME NEW d, DShape(d), NEW g \in ListHeads, NEW h \in ListHeads, g # h,
         NEW s \in Seq(ListNodes), NEW t \in Seq(ListNodes), Once(s), Once(t), Apart(s, t), Len(s) # 0,
         Ring(d.next, g, s), Ring(d.prev, g, Reverse(s)), Ring(d.next, h, t), Ring(d.prev, h, Reverse(t)),
         NEW e, e = [next |-> [d.next EXCEPT ![h] = d.next[g], ![d.prev[g]] = d.next[h]],
                     prev |-> [d.prev EXCEPT ![d.next[g]] = h, ![d.next[h]] = d.prev[g]]]
  PROVE  SplicedRings(d, e, g, h, s, t)
  <1> DEFINE rs == Reverse(s)
             rt == Reverse(t)
             first == FirstOf(s, g)
             last == LastOf(s, g)
             at == FirstOf(t, h)
  <1>1. /\ rs \in Seq(ListNodes) /\ rt \in Seq(ListNodes) /\ Once(rs) /\ Once(rt) /\ Len(rs) # 0
        /\ \A m : (Among(m, rs) <=> Among(m, s)) /\ (Among(m, rt) <=> Among(m, t))
    BY BackIs
  <1>2. FirstOf(rs, g) = last /\ LastOf(rs, g) = first /\ LastOf(rt, h) = at
    BY BackEnds
  <1>3. Reverse(s \o t) = rt \o rs
    BY BackJoined
  <1>4. Ring(d.prev, g, rs) /\ Ring(d.prev, h, rt)
    OBVIOUS
  <1>5. first = s[1] /\ last = s[Len(s)] /\ Among(first, s) /\ Among(last, s)
    BY DEF FirstOf, LastOf, Among
  <1>6. at = h \/ Among(at, t)
    BY LastAmong
  <1> HIDE DEF rs, rt, first, last, at
  <1>7. d.next[g] = first /\ d.prev[g] = last /\ d.next[h] = at
    BY <1>2, <1>4 DEF Ring, Chained, first, at
  <1>8. /\ first \in ListNodes /\ last \in ListNodes /\ at \in ListPlaces /\ at # first /\ at # g
        /\ first # g /\ first # h /\ last # g /\ last # h
    <2>1. \A m : Among(m, s) => m \in ListNodes /\ ~Among(m, t)
      BY LastAmong DEF Among, Apart
    <2>2. \A m : Among(m, t) => m \in ListNodes
      BY LastAmong
    <2> QED
      BY <1>5, <1>6, <2>1, <2>2, ListAssumption DEF ListPlaces
  <1>9. Apart(rs, rt)
    <2> SUFFICES ASSUME NEW i \in 1 .. Len(rs), NEW j \in 1 .. Len(rt), rs[i] = rt[j] PROVE FALSE
      BY DEF Apart
    <2>1. Among(rs[i], s) /\ Among(rs[i], t)
      BY <1>1 DEF Among
    <2> QED
      BY <2>1 DEF Among, Apart
  <1>10. /\ e.next = [d.next EXCEPT ![h] = first, ![last] = at]
         /\ e.prev = [d.prev EXCEPT ![first] = h, ![at] = last]
         /\ e = [next |-> e.next, prev |-> e.prev]
    BY <1>7
  <1>11. /\ Elsewhere(d.next, e.next, {h, last}) /\ e.next[h] = first /\ e.next[last] = at
         /\ Elsewhere(d.prev, e.prev, {first, at}) /\ e.prev[first] = h /\ e.prev[at] = last
         /\ DShape(e) /\ e.next[g] = d.next[g]
    BY <1>8, <1>10 DEF DShape, Pointers, Elsewhere, ListPlaces
  <1>12. Ring(e.next, h, s \o t)
    BY <1>11, RingSpliced DEF first, last, at
  <1>13. Ring(e.prev, h, rt \o rs)
    <2>1. /\ Elsewhere(d.prev, e.prev, {LastOf(rs, g), LastOf(rt, h)}) /\ e.prev[LastOf(rt, h)] = FirstOf(rs, g)
          /\ e.prev[LastOf(rs, g)] = h
      BY <1>2, <1>11
    <2> QED
      BY <1>1, <1>4, <1>9, <2>1, RingSplicedBack
  <1> QED
    BY <1>3, <1>5, <1>6, <1>7, <1>8, <1>11, <1>12, <1>13 DEF SplicedRings, first, last, at

\* eh_list_splice and eh_list_splice_init keep the lists sound.
LEMMA DSplicedIs ==
  ASSUME NEW d, NEW c, DSound(d, c, {}), NEW g \in ListHeads, NEW h \in ListHeads, g # h,
         Len(c[g]) # 0, DReady(d, c, h), NEW e, NEW w, Splicing(d, c, e, w, g, h)
  PROVE  DSound(e, w, {}) /\ Len(w[g]) = 0 /\ \A k \in ListHeads : k # g /\ DReady(d, c, k) => DReady(e, w, k)
  <1> DEFINE s == c[g]
             t == c[h]
             v == [c EXCEPT ![g] = << >>]
             N == {m \in ListNodes : Among(m, s)}
             X == {h, LastOf(s, g)}
             Y == {FirstOf(s, g), FirstOf(t, h)}
  <1>1. /\ s \in Seq(ListNodes) /\ Once(s) /\ t \in Seq(ListNodes) /\ Once(t) /\ Apart(s, t)
        /\ c \in [ListHeads -> Seq(ListNodes)] /\ Tidy(c) /\ DShape(d)
    BY DEF DSound, Tidy
  <1>2. w = [v EXCEPT ![h] = s \o t]
    BY <1>1 DEF Splicing
  <1>3. /\ Tidy(v) /\ Tidy(w)
        /\ v[g] = << >> /\ \A k \in ListHeads : k # g => v[k] = c[k]
        /\ w[h] = s \o t /\ \A k \in ListHeads : k # h => w[k] = v[k]
        /\ \A m : Holds(v, m) <=> Holds(c, m) /\ ~Among(m, s)
        /\ \A m : Holds(w, m) <=> Holds(c, m)
    <2>1. WithSpliced(c, v, w, g, h)
      <3>1. v = [c EXCEPT ![g] = << >>] /\ w = [v EXCEPT ![h] = c[g] \o c[h]]
        BY <1>2 DEF v
      <3> HIDE DEF v
      <3> QED
        BY <1>1, <3>1, SplicedTidy
    <2> QED
      BY <2>1 DEF WithSpliced
  <1> HIDE DEF v
  <1>4. SplicedRings(d, e, g, h, s, t)
    <2>1. DLinked(d, c, g) /\ DLinked(d, c, h)
      BY DEF DSound, DReady
    <2>2. e = [next |-> [d.next EXCEPT ![h] = d.next[g], ![d.prev[g]] = d.next[h]],
               prev |-> [d.prev EXCEPT ![d.next[g]] = h, ![d.next[h]] = d.prev[g]]]
      BY DEF Splicing
    <2> QED
      BY <1>1, <2>1, <2>2, DSplicedRings DEF DLinked
  <1>5. LastOf(s, g) \in N /\ FirstOf(s, g) \in N /\ N \subseteq ListNodes
    <2>1. \A m : Among(m, s) => m \in N
      BY <1>1, LastAmong
    <2>2. Among(FirstOf(s, g), s) /\ Among(LastOf(s, g), s)
      BY <1>4 DEF SplicedRings
    <2>3. N \subseteq ListNodes
      OBVIOUS
    <2> HIDE DEF N, s
    <2> QED
      BY <2>1, <2>2, <2>3
  <1>6. \A k \in ListHeads : DReady(d, v, k) => k # g /\ DReady(d, c, k) /\ v[k] = c[k]
    <2>1. ~DReady(d, v, g)
      BY <1>3, <1>4 DEF SplicedRings, DReady
    <2> QED
      BY <1>3, <2>1 DEF DReady
  <1>7. DSound(d, v, N)
    <2>1. \A k \in ListHeads : DReady(d, v, k) => DLinked(d, v, k)
      BY <1>6 DEF DSound, DLinked
    <2>2. \A n \in ListNodes : n \notin N /\ ~Holds(v, n) /\ d.next[n] = n => d.prev[n] = n
      <3>1. \A n \in ListNodes : n \notin N /\ ~Holds(v, n) => ~Holds(c, n)
        BY <1>3
      <3> QED
        BY <3>1 DEF DSound
    <2> QED
      BY <1>1, <1>3, <2>1, <2>2 DEF DSound
  <1>8. /\ \A x \in X \cup Y : x = h \/ Among(x, v[h]) \/ x \in N
        /\ N \subseteq ListNodes /\ \A x \in N : ~Holds(v, x)
        /\ \A m \in ListNodes : m \notin N /\ ~Holds(w, m) => m \notin N /\ ~Holds(v, m)
    <2>1. v[h] = t
      BY <1>3
    <2>2. \A x \in X \cup Y : x = h \/ Among(x, t) \/ x \in N
      <3>1. FirstOf(t, h) = h \/ Among(FirstOf(t, h), t)
        BY <1>4 DEF SplicedRings
      <3> HIDE DEF N, s, t
      <3> QED
        BY <1>5, <3>1
    <2> QED
      BY <1>3, <2>1, <2>2
  <1>9. \A m \in N : Holds(w, m)
    <2>1. \A m \in N : Holds(c, m)
      BY <1>1, HeldIs
    <2> QED
      BY <1>3, <2>1
  <1>10. Elsewhere(d.next, e.next, X) /\ Elsewhere(d.prev, e.prev, Y)
    BY <1>4 DEF SplicedRings
  <1>11. DLinked(e, w, h) /\ DShape(e) /\ e.next[g] = d.next[g]
    BY <1>3, <1>4 DEF SplicedRings, DLinked
  <1>12. \A k \in ListHeads : k # h => k \notin X
    <2>1. LastOf(s, g) \in ListNodes
      <3> HIDE DEF N, s
      <3> QED
        BY <1>5
    <2> QED
      BY <2>1, ListAssumption
  <1> HIDE DEF N, X, Y
  <1>13. DSound(e, w, N)
    <2>1. DChange(d, v, e, w, h, N, N, X, Y)
      BY <1>3, <1>7, <1>8, <1>10, <1>11 DEF DChange
    <2> QED
      BY <2>1, DChanged
  <1>14. DSound(e, w, {})
    BY <1>9, <1>13 DEF DSound
  <1>15. ASSUME NEW k \in ListHeads, k # g, DReady(d, c, k)
         PROVE  DReady(e, w, k)
    <2>1. CASE k = h
      <3>1. Len(s \o t) # 0
        BY <1>1
      <3> QED
        BY <1>3, <2>1, <3>1 DEF DReady
    <2>2. CASE k # h
      <3>1. w[k] = c[k] /\ k \notin X
        BY <1>3, <1>12, <1>15, <2>2
      <3> QED
        BY <1>10, <1>15, <3>1 DEF DReady, Elsewhere, ListPlaces
    <2> QED
      BY <2>1, <2>2
  <1>16. Len(w[g]) = 0
    BY <1>3
  <1> QED
    BY <1>14, <1>15, <1>16

\* Where the elements are when one is between two sequences.
BetweenAt(S, a, n, b, s) ==
  /\ s \in Seq(S) /\ Len(s) = Len(a) + 1 + Len(b)
  /\ \A i \in 1 .. Len(a) : s[i] = a[i]
  /\ s[Len(a) + 1] = n
  /\ \A i \in 1 .. Len(b) : s[Len(a) + 1 + i] = b[i]

\* Where the elements are when one is put between two sequences.
LEMMA BetweenPlaces ==
  ASSUME NEW S, NEW a \in Seq(S), NEW b \in Seq(S), NEW n \in S
  PROVE  BetweenAt(S, a, n, b, Inside(a, n, b))
  <1> DEFINE o == <<n>>
             an == a \o o
             s == an \o b
  <1>1. o \in Seq(S) /\ Len(o) = 1 /\ o[1] = n
    OBVIOUS
  <1> HIDE DEF o
  <1>2. /\ an \in Seq(S) /\ Len(an) = Len(a) + 1 /\ Len(a) \in Nat /\ Len(b) \in Nat
        /\ \A i \in 1 .. Len(a) : an[i] = a[i]
        /\ \A i \in 1 .. Len(o) : an[Len(a) + i] = o[i]
    <2>1. Joined(S, a, o)
      BY <1>1, JoinFacts
    <2> QED
      BY <1>1, <2>1 DEF Joined
  <1>3. an[Len(a) + 1] = n
    BY <1>1, <1>2
  <1> HIDE DEF an
  <1>4. /\ s \in Seq(S) /\ Len(s) = Len(an) + Len(b)
        /\ \A i \in 1 .. Len(an) : s[i] = an[i]
        /\ \A i \in 1 .. Len(b) : s[Len(an) + i] = b[i]
    <2>1. Joined(S, an, b)
      BY <1>2, JoinFacts
    <2> QED
      BY <1>2, <2>1 DEF Joined
  <1> HIDE DEF s
  <1>5. \A i \in 1 .. Len(a) : i \in 1 .. Len(an)
    BY <1>2
  <1>6. s[Len(a) + 1] = n
    BY <1>2, <1>3, <1>4
  <1>7. s = Inside(a, n, b)
    BY DEF s, an, o, Inside
  <1>8. BetweenAt(S, a, n, b, s)
    BY <1>2, <1>4, <1>5, <1>6 DEF BetweenAt
  <1> QED
    BY <1>7, <1>8

\* A node that occurs once is between the same sequences however it is looked for.
LEMMA BetweenOnce ==
  ASSUME NEW S, NEW a \in Seq(S), NEW b \in Seq(S), NEW x \in Seq(S), NEW y \in Seq(S), NEW n \in S,
         Inside(a, n, b) = Inside(x, n, y), Once(Inside(a, n, b))
  PROVE  a = x /\ b = y
  <1> DEFINE s == Inside(a, n, b)
  <1>1. BetweenAt(S, a, n, b, s)
    BY BetweenPlaces
  <1>2. BetweenAt(S, x, n, y, s)
    BY BetweenPlaces
  <1>3. Once(s)
    OBVIOUS
  <1> HIDE DEF s
  <1>4. Len(a) \in Nat /\ Len(b) \in Nat /\ Len(x) \in Nat /\ Len(y) \in Nat
    OBVIOUS
  <1>5. Len(a) = Len(x)
    <2>1. Len(a) + 1 \in 1 .. Len(s) /\ Len(x) + 1 \in 1 .. Len(s)
      BY <1>1, <1>2, <1>4 DEF BetweenAt
    <2>2. Len(a) + 1 = Len(x) + 1
      BY <1>1, <1>2, <1>3, <2>1 DEF BetweenAt, Once
    <2> QED
      BY <1>4, <2>2
  <1>6. Len(b) = Len(y)
    BY <1>1, <1>2, <1>4, <1>5 DEF BetweenAt
  <1>7. a = x
    <2>1. \A i \in 1 .. Len(a) : a[i] = x[i]
      BY <1>1, <1>2, <1>5 DEF BetweenAt
    <2> QED
      BY <1>5, <2>1, SeqEqual
  <1>8. b = y
    <2>1. \A i \in 1 .. Len(b) : b[i] = y[i]
      BY <1>1, <1>2, <1>5, <1>6 DEF BetweenAt
    <2> QED
      BY <1>6, <2>1, SeqEqual
  <1> QED
    BY <1>7, <1>8

\* Joining with nothing.
LEMMA NoneJoined ==
  ASSUME NEW S, NEW s \in Seq(S)
  PROVE  << >> \o s = s /\ s \o << >> = s
  OBVIOUS

\* The first of some nodes.
LEMMA FirstIs ==
  ASSUME NEW S, NEW b \in Seq(S), Len(b) # 0
  PROVE  \E r \in Seq(S) : b = <<b[1]>> \o r /\ b[1] \in S /\ \A end : FirstOf(b, end) = b[1]
  <1>1. 1 \in 1 .. Len(b) /\ b[1] \in S
    OBVIOUS
  <1>2. PICK a, r \in Seq(S) : /\ b = (a \o <<b[1]>>) \o r
                              /\ Len(a) = 1 - 1
    <2>1. Surrounded(S, b, 1)
      BY <1>1, Around
    <2> QED
      BY <2>1 DEF Surrounded
  <1>3. a = << >>
    BY <1>2
  <1>4. b = <<b[1]>> \o r
    <2> DEFINE o == <<b[1]>>
    <2>1. o \in Seq(S) /\ b = (a \o o) \o r
      BY <1>1, <1>2
    <2> HIDE DEF o
    <2>2. a \o o = o
      BY <1>3, <2>1, NoneJoined
    <2> QED
      BY <2>1, <2>2 DEF o
  <1> QED
    BY <1>1, <1>4 DEF FirstOf

\* What is seen grows by the node that was next.
LEMMA SeenGrows ==
  ASSUME NEW S, NEW a \in Seq(S), NEW b \in Seq(S), NEW n \in S
  PROVE  /\ a \o (<<n>> \o b) = Inside(a, n, b)
         /\ Append(a, n) \o b = Inside(a, n, b)
  <1> DEFINE o == <<n>>
  <1>1. o \in Seq(S) /\ Append(a, n) = a \o o
    BY AppendJoined
  <1>2. a \o (o \o b) = (a \o o) \o b
    <2> HIDE DEF o
    <2> QED
      BY <1>1, ConcatAssociative
  <1> QED
    BY <1>1, <1>2 DEF Inside

\* A sequence is cut in two.
LEMMA SubSeqJoined ==
  ASSUME NEW S, NEW s \in Seq(S), NEW k \in 0 .. Len(s)
  PROVE  s = SubSeq(s, 1, k) \o SubSeq(s, k + 1, Len(s))
  <1> DEFINE a == SubSeq(s, 1, k)
             b == SubSeq(s, k + 1, Len(s))
             l == Len(s)
  <1>1. /\ a \in Seq(S) /\ Len(a) = k /\ \A i \in 1 .. k : a[i] = s[i]
        /\ b \in Seq(S) /\ Len(b) = l - k /\ \A i \in 1 .. l - k : b[i] = s[k + i]
        /\ l \in Nat /\ k \in Nat /\ k <= l
    OBVIOUS
  <1>2. s = a \o b
    <2> HIDE DEF a, b
    <2> DEFINE t == a \o b
    <2>1. /\ t \in Seq(S) /\ Len(t) = Len(a) + Len(b)
          /\ \A i \in 1 .. Len(a) : t[i] = a[i]
          /\ \A i \in 1 .. Len(b) : t[Len(a) + i] = b[i]
      <3>1. Joined(S, a, b)
        BY <1>1, JoinFacts
      <3> QED
        BY <1>1, <3>1 DEF Joined
    <2> HIDE DEF t
    <2>2. Len(t) = l
      BY <1>1, <2>1
    <2>3. ASSUME NEW i \in 1 .. l
          PROVE  s[i] = t[i]
      <3>1. CASE i <= k
        BY <1>1, <2>1, <3>1
      <3>2. CASE i > k
        <4>1. i - k \in 1 .. l - k /\ i = k + (i - k)
          BY <1>1, <3>2
        <4>2. t[k + (i - k)] = b[i - k] /\ b[i - k] = s[k + (i - k)]
          BY <1>1, <2>1, <4>1
        <4> QED
          BY <4>1, <4>2
      <3> QED
        BY <1>1, <3>1, <3>2
    <2>4. s = t
      BY <2>1, <2>2, <2>3, SeqEqual
    <2> QED
      BY <2>4 DEF t
  <1> QED
    BY <1>2

\* A walk from a place of a list.
CutAt(f, h, s, k) ==
  \E a, b \in Seq(ListNodes) : /\ s = a \o b /\ b = SubSeq(s, k + 1, Len(s))
                               /\ f[IF k = 0 THEN h ELSE s[k]] = FirstOf(b, h)

\* From a place of a ring the pointers lead through the rest of it.
LEMMA WalkFrom ==
  ASSUME NEW f, NEW h, NEW s \in Seq(ListNodes), Ring(f, h, s), NEW k \in 0 .. Len(s)
  PROVE  CutAt(f, h, s, k)
  <1> DEFINE a == SubSeq(s, 1, k)
             b == SubSeq(s, k + 1, Len(s))
             l == Len(s)
  <1>1. /\ a \in Seq(ListNodes) /\ Len(a) = k /\ \A i \in 1 .. k : a[i] = s[i]
        /\ b \in Seq(ListNodes) /\ Len(b) = l - k /\ \A i \in 1 .. l - k : b[i] = s[k + i]
        /\ l \in Nat /\ k \in Nat /\ k <= l
    OBVIOUS
  <1>2. s = a \o b
    BY SubSeqJoined
  <1>3. f[IF k = 0 THEN h ELSE s[k]] = FirstOf(b, h)
    <2> HIDE DEF b
    <2>1. /\ f[h] = IF l = 0 THEN h ELSE s[1]
          /\ \A i \in 1 .. l : f[s[i]] = IF i = l THEN h ELSE s[i + 1]
      BY DEF Ring, Chained, FirstOf
    <2>2. FirstOf(b, h) = IF k = l THEN h ELSE s[k + 1]
      <3>1. CASE k = l
        BY <1>1, <3>1 DEF FirstOf
      <3>2. CASE k # l
        <4>1. 1 \in 1 .. l - k
          BY <1>1, <3>2
        <4> QED
          BY <1>1, <3>2, <4>1 DEF FirstOf
      <3> QED
        BY <3>1, <3>2
    <2>3. CASE k = 0
      BY <1>1, <2>1, <2>2, <2>3
    <2>4. CASE k # 0
      <3>1. k \in 1 .. l
        BY <1>1, <2>4
      <3> QED
        BY <2>1, <2>2, <2>4, <3>1
    <2> QED
      BY <2>3, <2>4
  <1> QED
    BY <1>1, <1>2, <1>3 DEF CutAt

-----------------------------------------------------------------------------
(* Walks over a list of eh_list.h.                                         *)

\* The list in the direction of a walk.
Directed(side, s) == IF side = "next" THEN s ELSE Reverse(s)

WalkShape(w) ==
  /\ w = [head |-> w.head, side |-> w.side, prev |-> w.prev, pos |-> w.pos, n |-> w.n, seen |-> w.seen, all |-> w.all]
  /\ w.head \in ListHeads /\ w.side \in {"next", "prev"}
  /\ w.seen \in Seq(ListNodes) /\ w.all \in Seq(ListNodes)

\* A walk has been past some nodes of the list and is at the first of the others.
WalkAt(c, w, a, b) ==
  /\ Directed(w.side, c[w.head]) = a \o b
  /\ w.all = w.seen \o b /\ w.pos = FirstOf(b, w.head)
DWalking(d, c, w) ==
  /\ WalkShape(w) /\ DReady(d, c, w.head)
  /\ w.n = d[w.side][w.pos]
  /\ \E a, b \in Seq(ListNodes) : WalkAt(c, w, a, b)

\* A walk at a node, between those it has been past and the others.
WalkMid(c, w, a, b) ==
  /\ WalkShape(w) /\ w.pos \in ListNodes
  /\ a \in Seq(ListNodes) /\ b \in Seq(ListNodes)
  /\ Directed(w.side, c[w.head]) = Inside(a, w.pos, b)
  /\ w.all = Append(w.seen, w.pos) \o b /\ w.n = FirstOf(b, w.head)

\* The inductive invariant of eh_list.h.
DListInv ==
  /\ DSound(dlist, dContent, {})
  /\ dWalk = NoWalk \/ DWalking(dlist, dContent, dWalk)

\* A list read in the direction of a walk.
LEMMA DirectedIs ==
  ASSUME NEW S, NEW s \in Seq(S), NEW side \in {"next", "prev"}
  PROVE  /\ Directed(side, s) \in Seq(S) /\ Len(Directed(side, s)) = Len(s)
         /\ Once(s) => Once(Directed(side, s))
         /\ \A n : Among(n, Directed(side, s)) <=> Among(n, s)
  BY BackIs DEF Directed

\* In both directions the list is a ring.
LEMMA DirectedRing ==
  ASSUME NEW d, NEW c, NEW h \in ListHeads, DLinked(d, c, h), NEW side \in {"next", "prev"}
  PROVE  Ring(d[side], h, Directed(side, c[h]))
  <1>1. CASE side = "next"
    BY <1>1 DEF DLinked, Directed
  <1>2. CASE side = "prev"
    BY <1>2 DEF DLinked, Directed
  <1> QED
    BY <1>1, <1>2

\* A node is taken away in both directions alike.
LEMMA DirectedWithout ==
  ASSUME NEW c, Tidy(c), NEW h \in ListHeads, NEW side \in {"next", "prev"}, NEW n \in ListNodes,
         NEW a \in Seq(ListNodes), NEW b \in Seq(ListNodes), Directed(side, c[h]) = Inside(a, n, b)
  PROVE  Holds(c, n) /\ Directed(side, Without(c, n)[h]) = a \o b
  <1>1. c \in [ListHeads -> Seq(ListNodes)] /\ c[h] \in Seq(ListNodes) /\ Once(c[h])
    BY DEF Tidy
  <1>2. Among(n, c[h])
    <2>1. Among(n, Inside(a, n, b))
      BY BetweenIs
    <2>2. Among(n, Directed(side, c[h])) <=> Among(n, c[h])
      BY <1>1, DirectedIs
    <2> QED
      BY <2>1, <2>2
  <1>3. Holds(c, n)
    BY <1>1, <1>2, HeldIs
  <1>4. PICK x, y \in Seq(ListNodes) : TakenOut(c, n, h, x, y)
    BY <1>2, WithoutIs
  <1>5. c[h] = Inside(x, n, y) /\ Without(c, n)[h] = x \o y
    BY <1>1, <1>4 DEF TakenOut
  <1>6. Once(Inside(a, n, b))
    BY <1>1, DirectedIs
  <1>7. CASE side = "next"
    <2>1. Inside(a, n, b) = Inside(x, n, y)
      BY <1>5, <1>7 DEF Directed
    <2>2. a = x /\ b = y
      BY <1>6, <2>1, BetweenOnce
    <2> QED
      BY <1>3, <1>5, <1>7, <2>2 DEF Directed
  <1>8. CASE side = "prev"
    <2> DEFINE rx == Reverse(x)
               ry == Reverse(y)
    <2>1. rx \in Seq(ListNodes) /\ ry \in Seq(ListNodes)
      BY BackIs
    <2>2. Reverse(Inside(x, n, y)) = Inside(ry, n, rx) /\ Reverse(x \o y) = ry \o rx
      <3>1. Reverse(Inside(x, n, y)) = Inside(ry, n, rx)
        BY BetweenIs
      <3>2. Reverse(x \o y) = ry \o rx
        BY BackJoined
      <3> QED
        BY <3>1, <3>2
    <2> HIDE DEF rx, ry
    <2>3. Inside(a, n, b) = Inside(ry, n, rx)
      BY <1>5, <1>8, <2>2 DEF Directed
    <2>4. a = ry /\ b = rx
      BY <1>6, <2>1, <2>3, BetweenOnce
    <2> QED
      BY <1>3, <1>5, <1>8, <2>2, <2>4 DEF Directed
  <1> QED
    BY <1>7, <1>8

\* While a walk is not at its end it is at a node.
LEMMA DWalkMiddle ==
  ASSUME NEW d, NEW c, NEW w, DSound(d, c, {}), DWalking(d, c, w), w.pos # w.head
  PROVE  \E a, b \in Seq(ListNodes) : WalkMid(c, w, a, b)
  <1> DEFINE h == w.head
             n == w.pos
             s == Directed(w.side, c[h])
  <1>1. WalkShape(w) /\ h \in ListHeads /\ w.side \in {"next", "prev"} /\ w.seen \in Seq(ListNodes) /\ DReady(d, c, h)
    BY DEF DWalking, WalkShape
  <1>2. PICK a, b \in Seq(ListNodes) : s = a \o b /\ w.all = w.seen \o b /\ n = FirstOf(b, h)
    BY DEF DWalking, WalkAt
  <1>3. Len(b) # 0
    BY <1>2 DEF FirstOf
  <1>4. PICK r \in Seq(ListNodes) : b = <<b[1]>> \o r /\ b[1] \in ListNodes /\ \A end : FirstOf(b, end) = b[1]
    BY <1>3, FirstIs
  <1>5. n \in ListNodes /\ b = <<n>> \o r
    BY <1>2, <1>4
  <1>6. s = Inside(a, n, r)
    BY <1>2, <1>5, SeenGrows
  <1>7. w.all = Append(w.seen, n) \o r
    <2> DEFINE seen == w.seen
    <2>1. seen \in Seq(ListNodes)
      BY <1>1
    <2> HIDE DEF seen, n
    <2>2. seen \o (<<n>> \o r) = Append(seen, n) \o r
      <3>1. n \in ListNodes
        BY <1>5
      <3>2. seen \o (<<n>> \o r) = Inside(seen, n, r) /\ Append(seen, n) \o r = Inside(seen, n, r)
        BY <2>1, <3>1, SeenGrows
      <3> QED
        BY <3>2, Zenon
    <2> QED
      BY <1>2, <1>5, <2>2 DEF seen
  <1>8. w.n = FirstOf(r, h)
    <2> DEFINE f == d[w.side]
    <2>1. Ring(f, h, s)
      <3>1. DLinked(d, c, h)
        BY <1>1 DEF DSound
      <3> QED
        BY <1>1, <3>1, DirectedRing
    <2>2. w.n = f[n]
      BY DEF DWalking
    <2> HIDE DEF f, s, h, n
    <2>3. f[n] = FirstOf(r, h)
      BY <1>1, <1>5, <1>6, <2>1, RingMiddle
    <2> QED
      BY <2>2, <2>3
  <1>9. WalkMid(c, w, a, r)
    BY <1>1, <1>5, <1>6, <1>7, <1>8 DEF WalkMid
  <1> QED
    BY <1>9

\* The walk goes on, the node it was at being on the list or not.
LEMMA DWalkGoesOn ==
  ASSUME NEW c, NEW w, NEW a, NEW b, WalkMid(c, w, a, b), NEW e, NEW v, DReady(e, v, w.head),
         Directed(w.side, v[w.head]) = a \o b \/ v[w.head] = c[w.head],
         NEW x, x = [w EXCEPT !.pos = w.n, !.n = e[w.side][w.n], !.seen = Append(@, w.pos)]
  PROVE  DWalking(e, v, x)
  <1>1. /\ WalkShape(w) /\ w.pos \in ListNodes
        /\ a \in Seq(ListNodes) /\ b \in Seq(ListNodes)
        /\ Directed(w.side, c[w.head]) = Inside(a, w.pos, b)
        /\ w.all = Append(w.seen, w.pos) \o b /\ w.n = FirstOf(b, w.head)
    BY DEF WalkMid
  <1>2. /\ x.head = w.head /\ x.side = w.side /\ x.prev = w.prev /\ x.all = w.all
        /\ x.pos = w.n /\ x.n = e[w.side][w.n] /\ x.seen = Append(w.seen, w.pos)
        /\ x = [head |-> x.head, side |-> x.side, prev |-> x.prev, pos |-> x.pos, n |-> x.n, seen |-> x.seen, all |-> x.all]
    BY <1>1 DEF WalkShape
  <1>3. WalkShape(x)
    <2>1. w.head \in ListHeads /\ w.side \in {"next", "prev"} /\ w.all \in Seq(ListNodes) /\ Append(w.seen, w.pos) \in Seq(ListNodes)
      BY <1>1 DEF WalkShape
    <2> QED
      BY <1>2, <2>1 DEF WalkShape
  <1>4. x.all = x.seen \o b /\ x.pos = FirstOf(b, x.head) /\ x.n = e[x.side][x.pos] /\ DReady(e, v, x.head)
    BY <1>1, <1>2
  <1>5. CASE Directed(w.side, v[w.head]) = a \o b
    <2>1. WalkAt(v, x, a, b)
      BY <1>2, <1>4, <1>5 DEF WalkAt
    <2> QED
      BY <1>1, <1>3, <1>4, <2>1 DEF DWalking
  <1>6. CASE v[w.head] = c[w.head]
    <2> DEFINE y == a \o <<w.pos>>
    <2>1. Directed(x.side, v[x.head]) = y \o b
      BY <1>1, <1>2, <1>6 DEF Inside
    <2>2. y \in Seq(ListNodes)
      BY <1>1
    <2> HIDE DEF y
    <2>3. WalkAt(v, x, y, b)
      BY <1>4, <2>1 DEF WalkAt
    <2> QED
      BY <1>1, <1>3, <1>4, <2>2, <2>3 DEF DWalking
  <1> QED
    BY <1>5, <1>6

-----------------------------------------------------------------------------
(* The operations of eh_list.h.                                            *)

\* A head may be used when it is initialised.
LEMMA DUsableIs ==
  ASSUME DListInv, NEW h \in ListHeads
  PROVE  DUsable(h) <=> DReady(dlist, dContent, h)
  <1>1. dContent[h] \in Seq(ListNodes)
    BY DEF DListInv, DSound, Tidy
  <1>2. dContent[h] = << >> <=> Len(dContent[h]) = 0
    BY <1>1
  <1> QED
    BY <1>2 DEF DUsable, DReady

\* The invariant of eh_list.h holds at the start.
LEMMA DListStart ==
  ASSUME ListStart
  PROVE  DListInv
  <1> DEFINE self == [x \in ListHeads \cup ListNodes |-> x]
  <1>1. dlist.next = self /\ dlist.prev = self /\ dlist = [next |-> dlist.next, prev |-> dlist.prev]
        /\ dContent = [h \in ListHeads |-> << >>] /\ dWalk = NoWalk
    BY DEF ListStart
  <1>2. DShape(dlist)
    BY <1>1 DEF DShape, Pointers, ListPlaces
  <1>3. Tidy(dContent) /\ \A h \in ListHeads : dContent[h] = << >>
    BY <1>1 DEF Tidy, Once, Apart
  <1>4. ASSUME NEW h \in ListHeads
        PROVE  DLinked(dlist, dContent, h)
    <2>1. Reverse(<< >>) = << >>
      <3> DEFINE z == << >>
      <3>1. z \in Seq(ListNodes) /\ Len(z) = 0
        OBVIOUS
      <3> HIDE DEF z
      <3>2. Reverse(z) \in Seq(ListNodes) /\ Len(Reverse(z)) = 0
        BY <3>1, BackIs
      <3>3. Reverse(z) = z
        BY <3>1, <3>2
      <3> QED
        BY <3>3 DEF z
    <2>2. dlist.next[h] = h /\ dlist.prev[h] = h
      BY <1>1
    <2>3. Chained(h, dlist.next, h, << >>) /\ Chained(h, dlist.prev, h, << >>)
      BY ChainNone
    <2> QED
      BY <1>3, <2>1, <2>2, <2>3 DEF DLinked, Ring
  <1>5. \A n \in ListNodes : dlist.prev[n] = n
    BY <1>1
  <1> QED
    BY <1>1, <1>2, <1>3, <1>4, <1>5 DEF DListInv, DSound

\* It is kept by eh_list_add and eh_list_add_tail.
LEMMA DAddKeeps ==
  ASSUME DListInv, NEW n \in ListNodes, NEW h \in ListHeads, NEW tail \in BOOLEAN, DAdd(n, h, tail)
  PROVE  DListInv'
  <1>1. /\ ~Holds(dContent, n) /\ DReady(dlist, dContent, h)
        /\ dlist' = DPlaced(dlist, n, h, tail)
        /\ dContent' = [dContent EXCEPT ![h] = Placed(@, n, tail)]
        /\ dWalk' = NoWalk
    BY DUsableIs DEF DAdd, DIdle
  <1>2. DSound(dlist, dContent, {n})
    BY DEF DListInv, DSound
  <1>3. DSound(dlist', dContent', {})
    BY <1>1, <1>2, DPlacedIs
  <1> QED
    BY <1>1, <1>3 DEF DListInv

\* It is kept by eh_list_del and eh_list_del_init.
LEMMA DDelKeeps ==
  ASSUME DListInv, NEW n \in ListNodes, NEW init \in BOOLEAN, DDel(n, init)
  PROVE  DListInv'
  <1> DEFINE e == DOut(dlist, n)
             w == Without(dContent, n)
             to == IF init THEN n ELSE ListNull
  <1>1. /\ Holds(dContent, n) \/ dlist.next[n] = n
        /\ dlist' = DSet(e, n, to) /\ dContent' = w /\ dWalk' = NoWalk
    BY DEF DDel, DIdle
  <1>2. DSound(dlist, dContent, {})
    BY DEF DListInv
  <1> HIDE DEF to
  <1>3. DOutDone(dlist, dContent, e, w, n)
    BY <1>1, <1>2, DOutIs
  <1>4. to \in {n, ListNull}
    BY DEF to
  <1> HIDE DEF e, w
  <1>5. DSound(dlist', w, {})
    BY <1>1, <1>3, <1>4, DSetIs DEF DOutDone
  <1> QED
    BY <1>1, <1>5 DEF DListInv

\* It is kept by eh_list_move and eh_list_move_tail.
LEMMA DMoveKeeps ==
  ASSUME DListInv, NEW n \in ListNodes, NEW h \in ListHeads, NEW tail \in BOOLEAN, DMove(n, h, tail)
  PROVE  DListInv'
  <1> DEFINE e == DOut(dlist, n)
             w == Without(dContent, n)
  <1>1. /\ Holds(dContent, n) \/ dlist.next[n] = n
        /\ DReady(dlist, dContent, h)
        /\ dlist' = DPlaced(e, n, h, tail) /\ dContent' = [w EXCEPT ![h] = Placed(@, n, tail)] /\ dWalk' = NoWalk
    BY DUsableIs DEF DMove, DIdle
  <1>2. DSound(dlist, dContent, {})
    BY DEF DListInv
  <1>3. DOutDone(dlist, dContent, e, w, n)
    BY <1>1, <1>2, DOutIs
  <1> HIDE DEF e, w
  <1>4. DSound(e, w, {n}) /\ ~Holds(w, n) /\ DReady(e, w, h)
    BY <1>1, <1>3 DEF DOutDone, DStillReady
  <1>5. DSound(dlist', dContent', {})
    BY <1>1, <1>4, DPlacedIs
  <1> QED
    BY <1>1, <1>5 DEF DListInv

\* It is kept by eh_list_splice and eh_list_splice_init.
LEMMA DSpliceKeeps ==
  ASSUME DListInv, NEW g \in ListHeads, NEW h \in ListHeads, NEW init \in BOOLEAN, DSplice(g, h, init)
  PROVE  DListInv'
  <1> DEFINE first == dlist.next[g]
             last  == dlist.prev[g]
             at    == dlist.next[h]
             e == [next |-> [dlist.next EXCEPT ![h] = first, ![last] = at],
                   prev |-> [dlist.prev EXCEPT ![first] = h, ![at] = last]]
  <1>1. /\ g # h /\ dContent[g] # << >> /\ DReady(dlist, dContent, h)
        /\ dlist' = IF init THEN DSet(e, g, g) ELSE e
        /\ dContent' = [dContent EXCEPT ![g] = << >>, ![h] = dContent[g] \o @]
        /\ dWalk' = NoWalk
    BY DUsableIs DEF DSplice, DIdle
  <1>2. DSound(dlist, dContent, {}) /\ dContent[g] \in Seq(ListNodes)
    BY DEF DListInv, DSound, Tidy
  <1>3. Len(dContent[g]) # 0
    BY <1>1, <1>2
  <1>4. Splicing(dlist, dContent, e, dContent', g, h)
    BY <1>1 DEF Splicing
  <1> HIDE DEF e
  <1>5. DSound(e, dContent', {}) /\ Len(dContent'[g]) = 0
    BY <1>1, <1>2, <1>3, <1>4, DSplicedIs
  <1>6. DSound(dlist', dContent', {})
    <2>1. CASE init
      <3>1. dlist' = DSet(e, g, g)
        BY <1>1, <2>1
      <3> QED
        BY <1>5, <3>1, DHeadSet
    <2>2. CASE ~init
      BY <1>1, <1>5, <2>2
    <2> QED
      BY <2>1, <2>2
  <1> QED
    BY <1>1, <1>6 DEF DListInv

\* It is kept by eh_list_head_init.
LEMMA DHeadInitKeeps ==
  ASSUME DListInv, NEW h \in ListHeads, DHeadInit(h)
  PROVE  DListInv'
  <1>1. Len(dContent[h]) = 0 /\ dlist' = DSet(dlist, h, h) /\ dContent' = dContent /\ dWalk' = NoWalk
    BY DEF DHeadInit, DIdle
  <1>2. DSound(dlist, dContent, {})
    BY DEF DListInv
  <1>3. DSound(dlist', dContent, {})
    BY <1>1, <1>2, DHeadSet
  <1> QED
    BY <1>1, <1>3 DEF DListInv

\* A walk as it begins.
Begun(h, side, pos, n, all) == [NoWalk EXCEPT !.head = h, !.side = side, !.pos = pos, !.n = n, !.all = all]

\* A walk as it begins.
LEMMA WalkBegun ==
  ASSUME NEW h, NEW side, NEW pos, NEW n, NEW all, NEW w, w = Begun(h, side, pos, n, all)
  PROVE  w = [head |-> h, side |-> side, prev |-> ListNull, pos |-> pos, n |-> n, seen |-> << >>, all |-> all]
  BY DEF NoWalk, Begun

\* It is kept by the beginning of a walk at the head or behind any node, forwards or backwards.
LEMMA DWalkStartKeeps ==
  ASSUME DListInv, NEW h \in ListHeads, NEW side \in {"next", "prev"}, NEW from, DWalkStart(h, side, from)
  PROVE  DListInv'
  <1> DEFINE s == IF side = "next" THEN dContent[h] ELSE Reverse(dContent[h])
             f == dlist[side]
             pos == f[IF from = 0 THEN h ELSE s[from]]
             all == SubSeq(s, from + 1, Len(s))
             w == [NoWalk EXCEPT !.head = h, !.side = side, !.pos = pos, !.n = f[pos], !.all = all]
  <1>1. /\ DReady(dlist, dContent, h) /\ from \in 0 .. Len(s)
        /\ dWalk' = w /\ dlist' = dlist /\ dContent' = dContent
    BY DUsableIs DEF DWalkStart
  <1>2. DSound(dlist, dContent, {}) /\ dContent[h] \in Seq(ListNodes)
    BY DEF DListInv, DSound, Tidy
  <1>3. s = Directed(side, dContent[h])
    BY DEF Directed
  <1>4. s \in Seq(ListNodes)
    BY <1>2, <1>3, DirectedIs
  <1>5. Ring(f, h, s)
    <2>1. DLinked(dlist, dContent, h)
      BY <1>1, <1>2 DEF DSound
    <2> HIDE DEF s
    <2> QED
      BY <1>3, <2>1, DirectedRing
  <1>6. PICK a, b \in Seq(ListNodes) : s = a \o b /\ b = all /\ pos = FirstOf(b, h)
    <2>1. from \in 0 .. Len(s)
      BY <1>1
    <2> HIDE DEF s, f
    <2>2. CutAt(f, h, s, from)
      BY <1>4, <1>5, <2>1, WalkFrom
    <2> QED
      BY <2>2 DEF CutAt
  <1> HIDE DEF s, pos, all, f
  <1>7. /\ w.head = h /\ w.side = side /\ w.pos = pos /\ w.n = f[pos] /\ w.all = all /\ w.seen = << >>
        /\ w = [head |-> w.head, side |-> w.side, prev |-> w.prev, pos |-> w.pos, n |-> w.n, seen |-> w.seen, all |-> w.all]
    <2> DEFINE n == f[pos]
    <2>1. w = Begun(h, side, pos, n, all)
      BY DEF w, Begun
    <2> HIDE DEF w, n
    <2>2. w = [head |-> h, side |-> side, prev |-> ListNull, pos |-> pos, n |-> n, seen |-> << >>, all |-> all]
      BY <2>1, WalkBegun
    <2> QED
      BY <2>2 DEF n
  <1> HIDE DEF w
  <1>8. WalkShape(w)
    BY <1>6, <1>7 DEF WalkShape
  <1>9. WalkAt(dContent, w, a, b)
    <2>1. << >> \o b = b
      BY NoneJoined
    <2> QED
      BY <1>3, <1>6, <1>7, <2>1 DEF WalkAt
  <1>10. DWalking(dlist, dContent, w)
    <2>1. w.n = dlist[w.side][w.pos]
      BY <1>7 DEF f
    <2> QED
      BY <1>1, <1>7, <1>8, <1>9, <2>1 DEF DWalking
  <1> QED
    BY <1>1, <1>2, <1>10 DEF DListInv

\* It is kept by the end of a walk.
LEMMA DWalkEndKeeps ==
  ASSUME DListInv, DWalkEnd
  PROVE  DListInv'
  BY DEF DListInv, DWalkEnd

\* It is kept by a step of a walk whose body leaves, deletes or moves the node it is at.
LEMMA DWalkStepKeeps ==
  ASSUME DListInv, NEW body \in {"leave", "delete", "move"}, NEW to \in ListHeads, DWalkStep(body, to)
  PROVE  DListInv'
  <1> DEFINE h == dWalk.head
             n == dWalk.pos
             side == dWalk.side
             e == DOut(dlist, n)
             v == Without(dContent, n)
  <1>1. DSound(dlist, dContent, {}) /\ Tidy(dContent) /\ DWalking(dlist, dContent, dWalk) /\ n # h
    BY DEF DListInv, DSound, DWalkStep, DIdle
  <1>2. /\ h \in ListHeads /\ side \in {"next", "prev"} /\ DReady(dlist, dContent, h)
        /\ dWalk' = [dWalk EXCEPT !.pos = dWalk.n, !.n = dlist'[dWalk.side][dWalk.n], !.seen = Append(@, dWalk.pos)]
    BY <1>1 DEF DWalking, WalkShape, DWalkStep
  <1>3. PICK a, b \in Seq(ListNodes) : WalkMid(dContent, dWalk, a, b)
    BY <1>1, DWalkMiddle
  <1>4. n \in ListNodes /\ Directed(side, dContent[h]) = Inside(a, n, b)
    BY <1>3 DEF WalkMid
  <1>5. Holds(dContent, n) /\ Directed(side, v[h]) = a \o b
    <2> HIDE DEF h, n, side
    <2> QED
      BY <1>1, <1>2, <1>4, DirectedWithout
  <1>6. DOutDone(dlist, dContent, e, v, n)
    <2> HIDE DEF n
    <2> QED
      BY <1>1, <1>4, <1>5, DOutIs
  <1>7. DSound(e, v, {n}) /\ ~Holds(v, n) /\ DReady(e, v, h)
    BY <1>2, <1>6 DEF DOutDone, DStillReady
  <1>8. DSound(dlist', dContent', {}) /\ DReady(dlist', dContent', h)
        /\ (Directed(side, dContent'[h]) = a \o b \/ dContent'[h] = dContent[h])
    <2>1. CASE body = "leave"
      <3>1. dlist' = dlist /\ dContent' = dContent
        BY <2>1 DEF DWalkStep
      <3> QED
        BY <1>1, <1>2, <3>1
    <2>2. CASE body = "delete"
      <3>1. dlist' = DSet(e, n, ListNull) /\ dContent' = v
        BY <2>2 DEF DWalkStep
      <3> HIDE DEF e, v, n, h
      <3> DEFINE null == ListNull
      <3>2. null \in {n, ListNull} /\ dlist' = DSet(e, n, null)
        BY <3>1
      <3> HIDE DEF null
      <3>3. DSound(dlist', v, {}) /\ DStillReady(e, v, dlist', v)
        BY <1>4, <1>7, <3>2, DSetIs
      <3> QED
        BY <1>2, <1>5, <1>7, <3>1, <3>3 DEF DStillReady
    <2>3. CASE body = "move"
      <3> DEFINE u == [v EXCEPT ![to] = Placed(@, n, TRUE)]
                 tail == TRUE
      <3>1. to # h /\ DReady(dlist, dContent, to) /\ dlist' = DPlaced(e, n, to, TRUE) /\ dContent' = u
        <4>1. body # "leave" /\ body # "delete"
          BY <2>3
        <4>2. to # h /\ DUsable(to) /\ dlist' = DPlaced(e, n, to, TRUE) /\ dContent' = [v EXCEPT ![to] = Append(@, n)]
          BY <2>3, <4>1 DEF DWalkStep
        <4> QED
          BY <4>2, DUsableIs DEF Placed
      <3>2. DReady(e, v, to)
        BY <1>6, <3>1 DEF DOutDone, DStillReady
      <3>3. u[h] = v[h]
        BY <1>2, <1>7, <3>1 DEF DSound, Tidy
      <3>4. tail \in BOOLEAN /\ dlist' = DPlaced(e, n, to, tail) /\ dContent' = [v EXCEPT ![to] = Placed(@, n, tail)]
        BY <3>1
      <3> HIDE DEF e, v, n, h, u, tail
      <3>5. DSound(dlist', dContent', {}) /\ DStillReady(e, v, dlist', dContent')
        BY <1>4, <1>7, <3>2, <3>4, DPlacedIs
      <3> QED
        BY <1>2, <1>5, <1>7, <3>1, <3>3, <3>5 DEF DStillReady
    <2> QED
      BY <2>1, <2>2, <2>3
  <1>9. DWalking(dlist', dContent', dWalk')
    <2> HIDE DEF e, v
    <2>1. dWalk' = [dWalk EXCEPT !.pos = dWalk.n, !.n = dlist'[dWalk.side][dWalk.n], !.seen = Append(@, dWalk.pos)]
      BY <1>2
    <2> QED
      BY <1>3, <1>8, <2>1, DWalkGoesOn
  <1> QED
    BY <1>8, <1>9 DEF DListInv

-----------------------------------------------------------------------------
(* The lists of eh_llist.h.                                                *)

\* The pointers, the chain of one list with its last node, and all lists.
LPointers == ListPlaces \cup {ListNull}
LShape(l) ==
  /\ l = [next |-> l.next, first |-> l.first, last |-> l.last]
  /\ l.next \in [ListNodes -> LPointers] /\ l.first \in [ListHeads -> LPointers] /\ l.last \in [ListHeads -> LPointers]
LLinked(l, c, h) ==
  /\ Chained(l.first[h], l.next, ListNull, c[h])
  /\ Len(c[h]) # 0 => l.last[h] = LastOf(c[h], h)
LSound(l, c) ==
  /\ LShape(l) /\ Tidy(c)
  /\ \A h \in ListHeads : LLinked(l, c, h)
NextBut(f, g, X) == \A x \in ListNodes : x \notin X => g[x] = f[x]

\* A sound change of the pointers at some places, of one list.
LChange(l, c, m, w, h, X) ==
  /\ LSound(l, c) /\ LShape(m) /\ Tidy(w) /\ LLinked(m, w, h)
  /\ \A k \in ListHeads : k # h => w[k] = c[k] /\ m.first[k] = l.first[k] /\ m.last[k] = l.last[k]
  /\ NextBut(l.next, m.next, X)
  /\ \A x \in X : Among(x, c[h]) \/ ~Holds(c, x)

\* The pointers of the nodes that are not among those changed stay.
LEMMA LKept ==
  ASSUME NEW f, NEW g, NEW X, NextBut(f, g, X), NEW s \in Seq(ListNodes), \A x \in X : ~Among(x, s)
  PROVE  SameOn(f, g, s)
  BY DEF NextBut, Among, SameOn

\* An operation on one list keeps all lists sound when it keeps that list linked and leaves the others alone.
LEMMA LChanged ==
  ASSUME NEW l, NEW c, NEW m, NEW w, NEW h \in ListHeads, NEW X, LChange(l, c, m, w, h, X)
  PROVE  LSound(m, w)
  <1>1. ASSUME NEW k \in ListHeads, k # h
        PROVE  LLinked(m, w, k)
    <2>1. c \in [ListHeads -> Seq(ListNodes)] /\ c[k] \in Seq(ListNodes) /\ c[h] \in Seq(ListNodes) /\ Apart(c[h], c[k])
      BY <1>1 DEF LChange, LSound, Tidy
    <2>2. ASSUME NEW x \in X
          PROVE  ~Among(x, c[k])
      <3>1. CASE Among(x, c[h])
        BY <2>1, <3>1 DEF Among, Apart
      <3>2. CASE ~Holds(c, x)
        BY <2>1, <3>2, HeldIs
      <3> QED
        BY <2>2, <3>1, <3>2 DEF LChange
    <2>3. SameOn(l.next, m.next, c[k])
      BY <2>1, <2>2, LKept DEF LChange
    <2>4. LLinked(l, c, k) /\ w[k] = c[k] /\ m.first[k] = l.first[k] /\ m.last[k] = l.last[k]
      BY <1>1 DEF LChange, LSound
    <2> QED
      BY <2>3, <2>4, ChainSame DEF LLinked
  <1> QED
    BY <1>1 DEF LChange, LSound

\* Where a list is empty, and its last node.
LEMMA LEmpty ==
  ASSUME NEW l, NEW c, LSound(l, c), NEW h \in ListHeads
  PROVE  c[h] \in Seq(ListNodes) /\ (l.first[h] = ListNull <=> Len(c[h]) = 0)
  <1>1. c[h] \in Seq(ListNodes) /\ l.first[h] = FirstOf(c[h], ListNull)
    BY DEF LSound, Tidy, LLinked, Chained
  <1>2. Len(c[h]) # 0 => FirstOf(c[h], ListNull) \in ListNodes
    BY <1>1 DEF FirstOf
  <1> QED
    BY <1>1, <1>2, ListAssumption DEF FirstOf

\* The last node of two joined sequences.
LEMMA LastJoined ==
  ASSUME NEW S, NEW a \in Seq(S), NEW b \in Seq(S), NEW h
  PROVE  LastOf(a \o b, h) = IF Len(b) = 0 THEN LastOf(a, h) ELSE LastOf(b, h)
  <1> DEFINE c == a \o b
  <1>1. Joined(S, a, b)
    BY JoinFacts
  <1>2. /\ Len(c) = Len(a) + Len(b) /\ Len(a) \in Nat /\ Len(b) \in Nat
        /\ \A i \in 1 .. Len(a) : c[i] = a[i]
        /\ \A i \in 1 .. Len(b) : c[Len(a) + i] = b[i]
    BY <1>1 DEF Joined
  <1> HIDE DEF c
  <1>3. CASE Len(b) = 0
    <2>1. Len(c) = Len(a)
      BY <1>2, <1>3
    <2>2. Len(a) # 0 => Len(a) \in 1 .. Len(a)
      BY <1>2
    <2>3. LastOf(c, h) = LastOf(a, h)
      BY <1>2, <2>1, <2>2 DEF LastOf
    <2> QED
      BY <1>3, <2>3 DEF c
  <1>4. CASE Len(b) # 0
    <2>1. Len(b) \in 1 .. Len(b) /\ Len(c) # 0
      BY <1>2, <1>4
    <2>2. c[Len(c)] = b[Len(b)]
      BY <1>2, <2>1
    <2>3. LastOf(c, h) = LastOf(b, h)
      BY <1>4, <2>1, <2>2 DEF LastOf
    <2> QED
      BY <1>4, <2>3 DEF c
  <1> QED
    BY <1>3, <1>4

\* Nodes on no list that are a batch, from first to last.
Batch(l, c, s, first, last, h) ==
  /\ s \in Seq(ListNodes) /\ Once(s) /\ Len(s) # 0
  /\ \A x : Among(x, s) => x \in ListNodes /\ ~Holds(c, x)
  /\ \E y : Chained(first, l.next, y, s)
  /\ last = LastOf(s, h) /\ Among(last, s)

\* The contents stay tidy when nodes that were on no list are put at an end of one.
LEMMA BatchTidy ==
  ASSUME NEW l, NEW c, Tidy(c), NEW s, NEW first, NEW last, NEW h \in ListHeads, Batch(l, c, s, first, last, h)
  PROVE  Apart(s, c[h]) /\ Apart(c[h], s) /\ Tidy([c EXCEPT ![h] = s \o @]) /\ Tidy([c EXCEPT ![h] = @ \o s])
  <1>1. c \in [ListHeads -> Seq(ListNodes)] /\ s \in Seq(ListNodes) /\ Once(s)
    BY DEF Tidy, Batch
  <1>2. \A k \in ListHeads, i \in 1 .. Len(s) : ~Among(s[i], c[k])
    <2> TAKE k \in ListHeads, i \in 1 .. Len(s)
    <2>1. Among(s[i], s)
      BY DEF Among
    <2>2. ~Holds(c, s[i])
      BY <2>1 DEF Batch
    <2> QED
      BY <1>1, <2>2, HeldIs
  <1>3. \A k \in ListHeads : Apart(s, c[k]) /\ Apart(c[k], s)
    BY <1>2 DEF Among, Apart
  <1> DEFINE t == c[h]
             st == s \o t
             ts == t \o s
  <1>4. t \in Seq(ListNodes) /\ Once(t) /\ Apart(s, t) /\ Apart(t, s)
    BY <1>3 DEF Tidy
  <1> HIDE DEF t
  <1>5. st \in Seq(ListNodes) /\ Once(st) /\ \A m : Among(m, st) <=> Among(m, s) \/ Among(m, t)
    BY <1>1, <1>4, OnceJoined, AmongJoined
  <1>6. ts \in Seq(ListNodes) /\ Once(ts) /\ \A m : Among(m, ts) <=> Among(m, t) \/ Among(m, s)
    BY <1>1, <1>4, OnceJoined, AmongJoined
  <1> HIDE DEF st, ts
  <1>7. ASSUME NEW u, \A m : Among(m, u) => Among(m, s) \/ Among(m, t), NEW k \in ListHeads, k # h
        PROVE  Apart(u, c[k])
    <2> SUFFICES ASSUME NEW i \in 1 .. Len(u), NEW j \in 1 .. Len(c[k]), u[i] = c[k][j]
                 PROVE  FALSE
      BY DEF Apart
    <2>1. Among(u[i], u) /\ Among(u[i], c[k])
      BY DEF Among
    <2>2. Apart(s, c[k]) /\ Apart(t, c[k])
      BY <1>3, <1>7 DEF Tidy, t
    <2>3. ~Among(u[i], s) /\ ~Among(u[i], t)
      BY <2>1, <2>2 DEF Among, Apart
    <2> QED
      BY <1>7, <2>1, <2>3
  <1>8. Tidy([c EXCEPT ![h] = st])
    BY <1>5, <1>7, TidySet
  <1>9. Tidy([c EXCEPT ![h] = ts])
    BY <1>6, <1>7, TidySet
  <1> QED
    BY <1>4, <1>8, <1>9 DEF t, st, ts

\* Putting linked nodes at the front of a list keeps the lists sound.
LEMMA LFrontIs ==
  ASSUME NEW l, NEW c, LSound(l, c), NEW h \in ListHeads, NEW s, NEW first, NEW last, Batch(l, c, s, first, last, h),
         NEW m, m = LFront(l, first, last, h), NEW w, w = [c EXCEPT ![h] = s \o @]
  PROVE  LSound(m, w)
  <1> DEFINE t == c[h]
             z == l.first[h]
             X == {last}
  <1>1. /\ t \in Seq(ListNodes) /\ (z = ListNull <=> Len(t) = 0) /\ Tidy(c) /\ c \in [ListHeads -> Seq(ListNodes)]
        /\ Chained(z, l.next, ListNull, t) /\ (Len(t) # 0 => l.last[h] = LastOf(t, h)) /\ LShape(l)
    BY LEmpty DEF LSound, LLinked, Tidy
  <1>2. /\ s \in Seq(ListNodes) /\ Once(s) /\ Len(s) # 0 /\ last = s[Len(s)] /\ last = LastOf(s, h)
        /\ last \in ListNodes /\ ~Holds(c, last)
    BY DEF Batch, LastOf
  <1>3. PICK y : Chained(first, l.next, y, s)
    BY DEF Batch
  <1>4. Apart(s, t) /\ Tidy(w)
    BY <1>1, BatchTidy
  <1>5. first \in LPointers /\ last \in LPointers /\ z \in LPointers
    <2>1. first \in ListNodes
      BY <1>2, <1>3 DEF Chained, FirstOf
    <2> QED
      BY <1>1, <1>2, <2>1 DEF LShape, LPointers, ListPlaces
  <1> HIDE DEF t, z
  <1>6. /\ m.next = [l.next EXCEPT ![last] = z] /\ m.first = [l.first EXCEPT ![h] = first]
        /\ m.last = IF z = ListNull THEN [l.last EXCEPT ![h] = last] ELSE l.last
        /\ m = [next |-> m.next, first |-> m.first, last |-> m.last]
    BY <1>1 DEF LFront, LShape, z
  <1>7. /\ LShape(m) /\ m.next[last] = z /\ m.first[h] = first /\ m.last[h] = IF z = ListNull THEN last ELSE l.last[h]
        /\ NextBut(l.next, m.next, X)
        /\ \A k \in ListHeads : k # h => m.first[k] = l.first[k] /\ m.last[k] = l.last[k]
    <2>1. m.next \in [ListNodes -> LPointers] /\ m.next[last] = z /\ \A x \in ListNodes : x # last => m.next[x] = l.next[x]
      BY <1>1, <1>2, <1>5, <1>6 DEF LShape
    <2>2. NextBut(l.next, m.next, X)
      BY <2>1 DEF NextBut
    <2>3. m.first \in [ListHeads -> LPointers] /\ m.first[h] = first /\ \A k \in ListHeads : k # h => m.first[k] = l.first[k]
      BY <1>1, <1>5, <1>6 DEF LShape
    <2>4. m.last \in [ListHeads -> LPointers] /\ \A k \in ListHeads : k # h => m.last[k] = l.last[k]
      BY <1>1, <1>5, <1>6 DEF LShape
    <2>5. m.last[h] = IF z = ListNull THEN last ELSE l.last[h]
      BY <1>1, <1>6 DEF LShape
    <2> HIDE DEF X
    <2> QED
      BY <1>6, <2>1, <2>2, <2>3, <2>4, <2>5 DEF LShape
  <1>8. ~Among(last, t)
    BY <1>1, <1>2, HeldIs DEF t
  <1>9. \A x \in X : ~Among(x, t) /\ ~Holds(c, x)
    BY <1>2, <1>8
  <1>10. SameBut(l.next, m.next, s)
    <2> SUFFICES ASSUME NEW i \in 1 .. Len(s), i # Len(s) PROVE m.next[s[i]] = l.next[s[i]]
      BY DEF SameBut
    <2>1. Len(s) \in 1 .. Len(s) /\ s[i] \in ListNodes
      BY <1>2
    <2>2. s[i] # last
      BY <1>2, <2>1 DEF Once
    <2> QED
      BY <1>7, <2>1, <2>2 DEF NextBut
  <1> HIDE DEF X
  <1>11. SameOn(l.next, m.next, t)
    BY <1>1, <1>7, <1>9, LKept
  <1>12. Chained(first, m.next, ListNull, s \o t)
    BY <1>1, <1>2, <1>3, <1>7, <1>10, <1>11, LinkFront
  <1>13. w[h] = s \o t /\ \A k \in ListHeads : k # h => w[k] = c[k]
    BY <1>1 DEF t
  <1>14. m.last[h] = LastOf(s \o t, h)
    <2>1. LastOf(s \o t, h) = IF Len(t) = 0 THEN LastOf(s, h) ELSE LastOf(t, h)
      BY <1>1, <1>2, LastJoined
    <2> QED
      BY <1>1, <1>2, <1>7, <2>1
  <1>15. LChange(l, c, m, w, h, X)
    <2>1. LLinked(m, w, h)
      BY <1>7, <1>12, <1>13, <1>14 DEF LLinked
    <2> QED
      BY <1>4, <1>7, <1>9, <1>13, <2>1 DEF LChange
  <1> QED
    BY <1>15, LChanged

\* Putting linked nodes at the back of a list keeps the lists sound.
LEMMA LBackIs ==
  ASSUME NEW l, NEW c, LSound(l, c), NEW h \in ListHeads, NEW s, NEW first, NEW last, Batch(l, c, s, first, last, h),
         NEW m, m = LBack(l, first, last, h), NEW w, w = [c EXCEPT ![h] = @ \o s]
  PROVE  LSound(m, w)
  <1> DEFINE t == c[h]
             z == l.first[h]
             q == l.last[h]
             X == IF z = ListNull THEN {last} ELSE {last, q}
  <1>1. /\ t \in Seq(ListNodes) /\ (z = ListNull <=> Len(t) = 0) /\ Tidy(c) /\ c \in [ListHeads -> Seq(ListNodes)]
        /\ Chained(z, l.next, ListNull, t) /\ (Len(t) # 0 => q = LastOf(t, h)) /\ LShape(l) /\ Once(t)
    BY LEmpty DEF LSound, LLinked, Tidy
  <1>2. /\ s \in Seq(ListNodes) /\ Once(s) /\ Len(s) # 0 /\ last = s[Len(s)] /\ last = LastOf(s, h)
        /\ last \in ListNodes /\ ~Holds(c, last)
    BY DEF Batch, LastOf
  <1>3. PICK y : Chained(first, l.next, y, s)
    BY DEF Batch
  <1>4. Apart(s, t) /\ Apart(t, s) /\ Tidy(w)
    BY <1>1, BatchTidy
  <1>5. first \in LPointers /\ last \in LPointers /\ ListNull \in LPointers
    <2>1. first \in ListNodes
      BY <1>2, <1>3 DEF Chained, FirstOf
    <2> QED
      BY <1>1, <1>2, <2>1 DEF LShape, LPointers, ListPlaces
  <1> HIDE DEF t, z, q
  <1>6. ~Among(last, t)
    BY <1>1, <1>2, HeldIs DEF t
  <1>7. Len(t) # 0 => q = t[Len(t)] /\ Among(q, t) /\ q \in ListNodes /\ q # last
    BY <1>1, <1>6 DEF LastOf, Among
  <1>8. /\ m.next = IF z = ListNull THEN [l.next EXCEPT ![last] = ListNull]
                    ELSE [[l.next EXCEPT ![last] = ListNull] EXCEPT ![q] = first]
        /\ m.first = IF z = ListNull THEN [l.first EXCEPT ![h] = first] ELSE l.first
        /\ m.last = [l.last EXCEPT ![h] = last]
        /\ m = [next |-> m.next, first |-> m.first, last |-> m.last]
    BY <1>1 DEF LBack, LShape, z, q
  <1>9. /\ LShape(m) /\ m.next[last] = ListNull
        /\ m.last[h] = last /\ m.first[h] = IF z = ListNull THEN first ELSE z
        /\ NextBut(l.next, m.next, X)
        /\ (Len(t) # 0 => m.next[q] = first)
        /\ \A k \in ListHeads : k # h => m.first[k] = l.first[k] /\ m.last[k] = l.last[k]
    <2>1. CASE z = ListNull
      <3>1. /\ m.next = [l.next EXCEPT ![last] = ListNull]
            /\ m.first = [l.first EXCEPT ![h] = first]
            /\ m.last = [l.last EXCEPT ![h] = last]
            /\ m = [next |-> m.next, first |-> m.first, last |-> m.last]
        BY <1>8, <2>1
      <3>2. m.next \in [ListNodes -> LPointers] /\ m.next[last] = ListNull
            /\ \A x \in ListNodes : x # last => m.next[x] = l.next[x]
        BY <1>1, <1>2, <1>5, <3>1 DEF LShape
      <3>3. NextBut(l.next, m.next, X)
        BY <2>1, <3>2 DEF NextBut
      <3>4. /\ m.first \in [ListHeads -> LPointers] /\ m.last \in [ListHeads -> LPointers] /\ m.last[h] = last
            /\ m.first[h] = first
            /\ \A k \in ListHeads : k # h => m.first[k] = l.first[k] /\ m.last[k] = l.last[k]
        BY <1>1, <1>5, <3>1 DEF LShape
      <3> HIDE DEF X
      <3> QED
        BY <1>1, <2>1, <3>1, <3>2, <3>3, <3>4 DEF LShape
    <2>2. CASE z # ListNull
      <3>1. q \in ListNodes /\ q # last
        BY <1>1, <1>7, <2>2
      <3>2. /\ m.next = [[l.next EXCEPT ![last] = ListNull] EXCEPT ![q] = first]
            /\ m.first = l.first /\ l.first[h] = z
            /\ m.last = [l.last EXCEPT ![h] = last]
            /\ m = [next |-> m.next, first |-> m.first, last |-> m.last]
        BY <1>8, <2>2 DEF z
      <3>3. m.next \in [ListNodes -> LPointers] /\ m.next[last] = ListNull /\ m.next[q] = first
            /\ \A x \in ListNodes : x # last /\ x # q => m.next[x] = l.next[x]
        BY <1>1, <1>2, <1>5, <3>1, <3>2 DEF LShape
      <3>4. NextBut(l.next, m.next, X)
        BY <2>2, <3>3 DEF NextBut
      <3>5. /\ m.first \in [ListHeads -> LPointers] /\ m.last \in [ListHeads -> LPointers] /\ m.last[h] = last
            /\ \A k \in ListHeads : k # h => m.first[k] = l.first[k] /\ m.last[k] = l.last[k]
        BY <1>1, <1>5, <3>2 DEF LShape
      <3> HIDE DEF X
      <3> QED
        BY <2>2, <3>2, <3>3, <3>4, <3>5 DEF LShape
    <2> QED
      BY <2>1, <2>2
  <1>10. \A x \in X : Among(x, t) \/ ~Holds(c, x)
    BY <1>1, <1>2, <1>7
  <1>11. SameBut(l.next, m.next, s)
    <2> SUFFICES ASSUME NEW i \in 1 .. Len(s), i # Len(s) PROVE m.next[s[i]] = l.next[s[i]]
      BY DEF SameBut
    <2>1. Len(s) \in 1 .. Len(s) /\ s[i] \in ListNodes
      BY <1>2
    <2>2. s[i] # last
      BY <1>2, <2>1 DEF Once
    <2>3. ~Among(s[i], t)
      BY <1>4 DEF Apart, Among
    <2>4. s[i] \notin X
      BY <1>1, <1>7, <2>2, <2>3
    <2> QED
      BY <1>9, <2>1, <2>4 DEF NextBut
  <1>12. SameBut(l.next, m.next, t)
    <2> SUFFICES ASSUME NEW i \in 1 .. Len(t), i # Len(t) PROVE m.next[t[i]] = l.next[t[i]]
      BY DEF SameBut
    <2>1. Len(t) \in 1 .. Len(t) /\ t[i] \in ListNodes /\ Len(t) # 0
      BY <1>1
    <2>2. t[i] # q
      BY <1>1, <1>7, <2>1 DEF Once
    <2>3. t[i] # last
      BY <1>6 DEF Among
    <2>4. t[i] \notin X
      BY <2>2, <2>3
    <2> QED
      BY <1>9, <2>1, <2>4 DEF NextBut
  <1> HIDE DEF X
  <1>13. Chained(IF Len(t) = 0 THEN first ELSE z, m.next, ListNull, t \o s)
    <2>1. Len(t) # 0 => m.next[t[Len(t)]] = first
      BY <1>7, <1>9
    <2>2. m.next[s[Len(s)]] = ListNull
      BY <1>2, <1>9
    <2> QED
      BY <1>1, <1>2, <1>3, <1>11, <1>12, <2>1, <2>2, LinkBack
  <1>14. w[h] = t \o s /\ \A k \in ListHeads : k # h => w[k] = c[k]
    BY <1>1 DEF t
  <1>15. m.last[h] = LastOf(t \o s, h)
    <2>1. LastOf(t \o s, h) = IF Len(s) = 0 THEN LastOf(t, h) ELSE LastOf(s, h)
      BY <1>1, <1>2, LastJoined
    <2> QED
      BY <1>2, <1>9, <2>1
  <1>16. LChange(l, c, m, w, h, X)
    <2>1. LLinked(m, w, h)
      BY <1>1, <1>9, <1>13, <1>14, <1>15 DEF LLinked
    <2> QED
      BY <1>4, <1>9, <1>10, <1>14, <2>1 DEF LChange, t
  <1> QED
    BY <1>16, LChanged

\* A head is not a node.
LEMMA HeadsApart ==
  \A h \in ListHeads : h \notin ListNodes
  BY ListAssumption

\* Behind the first k nodes of a list there is a place for another one.
Inserted(c, h, k, n, w, a, b) ==
  /\ a \in Seq(ListNodes) /\ b \in Seq(ListNodes) /\ Len(a) = k
  /\ c[h] = a \o b /\ LastOf(a, h) = (IF k = 0 THEN h ELSE c[h][k])
  /\ w[h] = Inside(a, n, b) /\ \A g \in ListHeads : g # h => w[g] = c[g]
  /\ Tidy(w) /\ Once(a) /\ Once(b) /\ Apart(a, b) /\ ~Among(n, a) /\ ~Among(n, b)

\* The contents stay tidy when a node that was on no list is inserted.
LEMMA InsertTidy ==
  ASSUME NEW c, Tidy(c), NEW n \in ListNodes, ~Holds(c, n), NEW h \in ListHeads, NEW k \in 0 .. Len(c[h]),
         NEW w, w = [c EXCEPT ![h] = InsertAt(@, k + 1, n)]
  PROVE  \E a, b : Inserted(c, h, k, n, w, a, b)
  <1> DEFINE s == c[h]
             a == SubSeq(s, 1, k)
             b == SubSeq(s, k + 1, Len(s))
             t == Inside(a, n, b)
  <1>1. /\ c \in [ListHeads -> Seq(ListNodes)] /\ s \in Seq(ListNodes) /\ Once(s)
        /\ a \in Seq(ListNodes) /\ b \in Seq(ListNodes) /\ Len(a) = k /\ k \in Nat
        /\ \A i \in 1 .. k : a[i] = s[i]
    BY DEF Tidy
  <1>2. s = a \o b
    <2>1. k \in 0 .. Len(s)
      OBVIOUS
    <2> HIDE DEF s
    <2>2. s = SubSeq(s, 1, k) \o SubSeq(s, k + 1, Len(s))
      BY <1>1, <2>1, SubSeqJoined
    <2> QED
      BY <2>2
  <1>3. InsertAt(s, k + 1, n) = t
    <2> DEFINE j == (k + 1) - 1
    <2>1. j = k
      BY <1>1
    <2>2. InsertAt(s, k + 1, n) = (SubSeq(s, 1, j) \o <<n>>) \o b
      BY Zenon DEF InsertAt
    <2> HIDE DEF j, b, s
    <2> QED
      BY <2>1, <2>2 DEF Inside
  <1>4. Once(a) /\ Once(b) /\ Apart(a, b) /\ \A m : Among(m, s) <=> Among(m, a) \/ Among(m, b)
    <2> HIDE DEF s, a, b
    <2> QED
      BY <1>1, <1>2, OnceJoined, AmongJoined
  <1>5. LastOf(a, h) = IF k = 0 THEN h ELSE s[k]
    BY <1>1 DEF LastOf
  <1> HIDE DEF a, b, t
  <1>6. \A g \in ListHeads : ~Among(n, c[g])
    BY <1>1, HeldIs
  <1>7. t \in Seq(ListNodes) /\ Once(t) /\ \A m : Among(m, t) <=> Among(m, s) \/ m = n
    <2>1. /\ t \in Seq(ListNodes) /\ \A m : Among(m, t) <=> Among(m, a) \/ m = n \/ Among(m, b)
          /\ Once(t) <=> Once(a) /\ Once(b) /\ Apart(a, b) /\ ~Among(n, a) /\ ~Among(n, b)
      BY <1>1, BetweenIs DEF t
    <2> QED
      BY <1>4, <1>6, <2>1
  <1>8. \A g \in ListHeads : g # h => Apart(t, c[g])
    <2> SUFFICES ASSUME NEW g \in ListHeads, g # h, NEW i \in 1 .. Len(t), NEW j \in 1 .. Len(c[g]), t[i] = c[g][j]
                 PROVE  FALSE
      BY DEF Apart
    <2>1. Among(t[i], t) /\ Among(t[i], c[g])
      BY DEF Among
    <2>2. Apart(s, c[g])
      BY DEF Tidy
    <2>3. ~Among(t[i], s)
      BY <2>1, <2>2 DEF Among, Apart
    <2>4. t[i] = n
      BY <1>7, <2>1, <2>3
    <2> QED
      BY <1>6, <2>1, <2>4
  <1>9. Tidy([c EXCEPT ![h] = t])
    BY <1>7, <1>8, TidySet
  <1>10. w = [c EXCEPT ![h] = t]
    BY <1>3
  <1>11. w[h] = t /\ (\A g \in ListHeads : g # h => w[g] = c[g]) /\ Tidy(w)
    BY <1>1, <1>9, <1>10
  <1>12. ~Among(n, a) /\ ~Among(n, b)
    BY <1>4, <1>6
  <1>13. Inserted(c, h, k, n, w, a, b)
    BY <1>1, <1>2, <1>4, <1>5, <1>11, <1>12 DEF Inserted, t
  <1> QED
    BY <1>13

\* The last node when one has been put between two sequences.
LEMMA LastBetween ==
  ASSUME NEW a \in Seq(ListNodes), NEW b \in Seq(ListNodes), NEW n \in ListNodes, NEW h
  PROVE  /\ LastOf(Inside(a, n, b), h) = IF Len(b) = 0 THEN n ELSE LastOf(b, h)
         /\ Len(Inside(a, n, b)) # 0
  <1> DEFINE o == <<n>>
             an == a \o o
  <1>1. o \in Seq(ListNodes) /\ Len(o) = 1 /\ o[1] = n /\ an \in Seq(ListNodes)
    OBVIOUS
  <1> HIDE DEF o
  <1>2. LastOf(an, h) = n
    <2>1. LastOf(an, h) = IF Len(o) = 0 THEN LastOf(a, h) ELSE LastOf(o, h)
      BY <1>1, LastJoined
    <2> QED
      BY <1>1, <2>1 DEF LastOf
  <1> HIDE DEF an
  <1>3. LastOf(an \o b, h) = IF Len(b) = 0 THEN LastOf(an, h) ELSE LastOf(b, h)
    BY <1>1, LastJoined
  <1>4. Len(Inside(a, n, b)) = Len(a) + 1 + Len(b)
    <2>1. BetweenAt(ListNodes, a, n, b, Inside(a, n, b))
      BY BetweenPlaces
    <2> QED
      BY <2>1 DEF BetweenAt
  <1> QED
    BY <1>2, <1>3, <1>4 DEF Inside, an, o

\* eh_llist_insert
LEMMA LInsertIs ==
  ASSUME NEW l, NEW c, LSound(l, c), NEW h \in ListHeads, NEW k \in 0 .. Len(c[h]), NEW n \in ListNodes, ~Holds(c, n),
         NEW p, p = (IF k = 0 THEN h ELSE c[h][k]),
         NEW i, i = LSetNext([l EXCEPT !.next[n] = LNext(l, p)], p, n),
         NEW m, m = (IF LNext(l, p) = ListNull THEN [i EXCEPT !.last[h] = n] ELSE i),
         NEW w, w = [c EXCEPT ![h] = InsertAt(@, k + 1, n)]
  PROVE  LSound(m, w)
  <1>1. Tidy(c) /\ LShape(l) /\ LLinked(l, c, h) /\ c[h] \in Seq(ListNodes)
    BY DEF LSound, Tidy
  <1>2. PICK a, b : Inserted(c, h, k, n, w, a, b)
    BY <1>1, InsertTidy
  <1>3. /\ a \in Seq(ListNodes) /\ b \in Seq(ListNodes) /\ Len(a) = k /\ c[h] = a \o b /\ LastOf(a, h) = p
        /\ w[h] = Inside(a, n, b) /\ \A g \in ListHeads : g # h => w[g] = c[g]
        /\ Tidy(w) /\ Once(a) /\ Once(b) /\ Apart(a, b) /\ ~Among(n, a) /\ ~Among(n, b)
    BY <1>2 DEF Inserted
  <1> DEFINE q == FirstOf(b, ListNull)
             z == l.first[h]
             X == IF k = 0 THEN {n} ELSE {n, p}
  <1>4. Chained(z, l.next, ListNull, a \o b) /\ (Len(a \o b) # 0 => l.last[h] = LastOf(a \o b, h))
    BY <1>1, <1>3 DEF LLinked
  <1>5. Chained(z, l.next, q, a) /\ Chained(q, l.next, ListNull, b)
    BY <1>3, <1>4, ChainJoined
  <1>6. /\ k = 0 => p = h /\ p \in ListHeads
        /\ k # 0 => p \in ListNodes /\ p \notin ListHeads /\ p # n /\ Among(p, a) /\ p = a[Len(a)]
    <2>1. CASE k = 0
      BY <2>1
    <2>2. CASE k # 0
      <3>1. p = a[Len(a)] /\ Len(a) \in 1 .. Len(a)
        BY <1>3, <2>2 DEF LastOf
      <3> QED
        BY <1>3, <2>2, <3>1, HeadsApart DEF Among
    <2> QED
      BY <2>1, <2>2
  <1>7. LNext(l, p) = q
    <2>1. CASE k = 0
      <3>1. z = q
        BY <1>3, <1>5, <2>1 DEF Chained, FirstOf
      <3> QED
        BY <1>6, <2>1, <3>1 DEF LNext
    <2>2. CASE k # 0
      <3>1. Len(a) \in 1 .. Len(a)
        BY <1>3, <2>2
      <3>2. l.next[a[Len(a)]] = q
        BY <1>5, <3>1 DEF Chained
      <3> QED
        BY <1>6, <2>2, <3>2 DEF LNext
    <2> QED
      BY <2>1, <2>2
  <1>8. q \in LPointers /\ n \in LPointers /\ (q = ListNull <=> Len(b) = 0)
    <2>1. Len(b) # 0 => q \in ListNodes
      BY <1>3 DEF FirstOf
    <2> QED
      BY <2>1, ListAssumption DEF FirstOf, LPointers, ListPlaces
  <1> HIDE DEF q
  <1>81. l.next \in [ListNodes -> LPointers] /\ l.first \in [ListHeads -> LPointers] /\ l.last \in [ListHeads -> LPointers]
    BY <1>1 DEF LShape
  <1>9. /\ m.next = IF k = 0 THEN [l.next EXCEPT ![n] = q] ELSE [[l.next EXCEPT ![n] = q] EXCEPT ![p] = n]
        /\ m.first = IF k = 0 THEN [l.first EXCEPT ![h] = n] ELSE l.first
        /\ m.last = IF q = ListNull THEN [l.last EXCEPT ![h] = n] ELSE l.last
        /\ m = [next |-> m.next, first |-> m.first, last |-> m.last]
    <2>1. CASE k = 0
      BY <1>1, <1>6, <1>7, <2>1 DEF LShape, LSetNext
    <2>2. CASE k # 0
      BY <1>1, <1>6, <1>7, <2>2 DEF LShape, LSetNext
    <2> QED
      BY <2>1, <2>2
  <1>10. /\ m.next \in [ListNodes -> LPointers] /\ m.next[n] = q /\ (k # 0 => m.next[p] = n)
         /\ NextBut(l.next, m.next, X)
    <2>1. CASE k = 0
      BY <1>1, <1>8, <1>9, <2>1 DEF LShape, NextBut
    <2>2. CASE k # 0
      <3>1. m.next = [[l.next EXCEPT ![n] = q] EXCEPT ![p] = n] /\ p \in ListNodes /\ p # n
        BY <1>6, <1>9, <2>2
      <3>2. /\ m.next \in [ListNodes -> LPointers] /\ m.next[n] = q /\ m.next[p] = n
            /\ \A x \in ListNodes : x # n /\ x # p => m.next[x] = l.next[x]
        <4> DEFINE f == [l.next EXCEPT ![n] = q]
        <4>1. f \in [ListNodes -> LPointers] /\ f[n] = q /\ \A x \in ListNodes : x # n => f[x] = l.next[x]
          BY <1>81, <1>8
        <4>2. m.next = [f EXCEPT ![p] = n]
          BY <3>1
        <4>3. p \in ListNodes /\ p # n /\ n \in LPointers
          BY <1>8, <3>1
        <4> DEFINE g == m.next
        <4>4. g = [f EXCEPT ![p] = n]
          BY <4>2
        <4> HIDE DEF f, g
        <4>5. /\ g \in [ListNodes -> LPointers] /\ g[n] = q /\ g[p] = n
              /\ \A x \in ListNodes : x # n /\ x # p => g[x] = l.next[x]
          BY <4>1, <4>3, <4>4
        <4> QED
          BY <4>5 DEF g
      <3> QED
        BY <2>2, <3>2 DEF NextBut
    <2> QED
      BY <2>1, <2>2
  <1>11. /\ m.first \in [ListHeads -> LPointers] /\ m.first[h] = IF k = 0 THEN n ELSE z
         /\ \A g \in ListHeads : g # h => m.first[g] = l.first[g]
    <2> DEFINE f == l.first
               e == m.first
    <2>1. f \in [ListHeads -> LPointers] /\ z = f[h]
      BY <1>81
    <2>2. e = IF k = 0 THEN [f EXCEPT ![h] = n] ELSE f
      BY <1>9
    <2> HIDE DEF f, e, z
    <2>3. /\ e \in [ListHeads -> LPointers] /\ e[h] = IF k = 0 THEN n ELSE z
          /\ \A g \in ListHeads : g # h => e[g] = f[g]
      BY <1>8, <2>1, <2>2
    <2> QED
      BY <2>3 DEF e, f
  <1>12. /\ m.last \in [ListHeads -> LPointers] /\ m.last[h] = IF Len(b) = 0 THEN n ELSE l.last[h]
         /\ \A g \in ListHeads : g # h => m.last[g] = l.last[g]
    <2> DEFINE f == l.last
               e == m.last
    <2>1. f \in [ListHeads -> LPointers]
      BY <1>81
    <2>2. e = IF Len(b) = 0 THEN [f EXCEPT ![h] = n] ELSE f
      BY <1>8, <1>9
    <2> HIDE DEF f, e
    <2>3. /\ e \in [ListHeads -> LPointers] /\ e[h] = IF Len(b) = 0 THEN n ELSE f[h]
          /\ \A g \in ListHeads : g # h => e[g] = f[g]
      BY <1>8, <2>1, <2>2
    <2> QED
      BY <2>3 DEF e, f
  <1>13. \A x \in X : ~Among(x, b)
    <2>1. k # 0 => ~Among(p, b)
      BY <1>3, <1>6 DEF Among, Apart
    <2> QED
      BY <1>3, <2>1
  <1>14. SameOn(l.next, m.next, b)
    <2> HIDE DEF X
    <2> QED
      BY <1>3, <1>10, <1>13, LKept
  <1>15. SameBut(l.next, m.next, a)
    <2> SUFFICES ASSUME NEW j \in 1 .. Len(a), j # Len(a) PROVE m.next[a[j]] = l.next[a[j]]
      BY DEF SameBut
    <2>1. a[j] \in ListNodes /\ Len(a) \in 1 .. Len(a) /\ k # 0
      BY <1>3
    <2>2. a[j] # p
      BY <1>3, <1>6, <2>1 DEF Once
    <2>3. a[j] # n
      BY <1>3 DEF Among
    <2> QED
      BY <1>10, <2>1, <2>2, <2>3 DEF NextBut
  <1>16. Chained(IF Len(a) = 0 THEN n ELSE z, m.next, ListNull, Inside(a, n, b))
    <2>1. Len(a) # 0 => m.next[a[Len(a)]] = n
      BY <1>3, <1>6, <1>10
    <2>2. m.next[n] = FirstOf(b, ListNull)
      BY <1>10 DEF q
    <2> QED
      BY <1>3, <1>4, <1>14, <1>15, <2>1, <2>2, LinkAt
  <1>17. LLinked(m, w, h)
    <2>1. m.last[h] = LastOf(Inside(a, n, b), h)
      <3>1. LastOf(Inside(a, n, b), h) = IF Len(b) = 0 THEN n ELSE LastOf(b, h)
        BY <1>3, LastBetween
      <3>2. Len(b) # 0 => l.last[h] = LastOf(b, h)
        <4>1. LastOf(a \o b, h) = IF Len(b) = 0 THEN LastOf(a, h) ELSE LastOf(b, h)
          BY <1>3, LastJoined
        <4>2. Len(b) # 0 => Len(a \o b) # 0
          BY <1>3
        <4> QED
          BY <1>4, <4>1, <4>2
      <3> QED
        BY <1>12, <3>1, <3>2
    <2> QED
      BY <1>3, <1>11, <1>16, <2>1 DEF LLinked
  <1>18. LChange(l, c, m, w, h, X)
    <2>1. \A x \in X : Among(x, c[h]) \/ ~Holds(c, x)
      <3>1. k # 0 => Among(p, c[h])
        BY <1>3, <1>6, AmongJoined
      <3> QED
        BY <3>1
    <2>2. LShape(m)
      BY <1>9, <1>10, <1>11, <1>12 DEF LShape
    <2> HIDE DEF X
    <2> QED
      BY <1>3, <1>10, <1>11, <1>12, <1>17, <2>1, <2>2 DEF LChange
  <1> QED
    BY <1>18, LChanged

\* A walk that has been past some nodes of its list and is at the first of the others; prev is the last of the former.
LWShape(w) ==
  /\ w = [head |-> w.head, side |-> w.side, prev |-> w.prev, pos |-> w.pos, n |-> w.n, seen |-> w.seen, all |-> w.all]
  /\ w.head \in ListHeads /\ w.seen \in Seq(ListNodes) /\ w.all \in Seq(ListNodes)
LWalkAt(c, w, a, b) ==
  /\ a \in Seq(ListNodes) /\ b \in Seq(ListNodes)
  /\ c[w.head] = a \o b /\ w.all = w.seen \o b
  /\ w.pos = FirstOf(b, ListNull) /\ w.prev = LastOf(a, w.head)
LWalking(c, w) == LWShape(w) /\ \E a, b : LWalkAt(c, w, a, b)

\* The inductive invariant of eh_llist.h.
LListInv ==
  /\ LSound(llist, lContent)
  /\ lWalk = NoWalk \/ LWalking(lContent, lWalk)

-----------------------------------------------------------------------------
(* The operations of eh_llist.h.                                           *)

\* The invariant of eh_llist.h holds at the start.
LEMMA LListStart ==
  ASSUME ListStart
  PROVE  LListInv
  <1>1. /\ llist.next = [n \in ListNodes |-> n] /\ llist.first = [h \in ListHeads |-> ListNull]
        /\ llist.last = [h \in ListHeads |-> ListNull]
        /\ llist = [next |-> llist.next, first |-> llist.first, last |-> llist.last]
        /\ lContent = [h \in ListHeads |-> << >>] /\ lWalk = NoWalk
    BY DEF ListStart
  <1>2. LShape(llist)
    BY <1>1 DEF LShape, LPointers, ListPlaces
  <1>3. Tidy(lContent) /\ \A h \in ListHeads : lContent[h] = << >>
    BY <1>1 DEF Tidy, Once, Apart
  <1>4. \A h \in ListHeads : LLinked(llist, lContent, h)
    BY <1>1, <1>3, ChainNone DEF LLinked
  <1> QED
    BY <1>1, <1>2, <1>3, <1>4 DEF LListInv, LSound

\* It is kept by eh_llist_add and eh_llist_add_tail.
LEMMA LAddKeeps ==
  ASSUME LListInv, NEW n \in ListNodes, NEW h \in ListHeads, NEW tail \in BOOLEAN, LAdd(n, h, tail)
  PROVE  LListInv'
  <1> DEFINE s == <<n>>
  <1>1. /\ ~Holds(lContent, n) /\ lWalk' = NoWalk
        /\ llist' = IF tail THEN LBack(llist, n, n, h) ELSE LFront(llist, n, n, h)
        /\ lContent' = [lContent EXCEPT ![h] = Placed(@, n, tail)]
    BY DEF LAdd, LIdle
  <1>2. LSound(llist, lContent) /\ lContent[h] \in Seq(ListNodes)
    BY DEF LListInv, LSound, Tidy
  <1>3. Batch(llist, lContent, s, n, n, h)
    <2>1. s \in Seq(ListNodes) /\ Once(s) /\ Len(s) # 0 /\ n = LastOf(s, h)
      BY DEF Once, LastOf
    <2>2. \A x : Among(x, s) <=> x = n
      BY AmongOne
    <2>3. Chained(n, llist.next, llist.next[n], s)
      BY ChainOne
    <2> HIDE DEF s
    <2> QED
      BY <1>1, <2>1, <2>2, <2>3 DEF Batch
  <1>4. lContent' = IF tail THEN [lContent EXCEPT ![h] = @ \o s] ELSE [lContent EXCEPT ![h] = s \o @]
    BY <1>1, <1>2, AppendJoined DEF Placed
  <1> HIDE DEF s
  <1>5. LSound(llist', lContent')
    <2>1. CASE tail
      <3>1. llist' = LBack(llist, n, n, h) /\ lContent' = [lContent EXCEPT ![h] = @ \o s]
        BY <1>1, <1>4, <2>1
      <3> QED
        BY <1>2, <1>3, <3>1, LBackIs
    <2>2. CASE ~tail
      <3>1. llist' = LFront(llist, n, n, h) /\ lContent' = [lContent EXCEPT ![h] = s \o @]
        BY <1>1, <1>4, <2>2
      <3> QED
        BY <1>2, <1>3, <3>1, LFrontIs
    <2> QED
      BY <2>1, <2>2
  <1> QED
    BY <1>1, <1>5 DEF LListInv

EmptiedList(l, g) == [l EXCEPT !.first[g] = ListNull, !.last[g] = ListNull]

\* A list whose nodes are all taken.
EmptiedAs(l, g, e) ==
  /\ e.next = l.next /\ e.first = [l.first EXCEPT ![g] = ListNull]
  /\ e.last = [l.last EXCEPT ![g] = ListNull]
  /\ e = [next |-> e.next, first |-> e.first, last |-> e.last]

\* A list whose nodes are all taken.
LEMMA EmptiedIs ==
  ASSUME NEW l, LShape(l), NEW g, NEW e, e = EmptiedList(l, g)
  PROVE  EmptiedAs(l, g, e)
  BY DEF LShape, EmptiedList, EmptiedAs

\* It is kept by eh_llist_add_batch and eh_llist_add_batch_tail.
LEMMA LAddBatchKeeps ==
  ASSUME LListInv, NEW g \in ListHeads, NEW h \in ListHeads, NEW tail \in BOOLEAN, LAddBatch(g, h, tail)
  PROVE  LListInv'
  <1> DEFINE e == [llist EXCEPT !.first[g] = ListNull, !.last[g] = ListNull]
             s == lContent[g]
             v == [lContent EXCEPT ![g] = << >>]
             first == llist.first[g]
             last == llist.last[g]
             w == [v EXCEPT ![h] = s \o lContent[h]]
  <1>1. /\ g # h /\ first # ListNull /\ lWalk' = NoWalk
        /\ llist' = IF tail THEN LBack(e, first, last, h) ELSE LFront(e, first, last, h)
        /\ lContent' = IF tail THEN [v EXCEPT ![h] = @ \o s] ELSE [v EXCEPT ![h] = s \o @]
    BY DEF LAddBatch, LIdle
  <1>2. /\ LSound(llist, lContent) /\ Tidy(lContent) /\ LShape(llist) /\ LLinked(llist, lContent, g)
        /\ lContent \in [ListHeads -> Seq(ListNodes)] /\ s \in Seq(ListNodes) /\ Once(s)
    BY DEF LListInv, LSound, Tidy
  <1>3. Len(s) # 0
    BY <1>1, <1>2, LEmpty
  <1>4. WithSpliced(lContent, v, w, g, h)
    BY <1>1, <1>2, SplicedTidy
  <1>5. /\ Tidy(v) /\ v[g] = << >> /\ (\A k \in ListHeads : k # g => v[k] = lContent[k])
        /\ \A m : Holds(v, m) <=> Holds(lContent, m) /\ ~Among(m, s)
    BY <1>4 DEF WithSpliced
  <1>6. /\ e.next = llist.next /\ e.first = [llist.first EXCEPT ![g] = ListNull]
        /\ e.last = [llist.last EXCEPT ![g] = ListNull]
        /\ e = [next |-> e.next, first |-> e.first, last |-> e.last]
    <2>1. e = EmptiedList(llist, g)
      BY DEF EmptiedList
    <2> HIDE DEF e
    <2>2. EmptiedAs(llist, g, e)
      BY <1>2, <2>1, EmptiedIs
    <2> QED
      BY <2>2 DEF EmptiedAs
  <1> HIDE DEF e, v, w
  <1>7. LShape(e) /\ e.first[g] = ListNull
        /\ \A k \in ListHeads : k # g => e.first[k] = llist.first[k] /\ e.last[k] = llist.last[k]
    <2>1. ListNull \in LPointers
      BY DEF LPointers
    <2> QED
      BY <1>2, <1>6, <2>1 DEF LShape
  <1>8. LSound(e, v)
    <2> DEFINE X == {}
    <2>1. NextBut(llist.next, e.next, X) /\ \A x \in X : Among(x, lContent[g]) \/ ~Holds(lContent, x)
      BY <1>6 DEF NextBut
    <2> HIDE DEF X
    <2>2. LLinked(e, v, g)
      BY <1>5, <1>7, ChainNone DEF LLinked
    <2>3. LChange(llist, lContent, e, v, g, X)
      BY <1>2, <1>5, <1>7, <2>1, <2>2 DEF LChange
    <2> QED
      BY <2>3, LChanged
  <1>9. Batch(e, v, s, first, last, h)
    <2>1. \A x : Among(x, s) => x \in ListNodes /\ ~Holds(v, x)
      BY <1>2, <1>5, LastAmong
    <2>2. Chained(first, e.next, ListNull, s) /\ last = LastOf(s, g)
      BY <1>2, <1>3, <1>6 DEF LLinked
    <2>3. LastOf(s, g) = LastOf(s, h) /\ Among(LastOf(s, h), s)
      BY <1>2, <1>3 DEF LastOf, Among
    <2> HIDE DEF s, first, last
    <2> QED
      BY <1>2, <1>3, <2>1, <2>2, <2>3 DEF Batch
  <1> HIDE DEF first, last, s
  <1>10. LSound(llist', lContent')
    <2>1. CASE tail
      <3>1. llist' = LBack(e, first, last, h) /\ lContent' = [v EXCEPT ![h] = @ \o s]
        BY <1>1, <2>1
      <3> QED
        BY <1>8, <1>9, <3>1, LBackIs
    <2>2. CASE ~tail
      <3>1. llist' = LFront(e, first, last, h) /\ lContent' = [v EXCEPT ![h] = s \o @]
        BY <1>1, <2>2
      <3> QED
        BY <1>8, <1>9, <3>1, LFrontIs
    <2> QED
      BY <2>1, <2>2
  <1> QED
    BY <1>1, <1>10 DEF LListInv

\* It is kept by eh_llist_insert.
LEMMA LInsertKeeps ==
  ASSUME LListInv, NEW prev, NEW n \in ListNodes, NEW h \in ListHeads, LInsert(prev, n, h)
  PROVE  LListInv'
  <1> DEFINE s == lContent[h]
             i == LSetNext([llist EXCEPT !.next[n] = LNext(llist, prev)], prev, n)
             k == IF prev = h THEN 0 ELSE PlaceOf(s, prev)
  <1>1. /\ prev = h \/ prev \in Range(s)
        /\ ~Holds(lContent, n) /\ lWalk' = NoWalk
        /\ llist' = IF LNext(llist, prev) = ListNull THEN [i EXCEPT !.last[h] = n] ELSE i
        /\ lContent' = [lContent EXCEPT ![h] = InsertAt(@, k + 1, n)]
    BY DEF LInsert, LIdle
  <1>2. LSound(llist, lContent) /\ s \in Seq(ListNodes) /\ DOMAIN s = 1 .. Len(s)
    BY DEF LListInv, LSound, Tidy
  <1>3. k \in 0 .. Len(s) /\ prev = IF k = 0 THEN h ELSE s[k]
    <2>1. CASE prev = h
      BY <1>2, <2>1
    <2>2. CASE prev # h
      <3>1. \E j \in DOMAIN s : s[j] = prev
        BY <1>1, <2>2 DEF Range
      <3>2. k \in DOMAIN s /\ s[k] = prev
        BY <2>2, <3>1 DEF PlaceOf
      <3> HIDE DEF k
      <3> QED
        BY <1>2, <3>2
    <2> QED
      BY <2>1, <2>2
  <1>4. LSound(llist', lContent')
    <2>1. i = LSetNext([llist EXCEPT !.next[n] = LNext(llist, prev)], prev, n)
      OBVIOUS
    <2> HIDE DEF i, k
    <2> QED
      BY <1>1, <1>2, <1>3, <2>1, LInsertIs
  <1> QED
    BY <1>1, <1>4 DEF LListInv

\* It is kept by taking the first node off a list.
LEMMA LPopKeeps ==
  ASSUME LListInv, NEW h \in ListHeads, NEW init \in BOOLEAN, LPop(h, init)
  PROVE  LListInv'
  <1> DEFINE s == lContent[h]
             n == llist.first[h]
             X == IF init THEN {n} ELSE {}
  <1>1. /\ n # ListNull /\ lWalk' = NoWalk
        /\ llist' = IF init THEN [[llist EXCEPT !.first[h] = llist.next[n]] EXCEPT !.next[n] = n]
                    ELSE [llist EXCEPT !.first[h] = llist.next[n]]
        /\ lContent' = [lContent EXCEPT ![h] = Tail(s)]
    BY DEF LPop, LIdle
  <1>2. /\ LSound(llist, lContent) /\ Tidy(lContent) /\ LShape(llist) /\ LLinked(llist, lContent, h)
        /\ lContent \in [ListHeads -> Seq(ListNodes)] /\ s \in Seq(ListNodes) /\ Once(s)
    BY DEF LListInv, LSound, Tidy
  <1>3. Len(s) # 0 /\ n = s[1]
    <2>1. Len(s) # 0
      BY <1>1, <1>2, LEmpty
    <2> QED
      BY <1>2, <2>1 DEF LLinked, Chained, FirstOf
  <1>4. PICK r \in Seq(ListNodes) : s = <<s[1]>> \o r /\ s[1] \in ListNodes
    BY <1>2, <1>3, FirstIs
  <1> DEFINE o == <<n>>
  <1>5. o \in Seq(ListNodes) /\ s = o \o r /\ n \in ListNodes
    BY <1>3, <1>4
  <1>6. Tail(s) = r
    BY <1>3, <1>4
  <1>7. Once(r) /\ ~Among(n, r) /\ \A m : Among(m, r) => Among(m, s)
    <2>1. Among(n, o) /\ Len(o) = 1 /\ o[1] = n
      BY DEF Among
    <2> HIDE DEF o, s, n
    <2>2. Once(r) /\ Apart(o, r) /\ \A m : Among(m, s) <=> Among(m, o) \/ Among(m, r)
      BY <1>2, <1>5, OnceJoined, AmongJoined
    <2> QED
      BY <2>1, <2>2 DEF Apart, Among
  <1>8. llist.next[n] = FirstOf(r, ListNull) /\ Chained(FirstOf(r, ListNull), llist.next, ListNull, r)
    <2> DEFINE z == FirstOf(r, ListNull)
               f == llist.next
    <2>1. Chained(n, f, ListNull, o \o r)
      BY <1>2, <1>5 DEF LLinked
    <2> HIDE DEF o, n, f
    <2>2. Chained(n, f, z, o) /\ Chained(z, f, ListNull, r)
      BY <1>5, <2>1, ChainJoined
    <2>3. f[n] = z
      BY <2>2, ChainOne DEF o
    <2> QED
      BY <2>2, <2>3 DEF f
  <1>9. Tidy(lContent') /\ lContent'[h] = r /\ \A k \in ListHeads : k # h => lContent'[k] = lContent[k]
    <2>1. \A k \in ListHeads : k # h => Apart(r, lContent[k])
      <3> SUFFICES ASSUME NEW k \in ListHeads, k # h, NEW i \in 1 .. Len(r), NEW j \in 1 .. Len(lContent[k]),
                          r[i] = lContent[k][j]
                   PROVE  FALSE
        BY DEF Apart
      <3>1. Among(r[i], r) /\ Among(r[i], lContent[k])
        BY DEF Among
      <3>2. Among(r[i], s) /\ Apart(s, lContent[k])
        BY <1>2, <1>7, <3>1 DEF Tidy
      <3> QED
        BY <3>1, <3>2 DEF Among, Apart
    <2>2. Tidy([lContent EXCEPT ![h] = r])
      BY <1>2, <1>7, <2>1, TidySet
    <2> QED
      BY <1>1, <1>2, <1>6, <2>2
  <1> DEFINE q == FirstOf(r, ListNull)
  <1>10. q \in LPointers /\ n \in LPointers
    BY <1>5 DEF FirstOf, LPointers, ListPlaces
  <1> HIDE DEF n, q, s
  <1>11. /\ llist'.next = IF init THEN [llist.next EXCEPT ![n] = n] ELSE llist.next
         /\ llist'.first = [llist.first EXCEPT ![h] = q] /\ llist'.last = llist.last
         /\ llist' = [next |-> llist'.next, first |-> llist'.first, last |-> llist'.last]
    <2>1. llist.next[n] = q
      BY <1>8 DEF q
    <2> QED
      BY <1>1, <1>2, <2>1 DEF LShape
  <1>12. /\ LShape(llist') /\ llist'.first[h] = q /\ llist'.last[h] = llist.last[h]
         /\ \A k \in ListHeads : k # h => llist'.first[k] = llist.first[k] /\ llist'.last[k] = llist.last[k]
    BY <1>2, <1>10, <1>11 DEF LShape
  <1>13. NextBut(llist.next, llist'.next, X)
    BY <1>2, <1>11 DEF LShape, NextBut
  <1>14. \A x \in X : ~Among(x, r) /\ (Among(x, lContent[h]) \/ ~Holds(lContent, x))
    <2>1. Among(n, lContent[h])
      BY <1>2, <1>3 DEF Among, s
    <2> QED
      BY <1>7, <2>1
  <1> HIDE DEF X
  <1>15. Chained(q, llist'.next, ListNull, r)
    <2>1. SameOn(llist.next, llist'.next, r)
      BY <1>13, <1>14, LKept
    <2> QED
      BY <1>8, <2>1, ChainSame DEF q
  <1>16. LLinked(llist', lContent', h)
    <2>1. ASSUME Len(r) # 0
          PROVE  llist'.last[h] = LastOf(r, h)
      <3>1. LastOf(o \o r, h) = IF Len(r) = 0 THEN LastOf(o, h) ELSE LastOf(r, h)
        <4> HIDE DEF o
        <4> QED
          BY <1>5, LastJoined
      <3>2. llist.last[h] = LastOf(s, h)
        BY <1>2, <1>3 DEF LLinked, s
      <3> QED
        BY <1>5, <1>12, <2>1, <3>1, <3>2
    <2> QED
      BY <1>9, <1>12, <1>15, <2>1 DEF LLinked
  <1>17. LChange(llist, lContent, llist', lContent', h, X)
    BY <1>2, <1>9, <1>12, <1>13, <1>14, <1>16 DEF LChange
  <1>18. LSound(llist', lContent')
    BY <1>17, LChanged
  <1> QED
    BY <1>1, <1>18 DEF LListInv

\* A walk at a node, between those it has been past and the others.
LWalkMid(l, c, w, a, b) ==
  /\ LWShape(w) /\ w.pos \in ListNodes
  /\ a \in Seq(ListNodes) /\ b \in Seq(ListNodes)
  /\ c[w.head] = Inside(a, w.pos, b) /\ w.all = Append(w.seen, w.pos) \o b
  /\ w.prev = LastOf(a, w.head)
  /\ l.next[w.pos] = FirstOf(b, ListNull) /\ LNext(l, w.prev) = w.pos

\* The place before a node: the node before it or the head.
LEMMA NextOfPlace ==
  ASSUME NEW l, NEW h \in ListHeads, NEW a \in Seq(ListNodes), NEW end, Chained(l.first[h], l.next, end, a)
  PROVE  LNext(l, LastOf(a, h)) = end
  <1>1. CASE Len(a) = 0
    BY <1>1 DEF LNext, LastOf, Chained, FirstOf
  <1>2. CASE Len(a) # 0
    <2>1. Len(a) \in 1 .. Len(a) /\ a[Len(a)] \in ListNodes
      BY <1>2
    <2>2. l.next[a[Len(a)]] = end
      BY <2>1 DEF Chained
    <2> QED
      BY <1>2, <2>1, <2>2, HeadsApart DEF LNext, LastOf
  <1> QED
    BY <1>1, <1>2

\* While a walk is not at its end it is at a node of the list.
LEMMA LWalkMiddle ==
  ASSUME NEW l, NEW c, NEW w, LSound(l, c), LWalking(c, w), w.pos # ListNull
  PROVE  \E a, b : LWalkMid(l, c, w, a, b)
  <1> DEFINE h == w.head
             n == w.pos
  <1>1. LWShape(w) /\ h \in ListHeads /\ w.seen \in Seq(ListNodes)
    BY DEF LWalking, LWShape
  <1>2. PICK a, b : LWalkAt(c, w, a, b)
    BY DEF LWalking
  <1>3. /\ a \in Seq(ListNodes) /\ b \in Seq(ListNodes) /\ c[h] = a \o b /\ w.all = w.seen \o b
        /\ n = FirstOf(b, ListNull) /\ w.prev = LastOf(a, h)
    BY <1>2 DEF LWalkAt
  <1>4. Len(b) # 0
    BY <1>3 DEF FirstOf
  <1>5. PICK r \in Seq(ListNodes) : b = <<b[1]>> \o r /\ b[1] \in ListNodes /\ \A end : FirstOf(b, end) = b[1]
    BY <1>3, <1>4, FirstIs
  <1>6. n \in ListNodes /\ b = <<n>> \o r
    BY <1>3, <1>5
  <1>7. c[h] = Inside(a, n, r)
    BY <1>3, <1>6, SeenGrows
  <1>8. w.all = Append(w.seen, n) \o r
    <2> DEFINE seen == w.seen
    <2>1. seen \in Seq(ListNodes)
      BY <1>1
    <2> HIDE DEF seen, n
    <2>2. seen \o (<<n>> \o r) = Inside(seen, n, r) /\ Append(seen, n) \o r = Inside(seen, n, r)
      BY <1>6, <2>1, SeenGrows
    <2>3. seen \o (<<n>> \o r) = Append(seen, n) \o r
      BY <2>2, Zenon
    <2> QED
      BY <1>3, <1>6, <2>3 DEF seen
  <1>9. l.next[n] = FirstOf(r, ListNull) /\ LNext(l, w.prev) = n
    <2> DEFINE x == l.first[h]
               f == l.next
    <2>1. Chained(x, f, ListNull, Inside(a, n, r))
      BY <1>1, <1>7 DEF LSound, LLinked
    <2> HIDE DEF x, f, n
    <2>2. Chained(x, f, n, a) /\ f[n] = FirstOf(r, ListNull)
      BY <1>3, <1>6, <2>1, BetweenIs
    <2>3. LNext(l, LastOf(a, h)) = n
      BY <1>1, <1>3, <2>2, NextOfPlace DEF x, f
    <2> QED
      BY <1>3, <2>2, <2>3 DEF f
  <1>10. LWalkMid(l, c, w, a, r)
    BY <1>1, <1>3, <1>6, <1>7, <1>8, <1>9 DEF LWalkMid
  <1> QED
    BY <1>10

\* eh_llist_del takes out the node behind a place and keeps the lists sound.
LEMMA LDeletedIs ==
  ASSUME NEW l, NEW c, LSound(l, c), NEW h \in ListHeads, NEW n \in ListNodes,
         NEW a \in Seq(ListNodes), NEW b \in Seq(ListNodes), c[h] = Inside(a, n, b),
         NEW p, p = LastOf(a, h), NEW q, q = FirstOf(b, ListNull),
         NEW m, m = LDeleted(l, h, p, q)
  PROVE  LSound(m, Without(c, n)) /\ Without(c, n)[h] = a \o b /\ LNext(m, p) = q
  <1> DEFINE w == Without(c, n)
             z == l.first[h]
             X == IF Len(a) = 0 THEN {} ELSE {p}
  <1>1. Tidy(c) /\ LShape(l) /\ LLinked(l, c, h) /\ Once(c[h]) /\ c \in [ListHeads -> Seq(ListNodes)]
    BY DEF LSound, Tidy
  <1>2. /\ Once(a) /\ Once(b) /\ Apart(a, b) /\ Among(n, c[h])
        /\ \A x : Among(x, a) => Among(x, c[h])
    BY <1>1, BetweenIs
  <1>3. PICK a0, b0 \in Seq(ListNodes) : TakenOut(c, n, h, a0, b0)
    BY <1>1, <1>2, WithoutIs
  <1>4. a0 = a /\ b0 = b
    <2>1. Inside(a, n, b) = Inside(a0, n, b0) /\ Once(Inside(a, n, b))
      BY <1>1, <1>3 DEF TakenOut
    <2> QED
      BY <2>1, BetweenOnce
  <1>5. w = [c EXCEPT ![h] = a \o b] /\ Tidy(w)
    BY <1>3, <1>4 DEF TakenOut
  <1> HIDE DEF w
  <1>6. w[h] = a \o b /\ \A g \in ListHeads : g # h => w[g] = c[g]
    BY <1>1, <1>5
  <1>7. /\ Chained(z, l.next, ListNull, Inside(a, n, b)) /\ l.last[h] = LastOf(Inside(a, n, b), h)
        /\ Chained(z, l.next, n, a) /\ l.next[n] = q /\ Chained(q, l.next, ListNull, b)
    <2> DEFINE f == l.next
    <2>1. Chained(z, f, ListNull, Inside(a, n, b)) /\ l.last[h] = LastOf(Inside(a, n, b), h)
      BY <1>1, LastBetween DEF LLinked
    <2> HIDE DEF z, f
    <2>2. Chained(z, f, n, a) /\ f[n] = FirstOf(b, ListNull) /\ Chained(FirstOf(b, ListNull), f, ListNull, b)
      BY <2>1, BetweenIs
    <2> QED
      BY <2>1, <2>2 DEF f
  <1>8. /\ Len(a) = 0 => p = h /\ p \in ListHeads
        /\ Len(a) # 0 => p \in ListNodes /\ p \notin ListHeads /\ p = a[Len(a)] /\ Among(p, a)
        /\ p \in LPointers
    <2>1. CASE Len(a) = 0
      BY <2>1 DEF LastOf, LPointers, ListPlaces
    <2>2. CASE Len(a) # 0
      <3>1. Len(a) \in 1 .. Len(a) /\ p = a[Len(a)]
        BY <2>2 DEF LastOf
      <3> QED
        BY <2>2, <3>1, HeadsApart DEF LPointers, ListPlaces, Among
    <2> QED
      BY <2>1, <2>2
  <1>9. q \in LPointers /\ (q = ListNull <=> Len(b) = 0)
    <2>1. Len(b) # 0 => q \in ListNodes
      BY DEF FirstOf
    <2> QED
      BY <2>1, ListAssumption DEF FirstOf, LPointers, ListPlaces
  <1>10. l.next \in [ListNodes -> LPointers] /\ l.first \in [ListHeads -> LPointers] /\ l.last \in [ListHeads -> LPointers]
    BY <1>1 DEF LShape
  <1>11. /\ m.next = IF Len(a) = 0 THEN l.next ELSE [l.next EXCEPT ![p] = q]
         /\ m.first = IF Len(a) = 0 THEN [l.first EXCEPT ![h] = q] ELSE l.first
         /\ m.last = IF Len(b) = 0 THEN [l.last EXCEPT ![h] = p] ELSE l.last
         /\ m = [next |-> m.next, first |-> m.first, last |-> m.last]
    <2>1. CASE Len(a) = 0
      BY <1>1, <1>8, <1>9, <2>1 DEF LShape, LSetNext, LDeleted
    <2>2. CASE Len(a) # 0
      BY <1>1, <1>8, <1>9, <2>2 DEF LShape, LSetNext, LDeleted
    <2> QED
      BY <2>1, <2>2
  <1>12. /\ m.next \in [ListNodes -> LPointers] /\ (Len(a) # 0 => m.next[p] = q)
         /\ NextBut(l.next, m.next, X)
    <2> DEFINE f == l.next
               e == m.next
    <2>1. f \in [ListNodes -> LPointers] /\ e = IF Len(a) = 0 THEN f ELSE [f EXCEPT ![p] = q]
      BY <1>10, <1>11
    <2> HIDE DEF f, e
    <2>2. e \in [ListNodes -> LPointers] /\ (Len(a) # 0 => e[p] = q) /\ NextBut(f, e, X)
      BY <1>8, <1>9, <2>1 DEF NextBut
    <2> QED
      BY <2>2 DEF e, f
  <1>13. /\ m.first \in [ListHeads -> LPointers] /\ m.first[h] = IF Len(a) = 0 THEN q ELSE z
         /\ \A g \in ListHeads : g # h => m.first[g] = l.first[g]
    <2> DEFINE f == l.first
               e == m.first
    <2>1. f \in [ListHeads -> LPointers] /\ e = (IF Len(a) = 0 THEN [f EXCEPT ![h] = q] ELSE f) /\ z = f[h]
      BY <1>10, <1>11
    <2> HIDE DEF f, e, z
    <2>2. /\ e \in [ListHeads -> LPointers] /\ e[h] = IF Len(a) = 0 THEN q ELSE z
          /\ \A g \in ListHeads : g # h => e[g] = f[g]
      BY <1>9, <2>1
    <2> QED
      BY <2>2 DEF e, f
  <1>14. /\ m.last \in [ListHeads -> LPointers] /\ m.last[h] = IF Len(b) = 0 THEN p ELSE l.last[h]
         /\ \A g \in ListHeads : g # h => m.last[g] = l.last[g]
    <2> DEFINE f == l.last
               e == m.last
    <2>1. f \in [ListHeads -> LPointers] /\ e = IF Len(b) = 0 THEN [f EXCEPT ![h] = p] ELSE f
      BY <1>10, <1>11
    <2> HIDE DEF f, e
    <2>2. /\ e \in [ListHeads -> LPointers] /\ e[h] = IF Len(b) = 0 THEN p ELSE f[h]
          /\ \A g \in ListHeads : g # h => e[g] = f[g]
      BY <1>8, <2>1
    <2> QED
      BY <2>2 DEF e, f
  <1>15. LNext(m, p) = q
    BY <1>8, <1>12, <1>13 DEF LNext
  <1>16. SameBut(l.next, m.next, a)
    <2> SUFFICES ASSUME NEW j \in 1 .. Len(a), j # Len(a) PROVE m.next[a[j]] = l.next[a[j]]
      BY DEF SameBut
    <2>1. a[j] \in ListNodes /\ Len(a) \in 1 .. Len(a) /\ Len(a) # 0
      OBVIOUS
    <2>2. a[j] # p
      BY <1>2, <1>8, <2>1 DEF Once
    <2> QED
      BY <1>12, <2>1, <2>2 DEF NextBut
  <1>17. SameOn(l.next, m.next, b)
    <2>1. \A x \in X : ~Among(x, b)
      BY <1>2, <1>8 DEF Among, Apart
    <2> HIDE DEF X
    <2> QED
      BY <1>12, <2>1, LKept
  <1>18. Chained(IF Len(a) = 0 THEN q ELSE z, m.next, ListNull, a \o b)
    <2> DEFINE f == l.next
               e == m.next
    <2>1. /\ Chained(z, f, ListNull, Inside(a, n, b)) /\ SameBut(f, e, a) /\ SameOn(f, e, b)
          /\ f[n] = q /\ (Len(a) # 0 => e[a[Len(a)]] = f[n])
      BY <1>7, <1>8, <1>12, <1>16, <1>17
    <2> HIDE DEF f, e, z
    <2>2. Chained(IF Len(a) = 0 THEN f[n] ELSE z, e, ListNull, a \o b)
      BY <2>1, LinkOut
    <2> QED
      BY <2>1, <2>2 DEF e
  <1>19. Len(a \o b) # 0 => m.last[h] = LastOf(a \o b, h)
    <2>1. LastOf(a \o b, h) = IF Len(b) = 0 THEN LastOf(a, h) ELSE LastOf(b, h)
      BY LastJoined
    <2>2. Len(b) # 0 => l.last[h] = LastOf(b, h)
      BY <1>7, LastBetween
    <2> QED
      BY <1>14, <2>1, <2>2
  <1>20. LLinked(m, w, h)
    BY <1>6, <1>13, <1>18, <1>19 DEF LLinked
  <1>21. LChange(l, c, m, w, h, X)
    <2>1. \A x \in X : Among(x, c[h]) \/ ~Holds(c, x)
      BY <1>2, <1>8
    <2>2. LShape(m)
      BY <1>11, <1>12, <1>13, <1>14 DEF LShape
    <2> HIDE DEF X
    <2> QED
      BY <1>5, <1>6, <1>12, <1>13, <1>14, <1>20, <2>1, <2>2 DEF LChange
  <1>22. LSound(m, w)
    BY <1>21, LChanged
  <1> QED
    BY <1>6, <1>15, <1>22 DEF w

\* The walk goes on, the node it was at being on the list or not.
LEMMA LWalkGoesOn ==
  ASSUME NEW l, NEW c, NEW w, NEW a, NEW b, LWalkMid(l, c, w, a, b), NEW v, NEW p, NEW x,
         x = [w EXCEPT !.prev = p, !.pos = l.next[w.pos], !.seen = Append(@, w.pos)],
         \/ v[w.head] = a \o b /\ p = w.prev
         \/ v[w.head] = c[w.head] /\ p = w.pos
  PROVE  LWalking(v, x)
  <1>1. /\ LWShape(w) /\ w.pos \in ListNodes
        /\ a \in Seq(ListNodes) /\ b \in Seq(ListNodes)
        /\ c[w.head] = Inside(a, w.pos, b) /\ w.all = Append(w.seen, w.pos) \o b
        /\ w.prev = LastOf(a, w.head)
        /\ l.next[w.pos] = FirstOf(b, ListNull)
    BY DEF LWalkMid
  <1>2. /\ x.head = w.head /\ x.side = w.side /\ x.prev = p /\ x.all = w.all
        /\ x.pos = l.next[w.pos] /\ x.n = w.n /\ x.seen = Append(w.seen, w.pos)
        /\ x = [head |-> x.head, side |-> x.side, prev |-> x.prev, pos |-> x.pos, n |-> x.n, seen |-> x.seen, all |-> x.all]
    BY <1>1 DEF LWShape
  <1>3. LWShape(x)
    <2>1. w.head \in ListHeads /\ w.all \in Seq(ListNodes) /\ Append(w.seen, w.pos) \in Seq(ListNodes)
      BY <1>1 DEF LWShape
    <2> QED
      BY <1>2, <2>1 DEF LWShape
  <1>4. x.all = x.seen \o b /\ x.pos = FirstOf(b, ListNull)
    BY <1>1, <1>2
  <1>5. CASE v[w.head] = a \o b /\ p = w.prev
    <2>1. LWalkAt(v, x, a, b)
      BY <1>1, <1>2, <1>4, <1>5 DEF LWalkAt
    <2> QED
      BY <1>3, <2>1 DEF LWalking
  <1>6. CASE v[w.head] = c[w.head] /\ p = w.pos
    <2> DEFINE o == <<w.pos>>
               y == a \o o
    <2>1. v[x.head] = y \o b
      BY <1>1, <1>2, <1>6 DEF Inside
    <2>2. o \in Seq(ListNodes) /\ y \in Seq(ListNodes) /\ Len(o) = 1 /\ o[1] = p
      BY <1>1, <1>6
    <2> HIDE DEF o
    <2>3. LastOf(y, x.head) = p
      <3> DEFINE h == x.head
      <3>0. a \in Seq(ListNodes) /\ o \in Seq(ListNodes)
        BY <1>1, <2>2
      <3> HIDE DEF h, y
      <3>1. LastOf(a \o o, h) = IF Len(o) = 0 THEN LastOf(a, h) ELSE LastOf(o, h)
        BY <3>0, LastJoined
      <3>2. LastOf(o, h) = p /\ Len(o) # 0
        BY <2>2 DEF LastOf
      <3> QED
        BY <3>1, <3>2 DEF y, h
    <2> HIDE DEF y
    <2>4. LWalkAt(v, x, y, b)
      BY <1>1, <1>2, <1>4, <2>1, <2>2, <2>3 DEF LWalkAt
    <2> QED
      BY <1>3, <2>4 DEF LWalking
  <1> QED
    BY <1>5, <1>6

\* A walk as it begins.
LBegun(h, pos, all) == [NoWalk EXCEPT !.head = h, !.prev = h, !.pos = pos, !.all = all]

\* A walk as it begins.
LEMMA LWalkBegun ==
  ASSUME NEW h, NEW pos, NEW all, NEW w, w = LBegun(h, pos, all)
  PROVE  w = [head |-> h, side |-> "next", prev |-> h, pos |-> pos, n |-> ListNull, seen |-> << >>, all |-> all]
  BY DEF NoWalk, LBegun

\* It is kept by the beginning of a walk.
LEMMA LWalkStartKeeps ==
  ASSUME LListInv, NEW h \in ListHeads, LWalkStart(h)
  PROVE  LListInv'
  <1> DEFINE s == lContent[h]
             pos == llist.first[h]
             w == LBegun(h, pos, s)
             a == << >>
  <1>1. lWalk' = w /\ llist' = llist /\ lContent' = lContent
    BY DEF LWalkStart, LBegun
  <1>2. LSound(llist, lContent) /\ s \in Seq(ListNodes) /\ pos = FirstOf(s, ListNull)
    BY DEF LListInv, LSound, Tidy, LLinked, Chained
  <1>3. a \in Seq(ListNodes) /\ a \o s = s /\ LastOf(a, h) = h
    BY <1>2, NoneJoined DEF LastOf
  <1>4. /\ w.head = h /\ w.prev = h /\ w.pos = pos /\ w.all = s /\ w.seen = a
        /\ w = [head |-> w.head, side |-> w.side, prev |-> w.prev, pos |-> w.pos, n |-> w.n, seen |-> w.seen, all |-> w.all]
    <2> HIDE DEF s, pos
    <2>1. w = LBegun(h, pos, s)
      OBVIOUS
    <2> HIDE DEF w
    <2>2. w = [head |-> h, side |-> "next", prev |-> h, pos |-> pos, n |-> ListNull, seen |-> << >>, all |-> s]
      BY <2>1, LWalkBegun
    <2> QED
      BY <2>2
  <1> HIDE DEF w, a
  <1>5. LWalking(lContent, w)
    <2>1. LWShape(w)
      BY <1>2, <1>3, <1>4 DEF LWShape
    <2>2. LWalkAt(lContent, w, a, s)
      BY <1>2, <1>3, <1>4 DEF LWalkAt
    <2> QED
      BY <2>1, <2>2 DEF LWalking
  <1> QED
    BY <1>1, <1>2, <1>5 DEF LListInv

\* It is kept by the end of a walk.
LEMMA LWalkEndKeeps ==
  ASSUME LListInv, LWalkEnd
  PROVE  LListInv'
  BY DEF LListInv, LWalkEnd

\* It is kept by a step of a walk whose body leaves or deletes the node it is at.
LEMMA LWalkStepKeeps ==
  ASSUME LListInv, NEW delete \in BOOLEAN, LWalkStep(delete)
  PROVE  LListInv'
  <1> DEFINE h == lWalk.head
             n == lWalk.pos
             prev == lWalk.prev
             next == llist.next[n]
             m == LDeleted(llist, h, prev, next)
             p == IF LNext(llist', prev) = next THEN prev ELSE n
  <1>1. LSound(llist, lContent) /\ LWalking(lContent, lWalk) /\ n # ListNull
    BY DEF LListInv, LWalkStep, LIdle
  <1>2. /\ llist' = IF delete THEN m ELSE llist
        /\ lContent' = IF delete THEN Without(lContent, n) ELSE lContent
        /\ lWalk' = [lWalk EXCEPT !.prev = p, !.pos = llist.next[lWalk.pos], !.seen = Append(@, lWalk.pos)]
    BY DEF LWalkStep
  <1>3. PICK a, b : LWalkMid(llist, lContent, lWalk, a, b)
    BY <1>1, LWalkMiddle
  <1>4. /\ h \in ListHeads /\ n \in ListNodes /\ a \in Seq(ListNodes) /\ b \in Seq(ListNodes)
        /\ lContent[h] = Inside(a, n, b) /\ prev = LastOf(a, h)
        /\ next = FirstOf(b, ListNull) /\ LNext(llist, prev) = n
    BY <1>3 DEF LWalkMid, LWShape
  <1> DEFINE o == lWalk
  <1>5. CASE delete
    <2>1. llist' = m /\ lContent' = Without(lContent, n)
      BY <1>2, <1>5
    <2>2. m = LDeleted(llist, h, prev, next)
      OBVIOUS
    <2>3. LSound(m, Without(lContent, n)) /\ Without(lContent, n)[h] = a \o b /\ LNext(m, prev) = next
      <3> HIDE DEF m, h, n, prev, next
      <3> QED
        BY <1>1, <1>4, <2>2, LDeletedIs
    <2>4. p = lWalk.prev /\ lContent'[lWalk.head] = a \o b
      BY <2>1, <2>3
    <2>5. LSound(llist', lContent')
      BY <2>1, <2>3
    <2> HIDE DEF p
    <2>6. LWalking(lContent', lWalk')
      BY <1>2, <1>3, <2>4, LWalkGoesOn
    <2> QED
      BY <2>5, <2>6 DEF LListInv
  <1>6. CASE ~delete
    <2>1. llist' = llist /\ lContent' = lContent
      BY <1>2, <1>6
    <2>2. n # next
      <3>1. Once(lContent[h])
        BY <1>1, <1>4 DEF LSound, Tidy
      <3> HIDE DEF h, n, next
      <3>2. ~Among(n, b)
        BY <1>4, <3>1, BetweenIs
      <3>3. Len(b) # 0 => Among(next, b)
        BY <1>4 DEF FirstOf, Among
      <3>4. n # ListNull
        BY <1>4, ListAssumption
      <3> QED
        BY <1>4, <3>2, <3>3, <3>4 DEF FirstOf
    <2>3. p = lWalk.pos /\ lContent'[lWalk.head] = lContent[lWalk.head]
      BY <1>4, <2>1, <2>2
    <2> HIDE DEF p
    <2>4. LWalking(lContent', lWalk')
      BY <1>2, <1>3, <2>3, LWalkGoesOn
    <2> QED
      BY <1>1, <2>1, <2>4 DEF LListInv
  <1> QED
    BY <1>5, <1>6

-----------------------------------------------------------------------------

\* The inductive invariant.
ListInd == DListInv /\ LListInv

\* Every step of either kind of list keeps both invariants.
LEMMA NextKeepsLists ==
  ASSUME ListInd, [(DNextStep /\ UNCHANGED lVars) \/ (LNextStep /\ UNCHANGED dVars)]_listVars
  PROVE  ListInd'
  <1>1. DListInv /\ LListInv
    BY DEF ListInd
  <1>2. UNCHANGED lVars => LListInv'
    BY <1>1 DEF lVars, LListInv
  <1>3. UNCHANGED dVars => DListInv'
    BY <1>1 DEF dVars, DListInv
  <1>4. CASE DNextStep /\ UNCHANGED lVars
    <2> SUFFICES DListInv'
      BY <1>2, <1>4 DEF ListInd
    <2>1. CASE \E n \in ListNodes, h \in ListHeads, b \in BOOLEAN : DAdd(n, h, b)
      BY <1>1, <2>1, DAddKeeps
    <2>2. CASE \E n \in ListNodes, b \in BOOLEAN : DDel(n, b)
      BY <1>1, <2>2, DDelKeeps
    <2>3. CASE \E n \in ListNodes, h \in ListHeads, b \in BOOLEAN : DMove(n, h, b)
      BY <1>1, <2>3, DMoveKeeps
    <2>4. CASE \E g, h \in ListHeads, b \in BOOLEAN : DSplice(g, h, b)
      BY <1>1, <2>4, DSpliceKeeps
    <2>5. CASE \E h \in ListHeads : DHeadInit(h)
      BY <1>1, <2>5, DHeadInitKeeps
    <2>6. CASE \E h \in ListHeads, side \in {"next", "prev"}, from \in 0 .. Cardinality(ListNodes) : DWalkStart(h, side, from)
      BY <1>1, <2>6, DWalkStartKeeps
    <2>7. CASE \E body \in {"leave", "delete", "move"}, h \in ListHeads : DWalkStep(body, h)
      BY <1>1, <2>7, DWalkStepKeeps
    <2>8. CASE DWalkEnd
      BY <1>1, <2>8, DWalkEndKeeps
    <2> QED
      BY <1>4, <2>1, <2>2, <2>3, <2>4, <2>5, <2>6, <2>7, <2>8 DEF DNextStep
  <1>5. CASE LNextStep /\ UNCHANGED dVars
    <2> SUFFICES LListInv'
      BY <1>3, <1>5 DEF ListInd
    <2>1. CASE \E n \in ListNodes, h \in ListHeads, b \in BOOLEAN : LAdd(n, h, b)
      BY <1>1, <2>1, LAddKeeps
    <2>2. CASE \E g, h \in ListHeads, b \in BOOLEAN : LAddBatch(g, h, b)
      BY <1>1, <2>2, LAddBatchKeeps
    <2>3. CASE \E prev \in ListHeads \cup ListNodes, n \in ListNodes, h \in ListHeads : LInsert(prev, n, h)
      BY <1>1, <2>3, LInsertKeeps
    <2>4. CASE \E h \in ListHeads, b \in BOOLEAN : LPop(h, b)
      BY <1>1, <2>4, LPopKeeps
    <2>5. CASE \E h \in ListHeads : LWalkStart(h)
      BY <1>1, <2>5, LWalkStartKeeps
    <2>6. CASE \E b \in BOOLEAN : LWalkStep(b)
      BY <1>1, <2>6, LWalkStepKeeps
    <2>7. CASE LWalkEnd
      BY <1>1, <2>7, LWalkEndKeeps
    <2> QED
      BY <1>5, <2>1, <2>2, <2>3, <2>4, <2>5, <2>6, <2>7 DEF LNextStep
  <1>6. CASE UNCHANGED listVars
    BY <1>1, <1>2, <1>3, <1>6 DEF listVars, lVars, dVars, ListInd
  <1> QED
    BY <1>4, <1>5, <1>6

\* The last of the joined elements is appended.
LEMMA AppendLast ==
  ASSUME NEW S, NEW a \in Seq(S), NEW b \in Seq(S), NEW x
  PROVE  a \o Append(b, x) = Append(a \o b, x)
  <1> DEFINE P == S \cup {x}
             o == <<x>>
  <1>1. a \in Seq(P) /\ b \in Seq(P) /\ x \in P /\ o \in Seq(P)
    OBVIOUS
  <1> HIDE DEF P
  <1>2. a \o b \in Seq(P)
    BY <1>1
  <1>3. Append(b, x) = b \o o /\ Append(a \o b, x) = (a \o b) \o o
    BY <1>1, <1>2, AppendJoined
  <1> HIDE DEF o
  <1>4. a \o (b \o o) = (a \o b) \o o
    BY <1>1, ConcatAssociative
  <1> QED
    BY <1>3, <1>4

\* The invariant of the proof says what a loop over the pointers sees.
LEMMA ListIndSuffices ==
  ASSUME ListInd
  PROVE  ListInv
  <1>1. /\ DSound(dlist, dContent, {}) /\ Tidy(dContent) /\ DListInv
        /\ dContent \in [ListHeads -> Seq(ListNodes)]
    BY DEF ListInd, DListInv, DSound, Tidy
  <1>2. LSound(llist, lContent) /\ Tidy(lContent) /\ LListInv
    BY DEF ListInd, LListInv, LSound
  <1>3. ASSUME NEW h \in ListHeads, DUsable(h)
        PROVE  /\ Followed(dlist.next, dlist.next[h], h) = Append(dContent[h], h)
               /\ Followed(dlist.prev, dlist.prev[h], h) = Append(Reverse(dContent[h]), h)
    <2> DEFINE s == dContent[h]
               r == Reverse(s)
               f == dlist.next
               g == dlist.prev
               x == f[h]
               y == g[h]
    <2>1. DLinked(dlist, dContent, h)
      BY <1>1, <1>3, DUsableIs DEF DSound
    <2>2. Chained(x, f, h, s) /\ Chained(y, g, h, r)
      BY <2>1 DEF DLinked, Ring
    <2>3. s \in Seq(ListNodes) /\ Once(s)
      BY <1>1 DEF Tidy
    <2>4. r \in Seq(ListNodes) /\ Once(r) /\ h \notin ListNodes
      BY <2>3, BackIs, HeadsApart
    <2> HIDE DEF s, r, f, g, x, y
    <2>5. Followed(f, x, h) = Append(s, h) /\ Followed(g, y, h) = Append(r, h)
      BY <2>2, <2>3, <2>4, FollowedIs
    <2> QED
      BY <2>5 DEF s, r, f, g, x, y
  <1>4. ASSUME ~DIdle
        PROVE  dWalk.seen \o Followed(dlist[dWalk.side], dWalk.pos, dWalk.head) = Append(dWalk.all, dWalk.head)
    <2> DEFINE h == dWalk.head
               side == dWalk.side
               f == dlist[side]
               x == dWalk.pos
               seen == dWalk.seen
    <2>1. /\ DWalking(dlist, dContent, dWalk) /\ h \in ListHeads /\ side \in {"next", "prev"}
          /\ seen \in Seq(ListNodes) /\ DReady(dlist, dContent, h)
      BY <1>1, <1>4 DEF DListInv, DIdle, DWalking, WalkShape
    <2>2. PICK a, b \in Seq(ListNodes) : Directed(side, dContent[h]) = a \o b /\ dWalk.all = seen \o b /\ x = FirstOf(b, h)
      BY <2>1 DEF DWalking, WalkAt
    <2>3. Ring(f, h, a \o b)
      <3>1. DLinked(dlist, dContent, h)
        BY <1>1, <2>1 DEF DSound
      <3>2. Ring(f, h, Directed(side, dContent[h]))
        BY <2>1, <3>1, DirectedRing
      <3> QED
        BY <2>2, <3>2
    <2>4. Once(a \o b)
      <3>1. dContent[h] \in Seq(ListNodes) /\ Once(dContent[h])
        BY <1>1, <2>1 DEF Tidy
      <3>2. Once(Directed(side, dContent[h]))
        BY <2>1, <3>1, DirectedIs
      <3> QED
        BY <2>2, <3>2
    <2> HIDE DEF h, f, x, seen, side
    <2>5. Chained(x, f, h, b) /\ Once(b)
      BY <2>2, <2>3, <2>4, ChainJoined, OnceJoined DEF Ring
    <2>6. Followed(f, x, h) = Append(b, h)
      BY <2>1, <2>5, HeadsApart, FollowedIs
    <2>7. seen \o Append(b, h) = Append(seen \o b, h)
      BY <2>1, <2>2, AppendLast
    <2> QED
      BY <2>2, <2>6, <2>7 DEF h, f, x, seen, side
  <1>5. ASSUME NEW h \in ListHeads
        PROVE  /\ Followed(llist.next, llist.first[h], ListNull) = Append(lContent[h], ListNull)
               /\ lContent[h] # << >> => llist.last[h] = Last(lContent[h])
    <2> DEFINE s == lContent[h]
               f == llist.next
               x == llist.first[h]
    <2>1. /\ Chained(x, f, ListNull, s) /\ s \in Seq(ListNodes) /\ Once(s) /\ ListNull \notin ListNodes
          /\ Len(s) # 0 => llist.last[h] = LastOf(s, h)
      BY <1>2, ListAssumption DEF LSound, LLinked, Tidy
    <2>2. s # << >> => llist.last[h] = Last(s)
      BY <2>1 DEF Last, LastOf
    <2> HIDE DEF s, f, x
    <2>3. Followed(f, x, ListNull) = Append(s, ListNull)
      BY <2>1, FollowedIs
    <2> QED
      BY <2>2, <2>3 DEF s, f, x
  <1>6. ASSUME ~LIdle
        PROVE  lWalk.seen \o Followed(llist.next, lWalk.pos, ListNull) = Append(lWalk.all, ListNull)
    <2> DEFINE h == lWalk.head
               f == llist.next
               x == lWalk.pos
               seen == lWalk.seen
               z == llist.first[h]
    <2>1. LWalking(lContent, lWalk) /\ h \in ListHeads /\ seen \in Seq(ListNodes)
      BY <1>2, <1>6 DEF LListInv, LIdle, LWalking, LWShape
    <2>2. PICK a, b \in Seq(ListNodes) : lContent[h] = a \o b /\ lWalk.all = seen \o b /\ x = FirstOf(b, ListNull)
      BY <2>1 DEF LWalking, LWalkAt
    <2>3. Chained(z, f, ListNull, a \o b) /\ Once(a \o b) /\ ListNull \notin ListNodes
      BY <1>2, <2>1, <2>2, ListAssumption DEF LSound, LLinked, Tidy
    <2> HIDE DEF h, f, x, seen, z
    <2>4. Chained(x, f, ListNull, b) /\ Once(b)
      BY <2>2, <2>3, ChainJoined, OnceJoined
    <2>5. Followed(f, x, ListNull) = Append(b, ListNull)
      BY <2>3, <2>4, FollowedIs
    <2>6. seen \o Append(b, ListNull) = Append(seen \o b, ListNull)
      BY <2>1, <2>2, AppendLast
    <2> QED
      BY <2>2, <2>5, <2>6 DEF h, f, x, seen
  <1> QED
    BY <1>3, <1>4, <1>5, <1>6 DEF ListInv

\* Theorem: whatever the program does with its lists, a loop over the pointers of a list of eh_list.h
\* (forwards and backwards) or eh_llist.h sees the nodes that were put on it and not taken off, in the
\* order of their places, and ends; and eh_list_for_each_safe, eh_list_for_each_prev_safe and
\* eh_llist_for_each_safe meet each node they set out to meet once, whichever their body removes.
THEOREM ListsAreLists == ListSpec => []ListInv
  <1>1. ListStart => ListInd
    BY DListStart, LListStart DEF ListInd
  <1>2. ListInd /\ [(DNextStep /\ UNCHANGED lVars) \/ (LNextStep /\ UNCHANGED dVars)]_listVars => ListInd'
    BY NextKeepsLists
  <1>3. ListInd => ListInv
    BY ListIndSuffices
  <1> QED
    BY <1>1, <1>2, <1>3, PTL DEF ListSpec

-----------------------------------------------------------------------------
(* The lists of the buckets.                                               *)

\* A node taken out of a list it is on.
LEMMA OneLess ==
  ASSUME NEW S, NEW s \in Seq(S), Once(s), NEW n, Among(n, s)
  PROVE  /\ HashWithout(s, n) \in Seq(S) /\ Once(HashWithout(s, n))
         /\ \A m : Among(m, HashWithout(s, n)) <=> Among(m, s) /\ m # n
  <1> DEFINE k == CHOOSE i \in DOMAIN s : s[i] = n
  <1>1. k \in 1 .. Len(s) /\ s[k] = n
    <2>1. \E i \in DOMAIN s : s[i] = n
      BY DEF Among
    <2> QED
      BY <2>1
  <1>2. HashWithout(s, n) = RemoveAt(s, k)
    BY DEF HashWithout
  <1> HIDE DEF k
  <1>3. n \in S
    BY <1>1
  <1>4. PICK a, b \in Seq(S) : s = Inside(a, n, b) /\ RemoveAt(s, k) = a \o b
    <2>1. Surrounded(S, s, k)
      BY <1>1, Around
    <2> QED
      BY <1>1, <2>1 DEF Surrounded, Inside
  <1>5. /\ \A m : Among(m, s) <=> Among(m, a) \/ m = n \/ Among(m, b)
        /\ Once(a) /\ Once(b) /\ Apart(a, b) /\ ~Among(n, a) /\ ~Among(n, b)
    <2>1. \A m : Among(m, Inside(a, n, b)) <=> Among(m, a) \/ m = n \/ Among(m, b)
      BY <1>3, <1>4, BetweenIs
    <2>2. Once(Inside(a, n, b)) <=> Once(a) /\ Once(b) /\ Apart(a, b) /\ ~Among(n, a) /\ ~Among(n, b)
      BY <1>3, <1>4, BetweenIs
    <2> QED
      BY <1>4, <2>1, <2>2
  <1>6. a \o b \in Seq(S) /\ Once(a \o b) /\ \A m : Among(m, a \o b) <=> Among(m, a) \/ Among(m, b)
    BY <1>5, OnceJoined, AmongJoined
  <1> QED
    BY <1>2, <1>4, <1>5, <1>6

\* A node put in front of a list it is not on.
LEMMA OneMore ==
  ASSUME NEW S, NEW s \in Seq(S), Once(s), NEW n \in S, ~Among(n, s)
  PROVE  /\ <<n>> \o s \in Seq(S) /\ Once(<<n>> \o s)
         /\ \A m : Among(m, <<n>> \o s) <=> m = n \/ Among(m, s)
  <1> DEFINE o == <<n>>
  <1>1. o \in Seq(S) /\ Once(o) /\ \A m : Among(m, o) <=> m = n
    BY DEF Once, Among
  <1>2. Apart(o, s)
    BY DEF Apart, Among
  <1> HIDE DEF o
  <1>3. o \o s \in Seq(S) /\ Once(o \o s) /\ \A m : Among(m, o \o s) <=> Among(m, o) \/ Among(m, s)
    BY <1>1, <1>2, OnceJoined, AmongJoined
  <1> QED
    BY <1>1, <1>3 DEF o

\* A node that takes the place of another one.
LEMMA OneOther ==
  ASSUME NEW S, NEW s \in Seq(S), Once(s), NEW n, NEW p \in S, ~Among(p, s), Among(n, s)
  PROVE  /\ ReplaceAll(s, n, p) \in Seq(S) /\ Once(ReplaceAll(s, n, p))
         /\ \A m : Among(m, ReplaceAll(s, n, p)) <=> m = p \/ (Among(m, s) /\ m # n)
  <1> DEFINE r == ReplaceAll(s, n, p)
             l == Len(s)
  <1>1. l \in Nat /\ \A i \in 1 .. l : s[i] \in S
    OBVIOUS
  <1>2. r = [i \in 1 .. l |-> IF s[i] = n THEN p ELSE s[i]]
    BY DEF ReplaceAll
  <1>3. r \in Seq(S) /\ Len(r) = l /\ \A i \in 1 .. l : r[i] = IF s[i] = n THEN p ELSE s[i]
    BY <1>1, <1>2
  <1>4. \A i \in 1 .. l : s[i] # p
    BY DEF Among
  <1>5. PICK k \in 1 .. l : s[k] = n
    BY DEF Among
  <1> HIDE DEF r, l
  <1>6. Once(r)
    BY <1>3, <1>4 DEF Once, l
  <1>7. \A m : Among(m, r) <=> m = p \/ (Among(m, s) /\ m # n)
    BY <1>3, <1>4, <1>5 DEF Among, l
  <1> QED
    BY <1>3, <1>6, <1>7 DEF r

-----------------------------------------------------------------------------
(* The hash table: its buckets.                                            *)

\* The node is in the bucket.
InBucket(t, n, i) == t[i] # HashUnmade /\ Among(n, t[i])
\* The list of a bucket: none where it is unmade.
Listed(v) == IF v = HashUnmade THEN << >> ELSE v
\* The table is sound: no node is in two buckets or twice in one.
TableIs(t, C) ==
  /\ C \in Nat \ {0} /\ t \in [0 .. C - 1 -> Seq(HashNodes) \cup {HashUnmade}]
  /\ \A i \in 0 .. C - 1 : t[i] # HashUnmade => Once(t[i])
  /\ \A n, i, j : i \in 0 .. C - 1 /\ j \in 0 .. C - 1 /\ InBucket(t, n, i) /\ InBucket(t, n, j) => i = j

\* The size of a table, and the bucket of a hash value in it.
LEMMA TableSize ==
  ASSUME NEW t, NEW C, TableIs(t, C)
  PROVE  /\ DOMAIN t = 0 .. C - 1 /\ Cardinality(DOMAIN t) = C
         /\ \A h : HashIndex(t, h) = h % C
  <1>1. C \in Nat \ {0} /\ DOMAIN t = 0 .. C - 1
    BY DEF TableIs
  <1>2. Cardinality(0 .. C - 1) = C
    <2>1. Cardinality(0 .. C - 1) = IF 0 > C - 1 THEN 0 ELSE (C - 1) - 0 + 1
      BY <1>1, FS_Interval
    <2> QED
      BY <1>1, <2>1
  <1>3. Cardinality(DOMAIN t) = C
    BY <1>1, <1>2
  <1>4. \A h : HashIndex(t, h) = h % C
    BY <1>3 DEF HashIndex
  <1> QED
    BY <1>1, <1>3, <1>4

\* The list of a bucket has its nodes, each once.
LEMMA BucketIs ==
  ASSUME NEW t, NEW C, TableIs(t, C), NEW i \in 0 .. C - 1
  PROVE  /\ Listed(t[i]) \in Seq(HashNodes) /\ Once(Listed(t[i]))
         /\ \A n : Among(n, Listed(t[i])) <=> InBucket(t, n, i)
         /\ \A n : InBucket(t, n, i) => n \in HashNodes
  <1>1. t[i] \in Seq(HashNodes) \cup {HashUnmade} /\ (t[i] # HashUnmade => Once(t[i]))
    BY DEF TableIs
  <1>2. << >> \in Seq(HashNodes) /\ Once(<< >>) /\ \A n : ~Among(n, << >>)
    BY DEF Once, Among
  <1>3. CASE t[i] = HashUnmade
    BY <1>2, <1>3 DEF Listed, InBucket
  <1>4. CASE t[i] # HashUnmade
    <2>1. t[i] \in Seq(HashNodes) /\ Once(t[i]) /\ Listed(t[i]) = t[i]
      BY <1>1, <1>4 DEF Listed
    <2>2. \A n : Among(n, t[i]) => n \in HashNodes
      BY <2>1 DEF Among
    <2> QED
      BY <1>4, <2>1, <2>2 DEF InBucket
  <1> QED
    BY <1>3, <1>4

\* One bucket is given another list.
BucketChange(t, u, C, i, s) ==
  /\ u \in [0 .. C - 1 -> Seq(HashNodes) \cup {HashUnmade}]
  /\ s \in Seq(HashNodes) /\ Once(s)
  /\ u[i] = s /\ \A j \in 0 .. C - 1 : j # i => u[j] = t[j]

\* The table that comes of it, by what is in its buckets.
BucketGiven(t, u, C, i, s) ==
  /\ TableIs(u, C)
  /\ \A j \in 0 .. C - 1 : u[j] # HashUnmade <=> j = i \/ t[j] # HashUnmade
  /\ \A n, j : j \in 0 .. C - 1 => (InBucket(u, n, j) <=> IF j = i THEN Among(n, s) ELSE InBucket(t, n, j))

\* A bucket may be given a list whose nodes are in no other bucket.
LEMMA BucketChanged ==
  ASSUME NEW t, NEW C, TableIs(t, C), NEW i \in 0 .. C - 1, NEW u, NEW s, BucketChange(t, u, C, i, s),
         \A n, j : j \in 0 .. C - 1 /\ j # i /\ Among(n, s) => ~InBucket(t, n, j)
  PROVE  BucketGiven(t, u, C, i, s)
  <1>1. s # HashUnmade
    BY HashAssumption DEF BucketChange
  <1>2. \A n, j : j \in 0 .. C - 1 => (InBucket(u, n, j) <=> IF j = i THEN Among(n, s) ELSE InBucket(t, n, j))
    BY <1>1 DEF BucketChange, InBucket
  <1>3. \A j \in 0 .. C - 1 : u[j] # HashUnmade <=> j = i \/ t[j] # HashUnmade
    BY <1>1 DEF BucketChange
  <1>4. \A j \in 0 .. C - 1 : u[j] # HashUnmade => Once(u[j])
    BY DEF BucketChange, TableIs
  <1>5. ASSUME NEW n, NEW j \in 0 .. C - 1, NEW k \in 0 .. C - 1, InBucket(u, n, j), InBucket(u, n, k)
        PROVE  j = k
    <2>1. j # i /\ k # i => j = k
      BY <1>2, <1>5 DEF TableIs
    <2> QED
      BY <1>2, <1>5, <2>1
  <1> QED
    BY <1>2, <1>3, <1>4, <1>5 DEF BucketChange, BucketGiven, TableIs

\* A node is put in front of a bucket.
PutInBucket(t, u, C, n, i) ==
  /\ TableIs(u, C)
  /\ \A j \in 0 .. C - 1 : u[j] # HashUnmade <=> j = i \/ t[j] # HashUnmade
  /\ \A m, j : j \in 0 .. C - 1 => (InBucket(u, m, j) <=> (m = n /\ j = i) \/ InBucket(t, m, j))
\* A node is taken out of its bucket.
TakenFromBucket(t, u, C, n) ==
  /\ TableIs(u, C)
  /\ \A j \in 0 .. C - 1 : u[j] # HashUnmade <=> t[j] # HashUnmade
  /\ \A m, j : j \in 0 .. C - 1 => (InBucket(u, m, j) <=> m # n /\ InBucket(t, m, j))
\* A bucket is made.
MadeBucket(t, u, C, i) ==
  /\ TableIs(u, C)
  /\ \A j \in 0 .. C - 1 : u[j] # HashUnmade <=> j = i \/ t[j] # HashUnmade
  /\ \A m, j : j \in 0 .. C - 1 => (InBucket(u, m, j) <=> InBucket(t, m, j))
\* A node takes the place of another one.
SwappedInBucket(t, u, C, n, p, i) ==
  /\ TableIs(u, C)
  /\ \A j \in 0 .. C - 1 : u[j] # HashUnmade <=> t[j] # HashUnmade
  /\ \A m, j : j \in 0 .. C - 1 => (InBucket(u, m, j) <=> (m = p /\ j = i) \/ (m # n /\ InBucket(t, m, j)))

\* eh_list_add at the head of a bucket, made by it or before.
LEMMA BucketPut ==
  ASSUME NEW t, NEW C, TableIs(t, C), NEW i \in 0 .. C - 1, NEW n \in HashNodes,
         \A j \in 0 .. C - 1 : ~InBucket(t, n, j),
         NEW u, u = [t EXCEPT ![i] = <<n>> \o Listed(@)]
  PROVE  PutInBucket(t, u, C, n, i)
  <1> DEFINE s == Listed(t[i])
             p == <<n>> \o s
  <1>1. s \in Seq(HashNodes) /\ Once(s) /\ \A m : Among(m, s) <=> InBucket(t, m, i)
    BY BucketIs
  <1>2. u = [t EXCEPT ![i] = p]
    OBVIOUS
  <1> HIDE DEF s
  <1>3. p \in Seq(HashNodes) /\ Once(p) /\ \A m : Among(m, p) <=> m = n \/ Among(m, s)
    BY <1>1, OneMore
  <1> HIDE DEF p
  <1>4. BucketChange(t, u, C, i, p)
    BY <1>2, <1>3 DEF TableIs, BucketChange
  <1>5. \A m, j : j \in 0 .. C - 1 /\ j # i /\ Among(m, p) => ~InBucket(t, m, j)
    BY <1>1, <1>3 DEF TableIs
  <1>6. BucketGiven(t, u, C, i, p)
    BY <1>4, <1>5, BucketChanged
  <1> QED
    BY <1>1, <1>3, <1>6 DEF BucketGiven, PutInBucket

\* eh_list_del
LEMMA BucketTake ==
  ASSUME NEW t, NEW C, TableIs(t, C), NEW i \in 0 .. C - 1, NEW n, InBucket(t, n, i),
         NEW u, u = [t EXCEPT ![i] = HashWithout(@, n)]
  PROVE  TakenFromBucket(t, u, C, n)
  <1> DEFINE s == t[i]
             p == HashWithout(s, n)
  <1>1. s # HashUnmade /\ Among(n, s) /\ s \in Seq(HashNodes) /\ Once(s) /\ \A m : Among(m, s) <=> InBucket(t, m, i)
    BY DEF InBucket, TableIs
  <1>2. u = [t EXCEPT ![i] = p]
    OBVIOUS
  <1> HIDE DEF s
  <1>3. p \in Seq(HashNodes) /\ Once(p) /\ \A m : Among(m, p) <=> Among(m, s) /\ m # n
    BY <1>1, OneLess
  <1> HIDE DEF p
  <1>4. BucketChange(t, u, C, i, p)
    BY <1>2, <1>3 DEF TableIs, BucketChange
  <1>5. \A m, j : j \in 0 .. C - 1 /\ j # i /\ Among(m, p) => ~InBucket(t, m, j)
    BY <1>1, <1>3 DEF TableIs
  <1>6. BucketGiven(t, u, C, i, p)
    BY <1>4, <1>5, BucketChanged
  <1>7. t[i] # HashUnmade
    BY DEF InBucket
  <1>8. \A j \in 0 .. C - 1 : InBucket(t, n, j) => j = i
    BY DEF TableIs
  <1> QED
    BY <1>1, <1>3, <1>6, <1>7, <1>8 DEF BucketGiven, TakenFromBucket

\* eh_list_head_init
LEMMA BucketMake ==
  ASSUME NEW t, NEW C, TableIs(t, C), NEW i \in 0 .. C - 1, t[i] = HashUnmade,
         NEW u, u = [t EXCEPT ![i] = << >>]
  PROVE  MadeBucket(t, u, C, i)
  <1> DEFINE p == << >>
  <1>1. p \in Seq(HashNodes) /\ Once(p) /\ \A m : ~Among(m, p)
    BY DEF Once, Among
  <1>2. u = [t EXCEPT ![i] = p]
    OBVIOUS
  <1> HIDE DEF p
  <1>4. BucketChange(t, u, C, i, p)
    BY <1>1, <1>2 DEF TableIs, BucketChange
  <1>6. BucketGiven(t, u, C, i, p)
    BY <1>1, <1>4, BucketChanged
  <1> QED
    BY <1>1, <1>6 DEF InBucket, BucketGiven, MadeBucket

\* eh_list_replace
LEMMA BucketSwap ==
  ASSUME NEW t, NEW C, TableIs(t, C), NEW i \in 0 .. C - 1, NEW n, InBucket(t, n, i), NEW p \in HashNodes,
         \A j \in 0 .. C - 1 : ~InBucket(t, p, j),
         NEW u, u = [t EXCEPT ![i] = ReplaceAll(@, n, p)]
  PROVE  SwappedInBucket(t, u, C, n, p, i)
  <1> DEFINE s == t[i]
             r == ReplaceAll(s, n, p)
  <1>1. s # HashUnmade /\ Among(n, s) /\ s \in Seq(HashNodes) /\ Once(s) /\ \A m : Among(m, s) <=> InBucket(t, m, i)
    BY DEF InBucket, TableIs
  <1>2. u = [t EXCEPT ![i] = r]
    OBVIOUS
  <1> HIDE DEF s
  <1>3. r \in Seq(HashNodes) /\ Once(r) /\ \A m : Among(m, r) <=> m = p \/ (Among(m, s) /\ m # n)
    BY <1>1, OneOther
  <1> HIDE DEF r
  <1>4. BucketChange(t, u, C, i, r)
    BY <1>2, <1>3 DEF TableIs, BucketChange
  <1>5. \A m, j : j \in 0 .. C - 1 /\ j # i /\ Among(m, r) => ~InBucket(t, m, j)
    BY <1>1, <1>3 DEF TableIs
  <1>6. BucketGiven(t, u, C, i, r)
    BY <1>4, <1>5, BucketChanged
  <1>7. t[i] # HashUnmade
    BY DEF InBucket
  <1>8. \A j \in 0 .. C - 1 : InBucket(t, n, j) => j = i
    BY DEF TableIs
  <1> QED
    BY <1>1, <1>3, <1>6, <1>7, <1>8 DEF BucketGiven, SwappedInBucket

-----------------------------------------------------------------------------
(* The sizes a table has had, and the home of a hash value.                *)

\* The sizes a table has had: each divides the larger ones, and a half is the next smaller one.
TowerOf(Z, C) ==
  /\ HashMin \in Z /\ C \in Z /\ Z \subseteq HashMin .. C
  /\ \A s \in Z : s = HashMin \/ (s \div 2 \in Z)
  /\ \A r, s \in Z : r < s => 2 * r <= s
  /\ \A h \in Nat : \A r, s \in Z : r <= s => (h % s) % r = h % r

\* The bucket where the nodes of a hash value are: the made one of the largest size.
Home(t, Z, h, i) ==
  \E s \in Z : /\ i = h % s /\ t[i] # HashUnmade
               /\ \A r \in Z : r > s => t[h % r] = HashUnmade

\* The remainder of a remainder.
LEMMA ModulusTwice ==
  ASSUME NEW m \in Nat \ {0}, NEW h \in Int
  PROVE  (h % m) % m = h % m
  <1>1. h % m \in 0 .. m - 1 /\ h % m \in Int
    BY Modulus
  <1> DEFINE r == h % m
  <1>2. r \in 0 .. m - 1 /\ r \in Int
    BY <1>1
  <1> HIDE DEF r
  <1>3. 0 \in Int /\ r = r + 0 * m
    BY <1>2
  <1>4. r % m = r
    BY <1>2, <1>3, ModulusIs
  <1> QED
    BY <1>4 DEF r

\* A hash value in a table of the double size.
LEMMA ModulusHalf ==
  ASSUME NEW m \in Nat \ {0}, NEW h \in Nat
  PROVE  /\ (h % (2 * m)) % m = h % m
         /\ h % (2 * m) < m => h % (2 * m) = h % m
  <1> DEFINE d == 2 * m
  <1>1. d \in Nat \ {0} /\ h \in Int
    OBVIOUS
  <1> HIDE DEF d
  <1>2. PICK k \in Int : h = (h % d) + k * d
    BY <1>1, Modulus
  <1>3. h % d \in 0 .. d - 1
    BY <1>1, Modulus
  <1> DEFINE r == h % d
             a == k * d
             b == (2 * k) * m
  <1>4. a = b /\ a \in Int
    BY DEF d
  <1>5. r \in Int /\ h = r + a
    BY <1>2, <1>3
  <1>6. 2 * k \in Int
    OBVIOUS
  <1> HIDE DEF r, a
  <1>7. h = r + b
    BY <1>4, <1>5
  <1>8. (r + (2 * k) * m) % m = r % m
    BY <1>5, <1>6, ModulusShift
  <1>9. h % m = r % m
    BY <1>7, <1>8
  <1>10. r < m => r % m = r
    <2> SUFFICES ASSUME r < m PROVE r % m = r
      OBVIOUS
    <2>1. r \in 0 .. m - 1
      BY <1>3 DEF r
    <2>2. 0 \in Int /\ r = r + 0 * m
      BY <1>5
    <2> QED
      BY <1>5, <2>1, <2>2, ModulusIs
  <1> QED
    BY <1>9, <1>10 DEF r, d

\* The double of the largest size may be added to the sizes.
LEMMA TowerGrows ==
  ASSUME NEW Z, NEW C, HashMin \in Nat \ {0}, TowerOf(Z, C)
  PROVE  TowerOf(Z \cup {2 * C}, 2 * C)
  <1> DEFINE D == 2 * C
             Y == Z \cup {D}
  <1>1. C \in Nat \ {0} /\ Z \subseteq Nat \ {0} /\ \A s \in Z : s <= C
    BY DEF TowerOf
  <1>2. D \in Nat \ {0} /\ D > C /\ D \div 2 = C /\ D \notin Z
    BY <1>1
  <1>3. HashMin \in Y /\ D \in Y /\ Y \subseteq HashMin .. D
    BY <1>1 DEF TowerOf
  <1>4. \A s \in Y : s = HashMin \/ s \div 2 \in Y
    <2>1. C \in Y /\ \A s \in Z : s = HashMin \/ s \div 2 \in Y
      BY DEF TowerOf
    <2> HIDE DEF D
    <2> QED
      BY <1>2, <2>1
  <1>5. \A r, s \in Y : r < s => 2 * r <= s
    <2>1. \A r, s \in Z : r < s => 2 * r <= s
      BY DEF TowerOf
    <2>2. \A r \in Z : 2 * r <= D /\ ~(D < r)
      BY <1>1
    <2> HIDE DEF D
    <2> QED
      BY <1>2, <2>1, <2>2
  <1>6. ASSUME NEW h \in Nat, NEW r \in Y, NEW s \in Y, r <= s
        PROVE  (h % s) % r = h % r
    <2>1. CASE s \in Z
      <3>1. r \in Z
        BY <1>1, <1>2, <1>6, <2>1
      <3> QED
        BY <1>6, <2>1, <3>1 DEF TowerOf
    <2>2. CASE s = D /\ r = D
      <3>1. (h % D) % D = h % D
        BY <1>2, ModulusTwice
      <3> QED
        BY <2>2, <3>1
    <2>3. CASE s = D /\ r \in Z
      <3> DEFINE x == h % D
      <3>1. x \in Nat
        <4>1. D \in Nat \ {0} /\ h \in Int
          BY <1>2
        <4> HIDE DEF D
        <4>2. h % D \in 0 .. D - 1
          BY <4>1, Modulus
        <4> QED
          BY <4>1, <4>2
      <3>2. x % C = h % C
        BY <1>1, ModulusHalf
      <3>3. C \in Z /\ r <= C
        BY <1>1, <2>3 DEF TowerOf
      <3> HIDE DEF x
      <3>4. (x % C) % r = x % r /\ (h % C) % r = h % r
        BY <2>3, <3>1, <3>3 DEF TowerOf
      <3>5. x % r = h % r
        BY <3>2, <3>4
      <3> QED
        BY <2>3, <3>5 DEF x
    <2> QED
      BY <2>1, <2>2, <2>3
  <1> HIDE DEF D
  <1> QED
    BY <1>3, <1>4, <1>5, <1>6 DEF TowerOf, D

\* A hash value in a size.
LEMMA TowerFacts ==
  ASSUME NEW Z, NEW C, HashMin \in Nat \ {0}, TowerOf(Z, C), NEW h \in Nat
  PROVE  /\ C \in Nat \ {0} /\ C \in Z
         /\ \A s \in Z : s \in Nat \ {0} /\ s <= C /\ h % s \in 0 .. C - 1 /\ h % s \in 0 .. s - 1 /\ h % s \in Nat
         /\ \A r, s \in Z : r <= s => (h % s) % r = h % r
  <1>1. C \in Nat \ {0} /\ C \in Z /\ \A s \in Z : s \in Nat \ {0} /\ s <= C
    BY DEF TowerOf
  <1>2. ASSUME NEW s \in Z PROVE h % s \in 0 .. C - 1 /\ h % s \in 0 .. s - 1 /\ h % s \in Nat
    <2>1. h % s \in 0 .. s - 1
      <3>1. s \in Nat \ {0} /\ h \in Int
        BY <1>1
      <3> QED
        BY <3>1, Modulus
    <2> DEFINE x == h % s
    <2> HIDE DEF x
    <2>2. x \in 0 .. s - 1
      BY <2>1 DEF x
    <2>3. x \in 0 .. C - 1 /\ x \in 0 .. s - 1 /\ x \in Nat
      BY <1>1, <2>2
    <2> QED
      BY <2>3 DEF x
  <1> QED
    BY <1>1, <1>2 DEF TowerOf

\* A hash value has one home.
LEMMA HomeOnce ==
  ASSUME NEW Z, NEW C, HashMin \in Nat \ {0}, TowerOf(Z, C), NEW h \in Nat, NEW t, NEW i, NEW j,
         Home(t, Z, h, i), Home(t, Z, h, j)
  PROVE  i = j
  <1>1. \A s \in Z : s \in Nat
    BY DEF TowerOf
  <1>2. PICK s \in Z : i = h % s /\ t[i] # HashUnmade /\ \A r \in Z : r > s => t[h % r] = HashUnmade
    BY DEF Home
  <1>3. PICK r \in Z : j = h % r /\ t[j] # HashUnmade /\ \A q \in Z : q > r => t[h % q] = HashUnmade
    BY DEF Home
  <1>4. ~(r > s) /\ ~(s > r)
    BY <1>2, <1>3
  <1>5. r = s
    BY <1>1, <1>4
  <1> QED
    BY <1>2, <1>3, <1>5

\* A bucket that is made is the home of all values that belong there.
LEMMA HomeAtTop ==
  ASSUME NEW Z, NEW C, HashMin \in Nat \ {0}, TowerOf(Z, C), NEW h \in Nat, NEW t, t[h % C] # HashUnmade
  PROVE  Home(t, Z, h, h % C)
  <1>1. C \in Z /\ \A r \in Z : ~(r > C)
    BY DEF TowerOf
  <1> QED
    BY <1>1 DEF Home

-----------------------------------------------------------------------------
(* The search for the bucket that holds the nodes.                         *)

\* The loop that looks for the bucket that holds the nodes of an unmade one, by its recursion.
HolderStep(t, i, n, f) ==
  [size \in 1 .. n |-> IF size = 1 \/ t[i % size] # HashUnmade THEN i % size ELSE f[size \div 2]]

\* The recursive function of the loop exists.
LEMMA HolderExists ==
  ASSUME NEW t, NEW i, NEW n \in Nat
  PROVE  \E f : f = HolderStep(t, i, n, f)
  <1> DEFINE S == {m \in Nat : \E f : f = HolderStep(t, i, m, f)}
  <1>1. 0 \in S
    <2> DEFINE f == [size \in 1 .. 0 |-> 0]
    <2>1. f = HolderStep(t, i, 0, f)
      BY DEF HolderStep
    <2> QED
      BY <2>1
  <1>2. ASSUME NEW m \in Nat, m \in S
        PROVE  m + 1 \in S
    <2>1. PICK f : f = HolderStep(t, i, m, f)
      BY <1>2
    <2> DEFINE l == m + 1
               g == [size \in 1 .. l |-> IF size <= m THEN f[size] ELSE HolderStep(t, i, l, f)[size]]
    <2>2. l \in Nat
      OBVIOUS
    <2>3. \A size \in 1 .. m : g[size] = f[size]
      OBVIOUS
    <2>4. ASSUME NEW size \in 1 .. l
          PROVE  g[size] = HolderStep(t, i, l, g)[size]
      <3> DEFINE made == size = 1 \/ t[i % size] # HashUnmade
                 half == size \div 2
      <3>1. /\ HolderStep(t, i, l, g)[size] = IF made THEN i % size ELSE g[half]
            /\ HolderStep(t, i, l, f)[size] = IF made THEN i % size ELSE f[half]
        BY Zenon DEF HolderStep
      <3>2. size <= m => HolderStep(t, i, m, f)[size] = IF made THEN i % size ELSE f[half]
        <4> SUFFICES ASSUME size <= m PROVE HolderStep(t, i, m, f)[size] = IF made THEN i % size ELSE f[half]
          OBVIOUS
        <4>1. size \in 1 .. m
          OBVIOUS
        <4> QED
          BY <4>1, Zenon DEF HolderStep
      <3>3. g[size] = IF made THEN i % size ELSE f[half]
        <4>1. CASE size <= m
          <5>1. size \in 1 .. m
            BY <4>1
          <5>2. g[size] = f[size]
            BY <2>3, <5>1
          <5>3. f[size] = HolderStep(t, i, m, f)[size]
            BY <2>1
          <5> HIDE DEF g, half, made
          <5> QED
            BY <3>2, <4>1, <5>2, <5>3
        <4>2. CASE ~(size <= m)
          <5>1. g[size] = HolderStep(t, i, l, f)[size]
            BY <4>2
          <5> HIDE DEF g, half, made
          <5> QED
            BY <3>1, <5>1
        <4> QED
          BY <4>1, <4>2
      <3>4. ~made => half \in 1 .. m
        BY <2>2
      <3>5. ~made => g[half] = f[half]
        <4> HIDE DEF g, half, made
        <4> QED
          BY <2>3, <3>4
      <3> HIDE DEF g, half, made
      <3> QED
        BY <3>1, <3>3, <3>5
    <2>5. g = HolderStep(t, i, l, g)
      <3>1. HolderStep(t, i, l, g) = [size \in 1 .. l |-> HolderStep(t, i, l, g)[size]]
        BY DEF HolderStep
      <3>2. g = [size \in 1 .. l |-> g[size]]
        OBVIOUS
      <3> HIDE DEF g
      <3> QED
        BY <2>4, <3>1, <3>2
    <2> HIDE DEF g
    <2> QED
      BY <2>2, <2>5
  <1>3. Nat \subseteq S
    <2> HIDE DEF S
    <2> QED
      BY <1>1, <1>2, SetInduction
  <1> QED
    BY <1>3

\* The table, the sizes it has had, and that the buckets of the first size are made.
Tabled(t, Z, C) ==
  /\ TableIs(t, C) /\ TowerOf(Z, C)
  /\ \A i \in 0 .. HashMin - 1 : t[i] # HashUnmade

\* The loop ends at the home of the bucket's own number.
LEMMA HolderIs ==
  ASSUME NEW t, NEW Z, NEW C, Tabled(t, Z, C), NEW i \in 0 .. C - 1, t[i] = HashUnmade
  PROVE  Home(t, Z, i, HashHolder(t, i)) /\ HashHolder(t, i) \in 0 .. C - 1
  <1>1. HashMin \in Nat \ {0} /\ C \in Nat \ {0} /\ i \in Nat /\ TowerOf(Z, C) /\ TableIs(t, C)
    BY HashAssumption DEF Tabled, TableIs
  <1> DEFINE at == CHOOSE f : f = HolderStep(t, i, C, f)
  <1>2. HashHolder(t, i) = at[C \div 2]
    <2>1. Cardinality(DOMAIN t) = C
      BY <1>1, TableSize
    <2> QED
      BY <2>1, Zenon DEF HashHolder, HolderStep
  <1>3. at = HolderStep(t, i, C, at)
    <2>1. \E f : f = HolderStep(t, i, C, f)
      BY <1>1, HolderExists
    <2> QED
      BY <2>1, Zenon
  <1> HIDE DEF at
  <1>4. \A z \in 1 .. C : at[z] = IF z = 1 \/ t[i % z] # HashUnmade THEN i % z ELSE at[z \div 2]
    <2> TAKE z \in 1 .. C
    <2>1. HolderStep(t, i, C, at)[z] = IF z = 1 \/ t[i % z] # HashUnmade THEN i % z ELSE at[z \div 2]
      BY Zenon DEF HolderStep
    <2> QED
      BY <1>3, <2>1
  <1>5. \A s \in Z : s \in Nat \ {0} /\ s <= C /\ s \in 1 .. C /\ i % s \in 0 .. C - 1
    BY <1>1, TowerFacts
  <1>6. t[i % HashMin] # HashUnmade
    <2>1. i % HashMin \in 0 .. HashMin - 1
      <3>1. HashMin \in Nat \ {0} /\ i \in Int
        BY <1>1
      <3> QED
        BY <3>1, Modulus
    <2> QED
      BY <2>1 DEF Tabled
  <1> DEFINE Above(z) == \A r \in Z : r > z => t[i % r] = HashUnmade
             Ends(x) == \E s \in Z : x = i % s /\ t[x] # HashUnmade /\ Above(s)
             S == {n \in Nat : \A z \in Z : z <= n /\ Above(z) => Ends(at[z])}
  <1>7. 0 \in S
    BY <1>5
  <1>8. ASSUME NEW n \in Nat, n \in S
        PROVE  n + 1 \in S
    <2> SUFFICES ASSUME NEW z \in Z, z <= n + 1, Above(z) PROVE Ends(at[z])
      OBVIOUS
    <2>1. CASE t[i % z] # HashUnmade
      <3>1. at[z] = i % z
        BY <1>4, <1>5, <2>1
      <3> QED
        BY <2>1, <3>1
    <2>2. CASE t[i % z] = HashUnmade
      <3>1. z # HashMin /\ z \div 2 \in Z
        BY <1>1, <1>6, <2>2 DEF TowerOf
      <3> DEFINE y == z \div 2
      <3>2. y < z /\ y <= n /\ y \in Z /\ z # 1 /\ 2 * y <= z /\ z <= 2 * y + 1
        BY <1>5, <3>1
      <3>3. at[z] = at[y]
        BY <1>4, <1>5, <2>2, <3>2
      <3> HIDE DEF y
      <3>4. \A r \in Z : r > y => r >= z
        <4> SUFFICES ASSUME NEW r \in Z, r > y, ~(r >= z) PROVE FALSE
          OBVIOUS
        <4>1. 2 * r <= z
          BY <1>1, <1>5 DEF TowerOf
        <4> QED
          BY <1>5, <3>2, <4>1
      <3>5. Above(y)
        BY <1>5, <2>2, <3>4
      <3>6. Ends(at[y])
        BY <1>8, <3>2, <3>5
      <3> QED
        BY <3>3, <3>6
    <2> QED
      BY <2>1, <2>2
  <1>9. Nat \subseteq S
    <2> HIDE DEF S
    <2> QED
      BY <1>7, <1>8, SetInduction
  <1>10. i % C = i
    <2>1. 0 \in Int /\ i = i + 0 * C /\ i \in Int
      BY <1>1
    <2> QED
      BY <1>1, <2>1, ModulusIs
  <1> DEFINE c == C \div 2
  <1>11. C # HashMin
    BY <1>6, <1>10
  <1>12. c \in Z /\ c < C /\ 2 * c <= C /\ C <= 2 * c + 1
    BY <1>1, <1>5, <1>11 DEF TowerOf
  <1> HIDE DEF c
  <1>13. \A r \in Z : r > c => r = C
    <2> SUFFICES ASSUME NEW r \in Z, r > c, r # C PROVE FALSE
      OBVIOUS
    <2>1. r < C /\ C \in Z
      BY <1>1, <1>5 DEF TowerOf
    <2>2. 2 * r <= C
      BY <1>1, <2>1 DEF TowerOf
    <2> QED
      BY <1>1, <1>5, <1>12, <2>2
  <1>14. Above(c)
    BY <1>10, <1>13
  <1>15. Ends(at[c])
    <2>1. c \in Nat /\ c <= c
      BY <1>5, <1>12
    <2> QED
      BY <1>9, <1>12, <1>14, <2>1
  <1>16. at[c] = HashHolder(t, i)
    BY <1>2 DEF c
  <1> QED
    BY <1>5, <1>15, <1>16 DEF Home

-----------------------------------------------------------------------------
(* The loop that moves the nodes.                                          *)

\* The loop over the nodes of a bucket, by its recursion.
MovedStep(t, old, n, f) ==
  [k \in 0 .. n |-> IF k = 0 THEN t ELSE HashMoved(f[k - 1], t[old][k], old)]

\* The recursive function of the loop exists.
LEMMA MovedExists ==
  ASSUME NEW t, NEW old, NEW n \in Nat
  PROVE  \E f : f = MovedStep(t, old, n, f)
  <1> DEFINE S == {m \in Nat : \E f : f = MovedStep(t, old, m, f)}
  <1>1. 0 \in S
    <2> DEFINE f == [k \in 0 .. 0 |-> t]
    <2>1. \A k \in 0 .. 0 : k = 0
      OBVIOUS
    <2>2. f = MovedStep(t, old, 0, f)
      BY <2>1, Zenon DEF MovedStep
    <2> QED
      BY <2>2
  <1>2. ASSUME NEW m \in Nat, m \in S
        PROVE  m + 1 \in S
    <2>1. PICK f : f = MovedStep(t, old, m, f)
      BY <1>2
    <2> DEFINE l == m + 1
               g == [k \in 0 .. l |-> IF k <= m THEN f[k] ELSE MovedStep(t, old, l, f)[k]]
    <2>2. l \in Nat
      OBVIOUS
    <2>3. \A k \in 0 .. m : g[k] = f[k]
      OBVIOUS
    <2>4. ASSUME NEW k \in 0 .. l
          PROVE  g[k] = MovedStep(t, old, l, g)[k]
      <3> DEFINE j == k - 1
      <3>1. /\ MovedStep(t, old, l, g)[k] = IF k = 0 THEN t ELSE HashMoved(g[j], t[old][k], old)
            /\ MovedStep(t, old, l, f)[k] = IF k = 0 THEN t ELSE HashMoved(f[j], t[old][k], old)
        BY Zenon DEF MovedStep
      <3>2. k <= m => MovedStep(t, old, m, f)[k] = IF k = 0 THEN t ELSE HashMoved(f[j], t[old][k], old)
        <4> SUFFICES ASSUME k <= m PROVE MovedStep(t, old, m, f)[k] = IF k = 0 THEN t ELSE HashMoved(f[j], t[old][k], old)
          OBVIOUS
        <4>1. k \in 0 .. m
          OBVIOUS
        <4> QED
          BY <4>1, Zenon DEF MovedStep
      <3>3. g[k] = IF k = 0 THEN t ELSE HashMoved(f[j], t[old][k], old)
        <4>1. CASE k <= m
          <5>1. k \in 0 .. m
            BY <4>1
          <5>2. g[k] = f[k]
            BY <2>3, <5>1
          <5>3. f[k] = MovedStep(t, old, m, f)[k]
            BY <2>1
          <5> HIDE DEF g, j
          <5> QED
            BY <3>2, <4>1, <5>2, <5>3
        <4>2. CASE ~(k <= m)
          <5>1. g[k] = MovedStep(t, old, l, f)[k]
            BY <4>2
          <5> HIDE DEF g, j
          <5> QED
            BY <3>1, <5>1
        <4> QED
          BY <4>1, <4>2
      <3>4. k # 0 => j \in 0 .. m
        BY <2>2
      <3>5. k # 0 => g[j] = f[j]
        <4> HIDE DEF g, j
        <4> QED
          BY <2>3, <3>4
      <3> HIDE DEF g, j
      <3> QED
        BY <3>1, <3>3, <3>5, Zenon
    <2>5. g = MovedStep(t, old, l, g)
      <3>1. MovedStep(t, old, l, g) = [k \in 0 .. l |-> MovedStep(t, old, l, g)[k]]
        BY DEF MovedStep
      <3>2. g = [k \in 0 .. l |-> g[k]]
        OBVIOUS
      <3> HIDE DEF g
      <3> QED
        BY <2>4, <3>1, <3>2
    <2> HIDE DEF g
    <2> QED
      BY <2>2, <2>5
  <1>3. Nat \subseteq S
    <2> HIDE DEF S
    <2> QED
      BY <1>1, <1>2, SetInduction
  <1> QED
    BY <1>3

\* After k nodes of the bucket: they are where they belong, in buckets that are made.
MovedSome(t, u, C, old, k) ==
  /\ TableIs(u, C)
  /\ \A j \in 0 .. C - 1 : u[j] # HashUnmade <=> (t[j] # HashUnmade \/ \E q \in 1 .. k : j = HashVal(t[old][q]) % C)
  /\ \A n, j : j \in 0 .. C - 1 =>
       (InBucket(u, n, j) <=> IF \E q \in 1 .. k : n = t[old][q] THEN j = HashVal(n) % C ELSE InBucket(t, n, j))

\* The body of the loop moves one node.
LEMMA OneMoved ==
  ASSUME NEW t, NEW C, TableIs(t, C), NEW old \in 0 .. C - 1, t[old] # HashUnmade,
         \A n : InBucket(t, n, old) => HashVal(n) \in Nat,
         NEW k \in 0 .. Len(t[old]) - 1, NEW u, MovedSome(t, u, C, old, k)
  PROVE  MovedSome(t, HashMoved(u, t[old][k + 1], old), C, old, k + 1)
  <1> DEFINE s == t[old]
             m == k + 1
             n == s[m]
             b == HashVal(n) % C
             w == HashMoved(u, n, old)
  <1>1. s \in Seq(HashNodes) /\ Once(s) /\ Len(s) \in Nat
    BY DEF TableIs
  <1>2. k \in Nat /\ m \in 1 .. Len(s) /\ \A q \in 1 .. k : q \in 1 .. Len(s) /\ q # m
    BY <1>1
  <1>3. n \in HashNodes /\ Among(n, s) /\ InBucket(t, n, old) /\ \A q \in 1 .. k : s[q] # n
    BY <1>1, <1>2 DEF Among, InBucket, Once
  <1>4. \A q : q \in 1 .. m <=> q \in 1 .. k \/ q = m
    BY <1>2
  <1>5. C \in Nat \ {0} /\ b \in 0 .. C - 1
    <2>1. C \in Nat \ {0} /\ HashVal(n) \in Int
      BY <1>3 DEF TableIs
    <2> QED
      BY <2>1, Modulus
  <1>6. TableIs(u, C) /\ u[old] # HashUnmade
    BY DEF MovedSome
  <1>7. InBucket(u, n, old) /\ \A j \in 0 .. C - 1 : InBucket(u, n, j) => j = old
    <2>1. InBucket(u, n, old)
      BY <1>3 DEF MovedSome
    <2> QED
      BY <1>6, <2>1 DEF TableIs
  <1>8. w = IF b = old THEN u ELSE [u EXCEPT ![old] = HashWithout(@, n), ![b] = <<n>> \o Listed(@)]
    <2>1. HashIndex(u, HashVal(n)) = b
      BY <1>6, TableSize
    <2> QED
      BY <2>1 DEF HashMoved, Listed
  <1> DEFINE After(x) ==
        /\ TableIs(x, C)
        /\ \A j \in 0 .. C - 1 : x[j] # HashUnmade <=> j = b \/ u[j] # HashUnmade
        /\ \A p, j : j \in 0 .. C - 1 => (InBucket(x, p, j) <=> IF p = n THEN j = b ELSE InBucket(u, p, j))
  <1>9. After(w)
    <2>1. CASE b = old
      <3>1. w = u
        BY <1>8, <2>1
      <3> HIDE DEF w, n, b
      <3> QED
        BY <1>5, <1>6, <1>7, <2>1, <3>1
    <2>2. CASE b # old
      <3> DEFINE v == [u EXCEPT ![old] = HashWithout(@, n)]
                 x == [v EXCEPT ![b] = <<n>> \o Listed(@)]
      <3> HIDE DEF n, b
      <3>1. w = x
        BY <1>5, <1>6, <1>8, <2>2 DEF TableIs
      <3> HIDE DEF x, w
      <3>2. v = [u EXCEPT ![old] = HashWithout(@, n)] /\ x = [v EXCEPT ![b] = <<n>> \o Listed(@)]
        BY DEF x
      <3> HIDE DEF v
      <3>3. TakenFromBucket(u, v, C, n)
        BY <1>6, <1>7, <3>2, BucketTake
      <3>4. TableIs(v, C) /\ \A j \in 0 .. C - 1 : ~InBucket(v, n, j)
        BY <3>3 DEF TakenFromBucket
      <3>5. PutInBucket(v, x, C, n, b)
        BY <1>3, <1>5, <3>2, <3>4, BucketPut
      <3> QED
        BY <1>5, <3>1, <3>3, <3>5 DEF TakenFromBucket, PutInBucket
    <2> QED
      BY <2>1, <2>2
  <1> HIDE DEF w, n, b, m, s
  <1>10. \A j \in 0 .. C - 1 : w[j] # HashUnmade <=> (t[j] # HashUnmade \/ \E q \in 1 .. m : j = HashVal(s[q]) % C)
    <2> TAKE j \in 0 .. C - 1
    <2>1. u[j] # HashUnmade <=> (t[j] # HashUnmade \/ \E q \in 1 .. k : j = HashVal(s[q]) % C)
      BY DEF MovedSome, s
    <2>2. (\E q \in 1 .. m : j = HashVal(s[q]) % C) <=> (\E q \in 1 .. k : j = HashVal(s[q]) % C) \/ j = b
      BY <1>4 DEF b, n
    <2> QED
      BY <1>9, <2>1, <2>2
  <1>11. \A p, j : j \in 0 .. C - 1 =>
           (InBucket(w, p, j) <=> IF \E q \in 1 .. m : p = s[q] THEN j = HashVal(p) % C ELSE InBucket(t, p, j))
    <2> TAKE p, j
    <2> SUFFICES ASSUME j \in 0 .. C - 1
                 PROVE  InBucket(w, p, j) <=> IF \E q \in 1 .. m : p = s[q] THEN j = HashVal(p) % C ELSE InBucket(t, p, j)
      OBVIOUS
    <2>1. InBucket(u, p, j) <=> IF \E q \in 1 .. k : p = s[q] THEN j = HashVal(p) % C ELSE InBucket(t, p, j)
      BY DEF MovedSome, s
    <2>2. (\E q \in 1 .. m : p = s[q]) <=> (\E q \in 1 .. k : p = s[q]) \/ p = n
      BY <1>4 DEF n
    <2>3. InBucket(w, p, j) <=> IF p = n THEN j = b ELSE InBucket(u, p, j)
      BY <1>9
    <2> QED
      BY <2>1, <2>2, <2>3 DEF b
  <1> QED
    BY <1>9, <1>10, <1>11 DEF MovedSome, w, n, m, s

\* A bucket that was unmade is made, and all nodes of the bucket that held its nodes are where they belong.
RemadeAs(t, r, C, old, i) ==
  /\ TableIs(r, C)
  /\ \A j \in 0 .. C - 1 : r[j] # HashUnmade <=>
       (t[j] # HashUnmade \/ j = i \/ \E n : InBucket(t, n, old) /\ j = HashVal(n) % C)
  /\ \A n, j : j \in 0 .. C - 1 =>
       (InBucket(r, n, j) <=> IF InBucket(t, n, old) THEN j = HashVal(n) % C ELSE InBucket(t, n, j))

\* The whole of eh_hashtbl_try_remake, by what is in the buckets before and after.
LEMMA RemadeIs ==
  ASSUME NEW t, NEW C, TableIs(t, C), NEW i \in 0 .. C - 1, t[i] = HashUnmade,
         NEW old \in 0 .. C - 1, old = HashHolder(t, i), t[old] # HashUnmade,
         \A n : InBucket(t, n, old) => HashVal(n) \in Nat
  PROVE  RemadeAs(t, HashRemade(t, i), C, old, i)
  <1> DEFINE s == t[old]
             l == Len(s)
             at == CHOOSE f : f = MovedStep(t, old, l, f)
             all == at[l]
  <1>1. s \in Seq(HashNodes) /\ l \in Nat
    BY DEF TableIs
  <1>2. HashRemade(t, i) = IF all[i] = HashUnmade THEN [all EXCEPT ![i] = << >>] ELSE all
    <2> DEFINE hold == HashHolder(t, i)
               come == CHOOSE f : f = MovedStep(t, hold, Len(t[hold]), f)
               done == come[Len(t[hold])]
    <2>1. HashRemade(t, i) = IF t[i] # HashUnmade THEN t ELSE IF done[i] = HashUnmade THEN [done EXCEPT ![i] = << >>] ELSE done
      BY Zenon DEF HashRemade, MovedStep
    <2>2. done = all
      BY Zenon
    <2> HIDE DEF done, all
    <2> QED
      BY <2>1, <2>2
  <1>3. at = MovedStep(t, old, l, at)
    <2>1. \E f : f = MovedStep(t, old, l, f)
      <3> HIDE DEF l
      <3> QED
        BY <1>1, MovedExists
    <2> QED
      BY <2>1, Zenon
  <1> HIDE DEF at
  <1>4. \A k \in 0 .. l : at[k] = IF k = 0 THEN t ELSE HashMoved(at[k - 1], s[k], old)
    <2> TAKE k \in 0 .. l
    <2>1. MovedStep(t, old, l, at)[k] = IF k = 0 THEN t ELSE HashMoved(at[k - 1], s[k], old)
      BY Zenon DEF MovedStep
    <2> QED
      BY <1>3, <2>1
  <1> DEFINE S == {k \in Nat : k <= l => MovedSome(t, at[k], C, old, k)}
  <1>5. 0 \in S
    <2>1. at[0] = t
      BY <1>1, <1>4
    <2>2. \A q : q \notin 1 .. 0
      OBVIOUS
    <2>3. MovedSome(t, t, C, old, 0)
      BY <2>2 DEF MovedSome
    <2> QED
      BY <2>1, <2>3
  <1>6. ASSUME NEW k \in Nat, k \in S
        PROVE  k + 1 \in S
    <2> SUFFICES ASSUME k + 1 <= l PROVE MovedSome(t, at[k + 1], C, old, k + 1)
      OBVIOUS
    <2>1. k + 1 \in 0 .. l /\ k + 1 # 0 /\ (k + 1) - 1 = k /\ k \in 0 .. l - 1 /\ k <= l
      BY <1>1
    <2>2. at[k + 1] = HashMoved(at[k], s[k + 1], old)
      <3> DEFINE m == k + 1
      <3>1. m \in 0 .. l /\ m # 0 /\ m - 1 = k
        BY <2>1
      <3> HIDE DEF m
      <3>2. at[m] = HashMoved(at[m - 1], s[m], old)
        BY <1>4, <3>1
      <3> QED
        BY <3>1, <3>2 DEF m
    <2>3. MovedSome(t, at[k], C, old, k)
      BY <1>6, <2>1
    <2>4. MovedSome(t, HashMoved(at[k], s[k + 1], old), C, old, k + 1)
      BY <2>1, <2>3, OneMoved
    <2> QED
      BY <2>2, <2>4
  <1>7. MovedSome(t, all, C, old, l)
    <2>1. Nat \subseteq S
      <3> HIDE DEF S
      <3> QED
        BY <1>5, <1>6, SetInduction
    <2>2. l \in S /\ l <= l
      BY <1>1, <2>1
    <2> QED
      BY <2>2
  <1> HIDE DEF all
  <1>8. \A n : InBucket(t, n, old) <=> \E q \in 1 .. l : n = s[q]
    BY DEF InBucket, Among
  <1>9. /\ TableIs(all, C)
        /\ \A j \in 0 .. C - 1 : all[j] # HashUnmade <=>
             (t[j] # HashUnmade \/ \E n : InBucket(t, n, old) /\ j = HashVal(n) % C)
        /\ \A n, j : j \in 0 .. C - 1 =>
             (InBucket(all, n, j) <=> IF InBucket(t, n, old) THEN j = HashVal(n) % C ELSE InBucket(t, n, j))
    <2>1. \A n, j : j \in 0 .. C - 1 =>
             (InBucket(all, n, j) <=> IF InBucket(t, n, old) THEN j = HashVal(n) % C ELSE InBucket(t, n, j))
      BY <1>7, <1>8 DEF MovedSome
    <2>2. \A j \in 0 .. C - 1 : (\E n : InBucket(t, n, old) /\ j = HashVal(n) % C) <=> \E q \in 1 .. l : j = HashVal(s[q]) % C
      BY <1>8
    <2> QED
      BY <1>7, <2>1, <2>2 DEF MovedSome
  <1>10. CASE all[i] = HashUnmade
    <2> DEFINE r == [all EXCEPT ![i] = << >>]
    <2>1. HashRemade(t, i) = r
      BY <1>2, <1>10
    <2>2. /\ TableIs(r, C)
          /\ \A j \in 0 .. C - 1 : r[j] # HashUnmade <=> j = i \/ all[j] # HashUnmade
          /\ \A m, j : j \in 0 .. C - 1 => (InBucket(r, m, j) <=> InBucket(all, m, j))
      <3>1. MadeBucket(all, r, C, i)
        BY <1>9, <1>10, BucketMake
      <3> QED
        BY <3>1 DEF MadeBucket
    <2> HIDE DEF r
    <2>3. RemadeAs(t, r, C, old, i)
      BY <1>9, <2>2 DEF RemadeAs
    <2> QED
      BY <2>1, <2>3
  <1>11. CASE all[i] # HashUnmade
    <2>1. HashRemade(t, i) = all
      BY <1>2, <1>11
    <2>2. RemadeAs(t, all, C, old, i)
      BY <1>9, <1>11 DEF RemadeAs
    <2> QED
      BY <2>1, <2>2
  <1> QED
    BY <1>10, <1>11

-----------------------------------------------------------------------------
(* A bucket is remade.                                                     *)

\* Every node in the table has a key and is in the home of its hash value.
HomesAre(t, Z, C, key) ==
  \A n, i : i \in 0 .. C - 1 /\ InBucket(t, n, i) => key[n] \in HashKeys /\ Home(t, Z, key[n].hash, i)

\* The number of a bucket is its own remainder.
LEMMA SmallModulus ==
  ASSUME NEW m \in Nat \ {0}, NEW x \in 0 .. m - 1
  PROVE  x % m = x
  <1>1. x \in Int /\ 0 \in Int /\ x = x + 0 * m
    OBVIOUS
  <1> QED
    BY <1>1, ModulusIs

\* Where a bucket y is made whose nodes were in old, the home of no other value changes.
LEMMA OthersStay ==
  ASSUME NEW t, NEW Z, NEW C, HashMin \in Nat \ {0}, TowerOf(Z, C), NEW h \in Nat, NEW j, NEW s \in Z,
         j = h % s, t[j] # HashUnmade, \A r \in Z : r > s => t[h % r] = HashUnmade,
         NEW y \in Nat, NEW old, Home(t, Z, y, old),
         NEW q \in Z, q > s, h % q = y % C
  PROVE  j = old
  <1> DEFINE x == h % q
  <1>1. /\ \A z \in Z : z \in Nat \ {0} /\ z <= C
        /\ \A r, z \in Z : r <= z => (h % z) % r = h % r /\ (y % z) % r = y % r
        /\ C \in Z /\ x \in 0 .. q - 1 /\ x \in Nat
    <2>1. /\ C \in Z /\ \A z \in Z : z \in Nat \ {0} /\ z <= C /\ h % z \in 0 .. z - 1 /\ h % z \in Nat
          /\ \A r, z \in Z : r <= z => (h % z) % r = h % r
      BY TowerFacts
    <2>2. \A r, z \in Z : r <= z => (y % z) % r = y % r
      BY TowerFacts
    <2> QED
      BY <2>1, <2>2
  <1>2. \A z \in Z : z <= q => y % z = h % z
    <2> SUFFICES ASSUME NEW z \in Z, z <= q PROVE y % z = h % z
      OBVIOUS
    <2>1. (h % q) % z = h % z /\ (y % C) % z = y % z
      BY <1>1
    <2> QED
      BY <2>1
  <1>3. PICK u \in Z : old = y % u /\ t[old] # HashUnmade /\ \A r \in Z : r > u => t[y % r] = HashUnmade
    BY DEF Home
  <1>4. t[x] = HashUnmade
    OBVIOUS
  <1>5. u < q
    <2> SUFFICES ASSUME u >= q PROVE FALSE
      BY <1>1
    <2>1. (y % C) % u = y % u
      BY <1>1
    <2>2. x \in 0 .. u - 1 /\ u \in Nat \ {0}
      <3> HIDE DEF x
      <3> QED
        BY <1>1
    <2>3. x = y % C
      OBVIOUS
    <2> HIDE DEF x
    <2>4. x % u = x
      BY <2>2, SmallModulus
    <2> QED
      BY <1>3, <1>4, <2>1, <2>3, <2>4
  <1>6. old = h % u
    BY <1>1, <1>2, <1>3, <1>5
  <1>7. ~(s < u)
    BY <1>3, <1>6
  <1>8. ~(u < s)
    <2> SUFFICES ASSUME u < s PROVE FALSE
      OBVIOUS
    <2>1. t[y % s] = HashUnmade
      BY <1>3
    <2>2. y % s = h % s
      BY <1>1, <1>2
    <2> QED
      BY <2>1, <2>2
  <1>9. s = u
    <2>1. s \in Int /\ u \in Int
      BY <1>1
    <2> QED
      BY <1>7, <1>8, <2>1
  <1> QED
    BY <1>6, <1>9

\* eh_hashtbl_try_remake
RemadeWell(t, r, Z, C, i) ==
  /\ Tabled(r, Z, C) /\ HomesAre(r, Z, C, hashKey) /\ r[i] # HashUnmade
  /\ \A n : (\E j \in 0 .. C - 1 : InBucket(r, n, j)) <=> (\E j \in 0 .. C - 1 : InBucket(t, n, j))

\* A remade table is sound, has the same nodes, and the bucket that was looked at is made.
LEMMA HomesRemade ==
  ASSUME NEW t, NEW Z, NEW C, Tabled(t, Z, C), HomesAre(t, Z, C, hashKey), NEW i \in 0 .. C - 1
  PROVE  RemadeWell(t, HashRemade(t, i), Z, C, i)
  <1>1. CASE t[i] # HashUnmade
    <2>1. HashRemade(t, i) = t
      BY <1>1 DEF HashRemade
    <2> QED
      BY <1>1, <2>1 DEF RemadeWell
  <1>2. CASE t[i] = HashUnmade
    <2> DEFINE old == HashHolder(t, i)
               r == HashRemade(t, i)
    <2>1. HashMin \in Nat \ {0} /\ C \in Nat \ {0} /\ TableIs(t, C) /\ TowerOf(Z, C)
      BY HashAssumption DEF Tabled, TableIs
    <2>2. Home(t, Z, i, old) /\ old \in 0 .. C - 1
      BY <1>2, HolderIs
    <2>3. t[old] # HashUnmade
      BY <2>2 DEF Home
    <2>4. \A n, j : j \in 0 .. C - 1 /\ InBucket(t, n, j) => HashVal(n) \in Nat /\ Home(t, Z, HashVal(n), j)
      BY HashAssumption DEF HomesAre, HashVal
    <2>5. RemadeAs(t, r, C, old, i)
      <3>1. \A n : InBucket(t, n, old) => HashVal(n) \in Nat
        BY <2>2, <2>4
      <3>2. old = HashHolder(t, i)
        OBVIOUS
      <3> HIDE DEF old
      <3> QED
        BY <1>2, <2>1, <2>2, <2>3, <3>1, <3>2, RemadeIs
    <2> HIDE DEF old, r
    <2>6. TableIs(r, C) /\ r[i] # HashUnmade /\ \A j \in 0 .. C - 1 : t[j] # HashUnmade => r[j] # HashUnmade
      BY <2>5 DEF RemadeAs
    <2>7. Tabled(r, Z, C)
      <3>1. \A j \in 0 .. HashMin - 1 : j \in 0 .. C - 1
        BY <2>1 DEF TowerOf
      <3> QED
        BY <2>1, <2>6, <3>1 DEF Tabled
    <2>8. ASSUME NEW n, NEW j \in 0 .. C - 1, InBucket(r, n, j)
          PROVE  hashKey[n] \in HashKeys /\ Home(r, Z, HashVal(n), j) /\ \E k \in 0 .. C - 1 : InBucket(t, n, k)
      <3>1. CASE InBucket(t, n, old)
        <4>1. j = HashVal(n) % C /\ HashVal(n) \in Nat /\ hashKey[n] \in HashKeys
          BY <2>2, <2>4, <2>5, <2>8, <3>1 DEF RemadeAs, HomesAre
        <4>2. r[j] # HashUnmade
          BY <2>8 DEF InBucket
        <4>3. Home(r, Z, HashVal(n), HashVal(n) % C)
          BY <2>1, <4>1, <4>2, HomeAtTop
        <4> QED
          BY <2>2, <3>1, <4>1, <4>3
      <3>2. CASE ~InBucket(t, n, old)
        <4> DEFINE h == HashVal(n)
        <4>1. InBucket(t, n, j) /\ h \in Nat /\ Home(t, Z, h, j) /\ hashKey[n] \in HashKeys
          BY <2>4, <2>5, <2>8, <3>2 DEF RemadeAs, HomesAre
        <4> HIDE DEF h
        <4>2. PICK s \in Z : j = h % s /\ t[j] # HashUnmade /\ \A q \in Z : q > s => t[h % q] = HashUnmade
          BY <4>1 DEF Home
        <4>3. ASSUME NEW q \in Z, q > s, r[h % q] # HashUnmade
              PROVE  FALSE
          <5>1. h % q \in 0 .. C - 1 /\ t[h % q] = HashUnmade
            BY <2>1, <4>1, <4>2, <4>3, TowerFacts
          <5>2. h % q = i \/ \E m : InBucket(t, m, old) /\ h % q = HashVal(m) % C
            BY <2>5, <4>3, <5>1 DEF RemadeAs
          <5>3. PICK y \in Nat : Home(t, Z, y, old) /\ h % q = y % C
            <6>1. CASE h % q = i
              <7>1. i \in Nat /\ i % C = i
                BY <2>1, SmallModulus
              <7> QED
                BY <2>2, <6>1, <7>1
            <6>2. CASE \E m : InBucket(t, m, old) /\ h % q = HashVal(m) % C
              BY <2>2, <2>4, <6>2
            <6> QED
              BY <5>2, <6>1, <6>2
          <5>4. j = old
            BY <2>1, <4>1, <4>2, <4>3, <5>3, OthersStay
          <5> QED
            BY <3>2, <4>1, <5>4
        <4>4. r[j] # HashUnmade
          BY <2>8 DEF InBucket
        <4>5. Home(r, Z, h, j)
          BY <4>2, <4>3, <4>4 DEF Home
        <4> QED
          BY <4>1, <4>5 DEF h
      <3> QED
        BY <3>1, <3>2
    <2>9. ASSUME NEW n, NEW k \in 0 .. C - 1, InBucket(t, n, k)
          PROVE  \E j \in 0 .. C - 1 : InBucket(r, n, j)
      <3>1. CASE InBucket(t, n, old)
        <4> DEFINE b == HashVal(n) % C
        <4>1. b \in 0 .. C - 1
          <5>1. HashVal(n) \in Int /\ C \in Nat \ {0}
            BY <2>1, <2>4, <2>9
          <5> QED
            BY <5>1, Modulus
        <4>2. InBucket(r, n, b)
          BY <2>5, <3>1, <4>1 DEF RemadeAs
        <4> QED
          BY <4>1, <4>2
      <3>2. CASE ~InBucket(t, n, old)
        BY <2>5, <2>9, <3>2 DEF RemadeAs
      <3> QED
        BY <3>1, <3>2
    <2> QED
      BY <2>6, <2>7, <2>8, <2>9 DEF RemadeWell, HomesAre, HashVal, r
  <1> QED
    BY <1>1, <1>2

-----------------------------------------------------------------------------
(* The nodes in the table, and the table that grows.                       *)

\* The nodes in the table.
NodesIn(t, C) == {n \in HashNodes : \E i \in 0 .. C - 1 : InBucket(t, n, i)}

\* A table that is sound, with its count and its threshold.
Holding(t, Z, C, key, count, threshold) ==
  /\ Tabled(t, Z, C) /\ HomesAre(t, Z, C, key)
  /\ count = Cardinality(NodesIn(t, C))
  /\ threshold \in Nat /\ count < threshold

\* They are finitely many.
LEMMA NodesFinite ==
  ASSUME NEW t, NEW C
  PROVE  IsFiniteSet(NodesIn(t, C)) /\ Cardinality(NodesIn(t, C)) \in Nat
  <1>1. NodesIn(t, C) \subseteq HashNodes /\ IsFiniteSet(HashNodes)
    BY HashAssumption DEF NodesIn
  <1>2. IsFiniteSet(NodesIn(t, C))
    BY <1>1, FS_Subset
  <1> QED
    BY <1>2, FS_CardinalityType

\* They are what is in the buckets.
LEMMA NodeIn ==
  ASSUME NEW t, NEW C, TableIs(t, C), NEW n
  PROVE  n \in NodesIn(t, C) <=> \E i \in 0 .. C - 1 : InBucket(t, n, i)
  BY BucketIs DEF NodesIn

\* The homes depend on which buckets are made only: each node is in the bucket of the
\* largest size or where a node with its key was.
KeptHomes(t, u, C, key, new) ==
  /\ TableIs(u, C)
  /\ \A j \in 0 .. C - 1 : u[j] # HashUnmade <=> t[j] # HashUnmade
  /\ \A n, j : j \in 0 .. C - 1 /\ InBucket(u, n, j) =>
       new[n] \in HashKeys /\ (j = new[n].hash % C \/ \E m : InBucket(t, m, j) /\ key[m] = new[n])

\* A table where nodes went to such places is sound.
LEMMA HomesKept ==
  ASSUME NEW t, NEW Z, NEW C, NEW key, Tabled(t, Z, C), HomesAre(t, Z, C, key),
         NEW u, NEW new, KeptHomes(t, u, C, key, new)
  PROVE  Tabled(u, Z, C) /\ HomesAre(u, Z, C, new)
  <1>1. HashMin \in Nat \ {0} /\ C \in Nat \ {0} /\ TowerOf(Z, C)
    BY HashAssumption DEF Tabled, TableIs
  <1>2. Tabled(u, Z, C)
    <2>1. \A j \in 0 .. HashMin - 1 : j \in 0 .. C - 1
      BY <1>1 DEF TowerOf
    <2> QED
      BY <1>1, <2>1 DEF Tabled, KeptHomes
  <1>3. ASSUME NEW n, NEW j \in 0 .. C - 1, InBucket(u, n, j)
        PROVE  new[n] \in HashKeys /\ Home(u, Z, new[n].hash, j)
    <2> DEFINE h == new[n].hash
    <2>1. new[n] \in HashKeys /\ h \in Nat
      BY <1>3, HashAssumption DEF KeptHomes
    <2>2. u[j] # HashUnmade
      BY <1>3 DEF InBucket
    <2>3. CASE j = h % C
      <3> HIDE DEF h
      <3>1. Home(u, Z, h, h % C)
        BY <1>1, <2>1, <2>2, <2>3, HomeAtTop
      <3> QED
        BY <2>1, <2>3, <3>1 DEF h
    <2>4. CASE \E m : InBucket(t, m, j) /\ key[m] = new[n]
      <3>1. PICK m : InBucket(t, m, j) /\ key[m] = new[n]
        BY <2>4
      <3>2. Home(t, Z, h, j)
        BY <3>1 DEF HomesAre
      <3> HIDE DEF h
      <3>3. \A s \in Z : h % s \in 0 .. C - 1
        BY <1>1, <2>1, TowerFacts
      <3>4. Home(u, Z, h, j)
        BY <2>2, <3>2, <3>3 DEF Home, KeptHomes
      <3> QED
        BY <2>1, <3>4 DEF h
    <2> QED
      BY <1>3, <2>3, <2>4 DEF KeptHomes
  <1> QED
    BY <1>2, <1>3 DEF HomesAre

\* eh_hashtbl_resize
Grown(t, C) == [i \in 0 .. 2 * C - 1 |-> IF i < C THEN t[i] ELSE HashUnmade]

\* A larger table is sound: a value that belongs to the new half keeps its home, the new bucket being unmade.
LEMMA GrownIs ==
  ASSUME NEW t, NEW Z, NEW C, NEW key, Tabled(t, Z, C), HomesAre(t, Z, C, key)
  PROVE  /\ Tabled(Grown(t, C), Z \cup {2 * C}, 2 * C) /\ HomesAre(Grown(t, C), Z \cup {2 * C}, 2 * C, key)
         /\ NodesIn(Grown(t, C), 2 * C) = NodesIn(t, C)
  <1> DEFINE D == 2 * C
             g == Grown(t, C)
             Y == Z \cup {D}
  <1>1. HashMin \in Nat \ {0} /\ C \in Nat \ {0} /\ TowerOf(Z, C) /\ TableIs(t, C)
    BY HashAssumption DEF Tabled, TableIs
  <1>2. D \in Nat \ {0} /\ C < D /\ \A i \in 0 .. C - 1 : i \in 0 .. D - 1
    BY <1>1
  <1>3. TowerOf(Y, D)
    BY <1>1, TowerGrows
  <1>4. \A i \in 0 .. D - 1 : g[i] = IF i < C THEN t[i] ELSE HashUnmade
    BY DEF Grown
  <1>5. \A i \in 0 .. D - 1 : i < C => i \in 0 .. C - 1
    BY <1>1
  <1>6. g \in [0 .. D - 1 -> Seq(HashNodes) \cup {HashUnmade}]
    <2>1. g = [i \in 0 .. D - 1 |-> g[i]]
      BY DEF Grown
    <2>2. \A i \in 0 .. D - 1 : g[i] \in Seq(HashNodes) \cup {HashUnmade}
      BY <1>1, <1>4, <1>5 DEF TableIs
    <2> HIDE DEF g
    <2> QED
      BY <2>1, <2>2
  <1> HIDE DEF g, D
  <1>7. \A n, i : i \in 0 .. D - 1 => (InBucket(g, n, i) <=> i < C /\ InBucket(t, n, i))
    BY <1>4 DEF InBucket
  <1>8. TableIs(g, D)
    BY <1>1, <1>2, <1>4, <1>5, <1>6, <1>7 DEF TableIs
  <1>9. Tabled(g, Y, D)
    <2>1. \A i \in 0 .. HashMin - 1 : i \in 0 .. C - 1
      BY <1>1 DEF TowerOf
    <2>2. \A i \in 0 .. HashMin - 1 : g[i] # HashUnmade
      BY <1>1, <1>2, <1>4, <2>1 DEF Tabled
    <2> QED
      BY <1>3, <1>8, <2>2 DEF Tabled
  <1>10. ASSUME NEW n, NEW i \in 0 .. D - 1, InBucket(g, n, i)
         PROVE  key[n] \in HashKeys /\ Home(g, Y, key[n].hash, i)
    <2> DEFINE h == key[n].hash
    <2>1. i < C /\ i \in 0 .. C - 1 /\ InBucket(t, n, i)
      BY <1>5, <1>7, <1>10
    <2>2. key[n] \in HashKeys /\ h \in Nat /\ Home(t, Z, h, i)
      BY <2>1, HashAssumption DEF HomesAre
    <2> HIDE DEF h
    <2>3. PICK s \in Z : i = h % s /\ t[i] # HashUnmade /\ \A r \in Z : r > s => t[h % r] = HashUnmade
      BY <2>2 DEF Home
    <2>4. g[i] # HashUnmade
      BY <1>10 DEF InBucket
    <2>5. \A r \in Z : h % r \in 0 .. C - 1 /\ r <= C /\ r \in Nat
      BY <1>1, <2>2, TowerFacts
    <2>6. \A r \in Z : r > s => g[h % r] = HashUnmade
      BY <1>2, <1>4, <2>3, <2>5
    <2>7. h % D \in 0 .. D - 1
      BY <1>2, <1>3, <2>2, <1>1, TowerFacts
    <2>8. CASE g[h % D] = HashUnmade
      <3>1. \A r \in Y : r \in Z \/ r = D
        OBVIOUS
      <3>2. \A r \in Y : r > s => g[h % r] = HashUnmade
        BY <2>6, <2>8, <3>1
      <3>3. s \in Y /\ i = h % s
        BY <2>3
      <3>4. Home(g, Y, h, i)
        <4> HIDE DEF Y
        <4> QED
          BY <2>4, <3>2, <3>3 DEF Home
      <3> QED
        BY <2>2, <3>4 DEF h
    <2>9. CASE g[h % D] # HashUnmade
      <3>1. h % D < C /\ t[h % D] # HashUnmade
        BY <1>4, <2>7, <2>9
      <3>2. h % D = h % C
        <4>1. (2 * C = D)
          BY DEF D
        <4>2. h % (2 * C) < C => h % (2 * C) = h % C
          BY <1>1, <2>2, ModulusHalf
        <4> QED
          BY <3>1, <4>1, <4>2
      <3>3. C \in Z /\ ~(C > s)
        BY <1>1, <2>3, <3>1, <3>2 DEF TowerOf
      <3>4. s = C
        <4>1. s \in Int /\ C \in Int /\ s <= C
          BY <1>1, <2>5
        <4> QED
          BY <3>3, <4>1
      <3>5. Home(g, Y, h, h % D)
        BY <1>1, <1>3, <2>2, <2>9, HomeAtTop
      <3> QED
        BY <2>2, <2>3, <3>2, <3>4, <3>5 DEF h
    <2> QED
      BY <2>2, <2>8, <2>9 DEF h
  <1>11. NodesIn(g, D) = NodesIn(t, C)
    <2>1. \A n : (\E i \in 0 .. D - 1 : InBucket(g, n, i)) <=> \E i \in 0 .. C - 1 : InBucket(t, n, i)
      <3> TAKE n
      <3>1. ASSUME NEW i \in 0 .. D - 1, InBucket(g, n, i)
            PROVE  \E j \in 0 .. C - 1 : InBucket(t, n, j)
        BY <1>5, <1>7, <3>1
      <3>2. ASSUME NEW i \in 0 .. C - 1, InBucket(t, n, i)
            PROVE  \E j \in 0 .. D - 1 : InBucket(g, n, j)
        <4>1. i \in 0 .. D - 1 /\ i < C
          BY <1>1, <1>2
        <4> QED
          BY <1>7, <3>2, <4>1
      <3> QED
        BY <3>1, <3>2
    <2> QED
      BY <2>1 DEF NodesIn
  <1> QED
    BY <1>9, <1>10, <1>11 DEF HomesAre, g, D

-----------------------------------------------------------------------------
(* The inductive invariant, and the operations that preserve it.           *)

\* There is no table, or there is one that is sound.
HashIInv ==
  /\ hashKey \in [HashNodes -> HashKeys \cup {HashNoKey}]
  /\ hashTable = << >> \/ \E Z, C : Holding(hashTable, Z, C, hashKey, hashCount, hashThreshold)

\* What the operators of the model say of a sound table.
LEMMA HashTableIs ==
  ASSUME NEW C, TableIs(hashTable, C)
  PROVE  /\ HashBuckets = 0 .. C - 1 /\ HashSize = C /\ HashExists
         /\ \A n, i : i \in 0 .. C - 1 => (HashIn(n, i) <=> InBucket(hashTable, n, i))
         /\ \A n : HashInserted(n) <=> n \in NodesIn(hashTable, C)
         /\ \A n : HashInserted(n) => HashBucketOf(n) \in 0 .. C - 1 /\ InBucket(hashTable, n, HashBucketOf(n))
  <1>1. C \in Nat \ {0} /\ hashTable \in [0 .. C - 1 -> Seq(HashNodes) \cup {HashUnmade}]
    BY DEF TableIs
  <1>2. HashBuckets = 0 .. C - 1 /\ HashSize = C
    BY TableSize DEF HashBuckets, HashSize
  <1>3. HashExists
    <2>1. 0 \in 0 .. C - 1
      BY <1>1
    <2> QED
      BY <1>2, <2>1 DEF HashExists
  <1>4. ASSUME NEW n, NEW i \in 0 .. C - 1
        PROVE  HashIn(n, i) <=> InBucket(hashTable, n, i)
    <2>1. CASE hashTable[i] = HashUnmade
      BY <2>1 DEF HashIn, HashMade, InBucket
    <2>2. CASE hashTable[i] # HashUnmade
      <3>1. hashTable[i] \in Seq(HashNodes)
        BY <1>1, <2>2
      <3>2. DOMAIN hashTable[i] = 1 .. Len(hashTable[i])
        BY <3>1
      <3> QED
        BY <2>2, <3>2 DEF HashIn, HashMade, InBucket, Among, Range
    <2> QED
      BY <2>1, <2>2
  <1>5. \A n : HashInserted(n) <=> n \in NodesIn(hashTable, C)
    BY <1>2, <1>4, NodeIn DEF HashInserted
  <1>6. ASSUME NEW n, HashInserted(n)
        PROVE  HashBucketOf(n) \in 0 .. C - 1 /\ InBucket(hashTable, n, HashBucketOf(n))
    <2>1. \E i \in HashBuckets : HashIn(n, i)
      BY <1>6 DEF HashInserted
    <2>2. HashBucketOf(n) \in HashBuckets /\ HashIn(n, HashBucketOf(n))
      BY <2>1, Zenon DEF HashBucketOf
    <2> QED
      BY <1>2, <1>4, <2>2
  <1> QED
    BY <1>2, <1>3, <1>4, <1>5, <1>6

\* No node is in the table where there is none.
LEMMA NoTable ==
  ASSUME hashTable = << >>
  PROVE  ~HashExists /\ \A n : ~HashInserted(n)
  <1>1. HashBuckets = {}
    BY DEF HashBuckets
  <1> QED
    BY <1>1 DEF HashExists, HashInserted

\* Where there is a table it is sound.
LEMMA TableThere ==
  ASSUME HashIInv, HashExists
  PROVE  \E Z, C : Holding(hashTable, Z, C, hashKey, hashCount, hashThreshold)
  BY NoTable DEF HashIInv

\* One node more.
LEMMA CountMore ==
  ASSUME NEW t, NEW u, NEW C, NEW D, NEW n, n \notin NodesIn(t, C), NodesIn(u, D) = NodesIn(t, C) \cup {n}
  PROVE  Cardinality(NodesIn(u, D)) = Cardinality(NodesIn(t, C)) + 1
  <1>1. IsFiniteSet(NodesIn(t, C))
    BY NodesFinite
  <1> QED
    BY <1>1, FS_AddElement

\* One node fewer.
LEMMA CountLess ==
  ASSUME NEW t, NEW u, NEW C, NEW n, n \in NodesIn(t, C), NodesIn(u, C) = NodesIn(t, C) \ {n}
  PROVE  Cardinality(NodesIn(u, C)) = Cardinality(NodesIn(t, C)) - 1
  <1>1. IsFiniteSet(NodesIn(t, C))
    BY NodesFinite
  <1> QED
    BY <1>1, FS_RemoveElement

\* eh_hashtbl_create
LEMMA CreateHolds ==
  ASSUME HashIInv, NEW t \in HashThresholds, HashCreate(t)
  PROVE  HashIInv'
  <1> DEFINE u == [i \in 0 .. HashMin - 1 |-> << >>]
             Z == {HashMin}
  <1>1. HashMin \in Nat \ {0} /\ t \in Nat \ {0} /\ << >> # HashUnmade
    <2>1. << >> \in Seq(HashNodes)
      OBVIOUS
    <2> QED
      BY <2>1, HashAssumption
  <1>2. \A i \in 0 .. HashMin - 1 : u[i] = << >>
    OBVIOUS
  <1>3. TableIs(u, HashMin) /\ \A n : \A i \in 0 .. HashMin - 1 : ~InBucket(u, n, i)
    <2>1. u \in [0 .. HashMin - 1 -> Seq(HashNodes) \cup {HashUnmade}]
      OBVIOUS
    <2> HIDE DEF u
    <2>2. \A n : \A i \in 0 .. HashMin - 1 : ~InBucket(u, n, i)
      BY <1>2 DEF InBucket, Among
    <2>3. Once(<< >>)
      BY DEF Once
    <2> QED
      BY <1>1, <1>2, <2>1, <2>2, <2>3 DEF TableIs
  <1>4. TowerOf(Z, HashMin)
    <2>1. \A h \in Nat : (h % HashMin) % HashMin = h % HashMin
      <3> TAKE h \in Nat
      <3>1. HashMin \in Nat \ {0} /\ h \in Int
        BY <1>1
      <3> QED
        BY <3>1, ModulusTwice
    <2> QED
      BY <1>1, <2>1 DEF TowerOf
  <1> HIDE DEF Z, u
  <1>5. Tabled(u, Z, HashMin) /\ HomesAre(u, Z, HashMin, hashKey)
    BY <1>1, <1>2, <1>3, <1>4 DEF Tabled, HomesAre
  <1>6. Cardinality(NodesIn(u, HashMin)) = 0
    <2>1. NodesIn(u, HashMin) = {}
      BY <1>3 DEF NodesIn
    <2> QED
      BY <2>1, FS_EmptySet
  <1>7. Holding(u, Z, HashMin, hashKey, 0, t)
    BY <1>1, <1>5, <1>6 DEF Holding
  <1>8. hashTable' = u /\ hashCount' = 0 /\ hashThreshold' = t /\ hashKey' = hashKey
    BY DEF HashCreate, u
  <1> QED
    BY <1>7, <1>8 DEF HashIInv

\* eh_hashtbl_destroy
LEMMA DestroyHolds ==
  ASSUME HashIInv, HashDestroy
  PROVE  HashIInv'
  BY DEF HashIInv, HashDestroy

\* The same nodes are in the table, where the nodes with their keys were.
LEMMA HoldingSame ==
  ASSUME NEW t, NEW Z, NEW C, NEW key, NEW count, NEW threshold, Holding(t, Z, C, key, count, threshold),
         NEW new, \A n \in NodesIn(t, C) : new[n] = key[n]
  PROVE  Holding(t, Z, C, new, count, threshold)
  <1>1. TableIs(t, C) /\ \A n, j : j \in 0 .. C - 1 /\ InBucket(t, n, j) => n \in NodesIn(t, C)
    BY NodeIn DEF Holding, Tabled
  <1>2. KeptHomes(t, t, C, key, new)
    BY <1>1 DEF KeptHomes, Holding, HomesAre
  <1>3. Tabled(t, Z, C) /\ HomesAre(t, Z, C, new)
    BY <1>2, HomesKept DEF Holding
  <1> QED
    BY <1>3 DEF Holding

\* A node that is in the table is allocated.
LEMMA HeldAllocated ==
  ASSUME NEW t, NEW Z, NEW C, NEW key, NEW count, NEW threshold, Holding(t, Z, C, key, count, threshold)
  PROVE  \A n \in NodesIn(t, C) : n \in HashNodes /\ key[n] # HashNoKey
  BY HashAssumption DEF Holding, HomesAre, NodesIn

\* eh_hashtbl_node_new_refresh
LEMMA NewHolds ==
  ASSUME HashIInv, NEW n \in HashNodes, NEW k \in HashKeys, HashNew(n, k)
  PROVE  HashIInv'
  <1>1. /\ n \notin HashAllocated /\ hashKey' = [hashKey EXCEPT ![n] = k]
        /\ hashTable' = hashTable /\ hashCount' = hashCount /\ hashThreshold' = hashThreshold
    BY DEF HashNew
  <1>2. hashKey \in [HashNodes -> HashKeys \cup {HashNoKey}] /\ hashKey' \in [HashNodes -> HashKeys \cup {HashNoKey}]
    BY <1>1 DEF HashIInv
  <1>3. ASSUME NEW Z, NEW C, Holding(hashTable, Z, C, hashKey, hashCount, hashThreshold)
        PROVE  Holding(hashTable, Z, C, hashKey', hashCount, hashThreshold)
    <2>1. \A m \in NodesIn(hashTable, C) : m \in HashNodes /\ m # n
      BY <1>1, <1>3, HeldAllocated DEF HashAllocated
    <2>2. \A m \in NodesIn(hashTable, C) : hashKey'[m] = hashKey[m]
      BY <1>1, <1>2, <2>1
    <2> QED
      BY <1>3, <2>2, HoldingSame
  <1>4. hashTable = << >> \/ \E Z, C : Holding(hashTable, Z, C, hashKey', hashCount, hashThreshold)
    BY <1>3 DEF HashIInv
  <1> QED
    BY <1>1, <1>2, <1>4 DEF HashIInv

\* A node is put in front of a made bucket of the largest size, where it belongs.
PutHome(t, u, C, n, i, key) ==
  /\ PutInBucket(t, u, C, n, i) /\ t[i] # HashUnmade /\ i \in 0 .. C - 1
  /\ key[n] \in HashKeys /\ i = key[n].hash % C
  /\ n \in HashNodes /\ n \notin NodesIn(t, C)

\* It leaves the table sound.
LEMMA PutHolds ==
  ASSUME NEW t, NEW Z, NEW C, NEW key, Tabled(t, Z, C), HomesAre(t, Z, C, key),
         NEW u, NEW n, NEW i, PutHome(t, u, C, n, i, key)
  PROVE  /\ Tabled(u, Z, C) /\ HomesAre(u, Z, C, key)
         /\ NodesIn(u, C) = NodesIn(t, C) \cup {n}
  <1>1. /\ TableIs(u, C)
        /\ \A j \in 0 .. C - 1 : u[j] # HashUnmade <=> t[j] # HashUnmade
        /\ \A m, j : j \in 0 .. C - 1 => (InBucket(u, m, j) <=> (m = n /\ j = i) \/ InBucket(t, m, j))
    BY DEF PutHome, PutInBucket
  <1>2. KeptHomes(t, u, C, key, key)
    BY <1>1 DEF KeptHomes, PutHome, HomesAre
  <1>3. Tabled(u, Z, C) /\ HomesAre(u, Z, C, key)
    BY <1>2, HomesKept
  <1>4. NodesIn(u, C) = NodesIn(t, C) \cup {n}
    <2>1. \A m : (\E j \in 0 .. C - 1 : InBucket(u, m, j)) <=> m = n \/ \E j \in 0 .. C - 1 : InBucket(t, m, j)
      BY <1>1 DEF PutHome
    <2> QED
      BY <2>1 DEF NodesIn, PutHome
  <1> QED
    BY <1>3, <1>4

\* A node is taken out of its bucket.
LEMMA TakeHolds ==
  ASSUME NEW t, NEW Z, NEW C, NEW key, Tabled(t, Z, C), HomesAre(t, Z, C, key),
         NEW u, NEW n, TakenFromBucket(t, u, C, n), NEW new, \A m \in HashNodes : m # n => new[m] = key[m]
  PROVE  /\ Tabled(u, Z, C) /\ HomesAre(u, Z, C, new)
         /\ NodesIn(u, C) = NodesIn(t, C) \ {n}
  <1>1. /\ TableIs(u, C)
        /\ \A j \in 0 .. C - 1 : u[j] # HashUnmade <=> t[j] # HashUnmade
        /\ \A m, j : j \in 0 .. C - 1 => (InBucket(u, m, j) <=> m # n /\ InBucket(t, m, j))
        /\ \A m, j : j \in 0 .. C - 1 /\ InBucket(t, m, j) => m \in HashNodes
    BY BucketIs DEF TakenFromBucket, Tabled
  <1>2. KeptHomes(t, u, C, key, new)
    BY <1>1 DEF KeptHomes, HomesAre
  <1>3. Tabled(u, Z, C) /\ HomesAre(u, Z, C, new)
    BY <1>2, HomesKept
  <1>4. NodesIn(u, C) = NodesIn(t, C) \ {n}
    <2>1. \A m : (\E j \in 0 .. C - 1 : InBucket(u, m, j)) <=> m # n /\ \E j \in 0 .. C - 1 : InBucket(t, m, j)
      BY <1>1
    <2> QED
      BY <2>1 DEF NodesIn
  <1> QED
    BY <1>3, <1>4

\* The table without a node that is in it.
LEMMA UnlinkedIs ==
  ASSUME NEW C, TableIs(hashTable, C), NEW n, HashInserted(n)
  PROVE  TakenFromBucket(hashTable, HashUnlinked(n), C, n) /\ n \in NodesIn(hashTable, C)
  <1>1. HashBucketOf(n) \in 0 .. C - 1 /\ InBucket(hashTable, n, HashBucketOf(n)) /\ n \in NodesIn(hashTable, C)
    BY HashTableIs
  <1>2. HashUnlinked(n) = [hashTable EXCEPT ![HashBucketOf(n)] = HashWithout(@, n)]
    BY DEF HashUnlinked
  <1> QED
    BY <1>1, <1>2, BucketTake

\* eh_hashtbl_remove
LEMMA RemoveHolds ==
  ASSUME HashIInv, NEW n \in HashNodes, HashRemove(n)
  PROVE  HashIInv'
  <1>1. /\ HashInserted(n) /\ hashTable' = HashUnlinked(n) /\ hashCount' = hashCount - 1
        /\ hashThreshold' = hashThreshold /\ hashKey' = hashKey
    BY DEF HashRemove
  <1>2. PICK Z, C : Holding(hashTable, Z, C, hashKey, hashCount, hashThreshold)
    BY <1>1, NoTable DEF HashIInv
  <1>3. Tabled(hashTable, Z, C) /\ HomesAre(hashTable, Z, C, hashKey) /\ TableIs(hashTable, C)
    BY <1>2 DEF Holding, Tabled
  <1> DEFINE u == HashUnlinked(n)
  <1>4. TakenFromBucket(hashTable, u, C, n) /\ n \in NodesIn(hashTable, C)
    BY <1>1, <1>3, UnlinkedIs
  <1> HIDE DEF u
  <1>5. /\ Tabled(u, Z, C) /\ HomesAre(u, Z, C, hashKey)
        /\ NodesIn(u, C) = NodesIn(hashTable, C) \ {n}
    BY <1>3, <1>4, TakeHolds
  <1>6. Cardinality(NodesIn(u, C)) = hashCount - 1 /\ hashCount \in Nat
    BY <1>2, <1>4, <1>5, CountLess, NodesFinite DEF Holding
  <1>7. Holding(u, Z, C, hashKey, hashCount - 1, hashThreshold)
    BY <1>2, <1>5, <1>6 DEF Holding
  <1> QED
    BY <1>1, <1>7 DEF HashIInv, u

\* eh_hashtbl_node_delete
LEMMA DeleteHolds ==
  ASSUME HashIInv, NEW n \in HashNodes, HashDelete(n)
  PROVE  HashIInv'
  <1> DEFINE new == [hashKey EXCEPT ![n] = HashNoKey]
  <1>1. /\ hashTable' = IF HashInserted(n) THEN HashUnlinked(n) ELSE hashTable
        /\ hashCount' = IF HashInserted(n) THEN hashCount - 1 ELSE hashCount
        /\ hashThreshold' = hashThreshold /\ hashKey' = new
    BY DEF HashDelete
  <1>2. new \in [HashNodes -> HashKeys \cup {HashNoKey}] /\ \A m \in HashNodes : m # n => new[m] = hashKey[m]
    BY DEF HashIInv
  <1> HIDE DEF new
  <1>3. ASSUME NEW Z, NEW C, Holding(hashTable, Z, C, hashKey, hashCount, hashThreshold)
        PROVE  Holding(hashTable', Z, C, new, hashCount', hashThreshold)
    <2>1. Tabled(hashTable, Z, C) /\ HomesAre(hashTable, Z, C, hashKey) /\ TableIs(hashTable, C)
      BY <1>3 DEF Holding, Tabled
    <2>2. CASE HashInserted(n)
      <3> DEFINE u == HashUnlinked(n)
      <3>1. TakenFromBucket(hashTable, u, C, n) /\ n \in NodesIn(hashTable, C)
        BY <2>1, <2>2, UnlinkedIs
      <3>2. hashTable' = u /\ hashCount' = hashCount - 1
        BY <1>1, <2>2
      <3> HIDE DEF u
      <3>3. /\ Tabled(u, Z, C) /\ HomesAre(u, Z, C, new)
            /\ NodesIn(u, C) = NodesIn(hashTable, C) \ {n}
        BY <1>2, <2>1, <3>1, TakeHolds
      <3>4. Cardinality(NodesIn(u, C)) = hashCount - 1 /\ hashCount \in Nat
        BY <1>3, <3>1, <3>3, CountLess, NodesFinite DEF Holding
      <3>5. hashThreshold \in Nat /\ hashCount < hashThreshold
        BY <1>3 DEF Holding
      <3>6. Holding(u, Z, C, new, hashCount - 1, hashThreshold)
        BY <3>3, <3>4, <3>5 DEF Holding
      <3> QED
        BY <3>2, <3>6
    <2>3. CASE ~HashInserted(n)
      <3>1. \A m \in NodesIn(hashTable, C) : m # n /\ m \in HashNodes
        BY <2>1, <2>3, HashTableIs DEF NodesIn
      <3>2. \A m \in NodesIn(hashTable, C) : new[m] = hashKey[m]
        BY <1>2, <3>1
      <3>3. Holding(hashTable, Z, C, new, hashCount, hashThreshold)
        BY <1>3, <3>2, HoldingSame
      <3> QED
        BY <1>1, <2>3, <3>3
    <2> QED
      BY <2>2, <2>3
  <1>4. CASE hashTable = << >>
    <2>1. hashTable' = << >>
      BY <1>1, <1>4, NoTable
    <2> QED
      BY <1>1, <1>2, <2>1 DEF HashIInv
  <1>5. CASE \E Z, C : Holding(hashTable, Z, C, hashKey, hashCount, hashThreshold)
    <2>1. \E Z, C : Holding(hashTable', Z, C, new, hashCount', hashThreshold)
      BY <1>3, <1>5
    <2> QED
      BY <1>1, <1>2, <2>1 DEF HashIInv
  <1> QED
    BY <1>4, <1>5 DEF HashIInv

\* eh_hashtbl_find
LEMMA FindHolds ==
  ASSUME HashIInv, NEW k \in HashKeys, HashFind(k)
  PROVE  HashIInv'
  <1> DEFINE i == HashIndex(hashTable, k.hash)
             r == HashRemade(hashTable, i)
  <1>1. /\ HashExists /\ hashTable' = r
        /\ hashCount' = hashCount /\ hashThreshold' = hashThreshold /\ hashKey' = hashKey
    BY DEF HashFind
  <1>2. PICK Z, C : Holding(hashTable, Z, C, hashKey, hashCount, hashThreshold)
    BY <1>1, TableThere
  <1>3. Tabled(hashTable, Z, C) /\ HomesAre(hashTable, Z, C, hashKey) /\ TableIs(hashTable, C)
    BY <1>2 DEF Holding, Tabled
  <1>4. i \in 0 .. C - 1
    <2>1. i = k.hash % C
      BY <1>3, TableSize
    <2>2. C \in Nat \ {0} /\ k.hash \in Int
      BY <1>3, HashAssumption DEF TableIs
    <2> HIDE DEF i
    <2> QED
      BY <2>1, <2>2, Modulus
  <1> HIDE DEF i
  <1>5. RemadeWell(hashTable, r, Z, C, i)
    BY <1>3, <1>4, HomesRemade
  <1> HIDE DEF r
  <1>6. NodesIn(r, C) = NodesIn(hashTable, C)
    BY <1>5 DEF RemadeWell, NodesIn
  <1>7. Holding(r, Z, C, hashKey, hashCount, hashThreshold)
    BY <1>2, <1>5, <1>6 DEF Holding, RemadeWell
  <1> QED
    BY <1>1, <1>7 DEF HashIInv

\* eh_hashtbl_insert
LEMMA InsertHolds ==
  ASSUME HashIInv, NEW n \in HashNodes, HashInsert(n)
  PROVE  HashIInv'
  <1> DEFINE grow  == hashCount + 1 >= hashThreshold
             table == IF grow THEN HashResized ELSE hashTable
             i     == HashIndex(table, HashVal(n))
             r     == HashRemade(table, i)
             u     == [r EXCEPT ![i] = <<n>> \o @]
             w     == IF grow THEN 2 * hashThreshold ELSE hashThreshold
  <1>1. /\ HashExists /\ n \in HashAllocated /\ ~HashInserted(n)
        /\ hashTable' = u /\ hashThreshold' = w /\ hashCount' = hashCount + 1 /\ hashKey' = hashKey
    BY DEF HashInsert
  <1>2. PICK Z, C : Holding(hashTable, Z, C, hashKey, hashCount, hashThreshold)
    BY <1>1, TableThere
  <1>3. Tabled(hashTable, Z, C) /\ HomesAre(hashTable, Z, C, hashKey) /\ TableIs(hashTable, C)
    BY <1>2 DEF Holding, Tabled
  <1>4. HashSize = C /\ n \notin NodesIn(hashTable, C)
    BY <1>1, <1>3, HashTableIs
  <1>5. hashCount \in Nat /\ hashThreshold \in Nat /\ hashCount < hashThreshold /\ hashCount = Cardinality(NodesIn(hashTable, C))
    BY <1>2, NodesFinite DEF Holding
  <1>6. PICK Y, D : Tabled(table, Y, D) /\ HomesAre(table, Y, D, hashKey) /\ NodesIn(table, D) = NodesIn(hashTable, C)
    <2>1. CASE grow
      <3>1. table = Grown(hashTable, C)
        BY <1>4, <2>1 DEF HashResized, Grown
      <3> HIDE DEF table
      <3> QED
        BY <1>3, <3>1, GrownIs
    <2>2. CASE ~grow
      <3>1. table = hashTable
        BY <2>2
      <3> HIDE DEF table
      <3> QED
        BY <1>3, <3>1
    <2> QED
      BY <2>1, <2>2
  <1>7. w \in Nat /\ hashCount + 1 < w
    BY <1>5
  <1> HIDE DEF table, w
  <1>8. hashKey[n] \in HashKeys
    BY <1>1 DEF HashAllocated, HashIInv
  <1>9. i = hashKey[n].hash % D /\ i \in 0 .. D - 1
    <2>1. TableIs(table, D)
      BY <1>6 DEF Tabled
    <2>2. i = hashKey[n].hash % D
      BY <2>1, TableSize DEF HashVal
    <2>3. D \in Nat \ {0} /\ hashKey[n].hash \in Int
      BY <1>8, <2>1, HashAssumption DEF TableIs
    <2> HIDE DEF i
    <2> QED
      BY <2>2, <2>3, Modulus
  <1> HIDE DEF i
  <1>10. RemadeWell(table, r, Y, D, i)
    BY <1>6, <1>9, HomesRemade
  <1>11. u = [r EXCEPT ![i] = <<n>> \o @]
    OBVIOUS
  <1> HIDE DEF r, u
  <1>12. /\ Tabled(r, Y, D) /\ HomesAre(r, Y, D, hashKey) /\ r[i] # HashUnmade
         /\ NodesIn(r, D) = NodesIn(hashTable, C)
    BY <1>6, <1>10 DEF RemadeWell, NodesIn
  <1>13. PutHome(r, u, D, n, i, hashKey)
    <2>1. TableIs(r, D) /\ \A j \in 0 .. D - 1 : ~InBucket(r, n, j)
      <3>1. TableIs(r, D) /\ n \notin NodesIn(r, D)
        BY <1>4, <1>12 DEF Tabled
      <3> QED
        BY <3>1 DEF NodesIn
    <2>2. u = [r EXCEPT ![i] = <<n>> \o Listed(@)]
      BY <1>11, <1>12 DEF Listed
    <2>3. PutInBucket(r, u, D, n, i)
      BY <1>9, <2>1, <2>2, BucketPut
    <2> QED
      BY <1>4, <1>8, <1>9, <1>12, <2>3 DEF PutHome
  <1>14. /\ Tabled(u, Y, D) /\ HomesAre(u, Y, D, hashKey)
         /\ NodesIn(u, D) = NodesIn(r, D) \cup {n}
    BY <1>12, <1>13, PutHolds
  <1>15. Cardinality(NodesIn(u, D)) = hashCount + 1
    <2>1. n \notin NodesIn(hashTable, C) /\ NodesIn(u, D) = NodesIn(hashTable, C) \cup {n}
      BY <1>4, <1>12, <1>14
    <2>2. Cardinality(NodesIn(u, D)) = Cardinality(NodesIn(hashTable, C)) + 1
      BY <2>1, CountMore
    <2> QED
      BY <1>5, <2>2
  <1>16. Holding(u, Y, D, hashKey, hashCount + 1, w)
    BY <1>7, <1>14, <1>15 DEF Holding
  <1> QED
    BY <1>1, <1>16 DEF HashIInv

\* eh_hashtbl_node_renew
LEMMA RenewHolds ==
  ASSUME HashIInv, NEW old \in HashNodes, NEW new \in HashNodes, HashRenew(old, new)
  PROVE  HashIInv'
  <1> DEFINE key == [hashKey EXCEPT ![new] = hashKey[old], ![old] = HashNoKey]
  <1>1. /\ hashTable' = IF HashInserted(old)
                        THEN [hashTable EXCEPT ![HashBucketOf(old)] = ReplaceAll(@, old, new)]
                        ELSE hashTable
        /\ hashCount' = hashCount /\ hashThreshold' = hashThreshold /\ hashKey' = key
        /\ old \in HashAllocated /\ new \notin HashAllocated
    BY DEF HashRenew
  <1>2. /\ key \in [HashNodes -> HashKeys \cup {HashNoKey}] /\ old # new
        /\ key[new] = hashKey[old] /\ \A m \in HashNodes : m # old /\ m # new => key[m] = hashKey[m]
    <2>1. hashKey \in [HashNodes -> HashKeys \cup {HashNoKey}] /\ old # new
      BY <1>1 DEF HashIInv, HashAllocated
    <2>2. \A m \in HashNodes : key[m] = IF m = old THEN HashNoKey ELSE IF m = new THEN hashKey[old] ELSE hashKey[m]
      BY <2>1
    <2>3. key \in [HashNodes -> HashKeys \cup {HashNoKey}]
      BY <2>1
    <2> HIDE DEF key
    <2> QED
      BY <2>1, <2>2, <2>3
  <1> HIDE DEF key
  <1>3. ASSUME NEW Z, NEW C, Holding(hashTable, Z, C, hashKey, hashCount, hashThreshold)
        PROVE  Holding(hashTable', Z, C, key, hashCount, hashThreshold)
    <2>1. Tabled(hashTable, Z, C) /\ HomesAre(hashTable, Z, C, hashKey) /\ TableIs(hashTable, C)
      BY <1>3 DEF Holding, Tabled
    <2>2. new \notin NodesIn(hashTable, C)
      BY <1>1, <1>3, HeldAllocated DEF HashAllocated
    <2>3. CASE HashInserted(old)
      <3> DEFINE i == HashBucketOf(old)
                 u == [hashTable EXCEPT ![i] = ReplaceAll(@, old, new)]
      <3>1. i \in 0 .. C - 1 /\ InBucket(hashTable, old, i) /\ old \in NodesIn(hashTable, C)
        BY <2>1, <2>3, HashTableIs
      <3>2. hashTable' = u
        BY <1>1, <2>3
      <3>3. u = [hashTable EXCEPT ![i] = ReplaceAll(@, old, new)]
        OBVIOUS
      <3> HIDE DEF u, i
      <3>4. \A j \in 0 .. C - 1 : ~InBucket(hashTable, new, j)
        BY <2>2 DEF NodesIn
      <3>5. SwappedInBucket(hashTable, u, C, old, new, i)
        BY <2>1, <3>1, <3>3, <3>4, BucketSwap
      <3>6. /\ TableIs(u, C)
            /\ \A j \in 0 .. C - 1 : u[j] # HashUnmade <=> hashTable[j] # HashUnmade
            /\ \A m, j : j \in 0 .. C - 1 => (InBucket(u, m, j) <=> (m = new /\ j = i) \/ (m # old /\ InBucket(hashTable, m, j)))
        BY <3>5 DEF SwappedInBucket
      <3>7. KeptHomes(hashTable, u, C, hashKey, key)
        <4>1. ASSUME NEW m, NEW j \in 0 .. C - 1, InBucket(u, m, j)
              PROVE  key[m] \in HashKeys /\ \E p : InBucket(hashTable, p, j) /\ hashKey[p] = key[m]
          <5>1. CASE m = new /\ j = i
            BY <1>2, <2>1, <3>1, <5>1 DEF HomesAre
          <5>2. CASE m # old /\ InBucket(hashTable, m, j)
            <6>1. m # new /\ m \in HashNodes
              BY <2>1, <3>4, <5>2, BucketIs
            <6> QED
              BY <1>2, <2>1, <5>2, <6>1 DEF HomesAre
          <5> QED
            BY <3>6, <4>1, <5>1, <5>2
        <4> QED
          BY <3>6, <4>1 DEF KeptHomes
      <3>8. Tabled(u, Z, C) /\ HomesAre(u, Z, C, key)
        BY <2>1, <3>7, HomesKept
      <3>9. NodesIn(u, C) = (NodesIn(hashTable, C) \ {old}) \cup {new}
        <4>1. \A m : (\E j \in 0 .. C - 1 : InBucket(u, m, j)) <=>
                m = new \/ (m # old /\ \E j \in 0 .. C - 1 : InBucket(hashTable, m, j))
          BY <3>1, <3>6
        <4> QED
          BY <4>1 DEF NodesIn
      <3>10. Cardinality(NodesIn(u, C)) = hashCount
        <4> DEFINE N == NodesIn(hashTable, C)
        <4>1. IsFiniteSet(N) /\ Cardinality(N) = hashCount /\ hashCount \in Nat
          BY <1>3, NodesFinite DEF Holding
        <4>2. IsFiniteSet(N \ {old}) /\ Cardinality(N \ {old}) = Cardinality(N) - 1
          BY <3>1, <4>1, FS_RemoveElement
        <4>3. new \notin N \ {old}
          BY <2>2
        <4>4. Cardinality((N \ {old}) \cup {new}) = Cardinality(N \ {old}) + 1
          <5> DEFINE R == N \ {old}
          <5> HIDE DEF R
          <5>1. IsFiniteSet(R) /\ new \notin R
            BY <4>2, <4>3 DEF R
          <5>2. Cardinality(R \cup {new}) = Cardinality(R) + 1
            BY <5>1, FS_AddElement
          <5> QED
            BY <5>2 DEF R
        <4> QED
          BY <3>9, <4>1, <4>2, <4>4
      <3> QED
        BY <1>3, <3>2, <3>8, <3>10 DEF Holding
    <2>4. CASE ~HashInserted(old)
      <3>1. \A m \in NodesIn(hashTable, C) : m # old /\ m # new /\ m \in HashNodes
        BY <2>1, <2>2, <2>4, HashTableIs DEF NodesIn
      <3>2. \A m \in NodesIn(hashTable, C) : key[m] = hashKey[m]
        BY <1>2, <3>1
      <3>3. Holding(hashTable, Z, C, key, hashCount, hashThreshold)
        BY <1>3, <3>2, HoldingSame
      <3> QED
        BY <1>1, <2>4, <3>3
    <2> QED
      BY <2>3, <2>4
  <1>4. CASE hashTable = << >>
    <2>1. hashTable' = << >>
      BY <1>1, <1>4, NoTable
    <2> QED
      BY <1>1, <1>2, <2>1 DEF HashIInv
  <1>5. CASE \E Z, C : Holding(hashTable, Z, C, hashKey, hashCount, hashThreshold)
    <2>1. \E Z, C : Holding(hashTable', Z, C, key, hashCount', hashThreshold')
      BY <1>1, <1>3, <1>5
    <2> QED
      BY <1>1, <1>2, <2>1 DEF HashIInv
  <1> QED
    BY <1>4, <1>5 DEF HashIInv

\* eh_hashtbl_node_key_refresh, into a bucket that is made.
LEMMA RefreshHolds ==
  ASSUME HashIInv, NEW n \in HashNodes, NEW k \in HashKeys, HashRefresh(n, k), ~HashTraps(n, k)
  PROVE  HashIInv'
  <1> DEFINE key == [hashKey EXCEPT ![n] = k]
             i == HashIndex(hashTable, k.hash)
  <1>1. /\ hashCount' = hashCount /\ hashThreshold' = hashThreshold /\ hashKey' = key
        /\ ~HashInserted(n) => hashTable' = hashTable
        /\ HashInserted(n) => HashMade(i) /\ hashTable' = [HashUnlinked(n) EXCEPT ![i] = <<n>> \o @]
    BY DEF HashRefresh, HashTraps
  <1>2. /\ key \in [HashNodes -> HashKeys \cup {HashNoKey}]
        /\ key[n] = k /\ \A m \in HashNodes : m # n => key[m] = hashKey[m]
    BY DEF HashIInv
  <1> HIDE DEF key, i
  <1>3. ASSUME NEW Z, NEW C, Holding(hashTable, Z, C, hashKey, hashCount, hashThreshold)
        PROVE  Holding(hashTable', Z, C, key, hashCount, hashThreshold)
    <2>1. Tabled(hashTable, Z, C) /\ HomesAre(hashTable, Z, C, hashKey) /\ TableIs(hashTable, C)
      BY <1>3 DEF Holding, Tabled
    <2>2. CASE HashInserted(n)
      <3> DEFINE v == HashUnlinked(n)
                 u == [v EXCEPT ![i] = <<n>> \o @]
      <3>1. TakenFromBucket(hashTable, v, C, n) /\ n \in NodesIn(hashTable, C)
        BY <2>1, <2>2, UnlinkedIs
      <3>2. hashTable' = u /\ hashTable[i] # HashUnmade
        BY <1>1, <2>2 DEF HashMade
      <3>3. i = k.hash % C /\ i \in 0 .. C - 1
        <4>1. i = k.hash % C
          BY <2>1, TableSize DEF i
        <4>2. C \in Nat \ {0} /\ k.hash \in Int
          BY <2>1, HashAssumption DEF TableIs
        <4> QED
          BY <4>1, <4>2, Modulus
      <3> HIDE DEF v
      <3>4. u = [v EXCEPT ![i] = <<n>> \o @]
        OBVIOUS
      <3> HIDE DEF u
      <3>5. /\ Tabled(v, Z, C) /\ HomesAre(v, Z, C, key)
            /\ NodesIn(v, C) = NodesIn(hashTable, C) \ {n}
        BY <1>2, <2>1, <3>1, TakeHolds
      <3>6. v[i] # HashUnmade /\ TableIs(v, C) /\ \A j \in 0 .. C - 1 : ~InBucket(v, n, j)
        BY <3>1, <3>2, <3>3 DEF TakenFromBucket
      <3>7. u = [v EXCEPT ![i] = <<n>> \o Listed(@)]
        BY <3>4, <3>6 DEF Listed
      <3>8. PutInBucket(v, u, C, n, i)
        BY <3>3, <3>6, <3>7, BucketPut
      <3>9. PutHome(v, u, C, n, i, key)
        BY <1>2, <3>3, <3>5, <3>6, <3>8 DEF PutHome
      <3>10. /\ Tabled(u, Z, C) /\ HomesAre(u, Z, C, key)
             /\ NodesIn(u, C) = NodesIn(v, C) \cup {n}
        BY <3>5, <3>9, PutHolds
      <3>11. NodesIn(u, C) = NodesIn(hashTable, C)
        BY <3>1, <3>5, <3>10
      <3> QED
        BY <1>3, <3>2, <3>10, <3>11 DEF Holding
    <2>3. CASE ~HashInserted(n)
      <3>1. \A m \in NodesIn(hashTable, C) : m # n /\ m \in HashNodes
        BY <2>1, <2>3, HashTableIs DEF NodesIn
      <3>2. \A m \in NodesIn(hashTable, C) : key[m] = hashKey[m]
        BY <1>2, <3>1
      <3>3. Holding(hashTable, Z, C, key, hashCount, hashThreshold)
        BY <1>3, <3>2, HoldingSame
      <3> QED
        BY <1>1, <2>3, <3>3
    <2> QED
      BY <2>2, <2>3
  <1>4. CASE hashTable = << >>
    <2>1. hashTable' = << >>
      BY <1>1, <1>4, NoTable
    <2> QED
      BY <1>1, <1>2, <2>1 DEF HashIInv
  <1>5. CASE \E Z, C : Holding(hashTable, Z, C, hashKey, hashCount, hashThreshold)
    <2>1. \E Z, C : Holding(hashTable', Z, C, key, hashCount', hashThreshold')
      BY <1>1, <1>3, <1>5
    <2> QED
      BY <1>1, <1>2, <2>1 DEF HashIInv
  <1> QED
    BY <1>4, <1>5 DEF HashIInv

\* The inductive invariant.
LEMMA HashHolds == HashSpec /\ [][HashAvoidsTrap]_hashVars => []HashIInv
  <1>1. HashStart => HashIInv
    BY DEF HashStart, HashIInv
  <1>2. HashIInv /\ [HashNext]_hashVars /\ [HashAvoidsTrap]_hashVars => HashIInv'
    <2> SUFFICES ASSUME HashIInv, [HashNext]_hashVars, [HashAvoidsTrap]_hashVars PROVE HashIInv'
      OBVIOUS
    <2>1. ASSUME NEW t \in HashThresholds, HashCreate(t) PROVE HashIInv'
      BY <2>1, CreateHolds
    <2>2. CASE HashDestroy
      BY <2>2, DestroyHolds
    <2>3. ASSUME NEW n \in HashNodes, NEW k \in HashKeys, HashNew(n, k) PROVE HashIInv'
      BY <2>3, NewHolds
    <2>4. ASSUME HashAvoidsTrap, NEW n \in HashNodes, NEW k \in HashKeys, HashRefresh(n, k)
          PROVE  HashIInv'
      BY <2>4, RefreshHolds DEF HashAvoidsTrap
    <2>5. ASSUME NEW n \in HashNodes, HashInsert(n) PROVE HashIInv'
      BY <2>5, InsertHolds
    <2>6. ASSUME NEW n \in HashNodes, HashRemove(n) PROVE HashIInv'
      BY <2>6, RemoveHolds
    <2>7. ASSUME NEW n \in HashNodes, HashDelete(n) PROVE HashIInv'
      BY <2>7, DeleteHolds
    <2>8. ASSUME NEW old \in HashNodes, NEW new \in HashNodes, HashRenew(old, new) PROVE HashIInv'
      BY <2>8, RenewHolds
    <2>9. ASSUME NEW k \in HashKeys, HashFind(k) PROVE HashIInv'
      BY <2>9, FindHolds
    <2>10. CASE UNCHANGED hashVars
      BY <2>10 DEF hashVars, HashIInv
    <2> QED
      BY <2>1, <2>2, <2>3, <2>4, <2>5, <2>6, <2>7, <2>8, <2>9, <2>10 DEF HashNext
  <1> QED
    BY <1>1, <1>2, PTL DEF HashSpec

-----------------------------------------------------------------------------
(* What a find and a walk see.                                             *)

\* The join of a sequence of sequences, by its recursion.
FlattenStep(seqs, n, f) == [i \in 1 .. n |-> IF i = 1 THEN seqs[i] ELSE f[i - 1] \o seqs[i]]

\* Its recursive function exists.
LEMMA FlattenExists ==
  ASSUME NEW seqs, NEW n \in Nat
  PROVE  \E f : f = FlattenStep(seqs, n, f)
  <1> DEFINE S == {m \in Nat : \E f : f = FlattenStep(seqs, m, f)}
  <1>1. 0 \in S
    <2> DEFINE f == [k \in 1 .. 0 |-> 0]
    <2>1. f = FlattenStep(seqs, 0, f)
      BY DEF FlattenStep
    <2> QED
      BY <2>1
  <1>2. ASSUME NEW m \in Nat, m \in S
        PROVE  m + 1 \in S
    <2>1. PICK f : f = FlattenStep(seqs, m, f)
      BY <1>2
    <2> DEFINE l == m + 1
               g == [k \in 1 .. l |-> IF k <= m THEN f[k] ELSE FlattenStep(seqs, l, f)[k]]
    <2>2. l \in Nat
      OBVIOUS
    <2>3. \A k \in 1 .. m : g[k] = f[k]
      OBVIOUS
    <2>4. ASSUME NEW k \in 1 .. l
          PROVE  g[k] = FlattenStep(seqs, l, g)[k]
      <3> DEFINE j == k - 1
      <3>1. /\ FlattenStep(seqs, l, g)[k] = IF k = 1 THEN seqs[k] ELSE g[j] \o seqs[k]
            /\ FlattenStep(seqs, l, f)[k] = IF k = 1 THEN seqs[k] ELSE f[j] \o seqs[k]
        BY Zenon DEF FlattenStep
      <3>2. k <= m => FlattenStep(seqs, m, f)[k] = IF k = 1 THEN seqs[k] ELSE f[j] \o seqs[k]
        <4> SUFFICES ASSUME k <= m PROVE FlattenStep(seqs, m, f)[k] = IF k = 1 THEN seqs[k] ELSE f[j] \o seqs[k]
          OBVIOUS
        <4>1. k \in 1 .. m
          OBVIOUS
        <4> QED
          BY <4>1, Zenon DEF FlattenStep
      <3>3. g[k] = IF k = 1 THEN seqs[k] ELSE f[j] \o seqs[k]
        <4>1. CASE k <= m
          <5>1. k \in 1 .. m
            BY <4>1
          <5>2. g[k] = f[k]
            BY <2>3, <5>1
          <5>3. f[k] = FlattenStep(seqs, m, f)[k]
            BY <2>1
          <5> HIDE DEF g, j
          <5> QED
            BY <3>2, <4>1, <5>2, <5>3
        <4>2. CASE ~(k <= m)
          <5>1. g[k] = FlattenStep(seqs, l, f)[k]
            BY <4>2
          <5> HIDE DEF g, j
          <5> QED
            BY <3>1, <5>1
        <4> QED
          BY <4>1, <4>2
      <3>4. k # 1 => j \in 1 .. m
        BY <2>2
      <3>5. k # 1 => g[j] = f[j]
        <4> HIDE DEF g, j
        <4> QED
          BY <2>3, <3>4
      <3> HIDE DEF g, j
      <3> QED
        BY <3>1, <3>3, <3>5, Zenon
    <2>5. g = FlattenStep(seqs, l, g)
      <3>1. FlattenStep(seqs, l, g) = [k \in 1 .. l |-> FlattenStep(seqs, l, g)[k]]
        BY DEF FlattenStep
      <3>2. g = [k \in 1 .. l |-> g[k]]
        OBVIOUS
      <3> HIDE DEF g
      <3> QED
        BY <2>4, <3>1, <3>2
    <2> HIDE DEF g
    <2> QED
      BY <2>2, <2>5
  <1>3. Nat \subseteq S
    <2> HIDE DEF S
    <2> QED
      BY <1>1, <1>2, SetInduction
  <1> QED
    BY <1>3

\* Sequences that share no element and have none twice.
AllApart(seqs, S) ==
  /\ seqs \in Seq(Seq(S)) /\ Len(seqs) \in Nat \ {0}
  /\ \A i \in 1 .. Len(seqs) : Once(seqs[i])
  /\ \A i, j \in 1 .. Len(seqs) : \A n : Among(n, seqs[i]) /\ Among(n, seqs[j]) => i = j

\* Their join has their elements, each once.
LEMMA FlattenIs ==
  ASSUME NEW S, NEW seqs, AllApart(seqs, S)
  PROVE  /\ FlattenSeq(seqs) \in Seq(S) /\ Once(FlattenSeq(seqs))
         /\ \A n : Among(n, FlattenSeq(seqs)) <=> \E i \in 1 .. Len(seqs) : Among(n, seqs[i])
  <1> DEFINE l == Len(seqs)
             at == CHOOSE f : f = FlattenStep(seqs, l, f)
  <1>1. l \in Nat \ {0} /\ \A i \in 1 .. l : seqs[i] \in Seq(S) /\ Once(seqs[i])
    BY DEF AllApart
  <1>2. FlattenSeq(seqs) = at[l]
    BY <1>1, Zenon DEF FlattenSeq, FlattenStep
  <1>3. at = FlattenStep(seqs, l, at)
    <2>1. \E f : f = FlattenStep(seqs, l, f)
      <3>1. l \in Nat
        BY <1>1
      <3> HIDE DEF l
      <3> QED
        BY <3>1, FlattenExists
    <2> QED
      BY <2>1, Zenon
  <1> HIDE DEF at
  <1>4. \A k \in 1 .. l : at[k] = IF k = 1 THEN seqs[k] ELSE at[k - 1] \o seqs[k]
    <2> TAKE k \in 1 .. l
    <2>1. FlattenStep(seqs, l, at)[k] = IF k = 1 THEN seqs[k] ELSE at[k - 1] \o seqs[k]
      BY Zenon DEF FlattenStep
    <2> QED
      BY <1>3, <2>1
  <1>5. \A i, j \in 1 .. l : \A n : Among(n, seqs[i]) /\ Among(n, seqs[j]) => i = j
    BY DEF AllApart
  <1> HIDE DEF l
  <1> DEFINE Good(k) == /\ at[k] \in Seq(S) /\ Once(at[k])
                        /\ \A n : Among(n, at[k]) <=> \E i \in 1 .. k : Among(n, seqs[i])
             T == {k \in Nat : k # 0 /\ k <= l => Good(k)}
  <1>6. 0 \in T
    OBVIOUS
  <1>7. ASSUME NEW k \in Nat, k \in T
        PROVE  k + 1 \in T
    <2> SUFFICES ASSUME k + 1 <= l PROVE Good(k + 1)
      OBVIOUS
    <2> DEFINE m == k + 1
    <2>1. m \in 1 .. l /\ m - 1 = k /\ k <= l /\ (m = 1 <=> k = 0)
      BY <1>1
    <2>2. \A i : i \in 1 .. m <=> i \in 1 .. k \/ i = m
      BY <2>1
    <2>3. \A i \in 1 .. k : i \in 1 .. l /\ i # m
      BY <1>1, <2>1
    <2> HIDE DEF m
    <2>4. CASE k = 0
      <3>1. at[m] = seqs[m] /\ m = 1
        BY <1>4, <2>1, <2>4
      <3>2. \A i : i \in 1 .. m <=> i = m
        BY <3>1
      <3>3. Good(m)
        BY <1>1, <2>1, <3>1, <3>2
      <3> QED
        BY <3>3 DEF m
    <2>5. CASE k # 0
      <3>1. at[m] = at[k] \o seqs[m]
        BY <1>4, <2>1, <2>5
      <3>2. Good(k)
        BY <1>7, <2>1, <2>5
      <3>3. seqs[m] \in Seq(S) /\ Once(seqs[m])
        BY <1>1, <2>1
      <3>4. Apart(at[k], seqs[m])
        <4>1. \A n : ~(Among(n, at[k]) /\ Among(n, seqs[m]))
          BY <1>5, <2>1, <2>3, <3>2
        <4> QED
          BY <4>1 DEF Apart, Among
      <3>5. at[m] \in Seq(S) /\ Once(at[m])
        BY <3>1, <3>2, <3>3, <3>4, OnceJoined
      <3>6. \A n : Among(n, at[m]) <=> Among(n, at[k]) \/ Among(n, seqs[m])
        BY <3>1, <3>2, <3>3, AmongJoined
      <3>7. Good(m)
        BY <2>2, <3>2, <3>5, <3>6
      <3> QED
        BY <3>7 DEF m
    <2> QED
      BY <2>4, <2>5
  <1>8. Good(l)
    <2>1. Nat \subseteq T
      <3> HIDE DEF T
      <3> QED
        BY <1>6, <1>7, SetInduction
    <2>2. l \in Nat /\ l <= l /\ l # 0
      BY <1>1
    <2>3. l \in T
      BY <2>1, <2>2
    <2> HIDE DEF Good
    <2> QED
      BY <2>2, <2>3
  <1> QED
    BY <1>2, <1>8 DEF l

\* eh_hashtbl_for_each_safe
LEMMA WalkIs ==
  ASSUME NEW C, TableIs(hashTable, C)
  PROVE  IsInjective(HashWalk) /\ ToSet(HashWalk) = NodesIn(hashTable, C)
  <1> DEFINE seqs == [i \in 1 .. C |-> IF HashMade(i - 1) THEN hashTable[i - 1] ELSE << >>]
  <1>1. C \in Nat \ {0} /\ HashSize = C
    BY HashTableIs DEF TableIs
  <1>2. HashWalk = FlattenSeq(seqs)
    BY <1>1 DEF HashWalk
  <1>3. \A i \in 1 .. C : seqs[i] = Listed(hashTable[i - 1]) /\ i - 1 \in 0 .. C - 1
    <2> TAKE i \in 1 .. C
    <2>1. seqs[i] = IF HashMade(i - 1) THEN hashTable[i - 1] ELSE << >>
      OBVIOUS
    <2>2. i - 1 \in 0 .. C - 1
      BY <1>1
    <2> HIDE DEF seqs
    <2> QED
      BY <2>1, <2>2 DEF HashMade, Listed
  <1>4. ASSUME NEW i \in 1 .. C
        PROVE  /\ seqs[i] \in Seq(HashNodes) /\ Once(seqs[i])
               /\ \A n : Among(n, seqs[i]) <=> InBucket(hashTable, n, i - 1)
    <2> DEFINE j == i - 1
    <2>1. j \in 0 .. C - 1 /\ seqs[i] = Listed(hashTable[j])
      BY <1>3
    <2> HIDE DEF j, seqs
    <2>2. /\ Listed(hashTable[j]) \in Seq(HashNodes) /\ Once(Listed(hashTable[j]))
          /\ \A n : Among(n, Listed(hashTable[j])) <=> InBucket(hashTable, n, j)
      BY <2>1, BucketIs
    <2> QED
      BY <2>1, <2>2 DEF j
  <1>5. seqs \in [1 .. C -> Seq(HashNodes)]
    <2>1. seqs = [i \in 1 .. C |-> seqs[i]]
      OBVIOUS
    <2> HIDE DEF seqs
    <2> QED
      BY <1>4, <2>1
  <1> HIDE DEF seqs
  <1>6. seqs \in Seq(Seq(HashNodes)) /\ Len(seqs) = C
    <2> DEFINE Q == Seq(HashNodes)
    <2>1. seqs \in [1 .. C -> Q]
      BY <1>5
    <2> HIDE DEF Q
    <2>2. seqs \in Seq(Q) /\ Len(seqs) = C
      BY <1>1, <2>1
    <2> QED
      BY <2>2 DEF Q
  <1>7. AllApart(seqs, HashNodes)
    <2>1. ASSUME NEW i \in 1 .. C, NEW j \in 1 .. C, NEW n, Among(n, seqs[i]), Among(n, seqs[j])
          PROVE  i = j
      <3>1. InBucket(hashTable, n, i - 1) /\ InBucket(hashTable, n, j - 1)
        BY <1>4, <2>1
      <3>2. i - 1 = j - 1
        BY <1>3, <3>1 DEF TableIs
      <3> QED
        BY <1>1, <3>2
    <2> QED
      BY <1>1, <1>4, <1>6, <2>1 DEF AllApart
  <1>8. /\ HashWalk \in Seq(HashNodes) /\ Once(HashWalk)
        /\ \A n : Among(n, HashWalk) <=> \E i \in 1 .. C : Among(n, seqs[i])
    BY <1>2, <1>6, <1>7, FlattenIs
  <1>9. \A n : Among(n, HashWalk) <=> n \in NodesIn(hashTable, C)
    <2>1. \A i \in 0 .. C - 1 : i + 1 \in 1 .. C /\ (i + 1) - 1 = i
      BY <1>1
    <2>2. \A n : (\E i \in 1 .. C : Among(n, seqs[i])) <=> \E j \in 0 .. C - 1 : InBucket(hashTable, n, j)
      <3> TAKE n
      <3>1. ASSUME NEW j \in 0 .. C - 1, InBucket(hashTable, n, j)
            PROVE  \E i \in 1 .. C : Among(n, seqs[i])
        <4> DEFINE i == j + 1
        <4>1. i \in 1 .. C /\ i - 1 = j
          BY <2>1
        <4> HIDE DEF i
        <4>2. Among(n, seqs[i])
          BY <1>4, <3>1, <4>1
        <4> QED
          BY <4>1, <4>2
      <3> QED
        BY <1>3, <1>4, <3>1
    <2> QED
      BY <1>8, <2>2, NodeIn
  <1> QED
    BY <1>8, <1>9 DEF IsInjective, ToSet, Once, Among

\* eh_hashtbl_find
LEMMA FoundIs ==
  ASSUME NEW Z, NEW C, Tabled(hashTable, Z, C), HomesAre(hashTable, Z, C, hashKey), NEW k \in HashKeys
  PROVE  HashFound(k) = {n \in NodesIn(hashTable, C) : hashKey[n] = k}
  <1> DEFINE h == k.hash
             i == HashIndex(hashTable, h)
             r == HashRemade(hashTable, i)
  <1>1. HashMin \in Nat \ {0} /\ C \in Nat \ {0} /\ TableIs(hashTable, C) /\ TowerOf(Z, C) /\ h \in Nat
    BY HashAssumption DEF Tabled, TableIs
  <1>2. HashFound(k) = {n \in Range(r[i]) : hashKey[n] = k}
    BY DEF HashFound
  <1> HIDE DEF h
  <1>3. i = h % C
    BY <1>1, TableSize
  <1> HIDE DEF i
  <1>4. i \in 0 .. C - 1
    <2>1. C \in Nat \ {0} /\ h \in Int
      BY <1>1
    <2> QED
      BY <1>3, <2>1, Modulus
  <1>5. RemadeWell(hashTable, r, Z, C, i)
    BY <1>4, HomesRemade
  <1> HIDE DEF r
  <1>6. /\ TableIs(r, C) /\ HomesAre(r, Z, C, hashKey) /\ r[i] # HashUnmade
        /\ \A n : (\E j \in 0 .. C - 1 : InBucket(r, n, j)) <=> n \in NodesIn(hashTable, C)
    BY <1>1, <1>5, NodeIn DEF RemadeWell, Tabled
  <1>7. \A n : n \in Range(r[i]) <=> InBucket(r, n, i)
    <2>1. r[i] \in Seq(HashNodes)
      BY <1>4, <1>6 DEF TableIs
    <2>2. DOMAIN r[i] = 1 .. Len(r[i])
      BY <2>1
    <2> QED
      BY <1>6, <2>2 DEF InBucket, Among, Range
  <1>8. ASSUME NEW n, n \in Range(r[i])
        PROVE  n \in NodesIn(hashTable, C)
    BY <1>4, <1>6, <1>7, <1>8
  <1>9. ASSUME NEW n, n \in NodesIn(hashTable, C), hashKey[n] = k
        PROVE  n \in Range(r[i])
    <2>1. PICK j \in 0 .. C - 1 : InBucket(r, n, j)
      BY <1>6, <1>9
    <2>2. Home(r, Z, h, j)
      BY <1>6, <1>9, <2>1 DEF HomesAre, h
    <2>3. Home(r, Z, h, h % C)
      BY <1>1, <1>3, <1>6, HomeAtTop
    <2>4. j = i
      BY <1>1, <1>3, <2>2, <2>3, HomeOnce
    <2> QED
      BY <1>7, <2>1, <2>4
  <1> QED
    BY <1>2, <1>8, <1>9

\* The invariant says what a find and a walk see.
LEMMA HashIInvIs ==
  ASSUME HashIInv
  PROVE  HashInv
  <1> SUFFICES ASSUME HashExists PROVE HashInv
    BY DEF HashInv
  <1> DEFINE inserted == {n \in HashNodes : HashInserted(n)}
  <1>1. PICK Z, C : Holding(hashTable, Z, C, hashKey, hashCount, hashThreshold)
    BY TableThere
  <1>2. Tabled(hashTable, Z, C) /\ HomesAre(hashTable, Z, C, hashKey) /\ TableIs(hashTable, C)
    BY <1>1 DEF Holding, Tabled
  <1>3. inserted = NodesIn(hashTable, C)
    BY <1>2, HashTableIs DEF NodesIn
  <1> HIDE DEF inserted
  <1>4. \A k \in HashKeys : HashFound(k) = {n \in inserted : hashKey[n] = k}
    BY <1>2, <1>3, FoundIs
  <1>5. IsInjective(HashWalk) /\ ToSet(HashWalk) = inserted
    BY <1>2, <1>3, WalkIs
  <1>6. hashCount = Cardinality(inserted) /\ hashCount < hashThreshold
    BY <1>1, <1>3 DEF Holding
  <1>7. inserted \subseteq HashAllocated
    BY <1>1, <1>3, HeldAllocated DEF HashAllocated
  <1> QED
    BY <1>4, <1>5, <1>6, <1>7, Zenon DEF HashInv, inserted

\* Theorem: for any keys, any finite set of nodes and any minimal size, after any insertions,
\* removals, renewals, key changes and growths, except that no key is changed to one whose bucket
\* is unmade (hypothesis HashAvoidsTrap; eh_hashtbl_node_key_refresh stores through a null pointer
\* then, as the run hash_refreshed shows): eh_hashtbl_find sees exactly the nodes in the table
\* that have the key, though eh_hashtbl_resize leaves the new half of the buckets unmade and
\* eh_hashtbl_try_remake fills them one by one; eh_hashtbl_for_each_safe meets every node once, and
\* the count is right and below the threshold.
THEOREM HashTableFinds == HashSpec /\ [][HashAvoidsTrap]_hashVars => []HashInv
  BY HashHolds, HashIInvIs, PTL

==============================================================================
