----------------------------- MODULE EhIdle_proofs -----------------------------
(***************************************************************************)
(* Proofs about timers and the idle state: the tree of the running timers, *)
(* which is ordered by a clock that moves and wraps, behaves as alarms do; *)
(* and no thread sleeps longer than a ready task or the first deadline     *)
(* allows without its wake-up being on the way.                            *)
(***************************************************************************)
EXTENDS EhIdle, FiniteSetTheorems, TLAPS

-----------------------------------------------------------------------------
(***************************************************************************)
(* The clock: signed differences of numbers that wrap.                     *)
(***************************************************************************)

Half == ClockMod \div 2
Clocks == 0 .. ClockMod - 1

LEMMA ClockFacts ==
  /\ ClockMod \in Nat /\ ClockMod > 0 /\ Half \in Nat /\ Half > 0
  /\ ClockMod = Half + Half
  BY TimerConstants DEF Half

LEMMA ModFacts ==
  ASSUME NEW x \in Int
  PROVE  /\ x % ClockMod \in Clocks
         /\ \E k \in Int : x = (x % ClockMod) + k * ClockMod
  <1>1. x % ClockMod \in Clocks
    BY ClockFacts DEF Clocks
  <1>2. x = ClockMod * (x \div ClockMod) + (x % ClockMod) /\ x \div ClockMod \in Int
    BY ClockFacts
  <1>3. x = (x % ClockMod) + (x \div ClockMod) * ClockMod
    BY <1>1, <1>2, ClockFacts DEF Clocks
  <1> QED
    BY <1>1, <1>2, <1>3

\* Numbers that differ by a multiple of the modulus, both within one period.
LEMMA OnePeriod ==
  ASSUME NEW d \in Int, NEW e \in Int, NEW k \in Int, d = e + k * ClockMod,
         d - e < ClockMod, e - d < ClockMod
  PROVE  d = e
  <1>1. CASE k = 0
    BY <1>1, ClockFacts
  <1>2. CASE k >= 1
    <2>1. k * ClockMod >= ClockMod
      BY <1>2, ClockFacts
    <2> QED
      BY <2>1, ClockFacts
  <1>3. CASE k <= -1
    <2>1. k * ClockMod <= -ClockMod
      BY <1>3, ClockFacts
    <2> QED
      BY <2>1, ClockFacts
  <1> QED
    BY <1>1, <1>2, <1>3

\* What eh_diff_time returns, and that nothing else fits.
LEMMA DiffFacts ==
  ASSUME NEW a \in Int, NEW b \in Int
  PROVE  /\ Diff(a, b) \in -Half .. Half - 1
         /\ \E k \in Int : a - b = Diff(a, b) + k * ClockMod
  <1>1. PICK k \in Int : a - b = ((a - b) % ClockMod) + k * ClockMod
    BY ModFacts
  <1>2. (a - b) % ClockMod \in Clocks
    BY ModFacts
  <1> DEFINE d == (a - b) % ClockMod
  <1>3. CASE d < Half
    <2>1. Diff(a, b) = d
      BY <1>3 DEF Diff, Half
    <2>2. d \in Clocks /\ a - b = d + k * ClockMod
      BY <1>1, <1>2
    <2> HIDE DEF d
    <2>3. d \in -Half .. Half - 1
      BY <1>3, <2>2, ClockFacts DEF Clocks
    <2> QED
      BY <2>1, <2>2, <2>3
  <1>4. CASE ~(d < Half)
    <2>1. Diff(a, b) = d - ClockMod
      BY <1>4 DEF Diff, Half
    <2>2. d \in Clocks /\ a - b = d + k * ClockMod
      BY <1>1, <1>2
    <2> HIDE DEF d
    <2>3. (k + 1) * ClockMod = k * ClockMod + ClockMod
      BY ClockFacts
    <2>4. a - b = (d - ClockMod) + (k + 1) * ClockMod
      BY <2>2, <2>3, ClockFacts DEF Clocks
    <2>5. d - ClockMod \in -Half .. Half - 1
      BY <1>4, <2>2, ClockFacts DEF Clocks
    <2> QED
      BY <2>1, <2>4, <2>5
  <1> QED
    BY <1>3, <1>4

LEMMA DiffIs ==
  ASSUME NEW a \in Int, NEW b \in Int, NEW d \in -Half .. Half - 1, NEW k \in Int,
         a - b = d + k * ClockMod
  PROVE  Diff(a, b) = d
  <1>1. PICK l \in Int : a - b = Diff(a, b) + l * ClockMod
    BY DiffFacts
  <1>2. (k - l) * ClockMod = k * ClockMod - l * ClockMod
    BY ClockFacts
  <1>3. Diff(a, b) \in -Half .. Half - 1
    BY DiffFacts
  <1>4. k * ClockMod \in Int /\ l * ClockMod \in Int
    BY ClockFacts
  <1>5. Diff(a, b) = d + (k - l) * ClockMod
    BY <1>1, <1>2, <1>3, <1>4, ClockFacts
  <1>6. Diff(a, b) - d < ClockMod /\ d - Diff(a, b) < ClockMod
    BY <1>3, ClockFacts
  <1> QED
    BY <1>3, <1>5, <1>6, OnePeriod

\* A moment x later than a, and the same seen from a moment x later.
LEMMA DiffLater ==
  ASSUME NEW a \in Int, NEW b \in Int, NEW x \in Int,
         Diff(a, b) + x \in -Half .. Half - 1
  PROVE  /\ Diff(a + x, b) = Diff(a, b) + x
         /\ Diff((a + x) % ClockMod, b) = Diff(a, b) + x
  <1>1. PICK k \in Int : a - b = Diff(a, b) + k * ClockMod
    BY DiffFacts
  <1>2. PICK l \in Int : a + x = ((a + x) % ClockMod) + l * ClockMod
    BY ModFacts
  <1>3. /\ Diff(a, b) \in Int /\ (a + x) % ClockMod \in Int
        /\ k * ClockMod \in Int /\ l * ClockMod \in Int
    BY DiffFacts, ModFacts, ClockFacts DEF Clocks
  <1>4. (k - l) * ClockMod = k * ClockMod - l * ClockMod
    BY ClockFacts
  <1>5. (a + x) - b = (Diff(a, b) + x) + k * ClockMod
    <2> DEFINE y == k * ClockMod
    <2>1. a - b = Diff(a, b) + y /\ y \in Int /\ Diff(a, b) \in Int
      BY <1>1, <1>3
    <2>2. (a + x) - b = (a - b) + x
      OBVIOUS
    <2> HIDE DEF y
    <2>3. (a + x) - b = (Diff(a, b) + x) + y
      BY <2>1, <2>2
    <2> QED
      BY <2>3 DEF y
  <1>6. ((a + x) % ClockMod) - b = (Diff(a, b) + x) + (k - l) * ClockMod
    BY <1>1, <1>2, <1>3, <1>4
  <1> QED
    BY <1>3, <1>5, <1>6, DiffIs

LEMMA DiffFromLater ==
  ASSUME NEW a \in Int, NEW b \in Int, NEW x \in Int,
         Diff(a, b) - x \in -Half .. Half - 1
  PROVE  Diff(a, (b + x) % ClockMod) = Diff(a, b) - x
  <1>1. PICK k \in Int : a - b = Diff(a, b) + k * ClockMod
    BY DiffFacts
  <1>2. PICK l \in Int : b + x = ((b + x) % ClockMod) + l * ClockMod
    BY ModFacts
  <1>3. /\ Diff(a, b) \in Int /\ (b + x) % ClockMod \in Int
        /\ k * ClockMod \in Int /\ l * ClockMod \in Int
    BY DiffFacts, ModFacts, ClockFacts DEF Clocks
  <1>4. (k + l) * ClockMod = k * ClockMod + l * ClockMod
    BY ClockFacts
  <1>5. a - ((b + x) % ClockMod) = (Diff(a, b) - x) + (k + l) * ClockMod
    BY <1>1, <1>2, <1>3, <1>4
  <1> QED
    BY <1>3, <1>5, DiffIs

\* Differences add up.
LEMMA DiffSum ==
  ASSUME NEW a \in Int, NEW b \in Int, NEW c \in Int,
         Diff(a, b) + Diff(b, c) \in -Half .. Half - 1
  PROVE  Diff(a, c) = Diff(a, b) + Diff(b, c)
  <1>1. PICK k \in Int : a - b = Diff(a, b) + k * ClockMod
    BY DiffFacts
  <1>2. PICK l \in Int : b - c = Diff(b, c) + l * ClockMod
    BY DiffFacts
  <1>3. /\ Diff(a, b) \in Int /\ Diff(b, c) \in Int
        /\ k * ClockMod \in Int /\ l * ClockMod \in Int
    BY DiffFacts, ClockFacts
  <1>4. (k + l) * ClockMod = k * ClockMod + l * ClockMod
    BY ClockFacts
  <1>5. a - c = (Diff(a, b) + Diff(b, c)) + (k + l) * ClockMod
    BY <1>1, <1>2, <1>3, <1>4
  <1> QED
    BY <1>3, <1>5, DiffIs

\* The same difference without the part they share.
LEMMA DiffBetween ==
  ASSUME NEW a \in Int, NEW b \in Int, NEW c \in Int,
         Diff(a, c) - Diff(b, c) \in -Half .. Half - 1
  PROVE  Diff(a, b) = Diff(a, c) - Diff(b, c)
  <1>1. PICK k \in Int : a - c = Diff(a, c) + k * ClockMod
    BY DiffFacts
  <1>2. PICK l \in Int : b - c = Diff(b, c) + l * ClockMod
    BY DiffFacts
  <1>3. /\ Diff(a, c) \in Int /\ Diff(b, c) \in Int
        /\ k * ClockMod \in Int /\ l * ClockMod \in Int
    BY DiffFacts, ClockFacts
  <1>4. (k - l) * ClockMod = k * ClockMod - l * ClockMod
    BY ClockFacts
  <1>5. a - b = (Diff(a, c) - Diff(b, c)) + (k - l) * ClockMod
    <2> DEFINE x == k * ClockMod
               y == l * ClockMod
    <2>1. /\ a - c = Diff(a, c) + x /\ b - c = Diff(b, c) + y
          /\ x \in Int /\ y \in Int
          /\ (k - l) * ClockMod = x - y
      BY <1>1, <1>2, <1>3, <1>4
    <2> HIDE DEF x, y
    <2>2. a - b = (a - c) - (b - c)
      OBVIOUS
    <2>3. a - b = (Diff(a, c) - Diff(b, c)) + (x - y)
      BY <1>3, <2>1, <2>2
    <2> QED
      BY <2>1, <2>3
  <1> QED
    BY <1>3, <1>5, DiffIs

LEMMA DiffSelf ==
  ASSUME NEW a \in Int
  PROVE  Diff(a, a) = 0
  <1>1. a - a = 0 + 0 * ClockMod /\ 0 \in -Half .. Half - 1
    BY ClockFacts
  <1> QED
    BY <1>1, DiffIs

\* Clocks without a difference are equal.
LEMMA DiffZero ==
  ASSUME NEW a \in Clocks, NEW b \in Clocks, Diff(a, b) = 0
  PROVE  a = b
  <1>1. PICK k \in Int : a - b = 0 + k * ClockMod
    BY DiffFacts DEF Clocks
  <1>2. a = b + k * ClockMod
    <2>1. k * ClockMod \in Int
      BY ClockFacts
    <2> QED
      BY <1>1, <2>1 DEF Clocks
  <1> QED
    BY <1>2, ClockFacts, OnePeriod DEF Clocks

-----------------------------------------------------------------------------
(***************************************************************************)
(* The tree: lists without repetition, ordered by what f says of their     *)
(* members.                                                                *)
(***************************************************************************)

Sorted(s, f) == \A i, j \in DOMAIN s : i < j => f[s[i]] <= f[s[j]]

\* A list whose members are among those of s, in the same order.
SubList(r, s, S) ==
  /\ r \in Seq(Timers) /\ IsInjective(r) /\ Range(r) = S
  /\ \A f : Sorted(s, f) => Sorted(r, f)

\* Two lists in a row.
LEMMA ConcatFacts ==
  ASSUME NEW u \in Seq(Timers), NEW v \in Seq(Timers)
  PROVE  /\ u \o v \in Seq(Timers) /\ Len(u \o v) = Len(u) + Len(v)
         /\ DOMAIN (u \o v) = 1 .. Len(u) + Len(v)
         /\ \A i \in 1 .. Len(u) + Len(v) :
              (u \o v)[i] = IF i <= Len(u) THEN u[i] ELSE v[i - Len(u)]
  OBVIOUS

\* A list cut in two.
LEMMA CutFacts ==
  ASSUME NEW s \in Seq(Timers), NEW c \in Nat, c <= Len(s)
  PROVE  /\ SubSeq(s, 1, c) \in Seq(Timers) /\ Len(SubSeq(s, 1, c)) = c
         /\ \A i \in 1 .. c : SubSeq(s, 1, c)[i] = s[i]
         /\ SubSeq(s, c + 1, Len(s)) \in Seq(Timers)
         /\ Len(SubSeq(s, c + 1, Len(s))) = Len(s) - c
         /\ \A i \in 1 .. Len(s) - c : SubSeq(s, c + 1, Len(s))[i] = s[i + c]
  OBVIOUS

\* What eh_rb_del does to the tree.
LEMMA TreeDelMembers ==
  ASSUME NEW s \in Seq(Timers), NEW t \in Timers, IsInjective(s)
  PROVE  SubList(TreeDel(s, t), s, Range(s) \ {t})
  <1>1. CASE t \notin Range(s)
    BY <1>1 DEF TreeDel, SubList
  <1>2. CASE t \in Range(s)
    <2>1. PICK k \in DOMAIN s : s[k] = t /\ TreeDel(s, t) = RemoveAt(s, k)
      BY <1>2, Zenon DEF TreeDel, Range
    <2> DEFINE n == Len(s)
               x == SubSeq(s, 1, k - 1)
               y == SubSeq(s, k + 1, n)
               r == x \o y
               at(l) == IF l < k THEN l ELSE l + 1
    <2>2. /\ n \in Nat /\ DOMAIN s = 1 .. n /\ k \in 1 .. n
          /\ x \in Seq(Timers) /\ y \in Seq(Timers)
          /\ Len(x) = k - 1 /\ Len(y) = n - k
          /\ \A i \in 1 .. k - 1 : x[i] = s[i]
          /\ \A i \in 1 .. n - k : y[i] = s[i + k]
      OBVIOUS
    <2>3. TreeDel(s, t) = r
      BY <2>1 DEF RemoveAt
    <2> HIDE DEF n, x, y
    <2>4. /\ r \in Seq(Timers) /\ Len(r) = Len(x) + Len(y)
          /\ DOMAIN r = 1 .. Len(x) + Len(y)
          /\ \A i \in 1 .. Len(x) + Len(y) :
               r[i] = IF i <= Len(x) THEN x[i] ELSE y[i - Len(x)]
      BY <2>2, ConcatFacts
    <2> HIDE DEF r
    <2>5. Len(x) + Len(y) = n - 1 /\ n \in Nat /\ k \in Nat /\ 1 <= k /\ k <= n
      BY <2>2
    <2>6. DOMAIN r = 1 .. n - 1
      BY <2>4, <2>5
    <2>7. ASSUME NEW i \in 1 .. n - 1
          PROVE  at(i) \in 1 .. n /\ at(i) # k /\ r[i] = s[at(i)]
      <3>1. CASE i < k
        <4>1. i \in 1 .. k - 1 /\ i <= Len(x) /\ i \in 1 .. Len(x) + Len(y)
          BY <2>2, <2>5, <3>1
        <4> QED
          BY <2>2, <2>4, <2>5, <3>1, <4>1
      <3>2. CASE ~(i < k)
        <4>1. /\ i - (k - 1) \in 1 .. n - k /\ i - (k - 1) + k = i + 1
              /\ ~(i <= Len(x)) /\ i \in 1 .. Len(x) + Len(y) /\ i - Len(x) = i - (k - 1)
              /\ i + 1 \in 1 .. n /\ i + 1 # k
          BY <2>2, <2>5, <3>2, SMTT(30)
        <4>2. r[i] = y[i - (k - 1)]
          BY <2>4, <4>1
        <4>3. y[i - (k - 1)] = s[i + 1]
          BY <2>2, <4>1
        <4> QED
          BY <3>2, <4>1, <4>2, <4>3
      <3> QED
        BY <3>1, <3>2
    <2>8. \A i, j \in 1 .. n - 1 : /\ i < j => at(i) < at(j)
                                   /\ at(i) = at(j) => i = j
      BY <2>5
    <2>9. \A j \in 1 .. n : j # k => \E i \in 1 .. n - 1 : at(i) = j
      <3> SUFFICES ASSUME NEW j \in 1 .. n, j # k
                   PROVE  \E i \in 1 .. n - 1 : at(i) = j
        OBVIOUS
      <3>1. CASE j < k
        <4>1. j \in 1 .. n - 1 /\ at(j) = j
          BY <2>5, <3>1
        <4> QED
          BY <4>1
      <3>2. CASE j > k
        <4>1. j - 1 \in 1 .. n - 1 /\ at(j - 1) = j
          BY <2>5, <3>2
        <4> QED
          BY <4>1
      <3> QED
        BY <2>5, <3>1, <3>2
    <2> HIDE DEF at
    <2>10. IsInjective(r)
      BY <2>2, <2>6, <2>7, <2>8 DEF IsInjective
    <2>11. Range(r) = Range(s) \ {t}
      <3>1. \A f : f \in Range(r) => f \in Range(s) /\ f # t
        BY <2>1, <2>2, <2>6, <2>7 DEF Range, IsInjective
      <3>2. ASSUME NEW f \in Range(s), f # t
            PROVE  f \in Range(r)
        <4>1. PICK j \in 1 .. n : s[j] = f
          BY <2>2 DEF Range
        <4>2. j # k
          BY <2>1, <3>2, <4>1
        <4>3. PICK i \in 1 .. n - 1 : at(i) = j
          BY <2>9, <4>1, <4>2
        <4>4. r[i] = f
          BY <2>7, <4>1, <4>3
        <4> QED
          BY <2>6, <4>4 DEF Range
      <3> QED
        BY <3>1, <3>2
    <2>12. ASSUME NEW f, Sorted(s, f)
           PROVE  Sorted(r, f)
      BY <2>2, <2>6, <2>7, <2>8, <2>12 DEF Sorted
    <2> QED
      BY <2>3, <2>4, <2>10, <2>11, <2>12 DEF SubList
  <1> QED
    BY <1>1, <1>2

\* The first timer is taken off.
LEMMA TailMembers ==
  ASSUME NEW s \in Seq(Timers), IsInjective(s), s # <<>>
  PROVE  SubList(Tail(s), s, Range(s) \ {Head(s)})
  <1> DEFINE n == Len(s)
             r == Tail(s)
  <1>1. /\ n \in Nat /\ n >= 1 /\ DOMAIN s = 1 .. n /\ Head(s) = s[1]
        /\ r \in Seq(Timers) /\ DOMAIN r = 1 .. n - 1
        /\ \A i \in 1 .. n - 1 : r[i] = s[i + 1]
    OBVIOUS
  <1> HIDE DEF n, r
  <1>2. \A i \in 1 .. n - 1 : i + 1 \in 1 .. n /\ i + 1 # 1
    BY <1>1
  <1>3. \A j \in 1 .. n : j # 1 => j - 1 \in 1 .. n - 1 /\ (j - 1) + 1 = j
    BY <1>1
  <1>4. 1 \in 1 .. n
    BY <1>1
  <1>5. IsInjective(r)
    <2> SUFFICES ASSUME NEW i \in 1 .. n - 1, NEW j \in 1 .. n - 1, r[i] = r[j]
                 PROVE  i = j
      BY <1>1 DEF IsInjective
    <2>1. i + 1 = j + 1
      BY <1>1, <1>2, ZenonT(40) DEF IsInjective
    <2> QED
      BY <1>1, <2>1
  <1>6. Range(r) = Range(s) \ {Head(s)}
    <2>1. ASSUME NEW i \in 1 .. n - 1
          PROVE  r[i] \in Range(s) /\ r[i] # Head(s)
      <3>1. i + 1 \in DOMAIN s /\ 1 \in DOMAIN s /\ i + 1 # 1 /\ r[i] = s[i + 1]
        BY <1>1, <1>2, <1>4
      <3>2. s[i + 1] # s[1]
        BY <3>1 DEF IsInjective
      <3> QED
        BY <1>1, <3>1, <3>2 DEF Range
    <2>2. ASSUME NEW f \in Range(s), f # Head(s)
          PROVE  f \in Range(r)
      <3>1. PICK j \in 1 .. n : s[j] = f
        BY <1>1 DEF Range
      <3>2. j - 1 \in 1 .. n - 1 /\ (j - 1) + 1 = j
        BY <1>1, <1>3, <2>2, <3>1
      <3>3. r[j - 1] = f
        BY <1>1, <3>1, <3>2
      <3> QED
        BY <1>1, <3>2, <3>3 DEF Range
    <2>3. \A f \in Range(r) : f \in Range(s) /\ f # Head(s)
      BY <1>1, <2>1 DEF Range
    <2> QED
      BY <2>2, <2>3
  <1>7. ASSUME NEW f, Sorted(s, f)
        PROVE  Sorted(r, f)
    <2> SUFFICES ASSUME NEW i \in 1 .. n - 1, NEW j \in 1 .. n - 1, i < j
                 PROVE  f[r[i]] <= f[r[j]]
      BY <1>1 DEF Sorted
    <2>1. i + 1 < j + 1
      BY <1>1
    <2> QED
      BY <1>1, <1>2, <1>7, <2>1, ZenonT(40) DEF Sorted
  <1>8. SubList(r, s, Range(s) \ {Head(s)})
    BY <1>1, <1>5, <1>6, <1>7 DEF SubList
  <1> QED
    BY <1>8 DEF r

\* A set of positions that holds all those before each of its members is the
\* beginning of the list.
LEMMA Beginning ==
  ASSUME NEW n \in Nat, NEW P \in SUBSET (1 .. n),
         \A i \in P, j \in 1 .. n : j < i => j \in P
  PROVE  /\ Cardinality(P) \in 0 .. n
         /\ P = 1 .. Cardinality(P)
  <1> DEFINE c == Cardinality(P)
  <1>1. IsFiniteSet(1 .. n) /\ Cardinality(1 .. n) = n
    BY FS_Interval
  <1>2. IsFiniteSet(P) /\ c \in Nat /\ c <= n
    BY <1>1, FS_Subset, FS_CardinalityType
  <1> HIDE DEF c
  <1>3. 1 .. c \subseteq P
    <2> SUFFICES ASSUME NEW x \in 1 .. c, x \notin P
                 PROVE  FALSE
      OBVIOUS
    <2>1. P \subseteq 1 .. x - 1
      BY <1>2
    <2>2. IsFiniteSet(1 .. x - 1) /\ Cardinality(1 .. x - 1) = x - 1
      BY <1>2, FS_Interval
    <2>3. c <= x - 1
      BY <2>1, <2>2, FS_Subset, ZenonT(40) DEF c
    <2> QED
      BY <1>2, <2>3
  <1>4. Cardinality(1 .. c) = c
    BY <1>2, FS_Interval
  <1>5. 1 .. c = P
    BY <1>2, <1>3, <1>4, FS_Subset DEF c
  <1> QED
    BY <1>2, <1>5 DEF c

\* What eh_rb_add does: the timer goes behind all that have no more time left.
Place(s, t, D) == 1 + Cardinality({i \in DOMAIN s : D[s[i]] <= D[t]})

LEMMA InsertMembers ==
  ASSUME NEW s \in Seq(Timers), NEW t \in Timers, NEW D \in [Timers -> Int],
         IsInjective(s), t \notin Range(s), Sorted(s, D),
         NEW r, r = InsertAt(s, Place(s, t, D), t)
  PROVE  /\ r \in Seq(Timers) /\ IsInjective(r) /\ Range(r) = Range(s) \cup {t}
         /\ Sorted(r, D)
         /\ Head(r) = t \/ (s # <<>> /\ Head(r) = Head(s))
  <1> DEFINE n == Len(s)
             P == {i \in DOMAIN s : D[s[i]] <= D[t]}
             c == Cardinality(P)
             x == SubSeq(s, 1, c)
             y == SubSeq(s, c + 1, n)
             z == x \o <<t>>
             at(i) == IF i <= c THEN i ELSE i - 1
  <1>1. /\ n \in Nat /\ DOMAIN s = 1 .. n
        /\ \A i \in 1 .. n : s[i] \in Timers /\ D[s[i]] \in Int
        /\ D[t] \in Int
    OBVIOUS
  <1>2. /\ c \in 0 .. n /\ P = 1 .. c
    <2>1. P \in SUBSET (1 .. n)
      BY <1>1
    <2>2. ASSUME NEW i \in P, NEW j \in 1 .. n, j < i
          PROVE  j \in P
      <3>1. i \in 1 .. n /\ D[s[i]] <= D[t]
        BY <1>1
      <3>2. D[s[j]] <= D[s[i]]
        BY <1>1, <2>2, <3>1 DEF Sorted
      <3>3. D[s[j]] <= D[t]
        BY <1>1, <3>1, <3>2
      <3> QED
        BY <1>1, <3>3
    <2> HIDE DEF P
    <2> QED
      BY <1>1, <2>1, <2>2, Beginning
  <1>3. \A i \in 1 .. n : i <= c <=> D[s[i]] <= D[t]
    <2>1. \A i \in 1 .. n : i \in P <=> D[s[i]] <= D[t]
      BY <1>1
    <2> HIDE DEF P, c
    <2> QED
      BY <1>1, <1>2, <2>1
  <1>4. r = z \o y
    <2>1. r = SubSeq(s, 1, (1 + c) - 1) \o <<t>> \o SubSeq(s, 1 + c, n)
      BY DEF InsertAt, Place
    <2>2. c \in Int
      BY <1>2
    <2> HIDE DEF c
    <2>3. (1 + c) - 1 = c /\ 1 + c = c + 1
      BY <2>2
    <2> QED
      BY <2>1, <2>3
  <1> HIDE DEF P, c
  <1>5. /\ x \in Seq(Timers) /\ Len(x) = c /\ y \in Seq(Timers) /\ Len(y) = n - c
        /\ \A i \in 1 .. c : x[i] = s[i]
        /\ \A i \in 1 .. n - c : y[i] = s[i + c]
    <2>1. c \in Nat /\ c <= Len(s)
      BY <1>1, <1>2
    <2> QED
      BY <2>1, CutFacts
  <1> HIDE DEF n, x, y
  <1>6. /\ z \in Seq(Timers) /\ Len(z) = c + 1 /\ z[c + 1] = t
        /\ \A i \in 1 .. c : z[i] = x[i]
    BY <1>2, <1>5
  <1> HIDE DEF z
  <1>7. /\ r \in Seq(Timers) /\ Len(r) = Len(z) + Len(y)
        /\ DOMAIN r = 1 .. Len(z) + Len(y)
        /\ \A i \in 1 .. Len(z) + Len(y) :
             r[i] = IF i <= Len(z) THEN z[i] ELSE y[i - Len(z)]
    <2>1. z \in Seq(Timers) /\ y \in Seq(Timers)
      BY <1>5, <1>6
    <2>2. /\ z \o y \in Seq(Timers) /\ Len(z \o y) = Len(z) + Len(y)
          /\ DOMAIN (z \o y) = 1 .. Len(z) + Len(y)
          /\ \A i \in 1 .. Len(z) + Len(y) :
               (z \o y)[i] = IF i <= Len(z) THEN z[i] ELSE y[i - Len(z)]
      BY <2>1, ConcatFacts
    <2> QED
      BY <1>4, <2>2, Zenon
  <1>8. DOMAIN r = 1 .. n + 1 /\ Len(r) = n + 1
    BY <1>1, <1>2, <1>5, <1>6, <1>7
  <1>9. ASSUME NEW i \in 1 .. n + 1, i # c + 1
        PROVE  at(i) \in 1 .. n /\ r[i] = s[at(i)]
    <2>1. CASE i <= c
      <3>1. i \in 1 .. c /\ i <= Len(z) /\ i \in 1 .. Len(z) + Len(y) /\ i \in 1 .. n
        BY <1>1, <1>2, <1>5, <1>6, <2>1
      <3> QED
        BY <1>5, <1>6, <1>7, <2>1, <3>1
    <2>2. CASE ~(i <= c)
      <3>1. /\ i - (c + 1) \in 1 .. n - c /\ (i - (c + 1)) + c = i - 1
            /\ ~(i <= Len(z)) /\ i - Len(z) = i - (c + 1) /\ i \in 1 .. Len(z) + Len(y)
            /\ i - 1 \in 1 .. n
        BY <1>1, <1>2, <1>5, <1>6, <1>9, <2>2
      <3>2. r[i] = y[i - (c + 1)]
        BY <1>7, <3>1
      <3>3. y[i - (c + 1)] = s[i - 1]
        BY <1>5, <3>1
      <3> QED
        BY <2>2, <3>1, <3>2, <3>3
    <2> QED
      BY <2>1, <2>2
  <1>10. r[c + 1] = t /\ c + 1 \in 1 .. n + 1
    <2>1. c + 1 <= Len(z) /\ c + 1 \in 1 .. Len(z) + Len(y) /\ c + 1 \in 1 .. n + 1
      BY <1>1, <1>2, <1>5, <1>6
    <2> QED
      BY <1>6, <1>7, <2>1
  <1>11. \A i, j \in 1 .. n + 1 : /\ i < j /\ i # c + 1 /\ j # c + 1 => at(i) < at(j)
                                  /\ i # c + 1 /\ j # c + 1 /\ at(i) = at(j) => i = j
                                  /\ i < c + 1 => at(i) <= c
                                  /\ i > c + 1 => at(i) > c
    BY <1>1, <1>2
  <1>12. \A j \in 1 .. n : \E i \in 1 .. n + 1 : i # c + 1 /\ at(i) = j
    <2> SUFFICES ASSUME NEW j \in 1 .. n
                 PROVE  \E i \in 1 .. n + 1 : i # c + 1 /\ at(i) = j
      OBVIOUS
    <2>1. CASE j <= c
      <3>1. j \in 1 .. n + 1 /\ j # c + 1 /\ at(j) = j
        BY <1>1, <1>2, <2>1
      <3> QED
        BY <3>1
    <2>2. CASE ~(j <= c)
      <3>1. j + 1 \in 1 .. n + 1 /\ j + 1 # c + 1 /\ at(j + 1) = j
        BY <1>1, <1>2, <2>2
      <3> QED
        BY <3>1
    <2> QED
      BY <2>1, <2>2
  <1>13. n + 1 >= 1 /\ 1 \in 1 .. n + 1 /\ (1 # c + 1 => at(1) = 1 /\ n >= 1)
    BY <1>1, <1>2
  <1> HIDE DEF at
  <1>14. IsInjective(r)
    <2> SUFFICES ASSUME NEW i \in 1 .. n + 1, NEW j \in 1 .. n + 1, r[i] = r[j]
                 PROVE  i = j
      BY <1>8 DEF IsInjective
    <2>1. \A l \in 1 .. n + 1 : l # c + 1 => r[l] # t
      BY <1>1, <1>9 DEF Range
    <2>2. CASE i = c + 1 \/ j = c + 1
      BY <1>10, <2>1, <2>2
    <2>3. CASE i # c + 1 /\ j # c + 1
      BY <1>1, <1>9, <1>11, <2>3 DEF IsInjective
    <2> QED
      BY <2>2, <2>3
  <1>15. Range(r) = Range(s) \cup {t}
    <2>1. \A f : f \in Range(r) => f \in Range(s) \/ f = t
      BY <1>1, <1>8, <1>9, <1>10 DEF Range
    <2>2. ASSUME NEW f \in Range(s)
          PROVE  f \in Range(r)
      <3>1. PICK j \in 1 .. n : s[j] = f
        BY <1>1 DEF Range
      <3>2. PICK i \in 1 .. n + 1 : i # c + 1 /\ at(i) = j
        BY <1>12, <3>1
      <3>3. r[i] = f
        BY <1>9, <3>1, <3>2
      <3> QED
        BY <1>8, <3>3 DEF Range
    <2>3. t \in Range(r)
      BY <1>8, <1>10 DEF Range
    <2> QED
      BY <2>1, <2>2, <2>3
  <1>16. Sorted(r, D)
    <2> SUFFICES ASSUME NEW i \in 1 .. n + 1, NEW j \in 1 .. n + 1, i < j
                 PROVE  D[r[i]] <= D[r[j]]
      BY <1>8 DEF Sorted
    <2>1. CASE i = c + 1
      <3>1. j > c + 1 /\ j # c + 1
        BY <2>1
      <3>2. at(j) \in 1 .. n /\ at(j) > c /\ r[j] = s[at(j)]
        BY <1>9, <1>11, <3>1
      <3>3. ~(at(j) <= c)
        BY <1>2, <3>2
      <3>4. ~(D[s[at(j)]] <= D[t])
        BY <1>3, <3>2, <3>3
      <3> QED
        BY <1>1, <1>10, <2>1, <3>2, <3>4
    <2>2. CASE j = c + 1
      <3>1. i < c + 1 /\ i # c + 1
        BY <1>2, <2>2
      <3>2. at(i) \in 1 .. n /\ at(i) <= c /\ r[i] = s[at(i)]
        BY <1>9, <1>11, <3>1
      <3>3. D[s[at(i)]] <= D[t]
        BY <1>3, <3>2
      <3> QED
        BY <1>10, <2>2, <3>2, <3>3
    <2>3. CASE i # c + 1 /\ j # c + 1
      <3>1. at(i) < at(j) /\ at(i) \in 1 .. n /\ at(j) \in 1 .. n
            /\ r[i] = s[at(i)] /\ r[j] = s[at(j)]
        BY <1>9, <1>11, <2>3
      <3> QED
        BY <1>1, <3>1 DEF Sorted
    <2> QED
      BY <2>1, <2>2, <2>3
  <1>17. Head(r) = t \/ (s # <<>> /\ Head(r) = Head(s))
    <2>1. Head(r) = r[1] /\ (n >= 1 => s # <<>> /\ Head(s) = s[1])
      BY <1>7, <1>8, <1>13 DEF n
    <2>2. CASE c + 1 = 1
      BY <1>10, <2>1, <2>2
    <2>3. CASE c + 1 # 1
      BY <1>9, <1>13, <2>1, <2>3
    <2> QED
      BY <2>2, <2>3
  <1> QED
    BY <1>7, <1>14, <1>15, <1>16, <1>17

-----------------------------------------------------------------------------
(***************************************************************************)
(* Timers.  The history says what each of them has left; the tree is in    *)
(* its order, and seen from the clock, or from the moment eh_timer_check   *)
(* has read it at, the deadlines say the same although all of them wrap.   *)
(***************************************************************************)

Lag == Diff(clock, timerNow)

TimerIInv ==
  /\ clock \in Clocks /\ timerNow \in Clocks
  /\ expire \in [Timers -> Clocks]
  /\ interval \in [Timers -> Intervals]
  /\ kind = [t \in Timers |-> kind[t]]
  /\ checking \in BOOLEAN
  /\ tree \in Seq(Timers) /\ IsInjective(tree)
  /\ left \in [Range(tree) -> Int]
  /\ Sorted(tree, left)
  /\ \A t \in Range(tree) : /\ left[t] >= -(MaxLate + MaxLag)
                            /\ left[t] < Half
                            /\ Diff(expire[t], clock) = left[t]
  /\ checking => /\ Lag >= 0 /\ Lag <= MaxLag
                 /\ \A t \in Range(tree) : left[t] + Lag < Half

\* What the invariant says, at hand for the steps.
LEMMA TimerFacts ==
  ASSUME TimerIInv
  PROVE  /\ clock \in Int /\ clock \in Clocks /\ timerNow \in Int /\ timerNow \in Clocks
         /\ Lag \in Int
         /\ expire \in [Timers -> Clocks]
         /\ \A t \in Timers : expire[t] \in Int
         /\ \A t \in Timers : /\ interval[t] \in Intervals /\ interval[t] \in Nat
                              /\ interval[t] < Half
         /\ tree \in Seq(Timers) /\ IsInjective(tree) /\ Range(tree) \subseteq Timers
         /\ DOMAIN left = Range(tree) /\ \A t \in Range(tree) : left[t] \in Int
         /\ Sorted(tree, left)
         /\ MaxLate \in Nat /\ MaxLag \in Nat /\ MaxLate + MaxLag < Half
  <1>1. /\ \A i \in Clocks : i \in Int
        /\ \A d \in Intervals : d \in Nat /\ d < Half
    BY TimerConstants, ClockFacts DEF Clocks, Half
  <1>2. Lag \in Int
    BY <1>1, DiffFacts DEF TimerIInv, Lag
  <1>3. Range(tree) \subseteq Timers
    BY DEF TimerIInv, Range
  <1>4. MaxLate \in Nat /\ MaxLag \in Nat /\ MaxLate + MaxLag < Half
    BY TimerConstants DEF Half
  <1> QED
    BY <1>1, <1>2, <1>3, <1>4 DEF TimerIInv

\* Seen from the moment eh_timer_check has read, each timer has Lag more left.
LEMMA CheckFacts ==
  ASSUME TimerIInv, checking, NEW t \in Range(tree)
  PROVE  Diff(expire[t], timerNow) = left[t] + Lag
  <1>1. /\ expire[t] \in Int /\ clock \in Int /\ timerNow \in Int
        /\ left[t] \in Int /\ Lag \in Int
    BY TimerFacts
  <1>2. /\ Diff(expire[t], clock) = left[t] /\ Diff(clock, timerNow) = Lag
        /\ left[t] >= -(MaxLate + MaxLag) /\ Lag >= 0 /\ left[t] + Lag < Half
    BY DEF TimerIInv, Lag
  <1>3. left[t] + Lag \in -Half .. Half - 1
    BY <1>1, <1>2, TimerFacts, ClockFacts
  <1> QED
    BY <1>1, <1>2, <1>3, DiffSum

\* The first timer of the tree has the least time left.
LEMMA HeadFirst ==
  ASSUME TimerIInv, tree # <<>>
  PROVE  /\ Head(tree) \in Range(tree)
         /\ \A u \in Range(tree) : left[Head(tree)] <= left[u]
  <1>1. /\ Len(tree) \in Nat /\ Len(tree) >= 1 /\ DOMAIN tree = 1 .. Len(tree)
        /\ Head(tree) = tree[1] /\ 1 \in DOMAIN tree
    BY TimerFacts
  <1>2. Head(tree) \in Range(tree)
    BY <1>1 DEF Range
  <1>3. ASSUME NEW u \in Range(tree)
        PROVE  left[Head(tree)] <= left[u]
    <2>1. PICK j \in DOMAIN tree : tree[j] = u
      BY DEF Range
    <2>2. CASE j = 1
      BY <1>1, <1>2, <2>1, <2>2, TimerFacts
    <2>3. CASE j # 1
      <3>1. 1 < j
        BY <1>1, <2>3
      <3> QED
        BY <1>1, <2>1, <3>1, TimerFacts DEF Sorted
    <2> QED
      BY <2>2, <2>3
  <1> QED
    BY <1>2, <1>3

\* _eh_timer_start_no_lock: the timer goes to the place its deadline has among
\* the others, of which each has lag more left at now than it has at present.
LEMMA StartEffect ==
  ASSUME TimerIInv, NEW t \in Timers, NEW S \in SUBSET Range(tree), t \notin S,
         NEW s, SubList(s, tree, S),
         NEW base \in Int, NEW now \in Int, NEW lag \in Int, NEW d \in Int,
         Diff((base + interval[t]) % ClockMod, now) = d,
         \A u \in S : Diff(expire[u], now) = left[u] + lag,
         StartNoLock(s, base, t, now)
  PROVE  /\ tree' \in Seq(Timers) /\ IsInjective(tree') /\ Range(tree') = S \cup {t}
         /\ expire' \in [Timers -> Clocks]
         /\ \A u \in S : expire'[u] = expire[u]
         /\ expire'[t] = (base + interval[t]) % ClockMod
         /\ Head(tree') = t \/ (s # <<>> /\ Head(tree') = Head(s))
         /\ \A f : (\A u \in S : f[u] = left[u]) /\ f[t] = d - lag => Sorted(tree', f)
  <1> DEFINE exp == (base + interval[t]) % ClockMod
             E == [expire EXCEPT ![t] = exp]
             D == [u \in Timers |-> Diff(E[u], now)]
  <1>1. /\ S \subseteq Timers /\ \A u \in S : left[u] \in Int
        /\ s \in Seq(Timers) /\ IsInjective(s) /\ Range(s) = S
        /\ Sorted(s, left)
    BY TimerFacts DEF SubList
  <1>2. exp \in Clocks
    <2>1. base + interval[t] \in Int
      BY TimerFacts
    <2> QED
      BY <2>1, ModFacts
  <1>3. /\ expire' = E /\ tree' = Insert(s, t, E, now)
    BY DEF StartNoLock
  <1>4. /\ E \in [Timers -> Clocks] /\ E[t] = exp
        /\ \A u \in S : E[u] = expire[u]
    BY <1>1, <1>2, TimerFacts
  <1> HIDE DEF E, exp
  <1>5. /\ D \in [Timers -> Int] /\ D[t] = d
        /\ \A u \in S : D[u] = left[u] + lag
    <2>1. \A u \in Timers : E[u] \in Int
      BY <1>4 DEF Clocks
    <2>2. ASSUME NEW u \in Timers
          PROVE  Diff(E[u], now) \in Int
      <3>1. E[u] \in Int
        BY <2>1
      <3>2. Diff(E[u], now) \in -Half .. Half - 1
        BY <3>1, DiffFacts
      <3> QED
        BY <3>2
    <2> QED
      BY <1>1, <1>4, <2>2 DEF exp
  <1>6. \A i \in DOMAIN s : s[i] \in S /\ s[i] \in Timers
    BY <1>1 DEF Range
  <1>7. tree' = InsertAt(s, Place(s, t, D), t)
    <2>1. {i \in DOMAIN s : Diff(E[s[i]], now) <= Diff(E[t], now)}
            = {i \in DOMAIN s : D[s[i]] <= D[t]}
      BY <1>6
    <2> HIDE DEF D
    <2> QED
      BY <1>3, <2>1 DEF Insert, Place
  <1> HIDE DEF D
  <1>8. Sorted(s, D)
    BY <1>1, <1>5, <1>6, SMTT(30) DEF Sorted
  <1>9. /\ tree' \in Seq(Timers) /\ IsInjective(tree') /\ Range(tree') = S \cup {t}
        /\ Sorted(tree', D)
        /\ Head(tree') = t \/ (s # <<>> /\ Head(tree') = Head(s))
    BY <1>1, <1>5, <1>7, <1>8, InsertMembers
  <1>10. ASSUME NEW f, \A u \in S : f[u] = left[u], f[t] = d - lag
         PROVE  Sorted(tree', f)
    <2>1. \A u \in S \cup {t} : f[u] = D[u] - lag /\ D[u] \in Int
      BY <1>1, <1>5, <1>10
    <2>2. \A i \in DOMAIN tree' : tree'[i] \in S \cup {t}
      BY <1>9 DEF Range
    <2> QED
      BY <1>9, <2>1, <2>2 DEF Sorted
  <1> QED
    BY <1>3, <1>4, <1>9, <1>10 DEF exp

\* eh_timer_start and eh_timer_restart.  When the timer is not the first, the
\* one that is had no more time left, and has been running.
LEMMA StartInv ==
  ASSUME TimerIInv, NEW t \in Timers, TimerStart(t) \/ TimerRestart(t)
  PROVE  /\ TimerIInv'
         /\ DOMAIN left' = DOMAIN left \cup {t}
         /\ \A u \in DOMAIN left' : left'[u] = IF u = t THEN interval[t] ELSE left[u]
         /\ ~FirstUpdate(t) => \E u \in DOMAIN left : left[u] <= left'[t]
  <1> DEFINE S == Range(tree) \ {t}
             s == IF TimerStart(t) THEN tree ELSE TreeDel(tree, t)
  <1>1. /\ ~checking
        /\ StartNoLock(s, clock, t, clock)
        /\ left' = RunsFor(t, interval[t])
        /\ UNCHANGED <<clock, interval, kind, checking, timerNow>>
    BY DEF TimerStart, TimerRestart, LockFree
  <1>2. SubList(s, tree, S)
    <2>1. CASE TimerStart(t)
      <3>1. t \notin Range(tree)
        BY <2>1 DEF TimerStart, Running
      <3> QED
        BY <2>1, <3>1, TimerFacts DEF SubList
    <2>2. CASE ~TimerStart(t)
      BY <2>2, TimerFacts, TreeDelMembers
    <2> QED
      BY <2>1, <2>2
  <1>3. Diff((clock + interval[t]) % ClockMod, clock) = interval[t]
    <2>1. Diff(clock, clock) = 0 /\ clock \in Int /\ interval[t] \in Int
      BY TimerFacts, DiffSelf
    <2>2. Diff(clock, clock) + interval[t] \in -Half .. Half - 1
          /\ Diff(clock, clock) + interval[t] = interval[t]
      BY <2>1, TimerFacts, ClockFacts
    <2> QED
      BY <2>1, <2>2, DiffLater
  <1>4. /\ S \in SUBSET Range(tree) /\ t \notin S /\ 0 \in Int
        /\ \A u \in S : Diff(expire[u], clock) = left[u] + 0
    BY TimerFacts DEF TimerIInv
  <1> HIDE DEF s, S
  <1>5. /\ tree' \in Seq(Timers) /\ IsInjective(tree') /\ Range(tree') = S \cup {t}
        /\ expire' \in [Timers -> Clocks]
        /\ \A u \in S : expire'[u] = expire[u]
        /\ expire'[t] = (clock + interval[t]) % ClockMod
        /\ Head(tree') = t \/ (s # <<>> /\ Head(tree') = Head(s))
        /\ \A f : (\A u \in S : f[u] = left[u]) /\ f[t] = interval[t] - 0
                    => Sorted(tree', f)
    <2>1. clock \in Int /\ interval[t] \in Int
      BY TimerFacts
    <2> QED
      BY <1>1, <1>2, <1>3, <1>4, <2>1, StartEffect
  <1>6. /\ DOMAIN left' = DOMAIN left \cup {t}
        /\ DOMAIN left' = Range(tree')
        /\ \A u \in DOMAIN left' : left'[u] = IF u = t THEN interval[t] ELSE left[u]
        /\ left' = [u \in DOMAIN left' |-> left'[u]]
    BY <1>1, <1>5, TimerFacts DEF RunsFor, S
  <1>7. /\ \A u \in S : left'[u] = left[u]
        /\ left'[t] = interval[t]
    BY <1>4, <1>6, TimerFacts
  <1>8. Sorted(tree', left')
    <2>1. interval[t] - 0 = interval[t]
      BY TimerFacts
    <2> QED
      BY <1>5, <1>7, <2>1
  <1>9. \A u \in Range(tree') : /\ left'[u] \in Int
                                /\ left'[u] >= -(MaxLate + MaxLag) /\ left'[u] < Half
                                /\ Diff(expire'[u], clock') = left'[u]
    <2>1. /\ interval[t] \in Nat /\ interval[t] < Half
          /\ interval[t] >= -(MaxLate + MaxLag)
      BY TimerFacts
    <2>2. \A u \in S : /\ left[u] >= -(MaxLate + MaxLag) /\ left[u] < Half
                       /\ left[u] \in Int /\ Diff(expire[u], clock) = left[u]
      BY <1>4, TimerFacts DEF TimerIInv
    <2> QED
      BY <1>1, <1>3, <1>5, <1>7, <2>1, <2>2
  <1>10. TimerIInv'
    <2>1. left' \in [Range(tree') -> Int]
      BY <1>6, <1>9
    <2> QED
      BY <1>1, <1>5, <1>8, <1>9, <2>1 DEF TimerIInv
  <1>11. ASSUME ~FirstUpdate(t)
         PROVE  \E u \in DOMAIN left : left[u] <= left'[t]
    <2>1. Head(tree') # t /\ tree' # <<>>
      <3>1. t \in Range(tree')
        BY <1>5
      <3> QED
        BY <1>11, <3>1 DEF FirstUpdate, Range
    <2>2. /\ Head(tree') \in Range(tree')
          /\ \A u \in Range(tree') : left'[Head(tree')] <= left'[u]
      <3>1. /\ 1 \in DOMAIN tree' /\ Head(tree') = tree'[1] /\ Len(tree') \in Nat
            /\ DOMAIN tree' = 1 .. Len(tree')
        BY <1>5, <2>1
      <3>2. Head(tree') \in Range(tree')
        BY <3>1 DEF Range
      <3>3. ASSUME NEW u \in Range(tree')
            PROVE  left'[Head(tree')] <= left'[u]
        <4>1. PICK j \in DOMAIN tree' : tree'[j] = u
          BY DEF Range
        <4>2. CASE j = 1
          BY <1>9, <3>1, <3>2, <4>1, <4>2
        <4>3. CASE j # 1
          <5>1. 1 < j
            BY <3>1, <4>3
          <5> QED
            BY <1>8, <3>1, <4>1, <5>1 DEF Sorted
        <4> QED
          BY <4>2, <4>3
      <3> QED
        BY <3>2, <3>3
    <2>3. Head(tree') \in S /\ t \in Range(tree')
      BY <1>5, <2>1, <2>2
    <2> QED
      BY <1>4, <1>7, <2>2, <2>3, TimerFacts
  <1> QED
    BY <1>6, <1>10, <1>11

\* A timer leaves the tree: eh_timer_stop, and eh_timer_check for one that does
\* not go on.
LEMMA GoneInv ==
  ASSUME TimerIInv, NEW t \in Timers,
         SubList(tree', tree, Range(tree) \ {t}),
         expire' = [expire EXCEPT ![t] = 0],
         left' = Restrict(left, DOMAIN left \ {t}),
         UNCHANGED <<clock, interval, kind, checking, timerNow>>
  PROVE  /\ TimerIInv'
         /\ DOMAIN left' = DOMAIN left \ {t}
         /\ \A u \in DOMAIN left' : left'[u] = left[u]
  <1> DEFINE S == Range(tree) \ {t}
  <1>1. /\ tree' \in Seq(Timers) /\ IsInjective(tree') /\ Range(tree') = S
        /\ Sorted(tree', left)
    BY TimerFacts DEF SubList
  <1>2. /\ left' = [u \in S |-> left[u]] /\ DOMAIN left' = S
        /\ \A u \in S : left'[u] = left[u]
    BY TimerFacts DEF Restrict
  <1>3. /\ expire' \in [Timers -> Clocks]
        /\ \A u \in S : expire'[u] = expire[u]
    <2>1. 0 \in Clocks
      BY ClockFacts DEF Clocks
    <2> QED
      BY <2>1, TimerFacts
  <1>4. \A u \in S : u \in Range(tree)
    OBVIOUS
  <1> HIDE DEF S
  <1>5. Sorted(tree', left')
    <2>1. \A i \in DOMAIN tree' : tree'[i] \in S
      BY <1>1 DEF Range
    <2> QED
      BY <1>1, <1>2, <2>1 DEF Sorted
  <1>6. left' \in [S -> Int]
    BY <1>2, <1>4, TimerFacts
  <1>7. TimerIInv'
    <2>1. \A u \in S : /\ left'[u] >= -(MaxLate + MaxLag)
                       /\ left'[u] < Half
                       /\ Diff(expire'[u], clock') = left'[u]
      BY <1>2, <1>3, <1>4 DEF TimerIInv
    <2>2. checking' => /\ Lag' >= 0 /\ Lag' <= MaxLag
                       /\ \A u \in S : left'[u] + Lag' < Half
      BY <1>2, <1>4 DEF TimerIInv, Lag
    <2> QED
      BY <1>1, <1>3, <1>5, <1>6, <2>1, <2>2 DEF TimerIInv
  <1> QED
    BY <1>2, <1>7, TimerFacts DEF S

LEMMA StopInv ==
  ASSUME TimerIInv, NEW t \in Timers, TimerStop(t)
  PROVE  /\ TimerIInv'
         /\ DOMAIN left' = DOMAIN left \ {t}
         /\ \A u \in DOMAIN left' : left'[u] = left[u]
  <1>1. SubList(tree', tree, Range(tree) \ {t})
    BY TimerFacts, TreeDelMembers DEF TimerStop
  <1> QED
    BY <1>1, GoneInv DEF TimerStop

LEMMA ConfigInv ==
  ASSUME TimerIInv, NEW t \in Timers, TimerConfig(t) \/ TimerSetAttr(t)
  PROVE  TimerIInv' /\ left' = left
  <1>1. interval' \in [Timers -> Intervals]
    BY DEF TimerIInv, TimerConfig, TimerSetAttr
  <1>2. kind' = [u \in Timers |-> kind'[u]]
    BY DEF TimerIInv, TimerConfig, TimerSetAttr
  <1>3. /\ UNCHANGED <<clock, tree, expire, checking, timerNow, left>>
    BY DEF TimerConfig, TimerSetAttr
  <1>4. Lag' = Lag
    BY <1>3 DEF Lag
  <1> QED
    BY <1>1, <1>2, <1>3, <1>4 DEF TimerIInv

\* eh_timer_check reads the clock, and comes to its end.
LEMMA CheckBeginInv ==
  ASSUME TimerIInv, CheckBegin
  PROVE  TimerIInv' /\ left' = left
  <1>1. /\ UNCHANGED <<clock, tree, expire, interval, kind, left>>
        /\ checking' = TRUE /\ timerNow' = clock
    BY DEF CheckBegin
  <1>2. Lag' = 0
    BY <1>1, TimerFacts, DiffSelf DEF Lag
  <1>3. \A t \in Range(tree) : left[t] + 0 < Half
    BY TimerFacts DEF TimerIInv
  <1>4. 0 >= 0 /\ 0 <= MaxLag
    BY TimerFacts
  <1> QED
    BY <1>1, <1>2, <1>3, <1>4 DEF TimerIInv

LEMMA CheckEndInv ==
  ASSUME TimerIInv, CheckEnd
  PROVE  TimerIInv' /\ left' = left
  <1>1. /\ UNCHANGED <<clock, tree, expire, interval, kind, left>>
        /\ checking' = FALSE /\ timerNow' = 0
    BY DEF CheckEnd
  <1>2. 0 \in Clocks
    BY ClockFacts DEF Clocks
  <1> QED
    BY <1>1, <1>2 DEF TimerIInv

\* Time passes: the clock may wrap, and the differences do not notice.
LEMMA TickInv ==
  ASSUME TimerIInv, Tick
  PROVE  /\ TimerIInv'
         /\ left' = [t \in DOMAIN left |-> left[t] - 1]
  <1>1. /\ UNCHANGED <<tree, expire, interval, kind, checking, timerNow>>
        /\ clock' = (clock + 1) % ClockMod
        /\ left' = [t \in DOMAIN left |-> left[t] - 1]
        /\ \A t \in DOMAIN left : left[t] > -MaxLate
        /\ checking => Lag < MaxLag
    BY DEF Tick, Lag
  <1>2. clock' \in Clocks
    <2>1. clock + 1 \in Int
      BY TimerFacts
    <2> QED
      BY <1>1, <2>1, ModFacts
  <1>3. /\ DOMAIN left' = Range(tree')
        /\ left' \in [Range(tree') -> Int]
        /\ \A t \in Range(tree) : left'[t] = left[t] - 1
    BY <1>1, TimerFacts
  <1>4. Sorted(tree', left')
    <2>1. \A i \in DOMAIN tree : tree[i] \in Range(tree)
      BY DEF Range
    <2>2. \A i, j \in DOMAIN tree : i < j => left[tree[i]] <= left[tree[j]]
      BY TimerFacts DEF Sorted
    <2>3. \A i, j \in DOMAIN tree : i < j => left[tree[i]] - 1 <= left[tree[j]] - 1
      BY <2>1, <2>2, TimerFacts
    <2> QED
      BY <1>1, <1>3, <2>1, <2>3 DEF Sorted
  <1>5. ASSUME NEW t \in Range(tree)
        PROVE  /\ left'[t] >= -(MaxLate + MaxLag)
               /\ left'[t] < Half
               /\ Diff(expire'[t], clock') = left'[t]
    <2>1. /\ left[t] \in Int /\ left[t] > -MaxLate /\ left[t] < Half
          /\ Diff(expire[t], clock) = left[t]
      BY <1>1, TimerFacts DEF TimerIInv
    <2>2. left[t] - 1 \in -Half .. Half - 1 /\ left[t] - 1 >= -(MaxLate + MaxLag)
          /\ left[t] - 1 < Half
      BY <2>1, TimerFacts, ClockFacts
    <2>3. expire[t] \in Int /\ clock \in Int
      BY TimerFacts
    <2>4. Diff(expire[t], (clock + 1) % ClockMod) = left[t] - 1
      BY <2>1, <2>2, <2>3, DiffFromLater
    <2> QED
      BY <1>1, <1>3, <2>2, <2>4
  <1>6. ASSUME checking
        PROVE  Lag' = Lag + 1 /\ Lag + 1 >= 0 /\ Lag + 1 <= MaxLag
    <2>1. /\ Lag \in Int /\ Lag >= 0 /\ Lag < MaxLag /\ clock \in Int /\ timerNow \in Int
      BY <1>1, <1>6, TimerFacts DEF TimerIInv
    <2>2. Lag + 1 \in -Half .. Half - 1 /\ Lag + 1 >= 0 /\ Lag + 1 <= MaxLag
      BY <2>1, TimerFacts, ClockFacts
    <2>3. Diff((clock + 1) % ClockMod, timerNow) = Lag + 1
      BY <2>1, <2>2, DiffLater DEF Lag
    <2> QED
      BY <1>1, <2>2, <2>3 DEF Lag
  <1>7. checking' => /\ Lag' >= 0 /\ Lag' <= MaxLag
                     /\ \A t \in Range(tree') : left'[t] + Lag' < Half
    <2> SUFFICES ASSUME checking, NEW t \in Range(tree)
                 PROVE  Lag' >= 0 /\ Lag' <= MaxLag /\ left'[t] + Lag' < Half
      BY <1>1, <1>6
    <2>1. left[t] \in Int /\ Lag \in Int /\ left[t] + Lag < Half
      BY TimerFacts DEF TimerIInv
    <2>2. left'[t] = left[t] - 1 /\ Lag' = Lag + 1
      BY <1>3, <1>6
    <2>3. (left[t] - 1) + (Lag + 1) < Half
      BY <2>1
    <2> QED
      BY <1>6, <2>2, <2>3
  <1> QED
    BY <1>1, <1>2, <1>3, <1>4, <1>5, <1>7 DEF TimerIInv

\* The base of eh_timer_check: where a periodic timer goes on, and what it then
\* has left, seen from timer_now.
LEMMA BaseFacts ==
  ASSUME TimerIInv, checking, NEW t \in Range(tree), left[t] + Lag <= 0
  PROVE  /\ Base(t) \in Int
         /\ Diff((Base(t) + interval[t]) % ClockMod, timerNow)
              = IF Base(t) = expire[t] THEN left[t] + Lag + interval[t] ELSE interval[t]
         /\ (IF Base(t) = expire[t] THEN left[t] + interval[t] ELSE interval[t] - Lag)
              = AlarmsOf!Following(t, interval[t], Lag)
         /\ Base(t) = expire[t] => left[t] + Lag + interval[t] >= 0
  <1> DEFINE e == left[t] + Lag
             late == kind[t] = "nowbase" \/ ~(e + interval[t] > 0)
  <1>1. /\ t \in Timers /\ expire[t] \in Int /\ timerNow \in Int
        /\ interval[t] \in Nat /\ interval[t] < Half
        /\ left[t] \in Int /\ Lag \in Int
    BY TimerFacts
  <1>2. Diff(expire[t], timerNow) = e
    BY CheckFacts
  <1>3. e \in -Half .. Half - 1 /\ e \in Int /\ e <= 0
    <2>1. Diff(expire[t], timerNow) \in -Half .. Half - 1
      BY <1>1, DiffFacts
    <2>2. e \in -Half .. Half - 1
      BY <1>2, <2>1
    <2> QED
      BY <1>1, <2>2
  <1>4. e + interval[t] \in -Half .. Half - 1
    BY <1>1, <1>3, ClockFacts
  <1>5. /\ Diff(expire[t] + interval[t], timerNow) = e + interval[t]
        /\ Diff((expire[t] + interval[t]) % ClockMod, timerNow) = e + interval[t]
    BY <1>1, <1>2, <1>4, DiffLater
  <1>6. Diff((timerNow + interval[t]) % ClockMod, timerNow) = interval[t]
    <2>1. Diff(timerNow, timerNow) = 0
      BY <1>1, DiffSelf
    <2>2. Diff(timerNow, timerNow) + interval[t] = interval[t]
          /\ interval[t] \in -Half .. Half - 1
      BY <1>1, <2>1, ClockFacts
    <2> QED
      BY <1>1, <2>2, DiffLater
  <1>7. Base(t) = IF late THEN timerNow ELSE expire[t]
    BY <1>5 DEF Base
  <1>8. AlarmsOf!Following(t, interval[t], Lag)
          = IF late THEN interval[t] - Lag ELSE left[t] + interval[t]
    <2>1. left[t] + interval[t] + Lag = e + interval[t]
      BY <1>1
    <2> QED
      BY <2>1 DEF AlarmsOf!Following
  <1>9. timerNow = expire[t] => e = 0
    BY <1>1, <1>2, DiffSelf
  <1>10. /\ left[t] + Lag + interval[t] = e + interval[t]
         /\ e = 0 => /\ e + interval[t] = interval[t]
                     /\ left[t] + interval[t] = interval[t] - Lag
    BY <1>1
  <1>11. e + interval[t] > 0 => e + interval[t] >= 0
    BY <1>1, <1>3
  <1>12. ~late => e + interval[t] > 0
    OBVIOUS
  <1> HIDE DEF e, late
  <1>13. CASE late /\ timerNow = expire[t]
    <2>1. Base(t) = expire[t] /\ Base(t) \in Int /\ e = 0
      BY <1>1, <1>7, <1>9, <1>13
    <2>2. interval[t] >= 0
      BY <1>1
    <2> QED
      BY <1>5, <1>8, <1>10, <1>13, <2>1, <2>2
  <1>14. CASE late /\ timerNow # expire[t]
    <2>1. Base(t) = timerNow /\ Base(t) # expire[t] /\ Base(t) \in Int
      BY <1>1, <1>7, <1>14
    <2> QED
      BY <1>6, <1>8, <1>14, <2>1
  <1>15. CASE ~late
    <2>1. Base(t) = expire[t] /\ Base(t) \in Int
      BY <1>1, <1>7, <1>15
    <2> QED
      BY <1>5, <1>8, <1>10, <1>11, <1>12, <1>15, <2>1
  <1> QED
    BY <1>13, <1>14, <1>15

\* One round of eh_timer_check: the alarm that is due first rings.
LEMMA FireInv ==
  ASSUME TimerIInv, NEW t \in Timers, CheckFire(t)
  PROVE  TimerIInv' /\ AlarmsOf!Ring(t)
  <1>1. /\ checking /\ tree # <<>> /\ t = Head(tree) /\ Expired(t)
        /\ UNCHANGED <<clock, interval, kind, checking, timerNow>>
    BY DEF CheckFire, FirstExpired
  <1>2. /\ t \in Range(tree) /\ t \in DOMAIN left
        /\ AlarmsOf!First(t)
    BY <1>1, HeadFirst, TimerFacts DEF AlarmsOf!First
  <1>3. /\ left[t] \in Int /\ Lag \in Int /\ Lag >= 0 /\ Lag <= MaxLag
        /\ Diff(clock, timerNow) = Lag
        /\ left[t] >= -(MaxLate + MaxLag) /\ interval[t] \in Nat /\ interval[t] < Half
        /\ interval[t] \in Intervals
        /\ expire[t] \in Int /\ clock \in Int /\ timerNow \in Int
        /\ MaxLate \in Nat /\ MaxLag \in Nat /\ MaxLate + MaxLag < Half
    BY <1>1, <1>2, TimerFacts DEF TimerIInv, Lag
  <1>4. left[t] + Lag <= 0 /\ left[t] <= 0
    <2>1. left[t] + Lag <= 0
      BY <1>1, <1>2, CheckFacts DEF Expired
    <2> QED
      BY <1>3, <2>1
  <1>5. SubList(Tail(tree), tree, Range(tree) \ {t})
    BY <1>1, TimerFacts, TailMembers
  <1>6. CASE kind[t] # "once"
    <2> DEFINE S == Range(tree) \ {t}
               new == IF Base(t) = expire[t] THEN left[t] + interval[t] ELSE interval[t] - Lag
               d == IF Base(t) = expire[t] THEN left[t] + Lag + interval[t] ELSE interval[t]
    <2>1. /\ StartNoLock(Tail(tree), Base(t), t, timerNow)
          /\ left' = [left EXCEPT ![t] = new]
      BY <1>3, <1>6 DEF CheckFire
    <2>2. /\ Base(t) \in Int
          /\ Diff((Base(t) + interval[t]) % ClockMod, timerNow) = d
          /\ new = AlarmsOf!Following(t, interval[t], Lag)
          /\ Base(t) = expire[t] => left[t] + Lag + interval[t] >= 0
      BY <1>1, <1>2, <1>4, BaseFacts
    <2>3. /\ d \in Int /\ new \in Int /\ d - Lag = new /\ new + Lag = d
          /\ d >= 0 /\ d < Half /\ new >= -(MaxLate + MaxLag) /\ new < Half
          /\ new \in -Half .. Half - 1
      <3>1. CASE Base(t) = expire[t]
        <4>1. d = left[t] + Lag + interval[t] /\ new = left[t] + interval[t]
          BY <3>1
        <4>2. left[t] + Lag + interval[t] >= 0
          BY <2>2, <3>1
        <4> HIDE DEF d, new
        <4> QED
          BY <1>3, <1>4, <4>1, <4>2, ClockFacts
      <3>2. CASE Base(t) # expire[t]
        <4>1. d = interval[t] /\ new = interval[t] - Lag
          BY <3>2
        <4> HIDE DEF d, new
        <4> QED
          BY <1>3, <1>4, <4>1, ClockFacts
      <3> QED
        BY <3>1, <3>2
    <2> HIDE DEF d, new
    <2>4. /\ S \in SUBSET Range(tree) /\ t \notin S
          /\ \A u \in S : Diff(expire[u], timerNow) = left[u] + Lag
      BY <1>1, CheckFacts
    <2>5. SubList(Tail(tree), tree, S)
      BY <1>5
    <2>6. S \cup {t} = Range(tree)
      BY <1>2
    <2> HIDE DEF S
    <2>7. /\ tree' \in Seq(Timers) /\ IsInjective(tree') /\ Range(tree') = S \cup {t}
          /\ expire' \in [Timers -> Clocks]
          /\ \A u \in S : expire'[u] = expire[u]
          /\ expire'[t] = (Base(t) + interval[t]) % ClockMod
          /\ \A f : (\A u \in S : f[u] = left[u]) /\ f[t] = d - Lag => Sorted(tree', f)
      <3> DEFINE s == Tail(tree)
                 base == Base(t)
      <3>1. /\ SubList(s, tree, S) /\ StartNoLock(s, base, t, timerNow)
            /\ base \in Int /\ Diff((base + interval[t]) % ClockMod, timerNow) = d
            /\ timerNow \in Int /\ Lag \in Int /\ d \in Int
        BY <1>3, <2>1, <2>2, <2>3, <2>5
      <3> HIDE DEF s, base
      <3>2. /\ tree' \in Seq(Timers) /\ IsInjective(tree') /\ Range(tree') = S \cup {t}
            /\ expire' \in [Timers -> Clocks]
            /\ \A u \in S : expire'[u] = expire[u]
            /\ expire'[t] = (base + interval[t]) % ClockMod
            /\ \A f : (\A u \in S : f[u] = left[u]) /\ f[t] = d - Lag => Sorted(tree', f)
        BY <2>4, <3>1, StartEffect, SMTT(30)
      <3> QED
        BY <3>2 DEF base
    <2>8. /\ left' \in [Range(tree') -> Int]
          /\ \A u \in S : left'[u] = left[u]
          /\ left'[t] = new
      BY <1>2, <2>1, <2>3, <2>4, <2>6, <2>7, TimerFacts DEF TimerIInv
    <2>9. Sorted(tree', left')
      BY <2>3, <2>7, <2>8
    <2>10. Diff(expire'[t], clock) = new
      <3>1. /\ expire'[t] \in Int /\ Diff(expire'[t], timerNow) = d
        BY <2>2, <2>7 DEF Clocks
      <3>2. Diff(expire'[t], timerNow) - Diff(clock, timerNow) = new
        BY <1>3, <2>3, <3>1
      <3> QED
        BY <1>3, <2>3, <3>1, <3>2, DiffBetween
    <2>11. \A u \in S : /\ left[u] >= -(MaxLate + MaxLag) /\ left[u] < Half
                        /\ Diff(expire[u], clock) = left[u] /\ left[u] + Lag < Half
      BY <1>1, <2>4 DEF TimerIInv
    <2>12. /\ clock' = clock /\ Lag' = Lag
      BY <1>1 DEF Lag
    <2>13. \A u \in Range(tree') : /\ left'[u] >= -(MaxLate + MaxLag) /\ left'[u] < Half
                                   /\ Diff(expire'[u], clock') = left'[u]
                                   /\ left'[u] + Lag' < Half
      BY <2>3, <2>7, <2>8, <2>10, <2>11, <2>12
    <2>14. TimerIInv'
      BY <1>1, <1>3, <2>7, <2>8, <2>9, <2>12, <2>13 DEF TimerIInv
    <2>15. AlarmsOf!Ring(t)
      <3>1. left' = [left EXCEPT ![t] = AlarmsOf!Following(t, interval[t], Lag)]
        BY <2>1, <2>2
      <3>2. Lag \in 0 .. MaxLag
        BY <1>3
      <3>3. \E b \in Intervals, lag \in 0 .. MaxLag :
               left' = [left EXCEPT ![t] = AlarmsOf!Following(t, b, lag)]
        BY <1>3, <3>1, <3>2, Zenon
      <3> QED
        BY <1>1, <1>2, <1>4, <1>6, <3>3 DEF AlarmsOf!Ring
    <2> QED
      BY <2>14, <2>15
  <1>7. CASE ~(kind[t] # "once")
    <2>1. /\ tree' = Tail(tree)
          /\ expire' = [expire EXCEPT ![t] = 0]
          /\ left' = Restrict(left, DOMAIN left \ {t})
      BY <1>7 DEF CheckFire
    <2>2. TimerIInv'
      BY <1>1, <1>5, <2>1, GoneInv
    <2>3. AlarmsOf!Ring(t)
      BY <1>1, <1>2, <1>4, <1>7, <2>1 DEF AlarmsOf!Ring, Restrict, AlarmsOf!Restrict
    <2> QED
      BY <2>2, <2>3
  <1> QED
    BY <1>6, <1>7

-----------------------------------------------------------------------------
(***************************************************************************)
(* The timers within the system: every step keeps the invariant, and is a  *)
(* step of the alarms or none of theirs.                                   *)
(***************************************************************************)

LEMMA TimerInitInv ==
  ASSUME TimerInit
  PROVE  TimerIInv /\ AlarmsOf!AlarmInit
  <1>1. 0 \in Clocks /\ ClockMod - 2 \in Clocks
    BY ClockFacts DEF Clocks
  <1>2. clock \in Clocks /\ timerNow \in Clocks /\ checking = FALSE
        /\ expire \in [Timers -> Clocks] /\ interval \in [Timers -> Intervals]
    BY <1>1 DEF TimerInit
  <1>3. kind = [t \in Timers |-> kind[t]]
    BY DEF TimerInit
  <1>4. tree = <<>> /\ left = <<>> /\ DOMAIN tree = {}
    BY DEF TimerInit
  <1>5. tree \in Seq(Timers) /\ IsInjective(tree) /\ Range(tree) = {}
    BY <1>4 DEF IsInjective, Range
  <1>6. left \in [Range(tree) -> Int]
    BY <1>4, <1>5
  <1>7. Sorted(tree, left)
    BY <1>4 DEF Sorted
  <1>8. TimerIInv
    BY <1>2, <1>3, <1>5, <1>6, <1>7 DEF TimerIInv
  <1>9. AlarmsOf!AlarmInit
    BY <1>4 DEF TimerInit, AlarmsOf!AlarmInit
  <1> QED
    BY <1>8, <1>9

\* A step that does not touch the timers.
LEMMA QuietInv ==
  ASSUME TimerIInv, UNCHANGED timerVars
  PROVE  TimerIInv'
  <1>1. UNCHANGED <<clock, tree, expire, interval, kind, checking, timerNow, left>>
    BY DEF timerVars
  <1>2. Lag' = Lag
    BY <1>1 DEF Lag
  <1> QED
    BY <1>1, <1>2 DEF TimerIInv

LEMMA AlarmSetStep ==
  ASSUME TimerIInv, NEW t \in Timers, TimerStart(t) \/ TimerRestart(t)
  PROVE  AlarmsOf!Set(t)
  <1>1. /\ left' = RunsFor(t, interval[t]) /\ kind' = kind
        /\ interval[t] \in Intervals
    BY TimerFacts DEF TimerStart, TimerRestart
  <1> QED
    BY <1>1 DEF RunsFor, AlarmsOf!Set

LEMMA AlarmCancelStep ==
  ASSUME TimerIInv, NEW t \in Timers, TimerStop(t)
  PROVE  AlarmsOf!Cancel(t)
  <1>1. /\ left' = Restrict(left, DOMAIN left \ {t}) /\ kind' = kind
        /\ t \in DOMAIN left
    BY TimerFacts DEF TimerStop, Running
  <1> QED
    BY <1>1 DEF Restrict, AlarmsOf!Restrict, AlarmsOf!Cancel

LEMMA AlarmConfigureStep ==
  ASSUME NEW t \in Timers, TimerConfig(t) \/ TimerSetAttr(t)
  PROVE  AlarmsOf!Configure(t) \/ UNCHANGED <<left, kind>>
  BY DEF TimerConfig, TimerSetAttr, AlarmsOf!Configure

LEMMA TimerStep ==
  ASSUME TimerIInv, [Next]_vars
  PROVE  TimerIInv' /\ [AlarmsOf!AlarmNext]_<<left, kind>>
  <1>1. CASE \/ TasksRun \/ TasksPoll \/ HandlerEnter \/ HubArm \/ HubReturn \/ HubCallback
             \/ HandlerLeave \/ WakeUp \/ UNCHANGED vars
    <2>1. UNCHANGED timerVars
      BY <1>1, Zenon
         DEF TasksRun, TasksPoll, HandlerEnter, HubArm, HubReturn, HubCallback, HandlerLeave,
             WakeUp, vars
    <2>2. UNCHANGED <<left, kind>>
      BY <2>1 DEF timerVars
    <2> QED
      BY <2>1, <2>2, QuietInv
  <1>2. CASE TimerCheck
    <2>1. CheckBegin /\ kind' = kind
      BY <1>2 DEF TimerCheck, CheckBegin
    <2> QED
      BY <2>1, CheckBeginInv
  <1>3. CASE TimerCheckEnd
    <2>1. CheckEnd /\ kind' = kind
      BY <1>3 DEF TimerCheckEnd, CheckEnd
    <2> QED
      BY <2>1, CheckEndInv
  <1>4. CASE Pass
    <2>1. Tick /\ kind' = kind
      BY <1>4 DEF Pass, Tick
    <2>2. TimerIInv' /\ AlarmsOf!Pass
      BY <2>1, TickInv DEF AlarmsOf!Pass
    <2> QED
      BY <2>2 DEF AlarmsOf!AlarmNext
  <1>5. ASSUME NEW t \in Timers, TimerExpires(t)
        PROVE  TimerIInv' /\ [AlarmsOf!AlarmNext]_<<left, kind>>
    <2>1. CheckFire(t)
      BY <1>5 DEF TimerExpires
    <2>2. TimerIInv' /\ AlarmsOf!Ring(t)
      BY <2>1, FireInv
    <2> QED
      BY <2>2 DEF AlarmsOf!AlarmNext
  <1>6. ASSUME NEW t \in Timers, ThreadStart(t) \/ ThreadRestart(t)
        PROVE  TimerIInv' /\ [AlarmsOf!AlarmNext]_<<left, kind>>
    <2>1. TimerStart(t) \/ TimerRestart(t)
      BY <1>6 DEF ThreadStart, ThreadRestart
    <2>2. TimerIInv' /\ AlarmsOf!Set(t)
      BY <2>1, StartInv, AlarmSetStep
    <2> QED
      BY <2>2 DEF AlarmsOf!AlarmNext
  <1>7. ASSUME NEW t \in Timers, ThreadStop(t)
        PROVE  TimerIInv' /\ [AlarmsOf!AlarmNext]_<<left, kind>>
    <2>1. TimerStop(t)
      BY <1>7 DEF ThreadStop
    <2>2. TimerIInv' /\ AlarmsOf!Cancel(t)
      BY <2>1, StopInv, AlarmCancelStep
    <2> QED
      BY <2>2 DEF AlarmsOf!AlarmNext
  <1>8. ASSUME NEW t \in Timers, ThreadConfig(t)
        PROVE  TimerIInv' /\ [AlarmsOf!AlarmNext]_<<left, kind>>
    <2>1. TimerConfig(t) \/ TimerSetAttr(t)
      BY <1>8 DEF ThreadConfig
    <2>2. /\ TimerIInv'
          /\ AlarmsOf!Configure(t) \/ UNCHANGED <<left, kind>>
      BY <2>1, ConfigInv, AlarmConfigureStep
    <2> QED
      BY <2>2 DEF AlarmsOf!AlarmNext
  <1> QED
    BY <1>1, <1>2, <1>3, <1>4, <1>5, <1>6, <1>7, <1>8, Zenon DEF Next

\* eh_timer_start, eh_timer_stop and eh_timer_check behave as alarms: each rings
\* when its time is over and not before, in the order of the deadlines, whatever
\* the clock that wraps is and however the operations and the time interleave.
THEOREM TimersAreAlarms == Spec => ImplementsAlarms
  <1>1. Init => TimerIInv /\ AlarmsOf!AlarmInit
    BY TimerInitInv DEF Init
  <1>2. TimerIInv /\ [Next]_vars => TimerIInv' /\ [AlarmsOf!AlarmNext]_<<left, kind>>
    BY TimerStep
  <1> QED
    BY <1>1, <1>2, PTL DEF Spec, ImplementsAlarms, AlarmsOf!AlarmSpec

-----------------------------------------------------------------------------
(***************************************************************************)
(* The idle state.  NoOversleep speaks of a sleep that is under way; what  *)
(* makes it inductive is that the handler is marked as idle from the       *)
(* moment it has computed the time, that little time passes before the     *)
(* wait is armed, and that the flag of Windows tells where the packet is.  *)
(***************************************************************************)

Marked == {"arm", "wait", "callback", "leave"}

\* The sleep ends before the first deadline, as seen slack ago.
InTime(slack) == ~ready /\ \A t \in DOMAIN left : timeout - waited <= left[t] + slack

FlagIsDue == pending => platform = "windows" /\ (break \/ got)

IdleShape ==
  /\ ready \in BOOLEAN /\ idleState \in BOOLEAN /\ break \in BOOLEAN
  /\ pending \in BOOLEAN /\ got \in BOOLEAN
  /\ timeout \in Nat /\ waited \in Nat
  /\ checking => loop = "checking"
  /\ idleState <=> loop \in Marked
  /\ got => loop = "callback"
  /\ FlagIsDue

SleepIsShort ==
  /\ loop = "arm" => waited <= MaxLag /\ (timeout > 0 => break \/ InTime(0))
  /\ loop = "wait" /\ timeout > waited => break \/ InTime(MaxLag)

IdleIInv == TimerIInv /\ IdleShape /\ SleepIsShort

LEMMA IdleGivesNoOversleep ==
  ASSUME IdleIInv
  PROVE  NoOversleep
  <1>1. timeout \in Int /\ waited \in Nat
    BY DEF IdleIInv, IdleShape
  <1>2. loop = "arm" /\ timeout > waited => timeout > 0
    BY <1>1
  <1>3. \A t \in DOMAIN left : left[t] + 0 = left[t]
    BY TimerFacts DEF IdleIInv
  <1> QED
    BY <1>2, <1>3 DEF IdleIInv, IdleShape, FlagIsDue, SleepIsShort, InTime, NoOversleep

\* platform_idle_break: whoever calls it, and whether a packet has been posted
\* before or not, a sleep that is under way has its wake-up on the way.
LEMMA BreakInv ==
  ASSUME IdleShape, IdleBreak, UNCHANGED <<platform, loop, got>>
  PROVE  /\ break' \in BOOLEAN /\ pending' \in BOOLEAN
         /\ FlagIsDue'
         /\ loop \in {"arm", "wait"} => break'
  <1>1. /\ break \in BOOLEAN /\ pending \in BOOLEAN /\ got \in BOOLEAN
        /\ got => loop = "callback"
        /\ idleState <=> loop \in Marked
        /\ pending => platform = "windows" /\ (break \/ got)
    BY DEF IdleShape, FlagIsDue
  <1>2. CASE idleState
    <2>1. /\ break' = (break \/ platform # "windows" \/ ~pending)
          /\ pending' = (platform = "windows")
      BY <1>2 DEF IdleBreak, HubSet
    <2>2. break' \in BOOLEAN /\ pending' \in BOOLEAN
      BY <2>1
    <2>3. FlagIsDue'
      BY <1>1, <2>1, Zenon DEF FlagIsDue
    <2>4. loop \in {"arm", "wait"} => break'
      BY <1>1, <2>1
    <2> QED
      BY <2>2, <2>3, <2>4
  <1>3. CASE ~idleState
    <2>1. break' = break /\ pending' = pending
      BY <1>3 DEF IdleBreak
    <2>2. loop \notin {"arm", "wait"}
      BY <1>1, <1>3 DEF Marked
    <2> QED
      BY <1>1, <2>1, <2>2 DEF FlagIsDue
  <1> QED
    BY <1>1, <1>2, <1>3 DEF IdleShape

\* eh_get_loop_idle_time is not longer than the first timer allows.
LEMMA IdleTimeFacts ==
  ASSUME TimerIInv
  PROVE  /\ LoopIdleTime \in Nat
         /\ LoopIdleTime > 0 => ~ready /\ \A t \in DOMAIN left : LoopIdleTime <= left[t]
  <1>1. MaxIdle \in Nat /\ MaxIdle > 0
    BY TimerConstants
  <1>2. CASE ready
    BY <1>2 DEF LoopIdleTime
  <1>3. CASE ~ready /\ tree = <<>>
    <2>1. LoopIdleTime = MaxIdle
      BY <1>3 DEF LoopIdleTime, FirstRemaining
    <2>2. DOMAIN left = {}
      <3>1. DOMAIN left = Range(tree)
        BY TimerFacts
      <3>2. DOMAIN tree = {}
        BY <1>3
      <3> QED
        BY <3>1, <3>2 DEF Range
    <2> QED
      BY <1>1, <1>3, <2>1, <2>2
  <1>4. CASE ~ready /\ tree # <<>>
    <2> DEFINE r == Diff(expire[Head(tree)], clock)
    <2>1. LoopIdleTime = IF r < 0 THEN 0 ELSE IF r > MaxIdle THEN MaxIdle ELSE r
      BY <1>4 DEF LoopIdleTime, FirstRemaining
    <2>2. /\ Head(tree) \in Range(tree)
          /\ \A u \in Range(tree) : left[Head(tree)] <= left[u]
      BY <1>4, HeadFirst
    <2>3. r = left[Head(tree)] /\ r \in Int
      BY <2>2, TimerFacts DEF TimerIInv
    <2> HIDE DEF r
    <2>4. LoopIdleTime \in Nat /\ (LoopIdleTime > 0 => LoopIdleTime <= r)
      BY <1>1, <2>1, <2>3
    <2>5. \A u \in DOMAIN left : r <= left[u] /\ left[u] \in Int
      BY <2>2, <2>3, TimerFacts
    <2> QED
      BY <1>4, <2>3, <2>4, <2>5
  <1> QED
    BY <1>2, <1>3, <1>4

\* The wait of Windows is rounded down.
LEMMA HubTimeoutFacts ==
  ASSUME timeout \in Nat
  PROVE  HubTimeout \in Nat /\ HubTimeout <= timeout
  <1> DEFINE q == timeout \div Grain
  <1>1. Grain \in Nat /\ Grain > 0
    BY IdleConstants
  <1>2. /\ timeout = Grain * q + (timeout % Grain)
        /\ timeout % Grain >= 0 /\ q \in Nat
    BY <1>1
  <1>3. q * Grain = Grain * q /\ q * Grain \in Nat /\ timeout % Grain \in Int
    BY <1>1, <1>2
  <1>4. q * Grain <= timeout
    BY <1>2, <1>3
  <1> QED
    BY <1>3, <1>4 DEF HubTimeout

LEMMA IdleInit ==
  ASSUME Init
  PROVE  IdleIInv
  <1>1. TimerIInv
    BY TimerInitInv DEF Init
  <1>2. IdleShape /\ SleepIsShort
    BY DEF Init, TimerInit, IdleShape, FlagIsDue, SleepIsShort, Marked
  <1> QED
    BY <1>1, <1>2 DEF IdleIInv

\* Outside of the wait, and of what leads to it, nothing is asked of the sleep.
LEMMA NoSleep ==
  ASSUME loop' \notin {"arm", "wait"}
  PROVE  SleepIsShort'
  BY DEF SleepIsShort

\* The steps of the loop.
LEMMA LoopInv ==
  ASSUME IdleIInv,
         \/ TasksRun \/ TasksPoll \/ HandlerEnter \/ HubArm \/ HubReturn \/ HubCallback
         \/ HandlerLeave \/ TimerCheck \/ TimerCheckEnd
  PROVE  IdleShape' /\ SleepIsShort'
  <1>1. /\ ready \in BOOLEAN /\ idleState \in BOOLEAN /\ break \in BOOLEAN
        /\ pending \in BOOLEAN /\ got \in BOOLEAN
        /\ timeout \in Nat /\ waited \in Nat /\ 0 \in Nat
        /\ checking => loop = "checking"
        /\ idleState <=> loop \in Marked
        /\ got => loop = "callback"
        /\ pending => platform = "windows" /\ (break \/ got)
    BY DEF IdleIInv, IdleShape, FlagIsDue
  <1>2. CASE TasksRun \/ TasksPoll
    <2>1. /\ loop = "run" /\ loop' = "handler" /\ ready' \in {ready, FALSE}
          /\ UNCHANGED <<timerVars, platform, idleState, break, pending, got, timeout, waited>>
      BY <1>2 DEF TasksRun, TasksPoll, Goto
    <2>2. IdleShape'
      BY <1>1, <2>1 DEF timerVars, IdleShape, FlagIsDue, Marked
    <2> QED
      BY <2>1, <2>2, NoSleep
  <1>3. CASE HandlerEnter
    <2>1. /\ loop = "handler" /\ loop' = "arm" /\ idleState' = TRUE
          /\ timeout' = LoopIdleTime /\ waited' = 0 /\ ~checking
          /\ break' = (break /\ platform = "windows") /\ pending' = pending
          /\ UNCHANGED <<timerVars, platform, ready, got>>
      BY <1>3 DEF HandlerEnter, Goto, LockFree, HubClean
    <2>2. /\ LoopIdleTime \in Nat
          /\ LoopIdleTime > 0 => ~ready /\ \A t \in DOMAIN left : LoopIdleTime <= left[t]
      BY IdleTimeFacts DEF IdleIInv
    <2>3. IdleShape'
      BY <1>1, <2>1, <2>2 DEF timerVars, IdleShape, FlagIsDue, Marked
    <2>4. timeout' > 0 => InTime(0)'
      <3>1. /\ left' = left /\ ready' = ready
            /\ \A t \in DOMAIN left : left[t] \in Int
        BY <2>1, TimerFacts DEF IdleIInv, timerVars
      <3> QED
        BY <2>1, <2>2, <3>1 DEF InTime
    <2> QED
      BY <1>1, <2>1, <2>3, <2>4, TimerFacts DEF SleepIsShort, IdleIInv
  <1>4. CASE HubArm
    <2>1. /\ loop = "arm" /\ loop' = "wait" /\ timeout' = HubTimeout /\ waited' = 0
          /\ UNCHANGED <<timerVars, platform, ready, idleState, break, pending, got>>
      BY <1>4 DEF HubArm, Goto
    <2>2. HubTimeout \in Nat /\ HubTimeout <= timeout
      BY <1>1, HubTimeoutFacts
    <2>3. IdleShape'
      BY <1>1, <2>1, <2>2 DEF timerVars, IdleShape, FlagIsDue, Marked
    <2>4. /\ waited <= MaxLag /\ (timeout > 0 => break \/ InTime(0))
          /\ \A t \in DOMAIN left : left[t] \in Int
          /\ MaxLag \in Nat
      BY <2>1, TimerFacts DEF IdleIInv, SleepIsShort
    <2>5. ASSUME timeout' > waited', ~break
          PROVE  InTime(MaxLag)'
      <3>1. HubTimeout > 0 /\ timeout > 0
        BY <1>1, <2>1, <2>2, <2>5
      <3>2. ~ready /\ \A t \in DOMAIN left : timeout - waited <= left[t] + 0
        BY <2>4, <2>5, <3>1 DEF InTime
      <3>3. \A t \in DOMAIN left : HubTimeout - 0 <= left[t] + MaxLag
        BY <1>1, <2>2, <2>4, <3>2
      <3>4. left' = left /\ ready' = ready
        BY <2>1 DEF timerVars
      <3> QED
        BY <2>1, <3>2, <3>3, <3>4 DEF InTime
    <2> QED
      BY <2>1, <2>3, <2>5 DEF SleepIsShort
  <1>5. CASE HubReturn
    <2>1. /\ loop = "wait" /\ loop' = "callback" /\ got' = break
          /\ break' = (break /\ platform # "windows")
          /\ timeout' = 0 /\ waited' = 0
          /\ UNCHANGED <<timerVars, platform, ready, idleState, pending>>
      BY <1>5 DEF HubReturn, Goto
    <2>2. IdleShape'
      BY <1>1, <2>1 DEF timerVars, IdleShape, FlagIsDue, Marked
    <2> QED
      BY <2>1, <2>2, NoSleep
  <1>6. CASE HubCallback
    <2>1. /\ loop = "callback" /\ loop' = "leave" /\ got' = FALSE
          /\ IF ~got THEN UNCHANGED <<break, pending>>
             ELSE IF platform = "windows" THEN pending' = FALSE /\ UNCHANGED break
             ELSE HubClean
          /\ UNCHANGED <<timerVars, platform, ready, idleState, timeout, waited>>
      BY <1>6 DEF HubCallback, Goto
    <2>2. /\ break' \in BOOLEAN /\ pending' \in BOOLEAN
          /\ pending' => platform = "windows" /\ break'
      <3>1. CASE ~got
        BY <1>1, <2>1, <3>1
      <3>2. CASE got /\ platform = "windows"
        BY <1>1, <2>1, <3>2
      <3>3. CASE got /\ platform # "windows"
        <4>1. pending' = pending /\ break' = (break /\ platform = "windows")
          BY <2>1, <3>3 DEF HubClean
        <4> QED
          BY <1>1, <3>3, <4>1
      <3> QED
        BY <3>1, <3>2, <3>3
    <2>3. IdleShape'
      BY <1>1, <2>1, <2>2 DEF timerVars, IdleShape, FlagIsDue, Marked
    <2> QED
      BY <2>1, <2>3, NoSleep
  <1>7. CASE HandlerLeave
    <2>1. IdleShape'
      BY <1>1, <1>7 DEF HandlerLeave, Goto, timerVars, IdleShape, FlagIsDue, Marked
    <2>2. loop' = "check"
      BY <1>7 DEF HandlerLeave, Goto
    <2> QED
      BY <2>1, <2>2, NoSleep
  <1>8. CASE TimerCheck
    <2>1. IdleShape'
      BY <1>1, <1>8 DEF TimerCheck, CheckBegin, Goto, IdleShape, FlagIsDue, Marked
    <2>2. loop' = "checking"
      BY <1>8 DEF TimerCheck, Goto
    <2> QED
      BY <2>1, <2>2, NoSleep
  <1>9. CASE TimerCheckEnd
    <2>1. loop = "checking" /\ loop' \in {"run", "handler"} /\ checking' = FALSE
          /\ UNCHANGED <<platform, ready, idleState, break, pending, got, timeout, waited>>
      BY <1>9 DEF TimerCheckEnd, CheckEnd
    <2>2. IdleShape'
      BY <1>1, <2>1 DEF IdleShape, FlagIsDue, Marked
    <2>3. loop' \notin {"arm", "wait"}
      BY <2>1
    <2> QED
      BY <2>2, <2>3, NoSleep
  <1> QED
    BY <1>2, <1>3, <1>4, <1>5, <1>6, <1>7, <1>8, <1>9

\* eh_task_wake_up, by whichever thread, and the event of a timer.
LEMMA WakeUpInv ==
  ASSUME IdleIInv, WakeUp
  PROVE  IdleShape' /\ SleepIsShort'
  <1>1. /\ IdleBreak /\ ready' = TRUE
        /\ UNCHANGED <<platform, loop, got>> /\ UNCHANGED <<timerVars, idleState, timeout, waited>>
    BY DEF WakeUp
  <1>2. /\ break' \in BOOLEAN /\ pending' \in BOOLEAN
        /\ FlagIsDue'
        /\ loop \in {"arm", "wait"} => break'
    BY <1>1, BreakInv DEF IdleIInv
  <1>3. IdleShape'
    BY <1>1, <1>2 DEF IdleIInv, IdleShape, timerVars
  <1> QED
    BY <1>1, <1>2, <1>3 DEF IdleIInv, SleepIsShort

LEMMA ExpireInv ==
  ASSUME IdleIInv, NEW t \in Timers, TimerExpires(t)
  PROVE  IdleShape' /\ SleepIsShort'
  <1>1. /\ checking /\ checking' = checking
        /\ \/ UNCHANGED <<ready, break, pending>>
           \/ ready' = TRUE /\ IdleBreak
        /\ UNCHANGED <<platform, loop, got>> /\ UNCHANGED <<idleState, timeout, waited>>
    BY DEF TimerExpires, CheckFire
  <1>2. loop = "checking"
    BY <1>1 DEF IdleIInv, IdleShape
  <1>3. CASE UNCHANGED <<ready, break, pending>>
    <2>1. IdleShape'
      BY <1>1, <1>3 DEF IdleIInv, IdleShape, FlagIsDue
    <2> QED
      BY <1>1, <1>2, <2>1, NoSleep
  <1>4. CASE ready' = TRUE /\ IdleBreak
    <2>1. break' \in BOOLEAN /\ pending' \in BOOLEAN /\ FlagIsDue'
      BY <1>1, <1>4, BreakInv DEF IdleIInv
    <2>2. IdleShape'
      BY <1>1, <1>4, <2>1 DEF IdleIInv, IdleShape
    <2> QED
      BY <1>1, <1>2, <2>2, NoSleep
  <1> QED
    BY <1>1, <1>3, <1>4

\* A thread starts a timer: when it is not the first, the sleep that is long
\* enough for the first is so for it.
LEMMA ThreadStartInv ==
  ASSUME IdleIInv, NEW t \in Timers, ThreadStart(t) \/ ThreadRestart(t)
  PROVE  IdleShape' /\ SleepIsShort'
  <1>1. /\ TimerStart(t) \/ TimerRestart(t)
        /\ IF FirstUpdate(t) THEN IdleBreak ELSE UNCHANGED <<break, pending>>
        /\ UNCHANGED <<platform, loop, got>> /\ UNCHANGED <<ready, idleState, timeout, waited>>
    BY DEF ThreadStart, ThreadRestart
  <1>2. checking' = checking
    BY <1>1 DEF TimerStart, TimerRestart
  <1>3. /\ DOMAIN left' = DOMAIN left \cup {t}
        /\ \A u \in DOMAIN left' : left'[u] = IF u = t THEN interval[t] ELSE left[u]
        /\ ~FirstUpdate(t) => \E u \in DOMAIN left : left[u] <= left'[t]
    BY <1>1, StartInv DEF IdleIInv
  <1>4. CASE FirstUpdate(t)
    <2>1. /\ break' \in BOOLEAN /\ pending' \in BOOLEAN /\ FlagIsDue'
          /\ loop \in {"arm", "wait"} => break'
      BY <1>1, <1>4, BreakInv DEF IdleIInv
    <2>2. IdleShape'
      BY <1>1, <1>2, <2>1 DEF IdleIInv, IdleShape
    <2> QED
      BY <1>1, <2>1, <2>2 DEF IdleIInv, SleepIsShort
  <1>5. CASE ~FirstUpdate(t)
    <2>1. UNCHANGED <<break, pending>>
      BY <1>1, <1>5
    <2>2. IdleShape'
      BY <1>1, <1>2, <2>1 DEF IdleIInv, IdleShape, FlagIsDue
    <2>3. ASSUME NEW slack \in Nat, InTime(slack)
          PROVE  ~ready' /\ \A u \in DOMAIN left' : timeout' - waited' <= left'[u] + slack
      <3>1. PICK v \in DOMAIN left : left[v] <= left'[t]
        BY <1>3, <1>5
      <3>2. /\ timeout \in Int /\ waited \in Int
            /\ \A u \in DOMAIN left : /\ left[u] \in Int
                                      /\ timeout - waited <= left[u] + slack
            /\ left'[t] \in Int
        <4>1. /\ timeout \in Int /\ waited \in Int
              /\ \A u \in DOMAIN left : left[u] \in Int
          BY TimerFacts DEF IdleIInv, IdleShape
        <4>2. \A u \in DOMAIN left : timeout - waited <= left[u] + slack
          BY <2>3 DEF InTime
        <4>3. left'[t] = interval[t] /\ interval[t] \in Int
          BY <1>3, TimerFacts DEF IdleIInv
        <4> QED
          BY <4>1, <4>2, <4>3
      <3>3. timeout - waited <= left'[t] + slack
        BY <3>1, <3>2
      <3>4. \A u \in DOMAIN left' : u # t => u \in DOMAIN left /\ left'[u] = left[u]
        BY <1>3
      <3> QED
        BY <1>1, <2>3, <3>2, <3>3, <3>4 DEF InTime
    <2>4. 0 \in Nat /\ MaxLag \in Nat
      BY TimerFacts DEF IdleIInv
    <2>5. (InTime(0) => InTime(0)') /\ (InTime(MaxLag) => InTime(MaxLag)')
      BY <2>3, <2>4 DEF InTime
    <2> QED
      BY <1>1, <2>1, <2>2, <2>5 DEF IdleIInv, SleepIsShort
  <1> QED
    BY <1>4, <1>5

\* A thread stops a timer, or configures it.
LEMMA ThreadStopInv ==
  ASSUME IdleIInv, NEW t \in Timers, ThreadStop(t) \/ ThreadConfig(t)
  PROVE  IdleShape' /\ SleepIsShort'
  <1>1. /\ TimerStop(t) \/ TimerConfig(t) \/ TimerSetAttr(t)
        /\ UNCHANGED idleVars
    BY DEF ThreadStop, ThreadConfig
  <1>2. checking' = checking
    BY <1>1 DEF TimerStop, TimerConfig, TimerSetAttr
  <1>3. \A u \in DOMAIN left' : u \in DOMAIN left /\ left'[u] = left[u]
    <2>1. CASE TimerStop(t)
      BY <2>1, StopInv DEF IdleIInv
    <2>2. CASE TimerConfig(t) \/ TimerSetAttr(t)
      BY <2>2, ConfigInv DEF IdleIInv
    <2> QED
      BY <1>1, <2>1, <2>2
  <1>4. UNCHANGED <<platform, loop, ready, idleState, break, pending, got, timeout, waited>>
    BY <1>1 DEF idleVars
  <1>5. IdleShape'
    BY <1>2, <1>4 DEF IdleIInv, IdleShape, FlagIsDue
  <1>6. (InTime(0) => InTime(0)') /\ (InTime(MaxLag) => InTime(MaxLag)')
    BY <1>3, <1>4 DEF InTime
  <1> QED
    BY <1>4, <1>5, <1>6 DEF IdleIInv, SleepIsShort

\* Time passes while the loop is on its way to the wait, or waits.
LEMMA PassInv ==
  ASSUME IdleIInv, Pass
  PROVE  IdleShape' /\ SleepIsShort'
  <1>1. /\ Tick
        /\ loop = "arm" => waited < MaxLag
        /\ waited' = IF loop = "arm" \/ (loop = "wait" /\ waited < timeout)
                     THEN waited + 1 ELSE waited
        /\ UNCHANGED <<platform, loop, ready, idleState, break, pending, got, timeout>>
    BY DEF Pass
  <1>2. checking' = checking
    BY <1>1 DEF Tick
  <1>3. /\ waited \in Nat /\ timeout \in Nat /\ waited' \in Nat /\ MaxLag \in Nat
        /\ \A t \in DOMAIN left : left[t] \in Int
    BY <1>1, TimerFacts DEF IdleIInv, IdleShape
  <1>4. /\ DOMAIN left' = DOMAIN left
        /\ \A t \in DOMAIN left : left'[t] = left[t] - 1
    BY <1>1, TickInv DEF IdleIInv
  <1>5. IdleShape'
    BY <1>1, <1>2, <1>3 DEF IdleIInv, IdleShape, FlagIsDue
  <1>6. ASSUME waited' = waited + 1, NEW slack \in Nat, InTime(slack)
        PROVE  ~ready' /\ \A t \in DOMAIN left' : timeout' - waited' <= left'[t] + slack
    <2>1. \A t \in DOMAIN left : timeout - waited <= left[t] + slack
      BY <1>6 DEF InTime
    <2>2. \A t \in DOMAIN left : timeout - (waited + 1) <= (left[t] - 1) + slack
      BY <1>3, <2>1
    <2> QED
      BY <1>1, <1>4, <1>6, <2>2 DEF InTime
  <1>7. waited' = waited + 1 => /\ InTime(0) => InTime(0)'
                                /\ InTime(MaxLag) => InTime(MaxLag)'
    BY <1>3, <1>6 DEF InTime
  <1>8. CASE loop = "arm"
    <2>1. waited' = waited + 1 /\ waited' <= MaxLag
      BY <1>1, <1>3, <1>8
    <2> QED
      BY <1>1, <1>5, <1>7, <1>8, <2>1 DEF IdleIInv, SleepIsShort
  <1>9. CASE loop = "wait"
    <2>1. CASE waited < timeout
      <3>1. waited' = waited + 1 /\ timeout > waited
        BY <1>1, <1>3, <1>9, <2>1
      <3> QED
        BY <1>1, <1>5, <1>7, <1>9, <3>1 DEF IdleIInv, SleepIsShort
    <2>2. CASE ~(waited < timeout)
      <3>1. ~(timeout' > waited')
        BY <1>1, <1>3, <1>9, <2>2
      <3> QED
        BY <1>1, <1>5, <1>9, <3>1 DEF SleepIsShort
    <2> QED
      BY <2>1, <2>2
  <1>10. CASE loop \notin {"arm", "wait"}
    BY <1>1, <1>5, <1>10, NoSleep
  <1> QED
    BY <1>8, <1>9, <1>10

LEMMA IdleStep ==
  ASSUME IdleIInv, [Next]_vars
  PROVE  IdleIInv'
  <1>1. TimerIInv'
    BY TimerStep DEF IdleIInv
  <1>2. IdleShape' /\ SleepIsShort'
    <2>1. CASE UNCHANGED vars
      <3>1. UNCHANGED idleVars /\ checking' = checking /\ left' = left
        BY <2>1 DEF vars, timerVars
      <3>2. UNCHANGED <<platform, loop, ready, idleState, break, pending, got, timeout, waited>>
        BY <3>1 DEF idleVars
      <3> QED
        BY <3>1, <3>2 DEF IdleIInv, IdleShape, FlagIsDue, SleepIsShort, InTime
    <2>2. CASE \/ TasksRun \/ TasksPoll \/ HandlerEnter \/ HubArm \/ HubReturn \/ HubCallback
               \/ HandlerLeave \/ TimerCheck \/ TimerCheckEnd
      BY <2>2, LoopInv
    <2>3. CASE WakeUp
      BY <2>3, WakeUpInv
    <2>4. CASE Pass
      BY <2>4, PassInv
    <2>5. ASSUME NEW t \in Timers, \/ TimerExpires(t) \/ ThreadStart(t) \/ ThreadRestart(t)
                                   \/ ThreadStop(t) \/ ThreadConfig(t)
          PROVE  IdleShape' /\ SleepIsShort'
      BY <2>5, ExpireInv, ThreadStartInv, ThreadStopInv
    <2> QED
      BY <2>1, <2>2, <2>3, <2>4, <2>5, Zenon DEF Next
  <1> QED
    BY <1>1, <1>2 DEF IdleIInv

\* platform_idle_or_extern_event_handler against eh_idle_break: no sleep is too
\* long for a ready task or for the first deadline unless its wake-up is on the
\* way, whichever thread starts a timer or wakes up a task at whatever moment,
\* and the flag of Windows never claims a packet that is not there.
THEOREM SleepsAreShort == Spec => []NoOversleep
  <1>1. Init => IdleIInv
    BY IdleInit
  <1>2. IdleIInv /\ [Next]_vars => IdleIInv'
    BY IdleStep
  <1>3. IdleIInv => NoOversleep
    BY IdleGivesNoOversleep
  <1> QED
    BY <1>1, <1>2, <1>3, PTL DEF Spec
=============================================================================
