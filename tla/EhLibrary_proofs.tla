---------------------------- MODULE EhLibrary_proofs ----------------------------
(***************************************************************************)
(* What some of the libraries promise, for every value of their constants. *)
(* A ring buffer is a queue of bytes for one writer and one reader that    *)
(* take no lock, whatever its size, the width of the indices and the set   *)
(* of bytes are.  A memory pool hands out each block to one caller at a    *)
(* time and forgets none, whatever the number and the size of the blocks   *)
(* and the pointers are that the program releases.  The modules of a       *)
(* program are initialised and left in the order of their sections,        *)
(* whatever the order in which the linker has collected them.  The heap    *)
(* loses no byte and hands out none twice, whatever the heaps, the         *)
(* alignment and the sizes are.                                            *)
(***************************************************************************)
EXTENDS EhRingbuf, EhMemPool, EhLife, EhMem, WellFoundedInduction, FiniteSetTheorems, TLAPS

-----------------------------------------------------------------------------
(* Arithmetic with a modulus.                                              *)

LEMMA Modulus ==
  ASSUME NEW m \in Nat \ {0}, NEW x \in Int
  PROVE  /\ x % m \in 0 .. m - 1
         /\ \E k \in Int : x = (x % m) + k * m
  <1>1. x % m \in 0 .. m - 1
    OBVIOUS
  <1>2. x = m * (x \div m) + (x % m) /\ x \div m \in Int
    OBVIOUS
  <1>3. x = (x % m) + (x \div m) * m
    BY <1>1, <1>2
  <1> QED
    BY <1>1, <1>2, <1>3

\* A multiple of the modulus that is smaller than it is nothing.
LEMMA NoMultiple ==
  ASSUME NEW m \in Nat \ {0}, NEW d \in Int, NEW k \in Int, d = k * m, d < m, -d < m
  PROVE  d = 0
  <1>1. CASE k = 0
    BY <1>1
  <1>2. CASE k >= 1
    <2>1. k * m >= m
      BY <1>2
    <2> QED
      BY <2>1
  <1>3. CASE k <= -1
    <2>1. k * m <= -m
      BY <1>3
    <2> QED
      BY <2>1
  <1> QED
    BY <1>1, <1>2, <1>3

LEMMA ModulusIs ==
  ASSUME NEW m \in Nat \ {0}, NEW x \in Int, NEW r \in 0 .. m - 1, NEW k \in Int, x = r + k * m
  PROVE  x % m = r
  <1>1. PICK l \in Int : x = (x % m) + l * m
    BY Modulus
  <1>2. x % m \in 0 .. m - 1
    BY Modulus
  <1> DEFINE q == x % m
             a == k * m
             b == l * m
             c == (l - k) * m
  <1>3. c = b - a /\ a \in Int /\ b \in Int /\ c \in Int
    OBVIOUS
  <1>4. x = q + b /\ x = r + a /\ q \in 0 .. m - 1
    BY <1>1, <1>2
  <1>5. l - k \in Int
    OBVIOUS
  <1>6. r - q = c /\ r - q < m /\ -(r - q) < m
    <2> HIDE DEF a, b, c, q
    <2> QED
      BY <1>3, <1>4
  <1>7. r - q \in Int
    BY <1>4
  <1>8. r - q = 0
    <2> HIDE DEF q
    <2> QED
      BY <1>5, <1>6, <1>7, NoMultiple DEF c
  <1> HIDE DEF q
  <1> QED
    BY <1>4, <1>8 DEF q

\* Numbers a period apart, and numbers within a period.
LEMMA ModulusShift ==
  ASSUME NEW m \in Nat \ {0}, NEW x \in Int, NEW k \in Int
  PROVE  (x + k * m) % m = x % m
  <1>1. PICK l \in Int : x = (x % m) + l * m
    BY Modulus
  <1>2. x % m \in 0 .. m - 1
    BY Modulus
  <1> DEFINE r == x % m
             a == k * m
             b == l * m
             c == (k + l) * m
  <1>3. c = a + b /\ a \in Int /\ b \in Int
    OBVIOUS
  <1>4. x = r + b /\ r \in Int
    BY <1>1, <1>2
  <1>5. x + a = r + c
    <2> HIDE DEF a, b, c, r
    <2> QED
      BY <1>3, <1>4
  <1>6. k + l \in Int /\ x + a \in Int /\ r \in 0 .. m - 1
    BY <1>2
  <1> HIDE DEF r
  <1> QED
    BY <1>5, <1>6, ModulusIs DEF r

LEMMA ModulusDiffers ==
  ASSUME NEW m \in Nat \ {0}, NEW x \in Int, NEW y \in Int, x % m = y % m, x - y < m, y - x < m
  PROVE  x = y
  <1>1. PICK k \in Int : x = (x % m) + k * m
    BY Modulus
  <1>2. PICK l \in Int : y = (y % m) + l * m
    BY Modulus
  <1> DEFINE r == x % m
             a == k * m
             b == l * m
             c == (k - l) * m
  <1>3. c = a - b /\ a \in Int /\ b \in Int
    OBVIOUS
  <1>4. x = r + a /\ y = r + b /\ r \in Int
    BY <1>1, <1>2, Modulus
  <1>5. k - l \in Int /\ x - y \in Int
    OBVIOUS
  <1>6. x - y = c /\ x - y < m /\ -(x - y) < m
    <2> HIDE DEF a, b, c, r
    <2> QED
      BY <1>3, <1>4
  <1>7. x - y = 0
    BY <1>5, <1>6, NoMultiple
  <1> QED
    BY <1>7

-----------------------------------------------------------------------------
(* The indices of a ring buffer.                                           *)

\* While the indices run over twice the size their difference is what its sign says.
LEMMA SignedSmall ==
  ASSUME NEW n \in RingSizes, NEW x \in Int, -(2 * n) < x, x < 2 * n
  PROVE  RingSigned(x) = x
  <1> DEFINE h == RingWidth \div 2
             y == x % RingWidth
  <1>1. /\ n \in Nat \ {0} /\ RingWidth \in Nat /\ h \in Nat
        /\ RingWidth >= 2 * h /\ 2 * n < h + 1
    BY RingAssumption
  <1> HIDE DEF h
  <1>2. RingWidth \in Nat \ {0}
    BY <1>1
  <1>3. CASE x >= 0
    <2>1. x \in 0 .. RingWidth - 1 /\ x = x + 0 * RingWidth /\ x < h
      BY <1>1, <1>3
    <2>2. y = x
      BY <1>2, <2>1, ModulusIs
    <2> QED
      BY <2>1, <2>2 DEF RingSigned, h
  <1>4. CASE x < 0
    <2> DEFINE z == x + RingWidth
    <2>1. z \in 0 .. RingWidth - 1 /\ x = z + (-1) * RingWidth /\ ~(z < h) /\ z - RingWidth = x
      BY <1>1, <1>4
    <2> HIDE DEF z
    <2>2. y = z
      BY <1>2, <2>1, ModulusIs
    <2> QED
      BY <2>1, <2>2 DEF RingSigned, h
  <1> QED
    BY <1>3, <1>4

\* eh_ringbuf_fix takes an index back by twice the size, once at most.
LEMMA FixIs ==
  ASSUME NEW n \in RingSizes, NEW x \in Nat, x < 4 * n
  PROVE  (x % RingWidth) % (2 * n) = IF x < 2 * n THEN x ELSE x - 2 * n
  <1> DEFINE h == RingWidth \div 2
             m == 2 * n
  <1>1. /\ n \in Nat \ {0} /\ RingWidth \in Nat /\ h \in Nat
        /\ RingWidth >= 2 * h /\ m < h + 1 /\ m \in Nat \ {0}
    BY RingAssumption
  <1> HIDE DEF h
  <1>2. RingWidth \in Nat \ {0} /\ x \in 0 .. RingWidth - 1 /\ x = x + 0 * RingWidth
    BY <1>1
  <1>3. x % RingWidth = x
    BY <1>2, ModulusIs
  <1>4. CASE x < m
    <2>1. x \in 0 .. m - 1 /\ x = x + 0 * m
      BY <1>1, <1>4
    <2> HIDE DEF m
    <2>2. x % m = x
      BY <1>1, <2>1, ModulusIs
    <2> QED
      BY <1>3, <1>4, <2>2 DEF m
  <1>5. CASE ~(x < m)
    <2> DEFINE r == x - m
    <2>1. r \in 0 .. m - 1 /\ x = r + 1 * m
      BY <1>1, <1>5
    <2> HIDE DEF m, r
    <2>2. x % m = r
      BY <1>1, <2>1, ModulusIs
    <2> QED
      BY <1>3, <1>5, <2>2 DEF m, r
  <1> QED
    BY <1>4, <1>5

\* What is in use between two indices, as eh_ringbuf_size computes it.
Between(w, r, n) == IF w >= r THEN w - r ELSE 2 * n + (w - r)

RingBuffers(n) == [0 .. n - 1 -> RingByte]

\* The bytes of a buffer from an index on.
Bytes(b, n, index, k) == [i \in 1 .. k |-> b[(index + (i - 1)) % n]]

LEMMA BytesShape ==
  ASSUME NEW n \in Nat \ {0}, NEW b \in RingBuffers(n), NEW x \in Int, NEW k \in Nat
  PROVE  /\ Bytes(b, n, x, k) \in [1 .. k -> RingByte]
         /\ Bytes(b, n, x, k) \in Seq(RingByte)
         /\ Len(Bytes(b, n, x, k)) = k
         /\ \A i \in 1 .. k : Bytes(b, n, x, k)[i] = b[(x + (i - 1)) % n]
  <1> DEFINE s == Bytes(b, n, x, k)
  <1>1. ASSUME NEW i \in 1 .. k
        PROVE  b[(x + (i - 1)) % n] \in RingByte
    <2>1. x + (i - 1) \in Int
      OBVIOUS
    <2>2. (x + (i - 1)) % n \in 0 .. n - 1
      BY <2>1, Modulus
    <2> QED
      BY <2>2 DEF RingBuffers
  <1>2. s \in [1 .. k -> RingByte]
    BY <1>1 DEF Bytes
  <1>3. \A i \in 1 .. k : s[i] = b[(x + (i - 1)) % n]
    BY DEF Bytes
  <1> HIDE DEF s
  <1>4. s \in Seq(RingByte) /\ Len(s) = k
    BY <1>2
  <1> QED
    BY <1>2, <1>3, <1>4 DEF s

\* A part of what is in the buffer.
CutIs(b, n, x, k, u, v) == SubSeq(Bytes(b, n, x, k), u + 1, v) = Bytes(b, n, x + u, v - u)

LEMMA BytesCut ==
  ASSUME NEW n \in Nat \ {0}, NEW b \in RingBuffers(n), NEW x \in Int,
         NEW k \in Nat, NEW u \in Nat, NEW v \in Nat, u <= v, v <= k
  PROVE  CutIs(b, n, x, k, u, v)
  <1> DEFINE s == Bytes(b, n, x, k)
             l == v - u
             z == x + u
             t == Bytes(b, n, z, l)
             c == SubSeq(s, u + 1, v)
  <1>1. /\ s \in Seq(RingByte) /\ Len(s) = k
        /\ \A i \in 1 .. k : s[i] = b[(x + (i - 1)) % n]
    BY BytesShape
  <1>2. z \in Int /\ l \in Nat
    OBVIOUS
  <1>3. /\ t \in Seq(RingByte) /\ Len(t) = l
        /\ \A i \in 1 .. l : t[i] = b[(z + (i - 1)) % n]
    <2> HIDE DEF l, z
    <2> QED
      BY <1>2, BytesShape
  <1> HIDE DEF s, t
  <1>4. /\ c \in Seq(RingByte) /\ Len(c) = l
        /\ \A i \in 1 .. l : c[i] = s[i + u] /\ i + u \in 1 .. k
    <2>1. c \in Seq(RingByte) /\ Len(c) = l
      BY <1>1
    <2>2. ASSUME NEW i \in 1 .. l
          PROVE  c[i] = s[i + u] /\ i + u \in 1 .. k
      <3>1. c[i] = s[(u + 1) + i - 1]
        BY <1>1
      <3>2. (u + 1) + i - 1 = i + u /\ i + u \in 1 .. k
        BY <1>2
      <3> QED
        BY <3>1, <3>2
    <2> QED
      BY <2>1, <2>2
  <1> HIDE DEF c, l
  <1>5. ASSUME NEW i \in 1 .. l
        PROVE  c[i] = t[i]
    <2>1. c[i] = s[i + u] /\ i + u \in 1 .. k
      BY <1>4
    <2>2. s[i + u] = b[(x + ((i + u) - 1)) % n]
      BY <1>1, <2>1
    <2>3. x + ((i + u) - 1) = z + (i - 1)
      BY <1>2
    <2> QED
      BY <1>3, <2>1, <2>2, <2>3
  <1>6. c = t
    BY <1>2, <1>3, <1>4, <1>5
  <1> QED
    BY <1>6 DEF CutIs, c, t, s, l, z

LEMMA BytesFront ==
  ASSUME NEW n \in Nat \ {0}, NEW b \in RingBuffers(n), NEW x \in Int,
         NEW k \in Nat, NEW v \in Nat, v <= k
  PROVE  SubSeq(Bytes(b, n, x, k), 1, v) = Bytes(b, n, x, v)
  <1>1. 0 \in Nat /\ 0 <= v /\ 0 + 1 = 1 /\ x + 0 = x /\ v - 0 = v
    OBVIOUS
  <1>2. CutIs(b, n, x, k, 0, v)
    BY <1>1, BytesCut
  <1> QED
    BY <1>1, <1>2 DEF CutIs

LEMMA BytesJoin ==
  ASSUME NEW n \in Nat \ {0}, NEW b \in RingBuffers(n), NEW x \in Int,
         NEW k \in Nat, NEW l \in Nat
  PROVE  Bytes(b, n, x, k + l) = Bytes(b, n, x, k) \o Bytes(b, n, x + k, l)
  <1> DEFINE s == Bytes(b, n, x, k)
             t == Bytes(b, n, x + k, l)
             j == s \o t
             a == Bytes(b, n, x, k + l)
  <1>1. /\ s \in Seq(RingByte) /\ Len(s) = k
        /\ \A i \in 1 .. k : s[i] = b[(x + (i - 1)) % n]
    BY BytesShape
  <1>2. x + k \in Int /\ k + l \in Nat
    OBVIOUS
  <1>3. /\ t \in Seq(RingByte) /\ Len(t) = l
        /\ \A i \in 1 .. l : t[i] = b[((x + k) + (i - 1)) % n]
    BY <1>2, BytesShape
  <1>4. /\ a \in Seq(RingByte) /\ Len(a) = k + l
        /\ \A i \in 1 .. k + l : a[i] = b[(x + (i - 1)) % n]
    BY <1>2, BytesShape
  <1> HIDE DEF s, t, a
  <1>5. /\ j \in Seq(RingByte) /\ Len(j) = k + l
        /\ \A i \in 1 .. k + l : j[i] = IF i <= k THEN s[i] ELSE t[i - k]
    <2>1. s \in Seq(RingByte) /\ t \in Seq(RingByte) /\ Len(s) = k /\ Len(t) = l
      BY <1>1, <1>3
    <2>2. /\ j \in Seq(RingByte) /\ Len(j) = Len(s) + Len(t)
          /\ \A i \in 1 .. Len(s) + Len(t) : j[i] = IF i <= Len(s) THEN s[i] ELSE t[i - Len(s)]
      BY <2>1
    <2> HIDE DEF j
    <2> QED
      BY <2>1, <2>2
  <1> HIDE DEF j
  <1>6. ASSUME NEW i \in 1 .. k + l
        PROVE  a[i] = j[i]
    <2>1. CASE i <= k
      <3>1. i \in 1 .. k
        BY <2>1
      <3> QED
        BY <1>1, <1>4, <1>5, <2>1, <3>1
    <2>2. CASE ~(i <= k)
      <3>1. i - k \in 1 .. l /\ (x + k) + ((i - k) - 1) = x + (i - 1)
        BY <2>2
      <3>2. j[i] = t[i - k]
        BY <1>5, <2>2
      <3>3. t[i - k] = b[((x + k) + ((i - k) - 1)) % n]
        BY <1>3, <3>1
      <3>4. a[i] = b[(x + (i - 1)) % n]
        BY <1>4
      <3> QED
        BY <3>1, <3>2, <3>3, <3>4
    <2> QED
      BY <2>1, <2>2
  <1>7. a = j
    BY <1>2, <1>4, <1>5, <1>6
  <1> QED
    BY <1>7 DEF a, j, s, t

\* An index that is taken back by twice the size shows the same bytes.
LEMMA BytesAround ==
  ASSUME NEW n \in Nat \ {0}, NEW b \in RingBuffers(n), NEW x \in Int, NEW k \in Nat
  PROVE  Bytes(b, n, x - 2 * n, k) = Bytes(b, n, x, k)
  <1>1. ASSUME NEW i \in 1 .. k
        PROVE  ((x - 2 * n) + (i - 1)) % n = (x + (i - 1)) % n
    <2> DEFINE y == x + (i - 1)
    <2>1. y \in Int /\ -2 \in Int /\ (x - 2 * n) + (i - 1) = y + (-2) * n
      OBVIOUS
    <2> HIDE DEF y
    <2>2. (y + (-2) * n) % n = y % n
      BY <2>1, ModulusShift
    <2> QED
      BY <2>1, <2>2 DEF y
  <1> QED
    BY <1>1 DEF Bytes

\* Two buffers hold the same where u bytes from r on are in use.
SameInUse(b, c, n, r, u) ==
  \A k \in 0 .. u, y \in Int : \A v \in 0 .. u :
    y = r + v /\ v + k <= u => Bytes(b, n, y, k) = Bytes(c, n, y, k)

\* What is stored behind the bytes in use leaves them as they are.
LEMMA StoredBehind ==
  ASSUME NEW n \in Nat \ {0}, ringSize = n, ringBuf \in RingBuffers(n),
         NEW s \in Seq(RingByte), NEW x \in Int, NEW r \in Int, NEW u \in Nat, NEW at \in Nat,
         NEW q \in {0, 1}, x = (r + u + at) - q * (2 * n), u + at + Len(s) <= n
  PROVE  /\ RingStored(x, s) \in RingBuffers(n)
         /\ SameInUse(RingStored(x, s), ringBuf, n, r, u)
  <1> DEFINE new == RingStored(x, s)
             hit(p) == \E i \in DOMAIN s : RingPos(x, i - 1) = p
             the(p) == CHOOSE i \in DOMAIN s : RingPos(x, i - 1) = p
  <1>1. new = [p \in 0 .. n - 1 |-> IF hit(p) THEN s[the(p)] ELSE ringBuf[p]]
    BY DEF RingStored, RingBuffers
  <1>2. ASSUME NEW p \in 0 .. n - 1
        PROVE  (IF hit(p) THEN s[the(p)] ELSE ringBuf[p]) \in RingByte
    <2>1. CASE hit(p)
      <3>1. the(p) \in DOMAIN s
        BY <2>1
      <3>2. s[the(p)] \in RingByte
        <4> HIDE DEF the
        <4> QED
          BY <3>1
      <3> QED
        BY <2>1, <3>2
    <2>2. CASE ~hit(p)
      BY <2>2 DEF RingBuffers
    <2> QED
      BY <2>1, <2>2
  <1>3. new \in RingBuffers(n)
    <2> HIDE DEF hit, the, new
    <2> QED
      BY <1>1, <1>2 DEF RingBuffers
  <1>4. ASSUME NEW j \in 0 .. u - 1
        PROVE  ~hit((r + j) % n)
    <2>1. SUFFICES ASSUME NEW i \in DOMAIN s, (x + (i - 1)) % n = (r + j) % n
                   PROVE  FALSE
      BY DEF RingPos
    <2>2. i \in 1 .. Len(s) /\ i \in Int /\ j \in Int
      OBVIOUS
    <2> DEFINE y == (r + u + at) + (i - 1)
    <2>3. x + (i - 1) = y + ((-2) * q) * n /\ (-2) * q \in Int /\ y \in Int
      <3>1. CASE q = 0
        BY <2>2, <3>1
      <3>2. CASE q = 1
        BY <2>2, <3>2
      <3> QED
        BY <3>1, <3>2
    <2>4. y - (r + j) < n /\ (r + j) - y < n /\ y # r + j /\ r + j \in Int
      BY <2>2
    <2> HIDE DEF y
    <2>5. (y + ((-2) * q) * n) % n = y % n
      BY <2>3, ModulusShift
    <2>6. y % n = (r + j) % n
      BY <2>1, <2>3, <2>5
    <2>7. y = r + j
      <3> DEFINE z == r + j
      <3>1. z \in Int /\ y \in Int /\ y % n = z % n /\ y - z < n /\ z - y < n
        BY <2>3, <2>4, <2>6
      <3> HIDE DEF z
      <3>2. y = z
        BY <3>1, ModulusDiffers
      <3> QED
        BY <3>2 DEF z
    <2> QED
      BY <2>4, <2>7
  <1>5. ASSUME NEW k \in 0 .. u, NEW y \in Int, NEW v \in 0 .. u, y = r + v, v + k <= u
        PROVE  Bytes(new, n, y, k) = Bytes(ringBuf, n, y, k)
    <2>1. ASSUME NEW i \in 1 .. k
          PROVE  new[(y + (i - 1)) % n] = ringBuf[(y + (i - 1)) % n]
      <3> DEFINE j == v + (i - 1)
                 p == (r + j) % n
      <3>1. j \in 0 .. u - 1 /\ y + (i - 1) = r + j /\ r + j \in Int
        BY <1>5
      <3>2. p \in 0 .. n - 1
        <4> HIDE DEF j
        <4> QED
          BY <3>1, Modulus
      <3>3. ~hit(p)
        <4> HIDE DEF j, hit
        <4> QED
          BY <1>4, <3>1
      <3>4. new[p] = ringBuf[p]
        <4> HIDE DEF p, hit, the, new
        <4> QED
          BY <1>1, <3>2, <3>3
      <3> HIDE DEF new, j
      <3> QED
        BY <3>1, <3>4
    <2> HIDE DEF new
    <2> QED
      BY <2>1 DEF Bytes
  <1> QED
    BY <1>3, <1>5 DEF SameInUse

-----------------------------------------------------------------------------
(* The invariant: each side may rely on what it has seen of the other one, *)
(* as the other one's index has only moved in its favour since.            *)

RingUse == Between(ringW, ringR, ringSize)

\* What the writer is about to publish is free.
PutFits ==
  \/ ringPut = RingNothing
  \/ /\ ringPut.step \in {"write", "draft"}
     /\ ringPut.at \in Nat /\ ringPut.bytes \in Seq(RingByte)
     /\ ringPut.n = ringPut.at + Len(ringPut.bytes) /\ ringPut.n > 0
     /\ RingUse + ringPut.n <= ringSize
  \/ /\ ringPut.step \in {"drafted", "publish"}
     /\ ringPut.n \in Nat /\ ringPut.n > 0
     /\ RingUse + ringPut.n <= ringSize

\* What the reader is about to take is there, and what it has copied is that.
GetFits ==
  \/ ringGet = RingNothing
  \/ /\ ringGet.step \in {"read", "skip", "publish"}
     /\ ringGet.n \in 1 .. RingUse
     /\ ringGet.step = "publish" => ringGet.bytes = Bytes(ringBuf, ringSize, ringR, ringGet.n)

PeekFits == ringPeek.n \in Nat /\ ringPeek.at \in Nat /\ ringPeek.at + ringPeek.n <= RingUse

RingShape ==
  /\ ringSize \in RingSizes
  /\ ringBuf \in RingBuffers(ringSize)
  /\ ringW \in 0 .. 2 * ringSize - 1
  /\ ringR \in 0 .. 2 * ringSize - 1
  /\ RingUse <= ringSize

RingRuns == RingShape /\ PutFits /\ GetFits /\ PeekFits

RingIInv ==
  \/ /\ ringSize = 0 /\ ringW = 0 /\ ringR = 0
     /\ ringPut = RingNothing /\ ringGet = RingNothing /\ ringPeek = RingNothing
  \/ RingRuns

\* What the queue is mapped to.
Content == IF ringSize = 0 THEN << >> ELSE RingBytes(ringR, RingUsed)
Shown == RingBytes(ringR + ringPeek.at, ringPeek.n)
QueueStep == [RingPromises!QueueNext]_<<ringSize, Content, ringTaken, Shown>>

LEMMA RingSeen ==
  ASSUME RingShape
  PROVE  /\ ringSize \in Nat \ {0} /\ RingUse \in 0 .. ringSize
         /\ ringW \in Nat /\ ringR \in Nat
         /\ RingUsed = RingUse /\ RingFree = ringSize - RingUse
         /\ ringW = ringR + RingUse \/ ringW = ringR + RingUse - 2 * ringSize
         /\ Content = Bytes(ringBuf, ringSize, ringR, RingUse)
         /\ Shown = Bytes(ringBuf, ringSize, ringR + ringPeek.at, ringPeek.n)
  <1> DEFINE n == ringSize
             d == ringW - ringR
  <1>1. n \in RingSizes /\ n \in Nat \ {0} /\ ringW \in 0 .. 2 * n - 1 /\ ringR \in 0 .. 2 * n - 1
    BY RingAssumption DEF RingShape
  <1>2. d \in Int /\ -(2 * n) < d /\ d < 2 * n
    BY <1>1
  <1>3. RingSigned(d) = d
    <2> HIDE DEF n, d
    <2> QED
      BY <1>1, <1>2, SignedSmall
  <1>4. RingDiff = ringW - ringR
    BY <1>3 DEF RingDiff
  <1>5. RingUse <= n /\ RingUse = IF ringW >= ringR THEN ringW - ringR ELSE 2 * n + (ringW - ringR)
    BY DEF RingShape, RingUse, Between
  <1>6. RingUsed = RingUse
    BY <1>1, <1>4, <1>5 DEF RingUsed
  <1>7. RingUse \in 0 .. n /\ RingFree = n - RingUse
    BY <1>1, <1>4, <1>5 DEF RingFree
  <1>8. ringW = ringR + RingUse \/ ringW = ringR + RingUse - 2 * n
    BY <1>1, <1>5
  <1>9. Content = Bytes(ringBuf, n, ringR, RingUse) /\ Shown = Bytes(ringBuf, n, ringR + ringPeek.at, ringPeek.n)
    BY <1>1, <1>6 DEF Content, Shown, RingBytes, RingPos, Bytes
  <1> QED
    BY <1>1, <1>6, <1>7, <1>8, <1>9

\* The same after a step.
LEMMA IndicesSigned ==
  ASSUME NEW n \in RingSizes, NEW w \in 0 .. 2 * n - 1, NEW r \in 0 .. 2 * n - 1
  PROVE  /\ RingSigned(w - r) = w - r
         /\ (IF w - r >= 0 THEN w - r ELSE 2 * n + (w - r)) = Between(w, r, n)
         /\ n # 0
  <1> DEFINE d == w - r
  <1>1. n \in Nat \ {0}
    BY RingAssumption
  <1>2. d \in Int /\ -(2 * n) < d /\ d < 2 * n
    BY <1>1
  <1>3. RingSigned(d) = d
    <2> HIDE DEF d
    <2> QED
      BY <1>1, <1>2, SignedSmall
  <1> QED
    BY <1>1, <1>3 DEF Between

LEMMA RingSeenNext ==
  ASSUME RingShape'
  PROVE  /\ Content' = Bytes(ringBuf', ringSize', ringR', RingUse')
         /\ Shown' = Bytes(ringBuf', ringSize', ringR' + ringPeek'.at, ringPeek'.n)
  <1>1. ringSize' \in RingSizes /\ ringW' \in 0 .. 2 * ringSize' - 1 /\ ringR' \in 0 .. 2 * ringSize' - 1
    BY DEF RingShape
  <1>2. /\ RingSigned(ringW' - ringR') = ringW' - ringR'
        /\ RingUse' = IF ringW' - ringR' >= 0 THEN ringW' - ringR' ELSE 2 * ringSize' + (ringW' - ringR')
        /\ ringSize' # 0
    BY <1>1, IndicesSigned DEF RingUse
  <1>3. RingDiff' = ringW' - ringR'
    BY <1>2 DEF RingDiff, RingSigned
  <1>4. RingUsed' = RingUse'
    BY <1>2, <1>3 DEF RingUsed
  <1> QED
    BY <1>2, <1>4 DEF Content, Shown, RingBytes, RingPos, Bytes

\* Steps of one side up to the store of its index change nothing the queue shows.
LEMMA PutLooks ==
  ASSUME RingRuns,
         \/ \E s \in Seq(RingByte), draft \in BOOLEAN : RingWriteLook(s, draft)
         \/ RingWriteSkip
  PROVE  RingRuns' /\ UNCHANGED <<ringSize, Content, ringTaken, Shown>>
  <1> DEFINE n == ringSize
             u == RingUse
  <1>1. UNCHANGED <<ringSize, ringW, ringR, ringBuf, ringGet, ringPeek, ringTaken>>
    BY DEF RingWriteLook, RingWriteSkip
  <1>2. UNCHANGED <<RingUse, Content, Shown>> /\ RingShape' /\ GetFits' /\ PeekFits'
    BY <1>1 DEF RingRuns, RingShape, GetFits, PeekFits, RingUse, Content, Shown, RingUsed, RingDiff,
                RingBytes, RingPos
  <1>3. n \in Nat \ {0} /\ u \in 0 .. n /\ RingFree = n - u
    BY RingSeen DEF RingRuns
  <1>4. PutFits'
    <2>1. CASE RingWriteSkip
      <3>1. /\ ringPut.step = "drafted"
            /\ Least(ringPut.n, RingFree) > 0
            /\ ringPut' = [RingNothing EXCEPT !.step = "publish", !.n = Least(ringPut.n, RingFree)]
        BY <2>1 DEF RingWriteSkip
      <3>2. ringPut.n \in Nat /\ ringPut.n > 0
        BY <3>1 DEF RingRuns, PutFits, RingNothing
      <3>3. Least(ringPut.n, RingFree) \in Nat /\ Least(ringPut.n, RingFree) <= n - u
        BY <1>3, <3>2 DEF Least
      <3>4. ringPut'.step = "publish" /\ ringPut'.n = Least(ringPut.n, RingFree)
        BY <3>1 DEF RingNothing
      <3>5. u + ringPut'.n <= n
        BY <1>3, <3>3, <3>4
      <3> QED
        BY <1>1, <1>2, <3>1, <3>3, <3>4, <3>5 DEF PutFits
    <2>2. CASE \E s \in Seq(RingByte), draft \in BOOLEAN : RingWriteLook(s, draft)
      <3>1. PICK s \in Seq(RingByte), draft \in BOOLEAN : RingWriteLook(s, draft)
        BY <2>2
      <3> DEFINE offset == IF ringPut.step = "drafted" THEN ringPut.n ELSE 0
                 m == Least(Len(s), RingFree - offset)
                 b == SubSeq(s, 1, m)
      <3>2. /\ m > 0
            /\ ringPut' = [step |-> IF draft THEN "draft" ELSE "write", n |-> offset + m,
                           bytes |-> b, at |-> offset]
        BY <3>1 DEF RingWriteLook
      <3>3. offset \in Nat /\ offset <= n - u
        BY <1>3 DEF RingRuns, PutFits, RingNothing
      <3> HIDE DEF offset
      <3>4. m \in Nat /\ m <= Len(s) /\ m <= n - u - offset
        BY <1>3, <3>2, <3>3 DEF Least
      <3> HIDE DEF m
      <3>5. b \in Seq(RingByte) /\ Len(b) = m
        BY <3>4
      <3> HIDE DEF b
      <3>6. /\ ringPut'.step \in {"write", "draft"} /\ ringPut'.n = offset + m
            /\ ringPut'.bytes = b /\ ringPut'.at = offset
        BY <3>2
      <3>7. ringPut'.n > 0 /\ u + ringPut'.n <= n
        BY <1>3, <3>2, <3>3, <3>4, <3>6
      <3> QED
        BY <1>1, <1>2, <3>3, <3>5, <3>6, <3>7 DEF PutFits
    <2> QED
      BY <2>1, <2>2
  <1> QED
    BY <1>1, <1>2, <1>4 DEF RingRuns

LEMMA GetLooks ==
  ASSUME RingRuns,
         \/ \E len \in Nat, skip \in BOOLEAN : RingReadLook(len, skip)
         \/ RingReadCopy
  PROVE  RingRuns' /\ UNCHANGED <<ringSize, Content, ringTaken, Shown>>
  <1>1. UNCHANGED <<ringSize, ringW, ringR, ringBuf, ringPut, ringPeek, ringTaken>>
    BY DEF RingReadLook, RingReadCopy
  <1>2. UNCHANGED <<RingUse, Content, Shown>> /\ RingShape' /\ PutFits' /\ PeekFits'
    BY <1>1 DEF RingRuns, RingShape, PutFits, PeekFits, RingUse, Content, Shown, RingUsed, RingDiff,
                RingBytes, RingPos
  <1>3. /\ ringSize \in Nat \ {0} /\ RingUse \in 0 .. ringSize /\ RingUsed = RingUse
    BY RingSeen DEF RingRuns
  <1>4. GetFits'
    <2>1. CASE RingReadCopy
      <3>1. /\ ringGet.step = "read"
            /\ ringGet' = [ringGet EXCEPT !.step = "publish", !.bytes = RingBytes(ringR, ringGet.n)]
        BY <2>1 DEF RingReadCopy
      <3>2. ringGet.n \in 1 .. RingUse
        BY <3>1 DEF RingRuns, GetFits, RingNothing
      <3>3. ringGet'.step = "publish" /\ ringGet'.n = ringGet.n
            /\ ringGet'.bytes = Bytes(ringBuf, ringSize, ringR, ringGet.n)
        BY <3>1 DEF RingBytes, RingPos, Bytes, RingRuns, GetFits, RingNothing
      <3> QED
        BY <1>1, <1>2, <3>2, <3>3 DEF GetFits
    <2>2. CASE \E len \in Nat, skip \in BOOLEAN : RingReadLook(len, skip)
      <3>1. PICK len \in Nat, skip \in BOOLEAN : RingReadLook(len, skip)
        BY <2>2
      <3> DEFINE m == Least(len, RingUsed)
      <3>2. m > 0 /\ ringGet' = [RingNothing EXCEPT !.step = IF skip THEN "skip" ELSE "read", !.n = m]
        BY <3>1 DEF RingReadLook
      <3>3. m \in 1 .. RingUse
        BY <1>3, <3>2 DEF Least
      <3> HIDE DEF m
      <3>4. ringGet'.step \in {"read", "skip"} /\ ringGet'.n = m
        BY <3>2 DEF RingNothing
      <3> QED
        BY <1>2, <3>3, <3>4 DEF GetFits
    <2> QED
      BY <2>1, <2>2
  <1> QED
    BY <1>1, <1>2, <1>4 DEF RingRuns

\* The writer copies behind what is in use: neither the queue nor what the reader
\* looks at or has copied is disturbed.
LEMMA PutCopies ==
  ASSUME RingRuns, RingWriteCopy
  PROVE  RingRuns' /\ UNCHANGED <<ringSize, Content, ringTaken, Shown>>
  <1> DEFINE n == ringSize
             u == RingUse
             x == ringW + ringPut.at
             s == ringPut.bytes
             q == IF ringW = ringR + u THEN 0 ELSE 1
  <1>1. /\ ringPut.step \in {"write", "draft"}
        /\ ringBuf' = RingStored(x, s)
        /\ ringPut' = [RingNothing EXCEPT !.step = IF ringPut.step = "draft" THEN "drafted" ELSE "publish",
                                          !.n = ringPut.n]
        /\ UNCHANGED <<ringSize, ringW, ringR, ringGet, ringPeek, ringTaken>>
    BY DEF RingWriteCopy
  <1>2. /\ ringPut.at \in Nat /\ s \in Seq(RingByte) /\ ringPut.n = ringPut.at + Len(s)
        /\ ringPut.n > 0 /\ u + ringPut.n <= n
    BY <1>1 DEF RingRuns, PutFits, RingNothing
  <1>3. /\ n \in Nat \ {0} /\ u \in 0 .. n /\ ringW \in Nat /\ ringR \in Nat
        /\ ringW = ringR + u \/ ringW = ringR + u - 2 * n
        /\ Content = Bytes(ringBuf, n, ringR, u)
        /\ Shown = Bytes(ringBuf, n, ringR + ringPeek.at, ringPeek.n)
    BY RingSeen DEF RingRuns
  <1>4. RingUse' = u
    BY <1>1 DEF RingUse
  <1>5. ringBuf \in RingBuffers(n)
    BY DEF RingRuns, RingShape
  <1> HIDE DEF n, u, s
  <1>6. /\ x \in Int /\ q \in {0, 1} /\ x = (ringR + u + ringPut.at) - q * (2 * n)
        /\ u + ringPut.at + Len(s) <= n /\ u \in Nat /\ ringR \in Int
    BY <1>2, <1>3, SMTT(30)
  <1> HIDE DEF x, q
  <1>7. /\ ringBuf' \in RingBuffers(n)
        /\ \A k \in 0 .. u, y \in Int : \A v \in 0 .. u :
              y = ringR + v /\ v + k <= u => Bytes(ringBuf', n, y, k) = Bytes(ringBuf, n, y, k)
    <2> DEFINE a == ringPut.at
               new == RingStored(x, s)
    <2>1. /\ n \in Nat \ {0} /\ ringSize = n /\ s \in Seq(RingByte) /\ a \in Nat
          /\ x = (ringR + u + a) - q * (2 * n) /\ u + a + Len(s) <= n
      BY <1>2, <1>3, <1>6 DEF n
    <2>2. ringBuf' = new
      BY <1>1
    <2> HIDE DEF a
    <2>3. /\ new \in RingBuffers(n)
          /\ SameInUse(new, ringBuf, n, ringR, u)
      BY <1>5, <1>6, <2>1, StoredBehind
    <2> HIDE DEF new
    <2> QED
      BY <2>2, <2>3 DEF SameInUse
  <1>8. RingShape' /\ PeekFits'
    BY <1>1, <1>4, <1>7 DEF RingRuns, RingShape, PeekFits, n, u
  <1>9. PutFits'
    <2>1. /\ ringPut'.step \in {"drafted", "publish"} /\ ringPut'.n = ringPut.n
      BY <1>1 DEF RingNothing
    <2>2. ringPut.n \in Nat
      BY <1>2
    <2> QED
      BY <1>1, <1>2, <1>4, <2>1, <2>2 DEF PutFits, n, u
  <1>10. GetFits'
    <2>1. CASE ringGet = RingNothing
      BY <1>1, <2>1 DEF GetFits
    <2>2. CASE ringGet # RingNothing
      <3>1. /\ ringGet.step \in {"read", "skip", "publish"} /\ ringGet.n \in 1 .. u
            /\ ringGet.step = "publish" => ringGet.bytes = Bytes(ringBuf, n, ringR, ringGet.n)
        BY <2>2 DEF RingRuns, GetFits, n, u
      <3>2. ringGet.n \in 0 .. u /\ ringR \in Int /\ 0 \in 0 .. u /\ ringR = ringR + 0 /\ 0 + ringGet.n <= u
        BY <1>3, <3>1
      <3>3. Bytes(ringBuf', n, ringR, ringGet.n) = Bytes(ringBuf, n, ringR, ringGet.n)
        BY <1>7, <3>2
      <3> QED
        BY <1>1, <1>4, <3>1, <3>3 DEF GetFits, n
    <2> QED
      BY <2>1, <2>2
  <1>11. Content' = Content /\ Shown' = Shown
    <2>1. /\ Content' = Bytes(ringBuf', n, ringR, u)
          /\ Shown' = Bytes(ringBuf', n, ringR + ringPeek.at, ringPeek.n)
      BY <1>1, <1>4, <1>8, RingSeenNext DEF n
    <2>2. u \in 0 .. u /\ ringR \in Int /\ 0 \in 0 .. u /\ ringR = ringR + 0 /\ 0 + u <= u
      BY <1>3
    <2>3. Bytes(ringBuf', n, ringR, u) = Bytes(ringBuf, n, ringR, u)
      BY <1>7, <2>2
    <2>4. ringPeek.n \in Nat /\ ringPeek.at \in Nat /\ ringPeek.at + ringPeek.n <= u
      BY DEF RingRuns, PeekFits, u
    <2>5. /\ ringPeek.n \in 0 .. u /\ ringR + ringPeek.at \in Int /\ ringPeek.at \in 0 .. u
      BY <1>3, <2>4
    <2>6. Bytes(ringBuf', n, ringR + ringPeek.at, ringPeek.n) = Bytes(ringBuf, n, ringR + ringPeek.at, ringPeek.n)
      BY <1>7, <2>4, <2>5
    <2> QED
      BY <1>3, <2>1, <2>3, <2>6
  <1> QED
    BY <1>1, <1>8, <1>9, <1>10, <1>11 DEF RingRuns

\* An index that moves on by no more than the size, as eh_ringbuf_fix leaves it.
LEMMA FixMoves ==
  ASSUME NEW n \in RingSizes, ringSize = n, NEW x \in 0 .. 2 * n - 1, NEW m \in 0 .. n
  PROVE  /\ RingFix(x + m) \in 0 .. 2 * n - 1
         /\ RingFix(x + m) = x + m \/ RingFix(x + m) = x + m - 2 * n
  <1>1. n \in Nat \ {0}
    BY RingAssumption
  <1>2. x + m \in Nat /\ x + m < 4 * n
    BY <1>1
  <1> DEFINE y == x + m
  <1>3. RingFix(y) = IF y < 2 * n THEN y ELSE y - 2 * n
    <2> HIDE DEF y
    <2> QED
      BY <1>2, FixIs DEF RingFix, y
  <1> QED
    BY <1>1, <1>2, <1>3

\* The writer stores its index: the bytes it has copied are put.
LEMMA PutPublishes ==
  ASSUME RingRuns, RingWritePublish
  PROVE  RingRuns' /\ RingPromises!QueueNext
  <1> DEFINE n == ringSize
             u == RingUse
             m == ringPut.n
             w == RingFix(ringW + m)
             s == Bytes(ringBuf, n, ringR + u, m)
  <1>1. /\ ringPut.step = "publish" /\ ringW' = w /\ ringPut' = RingNothing
        /\ UNCHANGED <<ringSize, ringR, ringBuf, ringGet, ringPeek, ringTaken>>
    BY DEF RingWritePublish
  <1>2. m \in Nat /\ m > 0 /\ u + m <= n
    BY <1>1 DEF RingRuns, PutFits, RingNothing
  <1>3. /\ n \in Nat \ {0} /\ u \in 0 .. n /\ ringW \in Nat /\ ringR \in Nat
        /\ ringW = ringR + u \/ ringW = ringR + u - 2 * n
        /\ Content = Bytes(ringBuf, n, ringR, u)
        /\ Shown = Bytes(ringBuf, n, ringR + ringPeek.at, ringPeek.n)
    BY RingSeen DEF RingRuns
  <1>4. /\ n \in RingSizes /\ ringW \in 0 .. 2 * n - 1 /\ ringR \in 0 .. 2 * n - 1
        /\ ringBuf \in RingBuffers(n)
    BY DEF RingRuns, RingShape
  <1> HIDE DEF u, m, w, n
  <1>5. w \in 0 .. 2 * n - 1 /\ (w = ringW + m \/ w = ringW + m - 2 * n)
    <2>1. m \in 0 .. n /\ ringSize = n
      BY <1>2, <1>3 DEF n
    <2> QED
      BY <1>4, <2>1, FixMoves DEF w
  <1>6. RingUse' = u + m
    <2>1. RingUse' = IF w >= ringR THEN w - ringR ELSE 2 * n + (w - ringR)
      BY <1>1 DEF RingUse, Between, n
    <2> QED
      BY <1>2, <1>3, <1>4, <1>5, <2>1
  <1>7. RingShape'
    BY <1>1, <1>2, <1>4, <1>5, <1>6 DEF RingShape, n
  <1>8. PutFits' /\ GetFits' /\ PeekFits'
    <2>1. PutFits'
      BY <1>1 DEF PutFits
    <2>2. GetFits'
      <3>1. CASE ringGet = RingNothing
        BY <1>1, <3>1 DEF GetFits
      <3>2. CASE ringGet # RingNothing
        <4>1. /\ ringGet.step \in {"read", "skip", "publish"} /\ ringGet.n \in 1 .. u
              /\ ringGet.step = "publish" => ringGet.bytes = Bytes(ringBuf, n, ringR, ringGet.n)
          BY <3>2 DEF RingRuns, GetFits, n, u
        <4>2. ringGet.n \in 1 .. u + m
          BY <1>2, <1>3, <4>1
        <4> QED
          BY <1>1, <1>6, <4>1, <4>2 DEF GetFits, n
      <3> QED
        BY <3>1, <3>2
    <2>3. PeekFits'
      <3>1. ringPeek.n \in Nat /\ ringPeek.at \in Nat /\ ringPeek.at + ringPeek.n <= u
        BY DEF RingRuns, PeekFits, u
      <3>2. ringPeek.at + ringPeek.n <= u + m
        BY <1>2, <1>3, <3>1
      <3> QED
        BY <1>1, <1>6, <3>1, <3>2 DEF PeekFits
    <2> QED
      BY <2>1, <2>2, <2>3
  <1>9. /\ Content' = Bytes(ringBuf, n, ringR, u + m)
        /\ Shown' = Shown
    BY <1>1, <1>3, <1>6, <1>7, RingSeenNext DEF n
  <1>10. Content' = Content \o s
    <2>1. ringR \in Int /\ u \in Nat
      BY <1>3
    <2> QED
      BY <1>2, <1>3, <1>4, <1>9, <2>1, BytesJoin, ZenonT(60)
  <1>11. s \in [1 .. m -> RingByte] /\ Len(s) = m
    <2>1. ringR + u \in Int
      BY <1>3
    <2> QED
      BY <1>2, <1>3, <1>4, <2>1, BytesShape
  <1>12. Len(Content) = u
    <2>1. ringR \in Int /\ u \in Nat
      BY <1>3
    <2> QED
      BY <1>3, <1>4, <2>1, BytesShape
  <1>13. m \in 1 .. n /\ Len(Content) + Len(s) <= n
    BY <1>2, <1>3, <1>11, <1>12
  <1> HIDE DEF s
  <1>14. RingPromises!Put(s)
    BY <1>1, <1>9, <1>10, <1>13 DEF RingPromises!Put, Content, Shown, n
  <1>15. RingPromises!QueueNext
    BY <1>11, <1>13, <1>14 DEF RingPromises!QueueNext, n
  <1> QED
    BY <1>7, <1>8, <1>15 DEF RingRuns

LEMMA BetweenSame ==
  ASSUME NEW q \in Int, NEW n
  PROVE  Between(q, q, n) = 0
  <1>1. q >= q /\ q - q = 0
    OBVIOUS
  <1> QED
    BY <1>1 DEF Between

LEMMA BetweenTaken ==
  ASSUME NEW n \in Nat \ {0}, NEW w \in 0 .. 2 * n - 1, NEW r \in 0 .. 2 * n - 1,
         NEW q \in 0 .. 2 * n - 1, NEW k \in 1 .. Between(w, r, n),
         q = r + k \/ q = r + k - 2 * n
  PROVE  Between(w, q, n) = Between(w, r, n) - k
  <1>1. CASE w >= r
    <2>1. Between(w, r, n) = w - r
      BY <1>1 DEF Between
    <2>2. q = r + k
      BY <1>1, <2>1
    <2> QED
      BY <1>1, <2>1, <2>2 DEF Between
  <1>2. CASE ~(w >= r)
    <2>1. Between(w, r, n) = 2 * n + (w - r)
      BY <1>2 DEF Between
    <2>2. CASE q = r + k
      BY <1>2, <2>1, <2>2 DEF Between
    <2>3. CASE q = r + k - 2 * n
      BY <1>2, <2>1, <2>3 DEF Between
    <2> QED
      BY <2>2, <2>3
  <1> QED
    BY <1>1, <1>2

\* What happens to a queue when bytes leave it at the front: by the store of the
\* reader's index, or all of them in eh_ringbuf_clear and eh_ringbuf_reset.
LEMMA FrontLeaves ==
  ASSUME RingRuns, NEW k \in 1 .. RingUse,
         ringW' \in 0 .. 2 * ringSize - 1, ringR' \in 0 .. 2 * ringSize - 1,
         \/ ringW' = ringW /\ (ringR' = ringR + k \/ ringR' = ringR + k - 2 * ringSize)
         \/ k = RingUse /\ ringR' = ringW',
         UNCHANGED <<ringSize, ringBuf>>, ringPeek' = RingNothing, ringGet' = RingNothing,
         ringPut' = ringPut
  PROVE  /\ RingRuns'
         /\ ringTaken' = Bytes(ringBuf, ringSize, ringR, k) => RingPromises!Take(k)
         /\ ringTaken' = ringTaken => RingPromises!Skip(k)
         /\ k \in 1 .. ringSize
  <1> DEFINE n == ringSize
             u == RingUse
  <1>1. /\ n \in Nat \ {0} /\ u \in 0 .. n /\ ringW \in Nat /\ ringR \in Nat
        /\ ringW = ringR + u \/ ringW = ringR + u - 2 * n
        /\ Content = Bytes(ringBuf, n, ringR, u)
    BY RingSeen DEF RingRuns
  <1>2. /\ n \in RingSizes /\ ringW \in 0 .. 2 * n - 1 /\ ringR \in 0 .. 2 * n - 1
        /\ ringBuf \in RingBuffers(n)
    BY DEF RingRuns, RingShape
  <1>3. k \in 1 .. u /\ k \in 1 .. n
    BY <1>1
  <1> HIDE DEF u, n
  <1>4. RingUse' = u - k
    <2>1. RingUse' = Between(ringW', ringR', n) /\ u = Between(ringW, ringR, n)
      BY DEF RingUse, n, u
    <2>2. CASE ringW' = ringW /\ (ringR' = ringR + k \/ ringR' = ringR + k - 2 * n)
      <3>1. ringR' \in 0 .. 2 * n - 1 /\ k \in 1 .. Between(ringW, ringR, n)
        BY <1>3, <2>1 DEF n
      <3>2. Between(ringW, ringR', n) = Between(ringW, ringR, n) - k
        BY <1>1, <1>2, <2>2, <3>1, BetweenTaken
      <3> QED
        BY <2>1, <2>2, <3>2
    <2>3. CASE k = u /\ ringR' = ringW'
      <3>1. ringW' \in Int
        BY <1>1 DEF n
      <3>2. Between(ringW', ringW', n) = 0
        BY <3>1, BetweenSame
      <3>3. u - k = 0
        BY <1>1, <2>3
      <3> QED
        BY <2>1, <2>3, <3>2, <3>3
    <2> QED
      BY <2>2, <2>3 DEF n, u
  <1>5. RingShape'
    <2>1. u - k <= n
      BY <1>1, <1>3
    <2> QED
      BY <1>2, <1>4, <2>1 DEF RingShape, n
  <1>6. PutFits'
    <2>1. CASE ringPut = RingNothing
      BY <2>1 DEF PutFits
    <2>2. CASE ringPut # RingNothing
      <3>1. ringPut.n \in Nat /\ u + ringPut.n <= n
        BY <2>2 DEF RingRuns, PutFits, n, u
      <3>2. RingUse' + ringPut.n <= n
        BY <1>1, <1>3, <1>4, <3>1
      <3> QED
        BY <2>2, <3>2 DEF RingRuns, PutFits, n, u
    <2> QED
      BY <2>1, <2>2
  <1>7. GetFits' /\ PeekFits'
    <2>1. GetFits'
      BY DEF GetFits
    <2>2. ringPeek'.n = 0 /\ ringPeek'.at = 0
      BY DEF RingNothing
    <2>3. 0 <= u - k
      BY <1>1, <1>3
    <2> QED
      BY <1>4, <2>1, <2>2, <2>3 DEF PeekFits
  <1>8. Content' = Bytes(ringBuf, n, ringR', u - k) /\ Shown' = Bytes(ringBuf, n, ringR' + 0, 0)
    BY <1>4, <1>5, RingSeenNext DEF n, RingNothing
  <1>9. Shown' = << >>
    BY <1>8 DEF Bytes
  <1>10. Len(Content) = u /\ k <= Len(Content)
    <2>1. ringR \in Int /\ u \in Nat
      BY <1>1
    <2> QED
      BY <1>1, <1>2, <1>3, <2>1, BytesShape
  <1>11. ringR \in Int /\ u \in Nat /\ k \in Nat /\ k <= u /\ u <= u
    BY <1>1, <1>3
  <1>12. /\ SubSeq(Content, 1, k) = Bytes(ringBuf, n, ringR, k)
         /\ SubSeq(Content, k + 1, u) = Bytes(ringBuf, n, ringR + k, u - k)
    <2>1. SubSeq(Bytes(ringBuf, n, ringR, u), 1, k) = Bytes(ringBuf, n, ringR, k)
      BY <1>1, <1>2, <1>11, BytesFront
    <2>2. CutIs(ringBuf, n, ringR, u, k, u)
      BY <1>1, <1>2, <1>11, BytesCut
    <2> QED
      BY <1>1, <2>1, <2>2 DEF CutIs
  <1>13. Bytes(ringBuf, n, ringR', u - k) = Bytes(ringBuf, n, ringR + k, u - k)
    <2>1. CASE ringR' = ringR + k
      BY <2>1
    <2>2. CASE ringR' = ringR + k - 2 * n
      <3>1. ringR + k \in Int /\ u - k \in Nat
        BY <1>1, <1>3
      <3> QED
        BY <1>1, <1>2, <2>2, <3>1, BytesAround
    <2>3. CASE k = u
      <3>1. u - k = 0
        BY <1>1, <2>3
      <3> QED
        BY <3>1 DEF Bytes
    <2> QED
      BY <2>1, <2>2, <2>3 DEF n, u
  <1>14. Content' = SubSeq(Content, k + 1, Len(Content))
    BY <1>8, <1>10, <1>12, <1>13
  <1>15. ringTaken' = Bytes(ringBuf, ringSize, ringR, k) => RingPromises!Take(k)
    BY <1>9, <1>10, <1>12, <1>14 DEF RingPromises!Take, Content, Shown, n
  <1>16. ringTaken' = ringTaken => RingPromises!Skip(k)
    BY <1>9, <1>10, <1>14 DEF RingPromises!Skip, Content, Shown, n
  <1> QED
    BY <1>3, <1>5, <1>6, <1>7, <1>15, <1>16 DEF RingRuns, n

LEMMA GetPublishes ==
  ASSUME RingRuns, RingReadPublish
  PROVE  RingRuns' /\ RingPromises!QueueNext
  <1> DEFINE n == ringSize
             k == ringGet.n
  <1>1. /\ ringGet.step \in {"publish", "skip"}
        /\ ringR' = RingFix(ringR + k)
        /\ ringTaken' = IF ringGet.step = "publish" THEN ringGet.bytes ELSE ringTaken
        /\ ringGet' = RingNothing /\ ringPeek' = RingNothing
        /\ UNCHANGED <<ringSize, ringW, ringBuf, ringPut>>
    BY DEF RingReadPublish
  <1>2. /\ k \in 1 .. RingUse
        /\ ringGet.step = "publish" => ringGet.bytes = Bytes(ringBuf, ringSize, ringR, k)
    BY <1>1 DEF RingRuns, GetFits, RingNothing
  <1>3. n \in Nat \ {0} /\ RingUse \in 0 .. n
    BY RingSeen DEF RingRuns
  <1>4. n \in RingSizes /\ ringW \in 0 .. 2 * n - 1 /\ ringR \in 0 .. 2 * n - 1 /\ ringSize = n
    BY DEF RingRuns, RingShape
  <1>5. k \in 0 .. n
    BY <1>2, <1>3
  <1> HIDE DEF k, n
  <1>6. /\ ringR' \in 0 .. 2 * n - 1
        /\ ringR' = ringR + k \/ ringR' = ringR + k - 2 * n
    <2> DEFINE q == RingFix(ringR + k)
    <2>1. q \in 0 .. 2 * n - 1 /\ (q = ringR + k \/ q = ringR + k - 2 * n)
      BY <1>4, <1>5, FixMoves
    <2> HIDE DEF q
    <2>2. ringR' = q
      BY <1>1 DEF q, k
    <2> QED
      BY <2>1, <2>2
  <1>7. /\ ringW' \in 0 .. 2 * ringSize - 1 /\ ringR' \in 0 .. 2 * ringSize - 1
        /\ ringW' = ringW /\ (ringR' = ringR + k \/ ringR' = ringR + k - 2 * ringSize)
    BY <1>1, <1>4, <1>6
  <1>8. /\ RingRuns'
        /\ ringTaken' = Bytes(ringBuf, ringSize, ringR, k) => RingPromises!Take(k)
        /\ ringTaken' = ringTaken => RingPromises!Skip(k)
        /\ k \in 1 .. ringSize
    BY <1>1, <1>2, <1>7, FrontLeaves
  <1>9. RingPromises!Take(k) \/ RingPromises!Skip(k)
    BY <1>1, <1>2, <1>8
  <1> QED
    BY <1>8, <1>9 DEF RingPromises!QueueNext

\* eh_ringbuf_clear and eh_ringbuf_reset skip all there is, if there is anything.
LEMMA AllSkipped ==
  ASSUME RingRuns, RingClear \/ RingReset
  PROVE  RingRuns' /\ QueueStep
  <1> DEFINE n == ringSize
             u == RingUse
  <1>1. /\ n \in Nat \ {0} /\ u \in 0 .. n /\ ringW \in Nat /\ ringR \in Nat
        /\ ringW = ringR + u \/ ringW = ringR + u - 2 * n
        /\ Content = Bytes(ringBuf, n, ringR, u)
        /\ Shown = Bytes(ringBuf, n, ringR + ringPeek.at, ringPeek.n)
    BY RingSeen DEF RingRuns
  <1>2. n \in RingSizes /\ ringW \in 0 .. 2 * n - 1 /\ ringR \in 0 .. 2 * n - 1
    BY DEF RingRuns, RingShape
  <1>3. /\ ringR' = ringW' /\ ringPeek' = RingNothing /\ ringGet.step = "none"
        /\ UNCHANGED <<ringSize, ringBuf, ringPut, ringGet, ringTaken>>
        /\ (ringW' = ringW /\ ringR # ringW) \/ ringW' = 0
    BY DEF RingClear, RingReset
  <1>4. ringGet' = RingNothing
    BY <1>3 DEF RingRuns, GetFits
  <1>5. ringW' \in 0 .. 2 * n - 1
    BY <1>1, <1>2, <1>3
  <1>6. CASE u >= 1
    <2>1. u \in 1 .. RingUse /\ u = RingUse
      BY <1>1, <1>6
    <2>2. ringW' \in 0 .. 2 * ringSize - 1 /\ ringR' \in 0 .. 2 * ringSize - 1
      BY <1>3, <1>5
    <2> HIDE DEF u
    <2>3. RingRuns' /\ RingPromises!Skip(u) /\ u \in 1 .. ringSize
      BY <1>3, <1>4, <2>1, <2>2, FrontLeaves
    <2> QED
      BY <2>3 DEF QueueStep, RingPromises!QueueNext
  <1>7. CASE u = 0
    <2>1. RingUse' = 0
      <3>1. RingUse' = Between(ringW', ringR', n) /\ ringW' \in Int
        BY <1>3, <1>5 DEF RingUse
      <3> QED
        BY <1>3, <3>1, BetweenSame
    <2>2. RingShape'
      BY <1>1, <1>2, <1>3, <1>5, <2>1 DEF RingRuns, RingShape
    <2>3. PutFits'
      <3>1. ringPut' = ringPut /\ ringSize' = ringSize /\ RingUse' = RingUse
        BY <1>3, <1>7, <2>1
      <3> QED
        BY <3>1 DEF RingRuns, PutFits
    <2>4. GetFits' /\ PeekFits'
      <3>1. ringPeek'.n = 0 /\ ringPeek'.at = 0
        BY <1>3 DEF RingNothing
      <3> QED
        BY <1>4, <2>1, <3>1 DEF GetFits, PeekFits
    <2>5. Content' = << >> /\ Shown' = << >>
      <3>1. ringPeek'.n = 0
        BY <1>3 DEF RingNothing
      <3>2. Content' = Bytes(ringBuf', ringSize', ringR', 0)
            /\ Shown' = Bytes(ringBuf', ringSize', ringR' + ringPeek'.at, 0)
        BY <2>1, <2>2, <3>1, RingSeenNext
      <3> QED
        BY <3>2 DEF Bytes
    <2>6. Content = << >> /\ Shown = << >>
      <3>1. ringPeek.n = 0
        BY <1>7 DEF RingRuns, PeekFits
      <3> QED
        BY <1>1, <1>7, <3>1 DEF Bytes
    <2> QED
      BY <1>3, <2>2, <2>3, <2>4, <2>5, <2>6 DEF QueueStep, RingRuns
  <1> QED
    BY <1>1, <1>6, <1>7

LEMMA PeekShows ==
  ASSUME RingRuns, NEW offset \in Nat, NEW len \in Nat, RingPeekAt(offset, len)
  PROVE  RingRuns' /\ RingPromises!QueueNext
  <1> DEFINE n     == ringSize
             u     == RingUse
             size  == RingUsed - offset
             piece == ringSize - RingPos(ringR, offset)
             m     == IF len <= piece THEN Least(size, piece) ELSE len
             v     == offset + m
  <1>1. /\ size >= len /\ m > 0
        /\ ringPeek' = [RingNothing EXCEPT !.n = m, !.at = offset]
        /\ UNCHANGED <<ringSize, ringW, ringR, ringBuf, ringPut, ringGet, ringTaken>>
    BY DEF RingPeekAt
  <1>2. /\ n \in Nat \ {0} /\ u \in 0 .. n /\ ringR \in Nat /\ RingUsed = u
        /\ Content = Bytes(ringBuf, n, ringR, u)
    BY RingSeen DEF RingRuns
  <1>3. ringBuf \in RingBuffers(n)
    BY DEF RingRuns, RingShape
  <1> HIDE DEF n, u
  <1>4. ringR + offset \in Int
    BY <1>2
  <1>5. RingPos(ringR, offset) \in 0 .. n - 1
    BY <1>2, <1>4, Modulus DEF RingPos, n
  <1>6. piece \in Int /\ size \in Int /\ size = u - offset
    BY <1>2, <1>5 DEF n
  <1> HIDE DEF piece, size
  <1>7. m \in Nat /\ offset + m <= u
    BY <1>1, <1>2, <1>6 DEF Least
  <1> HIDE DEF m
  <1>8. ringPeek'.n = m /\ ringPeek'.at = offset
    BY <1>1 DEF RingNothing
  <1>9. UNCHANGED <<RingUse, Content>> /\ RingShape' /\ PutFits' /\ GetFits'
    BY <1>1 DEF RingRuns, RingShape, PutFits, GetFits, RingUse, Content, RingUsed, RingDiff,
                RingBytes, RingPos
  <1>10. PeekFits'
    BY <1>7, <1>8, <1>9 DEF PeekFits, u
  <1>11. Shown' = Bytes(ringBuf, n, ringR + offset, m)
    BY <1>1, <1>8, <1>9, RingSeenNext DEF n
  <1>12. v \in Nat /\ offset <= v /\ v <= u /\ v - offset = m /\ v \in 1 .. n /\ offset + 1 \in 1 .. n
         /\ ringR \in Int /\ u \in Nat
    BY <1>1, <1>2, <1>7
  <1> HIDE DEF v
  <1>13. CutIs(ringBuf, n, ringR, u, offset, v)
    BY <1>2, <1>3, <1>12, BytesCut
  <1>14. Shown' = SubSeq(Content, offset + 1, v)
    BY <1>2, <1>11, <1>12, <1>13 DEF CutIs
  <1>15. v <= Len(Content)
    BY <1>2, <1>3, <1>12, BytesShape
  <1>16. RingPromises!Show(offset + 1, v)
    BY <1>1, <1>9, <1>14, <1>15 DEF RingPromises!Show, Content, Shown
  <1> QED
    BY <1>9, <1>10, <1>12, <1>16 DEF RingRuns, RingPromises!QueueNext, n

LEMMA RingOpens ==
  ASSUME RingIInv, ringSize = 0, NEW n \in RingSizes, RingCreate(n)
  PROVE  RingRuns' /\ RingPromises!QueueNext
  <1>1. n \in Nat \ {0}
    BY RingAssumption
  <1>2. ringPut = RingNothing /\ ringGet = RingNothing /\ ringPeek = RingNothing
    BY <1>1, RingAssumption DEF RingIInv, RingRuns, RingShape
  <1>3. /\ ringSize' = n /\ ringW' = 0 /\ ringR' = 0
        /\ UNCHANGED <<ringPut, ringGet, ringPeek, ringTaken>>
    BY DEF RingCreate
  <1>4. PICK b \in RingByte : ringBuf' = [p \in 0 .. n - 1 |-> b]
    BY DEF RingCreate
  <1>5. RingUse' = 0
    BY <1>3, BetweenSame DEF RingUse
  <1>6. RingShape'
    BY <1>1, <1>3, <1>4, <1>5 DEF RingShape, RingBuffers
  <1>7. ringPeek'.n = 0 /\ ringPeek'.at = 0 /\ ringPeek.n = 0 /\ ringPeek.at = 0
    BY <1>2, <1>3 DEF RingNothing
  <1>8. PutFits' /\ GetFits' /\ PeekFits'
    BY <1>2, <1>3, <1>5, <1>7 DEF PutFits, GetFits, PeekFits
  <1>9. Content' = << >> /\ Shown' = << >>
    <2>1. Content' = Bytes(ringBuf', ringSize', ringR', 0)
          /\ Shown' = Bytes(ringBuf', ringSize', ringR' + ringPeek'.at, 0)
      BY <1>5, <1>6, <1>7, RingSeenNext
    <2> QED
      BY <2>1 DEF Bytes
  <1>10. Content = << >> /\ Shown = << >>
    BY <1>7 DEF Content, Shown, RingBytes
  <1>11. RingPromises!Open
    BY <1>3, <1>9, <1>10 DEF RingPromises!Open, Content, Shown
  <1> QED
    BY <1>6, <1>8, <1>11 DEF RingRuns, RingPromises!QueueNext

LEMMA RingSteps ==
  ASSUME RingIInv, RingNext
  PROVE  RingIInv' /\ QueueStep
  <1>1. CASE ringSize = 0
    <2>1. /\ ringW = 0 /\ ringR = 0
          /\ ringPut = RingNothing /\ ringGet = RingNothing /\ ringPeek = RingNothing
      BY <1>1, RingAssumption DEF RingIInv, RingRuns, RingShape
    <2>2. ringPut.step = "none" /\ ringGet.step = "none"
      BY <2>1 DEF RingNothing
    <2>3. CASE \E n \in RingSizes : RingCreate(n)
      BY <1>1, <2>3, RingOpens DEF RingIInv, QueueStep
    <2>4. CASE RingReset
      <3>1. UNCHANGED <<ringSize, ringW, ringR, ringBuf, ringPut, ringGet, ringPeek, ringTaken>>
        BY <2>1, <2>4 DEF RingReset
      <3>2. ringPeek.n = 0
        BY <2>1 DEF RingNothing
      <3>3. Content' = Content /\ Shown' = Shown
        BY <1>1, <3>1, <3>2 DEF Content, Shown, RingBytes
      <3> QED
        BY <1>1, <2>1, <3>1, <3>3 DEF RingIInv, QueueStep
    <2>5. 1 .. ringSize = {}
      BY <1>1
    <2>6. ~RingWriteCopy /\ ~RingWriteSkip /\ ~RingWritePublish /\ ~RingReadCopy /\ ~RingReadPublish
          /\ ~RingClear /\ \A len, offset \in 0 .. ringSize : ~RingPeekAt(offset, len)
      BY <1>1, <2>1, <2>2 DEF RingWriteCopy, RingWriteSkip, RingWritePublish, RingReadCopy,
         RingReadPublish, RingClear, RingPeekAt
    <2> QED
      BY <2>3, <2>4, <2>5, <2>6 DEF RingNext
  <1>2. CASE ringSize # 0
    <2>1. RingRuns
      BY <1>2 DEF RingIInv
    <2>2. ringSize \in Nat \ {0}
      BY <2>1, RingSeen DEF RingRuns
    <2>3. CASE \E n \in RingSizes : RingCreate(n)
      BY <1>2, <2>3 DEF RingCreate
    <2>4. CASE \/ \E len \in 1 .. ringSize, draft \in BOOLEAN :
                    \E s \in [1 .. len -> RingByte] : RingWriteLook(s, draft)
               \/ RingWriteSkip
      <3>1. \A len \in 1 .. ringSize : \A s \in [1 .. len -> RingByte] : s \in Seq(RingByte)
        BY <2>2
      <3>2. (\E s \in Seq(RingByte), draft \in BOOLEAN : RingWriteLook(s, draft)) \/ RingWriteSkip
        BY <2>4, <3>1
      <3> QED
        BY <2>1, <3>2, PutLooks DEF RingIInv, QueueStep
    <2>5. CASE RingWriteCopy
      BY <2>1, <2>5, PutCopies DEF RingIInv, QueueStep
    <2>6. CASE RingWritePublish
      BY <2>1, <2>6, PutPublishes DEF RingIInv, QueueStep
    <2>7. CASE \/ \E len \in 1 .. ringSize, skip \in BOOLEAN : RingReadLook(len, skip)
               \/ RingReadCopy
      <3>1. \A len \in 1 .. ringSize : len \in Nat
        BY <2>2
      <3>2. (\E len \in Nat, skip \in BOOLEAN : RingReadLook(len, skip)) \/ RingReadCopy
        BY <2>7, <3>1
      <3> QED
        BY <2>1, <3>2, GetLooks DEF RingIInv, QueueStep
    <2>8. CASE RingReadPublish
      BY <2>1, <2>8, GetPublishes DEF RingIInv, QueueStep
    <2>9. CASE \E len, offset \in 0 .. ringSize : RingPeekAt(offset, len)
      <3>1. \A k \in 0 .. ringSize : k \in Nat
        BY <2>2
      <3> QED
        BY <2>1, <2>9, <3>1, PeekShows DEF RingIInv, QueueStep
    <2>10. CASE RingClear \/ RingReset
      BY <2>1, <2>10, AllSkipped DEF RingIInv
    <2> QED
      BY <2>3, <2>4, <2>5, <2>6, <2>7, <2>8, <2>9, <2>10 DEF RingNext
  <1> QED
    BY <1>1, <1>2

LEMMA RingIdles ==
  ASSUME RingIInv, UNCHANGED ringVars
  PROVE  RingIInv' /\ QueueStep
  <1>1. UNCHANGED <<ringSize, ringW, ringR, ringBuf, ringPut, ringGet, ringPeek, ringTaken>>
    BY DEF ringVars
  <1>2. RingIInv'
    BY <1>1 DEF RingIInv, RingRuns, RingShape, PutFits, GetFits, PeekFits, RingUse
  <1>3. UNCHANGED <<ringSize, Content, ringTaken, Shown>>
    BY <1>1 DEF Content, Shown, RingUsed, RingDiff, RingBytes, RingPos
  <1> QED
    BY <1>2, <1>3 DEF QueueStep

\* Whatever the interleaving of one writer and one reader that take no lock, each of
\* which looks at the other's index once and stores its own last (eh_ringbuf_write,
\* eh_ringbuf_read, the drafts, skips and peeks, eh_ringbuf_clear and eh_ringbuf_reset),
\* and over the wrap of both indices, a ring buffer is a queue of bytes, and what a
\* peek shows in place is not written over before the reader moves on.
THEOREM RingsAreQueues == RingSpec => ImplementsQueue
  <1>1. RingStart => RingIInv /\ Content = << >> /\ Shown = << >>
    <2> SUFFICES ASSUME RingStart PROVE RingIInv /\ Content = << >> /\ Shown = << >>
      OBVIOUS
    <2>1. ringPeek.n = 0 /\ ringSize = 0
      BY DEF RingStart, RingNothing
    <2> QED
      BY <2>1 DEF RingStart, RingIInv, Content, Shown, RingBytes
  <1>2. RingIInv /\ [RingNext]_ringVars => RingIInv' /\ QueueStep
    BY RingSteps, RingIdles
  <1>3. RingStart => /\ ringSize = 0 /\ (IF ringSize = 0 THEN << >> ELSE RingBytes(ringR, RingUsed)) = << >>
                     /\ ringTaken = << >> /\ RingBytes(ringR + ringPeek.at, ringPeek.n) = << >>
    BY <1>1 DEF RingStart, Content, Shown
  <1>4. QueueStep => [RingPromises!QueueNext]_<<ringSize,
                        IF ringSize = 0 THEN << >> ELSE RingBytes(ringR, RingUsed), ringTaken,
                        RingBytes(ringR + ringPeek.at, ringPeek.n)>>
    BY DEF QueueStep, Content, Shown
  <1> QED
    BY <1>1, <1>2, <1>3, <1>4, PTL DEF RingSpec, ImplementsQueue, RingPromises!QueueSpec

-----------------------------------------------------------------------------
\* Induction over the numbers, for a set of them.
LEMMA SetInduction ==
  ASSUME NEW S, 0 \in S, \A n \in Nat : n \in S => n + 1 \in S
  PROVE  Nat \subseteq S
  <1> DEFINE T == Nat \ S
  <1> SUFFICES ASSUME T # {} PROVE FALSE
    OBVIOUS
  <1>1. PICK x \in T : \A y \in T : ~(<<y, x>> \in OpToRel(<, Nat))
    BY NatLessThanWellFounded, WFMin
  <1>2. x # 0 /\ x - 1 \in Nat /\ x - 1 < x /\ x \in Nat
    OBVIOUS
  <1>3. x - 1 \in T
    <2>1. (x - 1) + 1 = x
      BY <1>2
    <2> QED
      BY <1>2, <2>1
  <1>4. <<x - 1, x>> \in OpToRel(<, Nat)
    BY <1>2 DEF OpToRel
  <1> QED
    BY <1>1, <1>3, <1>4, Zenon

-----------------------------------------------------------------------------
(* The free list of a memory pool.                                         *)

\* A walk along the list is the function that takes its steps.
LEMMA ReachedIs ==
  ASSUME NEW k \in Nat, NEW f, f = [j \in 0 .. k |-> f[j]],
         f[0] = poolHead,
         \A j \in 1 .. k : f[j] = IF f[j - 1] = PoolNull THEN PoolNull ELSE poolNext[f[j - 1]]
  PROVE  PoolReached(k) = f[k]
  <1> DEFINE step(g) == [j \in 0 .. k |-> IF j = 0 THEN poolHead
                          ELSE IF g[j - 1] = PoolNull THEN PoolNull ELSE poolNext[g[j - 1]]]
             at == CHOOSE g : g = step(g)
             S == {j \in Nat : j <= k => at[j] = f[j]}
  <1>1. PoolReached(k) = at[k]
    BY DEF PoolReached
  <1>2. f = step(f)
    <2>1. ASSUME NEW j \in 0 .. k
          PROVE  f[j] = step(f)[j]
      <3>1. CASE j = 0
        BY <3>1
      <3>2. CASE j # 0
        <4>1. j \in 1 .. k
          BY <3>2
        <4> QED
          BY <3>2, <4>1
      <3> QED
        BY <3>1, <3>2
    <2> QED
      BY <2>1
  <1>3. at = step(at)
    <2> HIDE DEF step
    <2>1. \E g : g = step(g)
      BY <1>2
    <2> QED
      BY <2>1
  <1> HIDE DEF at
  <1>4. 0 \in S
    <2>1. 0 \in 0 .. k
      OBVIOUS
    <2>2. at[0] = poolHead
      BY <1>3, <2>1
    <2> QED
      BY <2>2
  <1>5. ASSUME NEW j \in Nat, j \in S
        PROVE  j + 1 \in S
    <2> SUFFICES ASSUME j + 1 <= k PROVE at[j + 1] = f[j + 1]
      OBVIOUS
    <2>1. j + 1 \in 0 .. k /\ j + 1 # 0 /\ (j + 1) - 1 = j /\ j + 1 \in 1 .. k /\ j <= k
      OBVIOUS
    <2>2. at[j] = f[j]
      BY <1>5, <2>1
    <2>3. at[j + 1] = IF at[j] = PoolNull THEN PoolNull ELSE poolNext[at[j]]
      <3> DEFINE i == j + 1
      <3>1. i \in 0 .. k /\ i # 0 /\ i - 1 = j
        BY <2>1
      <3> HIDE DEF i
      <3>2. step(at)[i] = IF at[i - 1] = PoolNull THEN PoolNull ELSE poolNext[at[i - 1]]
        BY <3>1, Zenon
      <3> HIDE DEF step
      <3>3. at[i] = step(at)[i]
        BY <1>3, Zenon
      <3>4. at[i] = IF at[j] = PoolNull THEN PoolNull ELSE poolNext[at[j]]
        BY <3>1, <3>2, <3>3, Zenon
      <3> QED
        BY <3>4 DEF i
    <2>4. f[j + 1] = IF f[j] = PoolNull THEN PoolNull ELSE poolNext[f[j]]
      BY <2>1
    <2> QED
      BY <2>2, <2>3, <2>4
  <1>6. Nat \subseteq S
    <2> HIDE DEF S
    <2> QED
      BY <1>4, <1>5, SetInduction
  <1>7. at[k] = f[k]
    <2>1. k \in S /\ k <= k
      BY <1>6
    <2> QED
      BY <2>1
  <1> QED
    BY <1>1, <1>7

\* The nodes of the free list in their order.
FreeList(q) ==
  /\ q \in Seq(PoolIndices)
  /\ \A i, j \in 1 .. Len(q) : q[i] = q[j] => i = j
  /\ poolHead = IF Len(q) = 0 THEN PoolNull ELSE q[1]
  /\ \A i \in 1 .. Len(q) : poolNext[q[i]] = IF i = Len(q) THEN PoolNull ELSE q[i + 1]
  /\ \A p \in PoolIndices : poolNext[p] # p <=> \E i \in 1 .. Len(q) : q[i] = p

PoolRuns(n) ==
  /\ PoolIndices = 0 .. n - 1
  /\ \E q : FreeList(q)
  /\ poolTaken = {p * PoolSize : p \in {i \in PoolIndices : poolNext[i] = i}}
  /\ poolLast # PoolNull => \E p \in PoolIndices : poolLast = p * PoolSize

PoolIInv ==
  \/ ~PoolExists /\ poolHead = PoolNull /\ poolTaken = {} /\ poolLast = PoolNull
  \/ \E n \in PoolNums : PoolRuns(n)

\* A list without repetition is no longer than what it is taken from.
LEMMA NoRepetition ==
  ASSUME NEW n \in Nat, NEW q \in Seq(0 .. n - 1),
         \A i, j \in 1 .. Len(q) : q[i] = q[j] => i = j
  PROVE  Len(q) <= n
  <1> DEFINE l == Len(q)
  <1>1. l \in Nat /\ q \in [1 .. l -> 0 .. n - 1] /\ 0 \in Int /\ n - 1 \in Int /\ 1 \in Int /\ l \in Int
    OBVIOUS
  <1>2. IsFiniteSet(1 .. l) /\ Cardinality(1 .. l) = l
    <2>1. /\ IsFiniteSet(1 .. l)
          /\ Cardinality(1 .. l) = IF 1 > l THEN 0 ELSE l - 1 + 1
      BY <1>1, FS_Interval, Zenon
    <2> QED
      BY <1>1, <2>1
  <1>3. IsFiniteSet(0 .. n - 1) /\ Cardinality(0 .. n - 1) = n
    <2>1. /\ IsFiniteSet(0 .. n - 1)
          /\ Cardinality(0 .. n - 1) = IF 0 > n - 1 THEN 0 ELSE n - 1 - 0 + 1
      BY <1>1, FS_Interval, Zenon
    <2> QED
      BY <2>1
  <1>4. q \in Injection(1 .. l, 0 .. n - 1)
    BY <1>1 DEF Injection, IsInjective
  <1>5. Cardinality(1 .. l) <= Cardinality(0 .. n - 1)
    BY <1>2, <1>3, <1>4, FS_Injection
  <1> QED
    BY <1>2, <1>3, <1>5

\* What so many steps from the head reach.
LEMMA ListReached ==
  ASSUME NEW n \in Nat, PoolIndices = 0 .. n - 1, NEW q, FreeList(q), NEW k \in Nat
  PROVE  PoolReached(k) = IF k < Len(q) THEN q[k + 1] ELSE PoolNull
  <1> DEFINE f == [j \in 0 .. k |-> IF j < Len(q) THEN q[j + 1] ELSE PoolNull]
  <1>1. q \in Seq(0 .. n - 1) /\ Len(q) \in Nat /\ PoolNull \notin Nat
    BY PoolAssumption DEF FreeList
  <1>2. f = [j \in 0 .. k |-> f[j]]
    OBVIOUS
  <1>3. f[0] = poolHead
    <2>1. 0 \in 0 .. k /\ 0 + 1 = 1
      OBVIOUS
    <2> QED
      BY <1>1, <2>1 DEF FreeList
  <1>4. ASSUME NEW j \in 1 .. k
        PROVE  f[j] = IF f[j - 1] = PoolNull THEN PoolNull ELSE poolNext[f[j - 1]]
    <2>1. /\ j \in 0 .. k /\ j - 1 \in 0 .. k /\ (j - 1) + 1 = j
          /\ f[j] = IF j < Len(q) THEN q[j + 1] ELSE PoolNull
          /\ f[j - 1] = IF j - 1 < Len(q) THEN q[j] ELSE PoolNull
      OBVIOUS
    <2> HIDE DEF f
    <2>2. CASE j - 1 < Len(q)
      <3>1. j \in 1 .. Len(q)
        BY <1>1, <2>2
      <3>2. q[j] \in 0 .. n - 1
        BY <1>1, <3>1
      <3>3. poolNext[q[j]] = IF j = Len(q) THEN PoolNull ELSE q[j + 1]
        BY <3>1 DEF FreeList
      <3>4. f[j - 1] = q[j] /\ q[j] # PoolNull
        BY <1>1, <2>1, <2>2, <3>2
      <3>5. j < Len(q) <=> j # Len(q)
        BY <1>1, <3>1
      <3> QED
        BY <2>1, <3>3, <3>4, <3>5
    <2>3. CASE ~(j - 1 < Len(q))
      <3>1. ~(j < Len(q))
        BY <1>1, <2>3
      <3> QED
        BY <2>1, <2>3, <3>1
    <2> QED
      BY <2>2, <2>3
  <1>5. f[k] = IF k < Len(q) THEN q[k + 1] ELSE PoolNull
    OBVIOUS
  <1> HIDE DEF f
  <1> QED
    BY <1>2, <1>3, <1>4, <1>5, ReachedIs

\* A block begins at a multiple of the size.
LEMMA BlockOf ==
  ASSUME NEW n \in Nat, NEW p \in 0 .. n - 1
  PROVE  /\ p * PoolSize < n * PoolSize
         /\ (p * PoolSize) % PoolSize = 0
         /\ (p * PoolSize) \div PoolSize = p
         /\ p * PoolSize \in Nat
  <1>1. PoolSize \in Nat \ {0}
    BY PoolAssumption
  <1> DEFINE a == p * PoolSize
             d == a \div PoolSize
  <1>2. a \in Nat /\ a \in Int
    BY <1>1
  <1>3. (p + 1) * PoolSize <= n * PoolSize /\ (p + 1) * PoolSize = a + PoolSize
    BY <1>1
  <1>4. a < n * PoolSize
    <2>1. n * PoolSize \in Nat
      BY <1>1
    <2> HIDE DEF a
    <2> QED
      BY <1>1, <1>2, <1>3, <2>1
  <1>5. a % PoolSize = 0
    <2>1. 0 \in 0 .. PoolSize - 1 /\ a = 0 + p * PoolSize /\ p \in Int
      BY <1>1, <1>2
    <2> HIDE DEF a
    <2> QED
      BY <1>1, <1>2, <2>1, ModulusIs
  <1>6. d = p
    <2>1. d \in Int /\ a = PoolSize * d + (a % PoolSize)
      BY <1>1, <1>2
    <2>2. a = PoolSize * d
      <3> HIDE DEF a, d
      <3> QED
        BY <1>1, <1>5, <2>1
    <2>3. p * PoolSize - PoolSize * d = (p - d) * PoolSize
      <3> HIDE DEF d
      <3> QED
        BY <1>1, <2>1
    <2>4. (p - d) * PoolSize = 0 /\ p - d \in Int
      <3> HIDE DEF d
      <3> QED
        BY <1>2, <2>1, <2>2, <2>3
    <2> HIDE DEF d, a
    <2>5. p - d = 0
      <3> DEFINE z == p - d
      <3>1. z * PoolSize = 0 /\ z \in Int
        BY <2>4
      <3> HIDE DEF z
      <3>2. z = 0
        BY <1>1, <3>1
      <3> QED
        BY <3>2 DEF z
    <2> QED
      BY <2>1, <2>5
  <1> QED
    BY <1>2, <1>4, <1>5, <1>6

\* The nodes in use, and how many there are of either kind.
LEMMA PoolCounts ==
  ASSUME NEW n \in Nat, PoolRuns(n), NEW F, F = {i \in PoolIndices : poolNext[i] # i}
  PROVE  Cardinality(poolTaken) + Cardinality(F) = n /\ Cardinality(PoolIndices) = n
  <1> DEFINE D == 0 .. n - 1
             U == {i \in D : poolNext[i] = i}
             T == {p * PoolSize : p \in U}
             f == [p \in U |-> p * PoolSize]
  <1>1. IsFiniteSet(D) /\ Cardinality(D) = n
    <2>1. 0 \in Int /\ n - 1 \in Int
      OBVIOUS
    <2>2. /\ IsFiniteSet(D)
          /\ Cardinality(D) = IF 0 > n - 1 THEN 0 ELSE n - 1 - 0 + 1
      BY <2>1, FS_Interval, Zenon
    <2> QED
      BY <2>2
  <1>2. poolTaken = T /\ PoolIndices = D /\ F = {i \in D : poolNext[i] # i}
    BY DEF PoolRuns
  <1>3. f \in Bijection(U, T)
    <2>1. \A p, r \in U : p * PoolSize = r * PoolSize => p = r
      <3>1. SUFFICES ASSUME NEW p \in U, NEW r \in U, p * PoolSize = r * PoolSize PROVE p = r
        OBVIOUS
      <3>2. (p * PoolSize) \div PoolSize = p /\ (r * PoolSize) \div PoolSize = r
        BY BlockOf
      <3> QED
        BY <3>1, <3>2
    <2>2. f \in [U -> T] /\ IsInjective(f)
      BY <2>1, Zenon DEF IsInjective
    <2>3. \A y \in T : \E x \in U : f[x] = y
      OBVIOUS
    <2> HIDE DEF f, T, U
    <2> QED
      BY <2>2, <2>3 DEF Bijection, Injection, Surjection
  <1>4. /\ IsFiniteSet(U) /\ IsFiniteSet(F)
    <2>1. U \subseteq D /\ F \subseteq D
      BY <1>2
    <2> HIDE DEF U, D
    <2> QED
      BY <1>1, <2>1, FS_Subset
  <1>5. Cardinality(T) = Cardinality(U)
    <2> HIDE DEF f, T, U
    <2> QED
      BY <1>3, <1>4, FS_Bijection DEF ExistsBijection
  <1>6. U \cup F = D /\ U \cap F = {}
    BY <1>2
  <1>7. Cardinality(D) = Cardinality(U) + Cardinality(F)
    <2> HIDE DEF T, U, D
    <2>1. Cardinality(U \cup F) = Cardinality(U) + Cardinality(F) - Cardinality(U \cap F)
      BY <1>4, FS_Union
    <2>2. Cardinality({}) = 0
      BY FS_EmptySet
    <2>3. Cardinality(U) \in Nat /\ Cardinality(F) \in Nat
      BY <1>4, FS_CardinalityType
    <2>4. Cardinality(U \cup F) = Cardinality(D) /\ Cardinality(U \cap F) = 0
      BY <1>6, <2>2
    <2> QED
      BY <2>1, <2>3, <2>4
  <1> HIDE DEF T, U, D
  <1> QED
    BY <1>1, <1>2, <1>5, <1>7

LEMMA PoolIsSound ==
  ASSUME PoolIInv
  PROVE  PoolInv
  <1>1. CASE ~PoolExists /\ poolHead = PoolNull /\ poolTaken = {} /\ poolLast = PoolNull
    <2>1. PoolIndices = {}
      BY <1>1 DEF PoolExists
    <2>2. Cardinality({}) = 0
      BY FS_EmptySet
    <2> DEFINE f == [j \in 0 .. 0 |-> PoolNull]
    <2>3. PoolReached(0) = PoolNull
      <3>1. f = [j \in 0 .. 0 |-> f[j]] /\ f[0] = poolHead /\ 1 .. 0 = {} /\ 0 \in Nat
        BY <1>1
      <3> HIDE DEF f
      <3>2. PoolReached(0) = f[0]
        BY <3>1, ReachedIs
      <3> QED
        BY <1>1, <3>1, <3>2
    <2>4. {PoolReached(k) : k \in 0 .. 0} \ {PoolNull} = {}
      BY <2>3
    <2> HIDE DEF f
    <2> QED
      BY <1>1, <2>1, <2>2, <2>3, <2>4 DEF PoolInv
  <1>2. CASE \E n \in PoolNums : PoolRuns(n)
    <2>1. PICK n \in PoolNums : PoolRuns(n)
      BY <1>2
    <2>2. n \in Nat \ {0} /\ PoolIndices = 0 .. n - 1 /\ PoolNull \notin Nat /\ PoolSize \in Nat \ {0}
      BY <2>1, PoolAssumption DEF PoolRuns
    <2>3. PICK q : FreeList(q)
      BY <2>1 DEF PoolRuns
    <2>4. q \in Seq(0 .. n - 1) /\ Len(q) \in Nat
      BY <2>2, <2>3 DEF FreeList
    <2>5. Len(q) <= n
      BY <2>2, <2>3, <2>4, NoRepetition DEF FreeList
    <2>6. \A k \in 0 .. n : PoolReached(k) = IF k < Len(q) THEN q[k + 1] ELSE PoolNull
      BY <2>2, <2>3, ListReached
    <2> DEFINE F == {i \in PoolIndices : poolNext[i] # i}
               R == {PoolReached(k) : k \in 0 .. n} \ {PoolNull}
    <2>7. PoolReached(n) = PoolNull
      <3>1. n \in 0 .. n /\ ~(n < Len(q))
        BY <2>2, <2>4, <2>5
      <3> QED
        BY <2>6, <3>1
    <2>8. R = F
      <3>1. ASSUME NEW p, p \in R
            PROVE  p \in F
        <4>1. PICK k \in 0 .. n : p = PoolReached(k) /\ p # PoolNull
          BY <3>1
        <4>2. k < Len(q) /\ p = q[k + 1]
          BY <2>6, <4>1
        <4>3. k + 1 \in 1 .. Len(q) /\ q[k + 1] \in 0 .. n - 1
          BY <2>2, <2>4, <4>2
        <4> QED
          BY <2>2, <2>3, <4>2, <4>3 DEF FreeList
      <3>2. ASSUME NEW p, p \in F
            PROVE  p \in R
        <4>1. p \in 0 .. n - 1 /\ poolNext[p] # p
          BY <2>2, <3>2
        <4>2. PICK i \in 1 .. Len(q) : q[i] = p
          BY <2>2, <2>3, <4>1 DEF FreeList
        <4>3. i - 1 \in 0 .. n /\ i - 1 < Len(q) /\ (i - 1) + 1 = i
          BY <2>2, <2>4, <2>5
        <4>4. PoolReached(i - 1) = p
          BY <2>6, <4>2, <4>3
        <4>5. p # PoolNull
          BY <2>2, <4>1
        <4> QED
          BY <4>3, <4>4, <4>5
      <3> HIDE DEF R, F
      <3> QED
        BY <3>1, <3>2
    <2>9. Cardinality(poolTaken) + Cardinality(F) = n /\ Cardinality(PoolIndices) = n
      <3> HIDE DEF F
      <3>1. n \in Nat /\ F = {i \in PoolIndices : poolNext[i] # i}
        BY <2>2 DEF F
      <3> QED
        BY <2>1, <3>1, PoolCounts
    <2>10. poolTaken = {i * PoolSize : i \in PoolIndices \ F}
      <3>1. {i \in PoolIndices : poolNext[i] = i} = PoolIndices \ F
        OBVIOUS
      <3>2. poolTaken = {p * PoolSize : p \in {i \in PoolIndices : poolNext[i] = i}}
        BY <2>1 DEF PoolRuns
      <3> HIDE DEF F
      <3> QED
        BY <3>1, <3>2
    <2>11. poolLast # PoolNull => PoolPtrToIdx(poolLast) \in PoolIndices
      <3> SUFFICES ASSUME poolLast # PoolNull
                   PROVE  PoolPtrToIdx(poolLast) \in PoolIndices
        OBVIOUS
      <3>1. PICK p \in PoolIndices : poolLast = p * PoolSize
        BY <2>1 DEF PoolRuns
      <3>2. p \in 0 .. n - 1 /\ n \in Nat
        BY <2>2
      <3>3. /\ p * PoolSize < n * PoolSize
            /\ (p * PoolSize) % PoolSize = 0
            /\ (p * PoolSize) \div PoolSize = p
        BY <3>2, BlockOf
      <3> HIDE DEF F, R
      <3>4. PoolPtrToIdx(poolLast) = p
        BY <2>9, <3>1, <3>3, Zenon DEF PoolPtrToIdx
      <3> QED
        BY <3>4
    <2>12. F = {i \in PoolIndices : ~PoolIsUsed(i)}
      BY DEF PoolIsUsed
    <2> HIDE DEF F
    <2> QED
      BY <2>7, <2>8, <2>9, <2>10, <2>11, <2>12, Zenon DEF PoolInv
  <1> QED
    BY <1>1, <1>2 DEF PoolIInv

LEMMA PoolMade ==
  ASSUME PoolIInv, NEW n \in PoolNums, PoolCreate(n)
  PROVE  PoolRuns(n)'
  <1> DEFINE q == [i \in 1 .. n |-> i - 1]
  <1>1. n \in Nat \ {0} /\ PoolNull \notin Nat
    BY PoolAssumption
  <1>2. poolTaken = {} /\ poolLast = PoolNull
    <2>1. ~PoolExists
      BY DEF PoolCreate
    <2>2. ASSUME NEW m \in PoolNums, PoolRuns(m)
          PROVE  FALSE
      <3>1. m \in Nat \ {0}
        BY PoolAssumption
      <3>2. 0 \in 0 .. m - 1
        BY <3>1
      <3> QED
        BY <2>1, <2>2, <3>2 DEF PoolRuns, PoolExists
    <2> QED
      BY <2>2 DEF PoolIInv
  <1>3. /\ poolHead' = 0
        /\ poolNext' = [i \in 0 .. n - 1 |-> IF i = n - 1 THEN PoolNull ELSE i + 1]
        /\ poolTaken' = {} /\ poolLast' = PoolNull
    BY <1>2 DEF PoolCreate
  <1>4. PoolIndices' = 0 .. n - 1
    BY <1>3 DEF PoolIndices
  <1>5. q \in Seq(0 .. n - 1) /\ Len(q) = n /\ \A i \in 1 .. n : q[i] = i - 1
    BY <1>1
  <1> HIDE DEF q
  <1>6. FreeList(q)'
    <2>1. q \in Seq(PoolIndices')
      BY <1>4, <1>5
    <2>2. \A i, j \in 1 .. Len(q) : q[i] = q[j] => i = j
      BY <1>1, <1>5
    <2>3. poolHead' = IF Len(q) = 0 THEN PoolNull ELSE q[1]
      BY <1>1, <1>3, <1>5
    <2>4. \A i \in 1 .. Len(q) : poolNext'[q[i]] = IF i = Len(q) THEN PoolNull ELSE q[i + 1]
      <3>1. SUFFICES ASSUME NEW i \in 1 .. n
                     PROVE  poolNext'[q[i]] = IF i = n THEN PoolNull ELSE q[i + 1]
        BY <1>5
      <3>2. q[i] = i - 1 /\ i - 1 \in 0 .. n - 1
        BY <1>1, <1>5
      <3>3. poolNext'[i - 1] = IF i - 1 = n - 1 THEN PoolNull ELSE (i - 1) + 1
        BY <1>3, <3>2
      <3>4. CASE i = n
        BY <3>2, <3>3, <3>4
      <3>5. CASE i # n
        <4>1. i + 1 \in 1 .. n /\ (i + 1) - 1 = i /\ (i - 1) + 1 = i /\ i - 1 # n - 1
          BY <1>1, <3>5
        <4>2. q[i + 1] = i
          BY <1>5, <4>1
        <4> QED
          BY <3>2, <3>3, <3>5, <4>1, <4>2
      <3> QED
        BY <3>4, <3>5
    <2>5. \A p \in PoolIndices' : poolNext'[p] # p <=> \E i \in 1 .. Len(q) : q[i] = p
      <3>1. SUFFICES ASSUME NEW p \in 0 .. n - 1
                     PROVE  poolNext'[p] # p /\ \E i \in 1 .. n : q[i] = p
        BY <1>4, <1>5
      <3>2. poolNext'[p] = IF p = n - 1 THEN PoolNull ELSE p + 1
        BY <1>3
      <3>3. p + 1 \in 1 .. n /\ (p + 1) - 1 = p /\ p + 1 # p /\ p \in Nat
        BY <1>1
      <3>4. q[p + 1] = p
        BY <1>5, <3>3
      <3> QED
        BY <1>1, <3>2, <3>3, <3>4
    <2> QED
      BY <2>1, <2>2, <2>3, <2>4, <2>5 DEF FreeList
  <1>7. {p * PoolSize : p \in {i \in PoolIndices' : poolNext'[i] = i}} = {}
    <2>1. ASSUME NEW i \in 0 .. n - 1
          PROVE  poolNext'[i] # i
      <3>1. poolNext'[i] = IF i = n - 1 THEN PoolNull ELSE i + 1
        BY <1>3
      <3>2. i + 1 # i /\ i \in Nat
        BY <1>1
      <3> QED
        BY <1>1, <3>1, <3>2
    <2> QED
      BY <1>4, <2>1
  <1> QED
    BY <1>3, <1>4, <1>6, <1>7 DEF PoolRuns

LEMMA PoolTakes ==
  ASSUME NEW n \in PoolNums, PoolRuns(n), PoolAlloc
  PROVE  PoolRuns(n)'
  <1>1. n \in Nat \ {0} /\ PoolNull \notin Nat /\ PoolIndices = 0 .. n - 1
    BY PoolAssumption DEF PoolRuns
  <1>2. PICK q : FreeList(q)
    BY DEF PoolRuns
  <1>3. q \in Seq(0 .. n - 1) /\ Len(q) \in Nat
    BY <1>1, <1>2 DEF FreeList
  <1>4. CASE Len(q) = 0
    <2>1. poolHead = PoolNull
      BY <1>2, <1>4 DEF FreeList
    <2>2. poolLast' = PoolNull /\ UNCHANGED <<poolHead, poolNext, poolTaken>>
      BY <2>1 DEF PoolAlloc
    <2>3. FreeList(q)'
      BY <1>2, <2>2 DEF FreeList, PoolIndices
    <2> QED
      BY <2>2, <2>3 DEF PoolRuns, PoolIndices
  <1>5. CASE Len(q) # 0
    <2> DEFINE h == poolHead
               r == Tail(q)
               l == Len(r)
    <2>1. /\ h = q[1] /\ h \in 0 .. n - 1 /\ h # PoolNull
          /\ 1 \in 1 .. Len(q)
      BY <1>1, <1>2, <1>3, <1>5 DEF FreeList
    <2>2. /\ poolHead' = poolNext[h]
          /\ poolNext' = [poolNext EXCEPT ![h] = h]
          /\ poolLast' = h * PoolSize
          /\ poolTaken' = poolTaken \cup {h * PoolSize}
      BY <2>1 DEF PoolAlloc
    <2>3. DOMAIN poolNext = 0 .. n - 1
      BY <1>1 DEF PoolIndices
    <2>4. /\ PoolIndices' = 0 .. n - 1
          /\ poolNext'[h] = h
          /\ \A p \in 0 .. n - 1 : p # h => poolNext'[p] = poolNext[p]
      BY <2>1, <2>2, <2>3 DEF PoolIndices
    <2>5. /\ r \in Seq(0 .. n - 1) /\ l \in Nat /\ Len(q) = l + 1
          /\ \A i \in 1 .. l : r[i] = q[i + 1] /\ i + 1 \in 1 .. Len(q)
      BY <1>3, <1>5
    <2> HIDE DEF h, r, l
    <2>6. \A i \in 1 .. l : r[i] # h /\ r[i] \in 0 .. n - 1
      <3>1. SUFFICES ASSUME NEW i \in 1 .. l PROVE r[i] # h /\ r[i] \in 0 .. n - 1
        OBVIOUS
      <3>2. r[i] = q[i + 1] /\ i + 1 \in 1 .. Len(q) /\ i + 1 # 1
        BY <2>5
      <3>3. q[i + 1] # q[1]
        BY <1>2, <2>1, <3>2 DEF FreeList
      <3>4. q[i + 1] \in 0 .. n - 1
        BY <1>1, <1>3, <3>2
      <3> QED
        BY <2>1, <3>2, <3>3, <3>4
    <2>7. FreeList(r)'
      <3>1. r \in Seq(PoolIndices')
        BY <2>4, <2>5
      <3>2. \A i, j \in 1 .. Len(r) : r[i] = r[j] => i = j
        <4>1. SUFFICES ASSUME NEW i \in 1 .. l, NEW j \in 1 .. l, r[i] = r[j] PROVE i = j
          BY DEF l
        <4>2. q[i + 1] = q[j + 1] /\ i + 1 \in 1 .. Len(q) /\ j + 1 \in 1 .. Len(q)
          BY <2>5, <4>1
        <4>3. i + 1 = j + 1
          BY <1>2, <4>2 DEF FreeList
        <4> QED
          BY <2>5, <4>3
      <3>3. poolHead' = IF Len(r) = 0 THEN PoolNull ELSE r[1]
        <4>1. poolNext[q[1]] = IF 1 = Len(q) THEN PoolNull ELSE q[1 + 1]
          BY <1>2, <2>1 DEF FreeList
        <4>2. CASE l = 0
          BY <2>1, <2>2, <2>5, <4>1, <4>2 DEF l
        <4>3. CASE l # 0
          <5>1. 1 \in 1 .. l /\ 1 # Len(q)
            BY <2>5, <4>3
          <5>2. r[1] = q[1 + 1]
            BY <2>5, <5>1
          <5> QED
            BY <2>1, <2>2, <4>1, <4>3, <5>1, <5>2 DEF l
        <4> QED
          BY <4>2, <4>3
      <3>4. \A i \in 1 .. Len(r) : poolNext'[r[i]] = IF i = Len(r) THEN PoolNull ELSE r[i + 1]
        <4>1. SUFFICES ASSUME NEW i \in 1 .. l
                       PROVE  poolNext'[r[i]] = IF i = l THEN PoolNull ELSE r[i + 1]
          BY DEF l
        <4>2. poolNext'[r[i]] = poolNext[r[i]]
          BY <2>4, <2>6
        <4>3. r[i] = q[i + 1] /\ i + 1 \in 1 .. Len(q)
          BY <2>5
        <4>4. poolNext[q[i + 1]] = IF i + 1 = Len(q) THEN PoolNull ELSE q[(i + 1) + 1]
          BY <1>2, <4>3 DEF FreeList
        <4>5. CASE i = l
          BY <2>5, <4>2, <4>3, <4>4, <4>5
        <4>6. CASE i # l
          <5>1. i + 1 \in 1 .. l /\ i + 1 # Len(q)
            BY <2>5, <4>6
          <5>2. r[i + 1] = q[(i + 1) + 1]
            BY <2>5, <5>1
          <5> QED
            BY <4>2, <4>3, <4>4, <4>6, <5>1, <5>2
        <4> QED
          BY <4>5, <4>6
      <3>5. \A p \in PoolIndices' : poolNext'[p] # p <=> \E i \in 1 .. Len(r) : r[i] = p
        <4>1. SUFFICES ASSUME NEW p \in 0 .. n - 1
                       PROVE  poolNext'[p] # p <=> \E i \in 1 .. l : r[i] = p
          BY <2>4 DEF l
        <4>2. CASE p = h
          BY <2>4, <2>6, <4>2
        <4>3. CASE p # h
          <5>1. poolNext'[p] = poolNext[p]
            BY <2>4, <4>3
          <5>2. poolNext[p] # p <=> \E i \in 1 .. Len(q) : q[i] = p
            BY <1>1, <1>2 DEF FreeList
          <5>3. ASSUME NEW i \in 1 .. Len(q), q[i] = p
                PROVE  \E j \in 1 .. l : r[j] = p
            <6>1. i # 1
              BY <2>1, <4>3, <5>3
            <6>2. i - 1 \in 1 .. l /\ (i - 1) + 1 = i
              BY <2>5, <6>1
            <6>3. r[i - 1] = p
              BY <2>5, <5>3, <6>2
            <6> QED
              BY <6>2, <6>3
          <5>4. ASSUME NEW j \in 1 .. l, r[j] = p
                PROVE  \E i \in 1 .. Len(q) : q[i] = p
            BY <2>5, <5>4
          <5> QED
            BY <5>1, <5>2, <5>3, <5>4
        <4> QED
          BY <4>2, <4>3
      <3> QED
        BY <3>1, <3>2, <3>3, <3>4, <3>5 DEF FreeList
    <2>8. poolTaken' = {p * PoolSize : p \in {i \in PoolIndices' : poolNext'[i] = i}}
      <3> DEFINE U == {i \in 0 .. n - 1 : poolNext[i] = i}
                 V == {i \in 0 .. n - 1 : poolNext'[i] = i}
      <3>1. V = U \cup {h}
        BY <2>1, <2>4
      <3>2. poolTaken = {p * PoolSize : p \in U}
        BY <1>1 DEF PoolRuns
      <3> HIDE DEF U
      <3>3. poolTaken' = {p * PoolSize : p \in V}
        BY <2>2, <3>1, <3>2
      <3> QED
        BY <2>4, <3>3
    <2>9. \E p \in PoolIndices' : poolLast' = p * PoolSize
      BY <2>1, <2>2, <2>4
    <2> QED
      BY <2>4, <2>7, <2>8, <2>9 DEF PoolRuns
  <1> QED
    BY <1>4, <1>5

LEMMA PoolReturns ==
  ASSUME NEW n \in PoolNums, PoolRuns(n), NEW ptr \in PoolPtrs, PoolRelease(ptr)
  PROVE  PoolRuns(n)'
  <1> DEFINE h == ptr \div PoolSize
  <1>1. n \in Nat \ {0} /\ PoolNull \notin Nat /\ PoolIndices = 0 .. n - 1
    BY PoolAssumption DEF PoolRuns
  <1>2. PICK q : FreeList(q)
    BY DEF PoolRuns
  <1>3. q \in Seq(0 .. n - 1) /\ Len(q) \in Nat
    BY <1>1, <1>2 DEF FreeList
  <1>4. /\ h \in 0 .. n - 1 /\ poolNext[h] = h
        /\ poolNext' = [poolNext EXCEPT ![h] = poolHead]
        /\ poolHead' = h
        /\ poolTaken' = poolTaken \ {h * PoolSize}
        /\ UNCHANGED poolLast
    BY <1>1 DEF PoolRelease, PoolIsUsed
  <1>5. DOMAIN poolNext = 0 .. n - 1
    BY <1>1 DEF PoolIndices
  <1> HIDE DEF h
  <1>6. /\ PoolIndices' = 0 .. n - 1
        /\ poolNext'[h] = poolHead
        /\ \A p \in 0 .. n - 1 : p # h => poolNext'[p] = poolNext[p]
    BY <1>4, <1>5 DEF PoolIndices
  <1> DEFINE r == <<h>> \o q
             l == Len(q)
  <1>7. /\ r \in Seq(0 .. n - 1) /\ l \in Nat /\ Len(r) = l + 1 /\ r[1] = h
        /\ \A i \in 2 .. l + 1 : r[i] = q[i - 1] /\ i - 1 \in 1 .. l
    BY <1>3, <1>4
  <1>8. \A i \in 1 .. l : q[i] # h /\ q[i] \in 0 .. n - 1
    <2>1. SUFFICES ASSUME NEW i \in 1 .. l PROVE q[i] # h /\ q[i] \in 0 .. n - 1
      OBVIOUS
    <2>2. q[i] \in 0 .. n - 1
      BY <1>1, <1>3
    <2>3. poolNext[q[i]] # q[i]
      BY <1>1, <1>2, <2>2 DEF FreeList
    <2> QED
      BY <1>4, <2>2, <2>3
  <1>9. poolHead # h
    <2>1. CASE l = 0
      BY <1>1, <1>2, <1>4, <2>1 DEF FreeList
    <2>2. CASE l # 0
      <3>1. 1 \in 1 .. l /\ poolHead = q[1]
        BY <1>2, <1>7, <2>2 DEF FreeList
      <3> QED
        BY <1>8, <3>1
    <2> QED
      BY <2>1, <2>2
  <1> HIDE DEF r, l
  <1>10. FreeList(r)'
    <2>1. r \in Seq(PoolIndices')
      BY <1>6, <1>7
    <2>2. \A i, j \in 1 .. Len(r) : r[i] = r[j] => i = j
      <3>1. SUFFICES ASSUME NEW i \in 1 .. l + 1, NEW j \in 1 .. l + 1, r[i] = r[j] PROVE i = j
        BY <1>7
      <3>2. CASE i = 1 /\ j = 1
        BY <3>2
      <3>3. CASE i = 1 /\ j # 1
        BY <1>7, <1>8, <3>1, <3>3, SMTT(30)
      <3>4. CASE i # 1 /\ j = 1
        BY <1>7, <1>8, <3>1, <3>4
      <3>5. CASE i # 1 /\ j # 1
        <4>1. /\ r[i] = q[i - 1] /\ i - 1 \in 1 .. l
              /\ r[j] = q[j - 1] /\ j - 1 \in 1 .. l
          BY <1>7, <3>5
        <4>2. \A x, y \in 1 .. l : q[x] = q[y] => x = y
          BY <1>2 DEF FreeList, l
        <4>3. q[i - 1] = q[j - 1]
          BY <3>1, <4>1
        <4> HIDE DEF l
        <4>4. i - 1 = j - 1
          <5> DEFINE x == i - 1
                     y == j - 1
          <5>1. x \in 1 .. l /\ y \in 1 .. l /\ q[x] = q[y]
            BY <4>1, <4>3
          <5> HIDE DEF x, y
          <5>2. x = y
            BY <4>2, <5>1
          <5> QED
            BY <5>2 DEF x, y
        <4> QED
          BY <1>7, <4>4
      <3> QED
        BY <3>2, <3>3, <3>4, <3>5
    <2>3. poolHead' = IF Len(r) = 0 THEN PoolNull ELSE r[1]
      BY <1>4, <1>7
    <2>4. \A i \in 1 .. Len(r) : poolNext'[r[i]] = IF i = Len(r) THEN PoolNull ELSE r[i + 1]
      <3>1. SUFFICES ASSUME NEW i \in 1 .. l + 1
                     PROVE  poolNext'[r[i]] = IF i = l + 1 THEN PoolNull ELSE r[i + 1]
        BY <1>7
      <3>2. CASE i = 1
        <4>1. poolNext'[r[i]] = poolHead
          BY <1>6, <1>7, <3>2
        <4>2. CASE l = 0
          BY <1>2, <1>7, <3>2, <4>1, <4>2 DEF FreeList, l
        <4>3. CASE l # 0
          <5>1. i + 1 \in 2 .. l + 1 /\ (i + 1) - 1 = 1 /\ i # l + 1
            BY <1>7, <3>2, <4>3
          <5>2. r[i + 1] = q[1]
            BY <1>7, <5>1
          <5> QED
            BY <1>2, <4>1, <4>3, <5>1, <5>2 DEF FreeList, l
        <4> QED
          BY <4>2, <4>3
      <3>3. CASE i # 1
        <4>1. i \in 2 .. l + 1
          BY <1>7, <3>3
        <4>2. r[i] = q[i - 1] /\ i - 1 \in 1 .. l
          BY <1>7, <4>1
        <4>3. poolNext'[r[i]] = poolNext[q[i - 1]]
          BY <1>6, <1>8, <4>2
        <4>4. poolNext[q[i - 1]] = IF i - 1 = l THEN PoolNull ELSE q[(i - 1) + 1]
          BY <1>2, <4>2 DEF FreeList, l
        <4>5. CASE i = l + 1
          <5>1. i - 1 = l
            BY <1>7, <4>5
          <5> QED
            BY <4>3, <4>4, <4>5, <5>1
        <4>6. CASE i # l + 1
          <5>1. i + 1 \in 2 .. l + 1 /\ (i + 1) - 1 = (i - 1) + 1 /\ i - 1 # l
            BY <1>7, <3>3, <4>6
          <5>2. r[i + 1] = q[(i - 1) + 1]
            BY <1>7, <5>1
          <5> QED
            BY <4>3, <4>4, <4>6, <5>1, <5>2
        <4> QED
          BY <4>5, <4>6
      <3> QED
        BY <3>2, <3>3
    <2>5. \A p \in PoolIndices' : poolNext'[p] # p <=> \E i \in 1 .. Len(r) : r[i] = p
      <3>1. SUFFICES ASSUME NEW p \in 0 .. n - 1
                     PROVE  poolNext'[p] # p <=> \E i \in 1 .. l + 1 : r[i] = p
        BY <1>6, <1>7
      <3>2. CASE p = h
        <4>1. 1 \in 1 .. l + 1
          BY <1>7
        <4> QED
          BY <1>6, <1>7, <1>9, <3>2, <4>1
      <3>3. CASE p # h
        <4>1. poolNext'[p] = poolNext[p]
          BY <1>6, <3>3
        <4>2. poolNext[p] # p <=> \E i \in 1 .. l : q[i] = p
          BY <1>1, <1>2 DEF FreeList, l
        <4>3. ASSUME NEW i \in 1 .. l, q[i] = p
              PROVE  \E j \in 1 .. l + 1 : r[j] = p
          <5>1. i + 1 \in 2 .. l + 1 /\ i + 1 \in 1 .. l + 1 /\ (i + 1) - 1 = i
            BY <1>7
          <5>2. r[i + 1] = q[i]
            BY <1>7, <5>1
          <5> QED
            BY <4>3, <5>1, <5>2
        <4>4. ASSUME NEW j \in 1 .. l + 1, r[j] = p
              PROVE  \E i \in 1 .. l : q[i] = p
          <5>1. j # 1
            BY <1>7, <3>3, <4>4
          <5>2. j \in 2 .. l + 1
            BY <1>7, <5>1
          <5> QED
            BY <1>7, <4>4, <5>2
        <4> QED
          BY <4>1, <4>2, <4>3, <4>4
      <3> QED
        BY <3>2, <3>3
    <2> QED
      BY <2>1, <2>2, <2>3, <2>4, <2>5 DEF FreeList
  <1>11. poolTaken' = {p * PoolSize : p \in {i \in PoolIndices' : poolNext'[i] = i}}
    <2> DEFINE U == {i \in 0 .. n - 1 : poolNext[i] = i}
               V == {i \in 0 .. n - 1 : poolNext'[i] = i}
    <2>1. V = U \ {h}
      BY <1>4, <1>6, <1>9
    <2>2. poolTaken = {p * PoolSize : p \in U}
      BY <1>1 DEF PoolRuns
    <2>3. ASSUME NEW p \in U, p * PoolSize = h * PoolSize
          PROVE  p = h
      <3>1. p \in 0 .. n - 1 /\ n \in Nat
        BY <1>1
      <3>2. (p * PoolSize) \div PoolSize = p
        BY <3>1, BlockOf
      <3>3. (h * PoolSize) \div PoolSize = h
        BY <1>4, <3>1, BlockOf
      <3> QED
        BY <2>3, <3>2, <3>3
    <2> HIDE DEF U
    <2>4. poolTaken' = {p * PoolSize : p \in V}
      BY <1>4, <2>1, <2>2, <2>3
    <2> QED
      BY <1>6, <2>4
  <1>12. poolLast' # PoolNull => \E p \in PoolIndices' : poolLast' = p * PoolSize
    BY <1>1, <1>4, <1>6 DEF PoolRuns
  <1> QED
    BY <1>6, <1>10, <1>11, <1>12 DEF PoolRuns

LEMMA PoolSteps ==
  ASSUME PoolIInv, [PoolNextStep]_poolVars
  PROVE  PoolIInv'
  <1>1. CASE \E n \in PoolNums : PoolCreate(n)
    BY <1>1, PoolMade DEF PoolIInv
  <1>2. CASE PoolDestroy
    <2>1. PoolIndices' = {}
      BY <1>2 DEF PoolDestroy, PoolIndices
    <2> QED
      BY <1>2, <2>1 DEF PoolDestroy, PoolIInv, PoolExists
  <1>3. CASE PoolAlloc
    <2>1. PoolExists
      BY <1>3 DEF PoolAlloc
    <2>2. PICK n \in PoolNums : PoolRuns(n)
      BY <2>1 DEF PoolIInv
    <2>3. PoolRuns(n)'
      BY <1>3, <2>2, PoolTakes
    <2> QED
      BY <2>3 DEF PoolIInv
  <1>4. CASE \E ptr \in PoolPtrs : PoolRelease(ptr)
    <2>1. PICK ptr \in PoolPtrs : PoolRelease(ptr)
      BY <1>4
    <2>2. PoolExists
      BY <2>1 DEF PoolRelease
    <2>3. PICK n \in PoolNums : PoolRuns(n)
      BY <2>2 DEF PoolIInv
    <2>4. PoolRuns(n)'
      BY <2>1, <2>3, PoolReturns
    <2> QED
      BY <2>4 DEF PoolIInv
  <1>5. CASE UNCHANGED poolVars
    BY <1>5 DEF poolVars, PoolIInv, PoolExists, PoolIndices, PoolRuns, FreeList
  <1> QED
    BY <1>1, <1>2, <1>3, <1>4, <1>5 DEF PoolNextStep

\* Whatever is allocated from a pool, released to it, released twice or released by a
\* foreign pointer (eh_mem_pool_alloc, eh_mem_pool_free), and however often pools are
\* created and destroyed: the free list ends, it holds exactly the blocks that are not
\* out, and no block is handed out twice.
THEOREM PoolsAreSound == PoolSpec => []PoolInv
  <1>1. PoolStart => PoolIInv
    BY DEF PoolStart, PoolIInv, PoolExists, PoolIndices
  <1>2. PoolIInv /\ [PoolNextStep]_poolVars => PoolIInv'
    BY PoolSteps
  <1>3. PoolIInv => PoolInv
    BY PoolIsSound
  <1> QED
    BY <1>1, <1>2, <1>3, PTL DEF PoolSpec


-----------------------------------------------------------------------------
(* The order of the modules.                                               *)

\* n steps, each of which turns a member of a set into one: there is the function of
\* what they come to.
StepsOf(a, F, n, f) == [j \in 0 .. n |-> IF j = 0 THEN a ELSE F[f[j - 1], j]]

StepsLead(T, a, n, F) == \E f : f \in [0 .. n -> T] /\ f = StepsOf(a, F, n, f)
StepsIn(T, n, F) == \A x \in T, j \in 1 .. n : F[x, j] \in T

LEMMA StepsTaken ==
  ASSUME NEW T, NEW a \in T, NEW n \in Nat, NEW F, StepsIn(T, n, F)
  PROVE  StepsLead(T, a, n, F)
  <1> DEFINE A == {k \in Nat : k <= n => \E f \in [0 .. k -> T] : f = StepsOf(a, F, k, f)}
  <1>1. 0 \in A
    <2> DEFINE f == [i \in 0 .. 0 |-> a]
    <2>1. f = StepsOf(a, F, 0, f) /\ f \in [0 .. 0 -> T]
      BY DEF StepsOf
    <2> QED
      BY <2>1
  <1>2. ASSUME NEW k \in Nat, k \in A
        PROVE  k + 1 \in A
    <2> SUFFICES ASSUME k + 1 <= n
                 PROVE  \E f \in [0 .. k + 1 -> T] : f = StepsOf(a, F, k + 1, f)
      OBVIOUS
    <2>1. PICK f \in [0 .. k -> T] : f = StepsOf(a, F, k, f)
      BY <1>2
    <2> DEFINE m == k + 1
               new == F[f[k], m]
               g == [i \in 0 .. m |-> IF i = m THEN new ELSE f[i]]
    <2>2. /\ 0 # m /\ m - 1 = k /\ k # m /\ m \in 1 .. n
          /\ \A i \in 0 .. k : i \in 0 .. m /\ i # m /\ i - 1 # m
          /\ \A i \in 0 .. m : i # m => i \in 0 .. k
          /\ \A i \in 0 .. k : i # 0 => i - 1 \in 0 .. k
          /\ k \in 0 .. k /\ m \in 0 .. m
      OBVIOUS
    <2> HIDE DEF m
    <2>3. \A i \in 0 .. k : f[i] = IF i = 0 THEN a ELSE F[f[i - 1], i]
      BY <2>1, Zenon DEF StepsOf
    <2>4. \A i \in 0 .. k : g[i] = f[i]
      BY <2>2
    <2>5. ASSUME NEW i \in 0 .. m
          PROVE  g[i] = StepsOf(a, F, m, g)[i]
      <3>1. StepsOf(a, F, m, g)[i] = IF i = 0 THEN a ELSE F[g[i - 1], i]
        BY Zenon DEF StepsOf
      <3>2. CASE i = m
        <4>1. g[i] = new /\ g[i - 1] = f[k]
          BY <2>2, <2>4, <3>2
        <4> HIDE DEF g
        <4> QED
          BY <2>2, <3>1, <3>2, <4>1, Zenon
      <3>3. CASE i # m
        <4>1. i \in 0 .. k /\ g[i] = f[i] /\ (i # 0 => g[i - 1] = f[i - 1])
          BY <2>2, <2>4, <3>3
        <4> HIDE DEF g, new
        <4> QED
          BY <2>3, <3>1, <4>1, Zenon
      <3> QED
        BY <3>2, <3>3
    <2>6. g \in [0 .. m -> T]
      <3>1. f[k] \in T /\ m \in 1 .. n
        BY <2>1, <2>2
      <3>2. new \in T
        BY <3>1, Zenon DEF StepsIn
      <3> HIDE DEF new
      <3> QED
        BY <2>1, <2>2, <3>2
    <2>7. StepsOf(a, F, m, g) = [i \in 0 .. m |-> StepsOf(a, F, m, g)[i]]
      BY DEF StepsOf
    <2> HIDE DEF g
    <2>8. g = StepsOf(a, F, m, g)
      BY <2>5, <2>6, <2>7
    <2> QED
      BY <2>6, <2>8 DEF m
  <1>3. Nat \subseteq A
    <2> HIDE DEF A
    <2> QED
      BY <1>1, <1>2, SetInduction
  <1> QED
    BY <1>3 DEF StepsLead

\* The number of modules, and the level of the module at a place.
Lifes == Cardinality(LifeModule)
Lev(t, i) == LifeLevel[t[i]]

LEMMA PermFacts ==
  /\ Lifes \in Nat
  /\ \A t \in Permuted(LifeModule) :
       /\ t \in Seq(LifeModule) /\ Len(t) = Lifes /\ DOMAIN t = 1 .. Lifes
       /\ t \in [1 .. Lifes -> LifeModule]
       /\ \A i \in 1 .. Lifes : t[i] \in LifeModule /\ Lev(t, i) \in Nat
       /\ \A m \in LifeModule : \E i \in 1 .. Lifes : t[i] = m
  <1>1. Lifes \in Nat
    BY LifeAssumption, FS_CardinalityType DEF Lifes
  <1>2. ASSUME NEW t \in Permuted(LifeModule)
        PROVE  /\ t \in Seq(LifeModule) /\ Len(t) = Lifes /\ DOMAIN t = 1 .. Lifes
               /\ t \in [1 .. Lifes -> LifeModule]
               /\ \A i \in 1 .. Lifes : t[i] \in LifeModule /\ Lev(t, i) \in Nat
               /\ \A m \in LifeModule : \E i \in 1 .. Lifes : t[i] = m
    <2>1. t \in [1 .. Lifes -> LifeModule] /\ Range(t) = LifeModule
      BY DEF Permuted, Lifes
    <2>2. t \in Seq(LifeModule) /\ Len(t) = Lifes
      BY <1>1, <2>1
    <2>3. \A i \in 1 .. Lifes : t[i] \in LifeModule /\ Lev(t, i) \in Nat
      BY <2>1, LifeAssumption DEF Lev
    <2> QED
      BY <2>1, <2>2, <2>3 DEF Range
  <1> QED
    BY <1>1, <1>2

\* One exchange touches two places, in which it leaves what was there, in order.
LEMMA BubbledIs ==
  ASSUME NEW t \in Permuted(LifeModule), NEW j \in 1 .. Lifes - 1
  PROVE  /\ Bubbled(t, j) \in Permuted(LifeModule)
         /\ \A i \in 1 .. Lifes : i # j /\ i # j + 1 => Bubbled(t, j)[i] = t[i]
         /\ Lev(Bubbled(t, j), j) <= Lev(Bubbled(t, j), j + 1)
         /\ \/ Bubbled(t, j)[j] = t[j] /\ Bubbled(t, j)[j + 1] = t[j + 1]
            \/ /\ Bubbled(t, j)[j] = t[j + 1] /\ Bubbled(t, j)[j + 1] = t[j]
               /\ Lev(t, j) > Lev(t, j + 1)
  <1>1. /\ Lifes \in Nat /\ t \in [1 .. Lifes -> LifeModule] /\ Range(t) = LifeModule
        /\ Lev(t, j) \in Nat /\ Lev(t, j + 1) \in Nat
        /\ j \in 1 .. Lifes /\ j + 1 \in 1 .. Lifes /\ j # j + 1
    BY PermFacts DEF Permuted, Lifes
  <1>2. CASE Lev(t, j) > Lev(t, j + 1)
    <2> DEFINE k == j + 1
               u == [t EXCEPT ![j] = t[k], ![k] = t[j]]
    <2>1. Bubbled(t, j) = u
      BY <1>2 DEF Bubbled, Lev
    <2>2. k \in 1 .. Lifes /\ j # k /\ j \in 1 .. Lifes
      BY <1>1
    <2> HIDE DEF k
    <2>3. /\ u \in [1 .. Lifes -> LifeModule]
          /\ u[j] = t[k] /\ u[k] = t[j]
          /\ \A i \in 1 .. Lifes : i # j /\ i # k => u[i] = t[i]
      BY <1>1, <2>2
    <2> HIDE DEF u
    <2>4. Range(u) = LifeModule
      <3>1. ASSUME NEW m \in LifeModule
            PROVE  \E i \in 1 .. Lifes : u[i] = m
        <4>1. PICK i \in 1 .. Lifes : t[i] = m
          BY <1>1 DEF Range
        <4>2. CASE i = j
          BY <2>2, <2>3, <4>1, <4>2
        <4>3. CASE i = k
          BY <2>2, <2>3, <4>1, <4>3
        <4>4. CASE i # j /\ i # k
          BY <2>3, <4>1, <4>4
        <4> QED
          BY <4>2, <4>3, <4>4
      <3> QED
        BY <2>3, <3>1 DEF Range
    <2>5. u \in Permuted(LifeModule)
      BY <2>3, <2>4 DEF Permuted, Lifes
    <2>6. Lev(u, j) = Lev(t, k) /\ Lev(u, k) = Lev(t, j) /\ Lev(t, j) > Lev(t, k)
      BY <1>2, <2>3 DEF Lev, k
    <2>7. Lev(u, j) <= Lev(u, k)
      BY <1>1, <2>6 DEF k
    <2> QED
      BY <2>1, <2>3, <2>5, <2>6, <2>7 DEF k
  <1>3. CASE ~(Lev(t, j) > Lev(t, j + 1))
    <2>1. Bubbled(t, j) = t
      BY <1>3 DEF Bubbled, Lev
    <2>2. Lev(t, j) <= Lev(t, j + 1)
      BY <1>1, <1>3
    <2> QED
      BY <2>1, <2>2
  <1> QED
    BY <1>2, <1>3

\* Modules of one level are in the order in which s has them.
Stable(t, s) ==
  \A i, j \in 1 .. Lifes :
    i < j /\ Lev(t, i) = Lev(t, j) =>
      \E k, l \in 1 .. Lifes : k < l /\ s[k] = t[i] /\ s[l] = t[j]

\* The places behind the p-th hold the highest levels, in order.
SortedAbove(t, p) == \A i, j \in 1 .. Lifes : i < j /\ j > p => Lev(t, i) <= Lev(t, j)

\* The place behind the j-th holds the highest level so far.
Topped(t, j) == j + 1 \in 1 .. Lifes /\ \A i \in 1 .. j : Lev(t, i) <= Lev(t, j + 1)

LEMMA BubbledStable ==
  ASSUME NEW t \in Permuted(LifeModule), NEW j \in 1 .. Lifes - 1, NEW s, Stable(t, s)
  PROVE  Stable(Bubbled(t, j), s)
  <1> DEFINE k == j + 1
  <1>0. PICK u : u = Bubbled(t, j)
    OBVIOUS
  <1>1. /\ \A i \in 1 .. Lifes : i # j /\ i # k => u[i] = t[i]
        /\ \/ u[j] = t[j] /\ u[k] = t[k]
           \/ u[j] = t[k] /\ u[k] = t[j] /\ Lev(t, j) > Lev(t, k)
    BY <1>0, BubbledIs
  <1>2. /\ Lifes \in Nat /\ j \in 1 .. Lifes /\ k \in 1 .. Lifes /\ j < k
        /\ \A i \in 1 .. Lifes : i < k /\ i # j => i < j
        /\ \A i \in 1 .. Lifes : i > j /\ i # k => i > k
        /\ \A i \in 1 .. Lifes : Lev(t, i) \in Nat
        /\ \A i \in 1 .. Lifes : i \in Nat
    <2>1. Lifes \in Nat /\ \A i \in 1 .. Lifes : Lev(t, i) \in Nat
      BY PermFacts
    <2> QED
      BY <2>1
  <1> HIDE DEF k
  <1>3. CASE u[j] = t[j] /\ u[k] = t[k]
    <2>1. \A i \in 1 .. Lifes : u[i] = t[i]
      BY <1>1, <1>3
    <2>2. \A i \in 1 .. Lifes : Lev(u, i) = Lev(t, i)
      BY <2>1 DEF Lev
    <2> QED
      BY <1>0, <2>1, <2>2 DEF Stable
  <1>4. CASE u[j] = t[k] /\ u[k] = t[j] /\ Lev(t, j) > Lev(t, k)
    <2> DEFINE at(i) == IF i = j THEN k ELSE IF i = k THEN j ELSE i
    <2>1. \A i \in 1 .. Lifes : at(i) \in 1 .. Lifes /\ u[i] = t[at(i)]
      BY <1>1, <1>2, <1>4
    <2>2. \A i, l \in 1 .. Lifes : i < l /\ ~(i = j /\ l = k) => at(i) < at(l)
      BY <1>2
    <2> HIDE DEF at
    <2>3. \A i \in 1 .. Lifes : Lev(u, i) = Lev(t, at(i))
      BY <2>1 DEF Lev
    <2>4. Lev(u, j) # Lev(u, k)
      BY <1>2, <1>4 DEF Lev
    <2>5. ASSUME NEW i \in 1 .. Lifes, NEW l \in 1 .. Lifes, i < l, Lev(u, i) = Lev(u, l)
          PROVE  \E x, y \in 1 .. Lifes : x < y /\ s[x] = u[i] /\ s[y] = u[l]
      <3>1. at(i) < at(l) /\ Lev(t, at(i)) = Lev(t, at(l))
        BY <2>2, <2>3, <2>4, <2>5
      <3> QED
        BY <2>1, <3>1 DEF Stable
    <2> QED
      BY <1>0, <2>5 DEF Stable
  <1> QED
    BY <1>1, <1>3, <1>4

LEMMA BubbledSorts ==
  ASSUME NEW t \in Permuted(LifeModule), NEW m \in Nat, NEW j \in 1 .. m, m < Lifes,
         SortedAbove(t, m + 1), Topped(t, j - 1)
  PROVE  SortedAbove(Bubbled(t, j), m + 1) /\ Topped(Bubbled(t, j), j)
  <1> DEFINE k == j + 1
  <1>a. Lifes \in Nat /\ j \in 1 .. Lifes - 1
    BY PermFacts
  <1>0. PICK u : u = Bubbled(t, j)
    OBVIOUS
  <1>1. /\ \A i \in 1 .. Lifes : i # j /\ i # k => u[i] = t[i]
        /\ Lev(u, j) <= Lev(u, k)
        /\ \/ u[j] = t[j] /\ u[k] = t[k]
           \/ u[j] = t[k] /\ u[k] = t[j] /\ Lev(t, j) > Lev(t, k)
        /\ u \in Permuted(LifeModule)
    BY <1>0, <1>a, BubbledIs
  <1>2. /\ j \in 1 .. Lifes /\ k \in 1 .. Lifes /\ j < k
        /\ \A i \in 1 .. Lifes : Lev(t, i) \in Nat /\ Lev(u, i) \in Nat
        /\ \A i \in 1 .. j : i \in 1 .. Lifes /\ i # k /\ (i # j => i \in 1 .. j - 1)
        /\ (j - 1) + 1 = j /\ k <= m + 1 /\ k = j + 1
    <2>1. \A i \in 1 .. Lifes : Lev(t, i) \in Nat /\ Lev(u, i) \in Nat
      BY <1>1, PermFacts
    <2> QED
      BY <1>a, <2>1
  <1> HIDE DEF k
  <1>3. /\ \A i \in 1 .. Lifes : i # j /\ i # k => Lev(u, i) = Lev(t, i)
        /\ \/ Lev(u, j) = Lev(t, j) /\ Lev(u, k) = Lev(t, k)
           \/ Lev(u, j) = Lev(t, k) /\ Lev(u, k) = Lev(t, j)
        /\ Lev(u, k) >= Lev(t, j)
    <2>1. /\ \A i \in 1 .. Lifes : i # j /\ i # k => Lev(u, i) = Lev(t, i)
          /\ \/ Lev(u, j) = Lev(t, j) /\ Lev(u, k) = Lev(t, k)
             \/ Lev(u, j) = Lev(t, k) /\ Lev(u, k) = Lev(t, j)
      BY <1>1 DEF Lev
    <2> QED
      BY <1>1, <1>2, <2>1
  <1>4. Topped(u, j)
    <2>1. ASSUME NEW i \in 1 .. j
          PROVE  Lev(u, i) <= Lev(u, k)
      <3>1. CASE i = j
        BY <1>1, <3>1
      <3>2. CASE i # j
        <4>1. Lev(u, i) = Lev(t, i) /\ Lev(t, i) <= Lev(t, j)
          BY <1>2, <1>3, <3>2 DEF Topped
        <4>2. i \in 1 .. Lifes
          BY <1>2
        <4> QED
          BY <1>2, <1>3, <4>1, <4>2
      <3> QED
        BY <3>1, <3>2
    <2> QED
      BY <1>2, <2>1 DEF Topped
  <1>5. SortedAbove(u, m + 1)
    <2>1. ASSUME NEW i \in 1 .. Lifes, NEW l \in 1 .. Lifes, i < l, l > m + 1
          PROVE  Lev(u, i) <= Lev(u, l)
      <3>1. l # j /\ l # k /\ j < l /\ k < l
        BY <1>2, <2>1
      <3>2. /\ Lev(u, l) = Lev(t, l) /\ Lev(t, i) <= Lev(t, l)
            /\ Lev(t, j) <= Lev(t, l) /\ Lev(t, k) <= Lev(t, l)
        BY <1>2, <1>3, <2>1, <3>1 DEF SortedAbove
      <3> QED
        BY <1>3, <3>2
    <2> QED
      BY <2>1 DEF SortedAbove
  <1> QED
    BY <1>0, <1>4, <1>5

\* One pass puts the highest level of the first m + 1 places into the last of them.
LEMMA OnePassSorts ==
  ASSUME NEW t \in Permuted(LifeModule), NEW m \in Nat, m < Lifes, NEW s, Stable(t, s),
         SortedAbove(t, m + 1)
  PROVE  /\ OnePass(t, m) \in Permuted(LifeModule)
         /\ Stable(OnePass(t, m), s)
         /\ SortedAbove(OnePass(t, m), m)
  <1> DEFINE T == Permuted(LifeModule)
             F == [p \in T \X (1 .. m) |-> Bubbled(p[1], p[2])]
             After(f) == [j \in 0 .. m |-> IF j = 0 THEN t ELSE Bubbled(f[j - 1], j)]
  <1>a. Lifes \in Nat /\ 1 .. m \subseteq 1 .. Lifes - 1
    BY PermFacts
  <1>b. \A u \in T, j \in 1 .. m : Bubbled(u, j) \in T
    BY <1>a, BubbledIs
  <1> HIDE DEF T
  <1>2. \A u \in T, j \in 1 .. m : F[u, j] = Bubbled(u, j)
    OBVIOUS
  <1> HIDE DEF F
  <1>1. StepsIn(T, m, F)
    BY <1>b, <1>2 DEF StepsIn
  <1>3. PICK g : g \in [0 .. m -> T] /\ g = StepsOf(t, F, m, g)
    <2>1. t \in T
      BY DEF T
    <2>2. StepsLead(T, t, m, F)
      BY <1>1, <2>1, StepsTaken
    <2> HIDE DEF After
    <2> QED
      BY <2>2, Zenon DEF StepsLead
  <1>4. /\ \A j \in 0 .. m : g[j] = IF j = 0 THEN t ELSE F[g[j - 1], j]
        /\ g = [j \in 0 .. m |-> g[j]]
    BY <1>3, Zenon DEF StepsOf
  <1>5. \A j \in 0 .. m : j # 0 => j \in 1 .. m /\ j - 1 \in 0 .. m
    OBVIOUS
  <1>6. \A j \in 0 .. m : g[j] = IF j = 0 THEN t ELSE Bubbled(g[j - 1], j)
    BY <1>2, <1>3, <1>4, <1>5
  <1>7. g = After(g)
    <2>1. \A j \in 0 .. m : After(g)[j] = g[j]
      BY <1>6
    <2>2. After(g) = [j \in 0 .. m |-> After(g)[j]]
      OBVIOUS
    <2> HIDE DEF After
    <2> QED
      BY <1>4, <2>1, <2>2
  <1>8. PICK f : f = (CHOOSE h : h = After(h))
    OBVIOUS
  <1>9. f = After(f)
    <2> HIDE DEF After
    <2> QED
      BY <1>7, <1>8, Zenon
  <1>10. OnePass(t, m) = f[m]
    BY <1>8, Zenon DEF OnePass
  <1>11. /\ f[0] = t
         /\ \A j \in 1 .. m : f[j] = Bubbled(f[j - 1], j)
    BY <1>9
  <1> DEFINE P(k) == /\ f[k] \in T /\ Stable(f[k], s)
                     /\ SortedAbove(f[k], m + 1) /\ Topped(f[k], k)
             A == {k \in Nat : k <= m => P(k)}
  <1>12. 0 \in A
    <2>1. Topped(t, 0)
      BY <1>a DEF Topped
    <2> QED
      BY <1>11, <2>1 DEF T
  <1>13. ASSUME NEW k \in Nat, k \in A
         PROVE  k + 1 \in A
    <2> SUFFICES ASSUME k + 1 <= m PROVE P(k + 1)
      OBVIOUS
    <2> DEFINE j == k + 1
    <2>1. P(k) /\ j \in 1 .. m /\ j - 1 = k
      BY <1>13
    <2>2. PICK u : u = f[k]
      OBVIOUS
    <2> HIDE DEF j
    <2>3. f[j] = Bubbled(u, j) /\ j \in 1 .. Lifes - 1
      BY <1>a, <1>11, <2>1, <2>2
    <2>4. u \in Permuted(LifeModule) /\ Stable(u, s) /\ SortedAbove(u, m + 1) /\ Topped(u, j - 1)
      BY <2>1, <2>2 DEF T
    <2>5. Bubbled(u, j) \in Permuted(LifeModule)
      BY <2>3, <2>4, BubbledIs
    <2>6. Stable(Bubbled(u, j), s)
      BY <2>3, <2>4, BubbledStable
    <2>7. SortedAbove(Bubbled(u, j), m + 1) /\ Topped(Bubbled(u, j), j)
      BY <2>1, <2>4, BubbledSorts
    <2>8. P(j)
      BY <2>3, <2>5, <2>6, <2>7 DEF T
    <2> QED
      BY <2>8 DEF j
  <1>14. Nat \subseteq A
    <2> HIDE DEF A
    <2> QED
      BY <1>12, <1>13, SetInduction
  <1>15. PICK u : u = f[m]
    OBVIOUS
  <1>16. u \in Permuted(LifeModule) /\ Stable(u, s) /\ SortedAbove(u, m + 1) /\ Topped(u, m)
    BY <1>14, <1>15 DEF T
  <1>17. SortedAbove(u, m)
    <2>1. ASSUME NEW i \in 1 .. Lifes, NEW j \in 1 .. Lifes, i < j, j > m
          PROVE  Lev(u, i) <= Lev(u, j)
      <3>1. CASE j > m + 1
        BY <1>16, <2>1, <3>1 DEF SortedAbove
      <3>2. CASE j = m + 1
        <4>1. i \in 1 .. m
          BY <2>1, <3>2
        <4> QED
          BY <1>16, <3>2, <4>1 DEF Topped
      <3> QED
        BY <1>a, <2>1, <3>1, <3>2
    <2> QED
      BY <2>1 DEF SortedAbove
  <1> QED
    BY <1>10, <1>15, <1>16, <1>17

\* The bubble sort of eh_module_section_init: it orders the modules by level, and leaves
\* those of one level in the order in which it finds them.
LEMMA SortedSorts ==
  ASSUME NEW s \in Permuted(LifeModule)
  PROVE  /\ Sorted(s) \in Permuted(LifeModule)
         /\ Stable(Sorted(s), s)
         /\ SortedAbove(Sorted(s), 0)
  <1> DEFINE n == Lifes
             Good(u, p) == Stable(u, s) /\ SortedAbove(u, p)
             T == Permuted(LifeModule)
             F == [p \in T \X (1 .. n) |-> IF Good(p[1], n - p[2] + 1) THEN OnePass(p[1], n - p[2]) ELSE s]
             After(f) == [i \in 0 .. Len(s) |-> IF i = 0 THEN s ELSE OnePass(f[i - 1], Len(s) - i)]
  <1>a. n \in Nat /\ Len(s) = n
    BY PermFacts
  <1>b. \A i \in 1 .. n : n - i \in Nat /\ n - i < n
    BY <1>a
  <1>c. /\ \A u \in T, i \in 1 .. n :
             Good(u, n - i + 1) => OnePass(u, n - i) \in T /\ Good(OnePass(u, n - i), n - i)
        /\ s \in T
    BY <1>b, OnePassSorts
  <1>d. Good(s, n)
    BY <1>a DEF Stable, SortedAbove
  <1>e. /\ \A i \in 0 .. n : i # 0 => i \in 1 .. n /\ i - 1 \in 0 .. n
        /\ \A i \in 1 .. n : i \in 0 .. n /\ i # 0
        /\ 0 \in 0 .. n /\ n \in 0 .. n
        /\ \A i \in Nat : i + 1 <= n =>
             i + 1 \in 1 .. n /\ (i + 1) - 1 = i /\ n - (i + 1) + 1 = n - i /\ i \in 0 .. n /\ i <= n
        /\ n - n = 0 /\ n - 0 = n
    BY <1>a
  <1> HIDE DEF T, Good, n
  <1>1. StepsIn(T, n, F)
    BY <1>c DEF StepsIn
  <1>2. \A u \in T, i \in 1 .. n : Good(u, n - i + 1) => F[u, i] = OnePass(u, n - i)
    OBVIOUS
  <1> HIDE DEF F
  <1>3. PICK g : g \in [0 .. n -> T] /\ g = StepsOf(s, F, n, g)
    <2>1. s \in T /\ n \in Nat
      BY <1>a, <1>c
    <2>2. StepsLead(T, s, n, F)
      BY <1>1, <2>1, StepsTaken
    <2> HIDE DEF After
    <2> QED
      BY <2>2, Zenon DEF StepsLead
  <1>4. /\ \A j \in 0 .. n : g[j] = IF j = 0 THEN s ELSE F[g[j - 1], j]
        /\ g = [j \in 0 .. n |-> g[j]]
    BY <1>3, Zenon DEF StepsOf
  <1> DEFINE B == {k \in Nat : k <= n => Good(g[k], n - k)}
  <1>5. 0 \in B
    <2>1. g[0] = s /\ n - 0 = n
      BY <1>4, <1>e, Zenon
    <2> QED
      BY <1>d, <2>1
  <1>6. ASSUME NEW k \in Nat, k \in B
        PROVE  k + 1 \in B
    <2> SUFFICES ASSUME k + 1 <= n PROVE Good(g[k + 1], n - (k + 1))
      OBVIOUS
    <2> DEFINE j == k + 1
    <2>1. Good(g[k], n - k) /\ j \in 1 .. n /\ j - 1 = k /\ n - j + 1 = n - k /\ k \in 0 .. n
      BY <1>6, <1>e
    <2> HIDE DEF j
    <2>2. g[k] \in T /\ Good(g[k], n - j + 1) /\ g[j] = F[g[k], j]
      BY <1>3, <1>4, <1>e, <2>1
    <2>3. g[j] = OnePass(g[k], n - j)
      BY <1>2, <2>1, <2>2
    <2>4. Good(g[j], n - j)
      BY <1>c, <2>1, <2>2, <2>3
    <2> QED
      BY <2>4 DEF j
  <1>7. Nat \subseteq B
    <2> HIDE DEF B
    <2> QED
      BY <1>5, <1>6, SetInduction
  <1>8. \A i \in 1 .. n : g[i] = OnePass(g[i - 1], n - i)
    <2>1. ASSUME NEW i \in 1 .. n
          PROVE  g[i] = OnePass(g[i - 1], n - i)
      <3>1. i - 1 \in Nat /\ i - 1 <= n /\ n - (i - 1) = n - i + 1
        BY <1>a
      <3>2. Good(g[i - 1], n - i + 1)
        BY <1>7, <3>1
      <3>3. i \in 0 .. n /\ i # 0 /\ i - 1 \in 0 .. n
        BY <1>e
      <3>4. g[i] = F[g[i - 1], i]
        BY <1>4, <3>3, Zenon
      <3>5. g[i - 1] \in T
        BY <1>3, <3>3
      <3> QED
        BY <1>2, <3>2, <3>4, <3>5, Zenon
    <2> QED
      BY <2>1
  <1>9. g = After(g)
    <2>1. \A j \in 0 .. n : After(g)[j] = g[j]
      <3>1. ASSUME NEW j \in 0 .. n
            PROVE  After(g)[j] = IF j = 0 THEN s ELSE OnePass(g[j - 1], n - j)
        BY <1>a
      <3>2. g[0] = s
        BY <1>4, <1>e
      <3> HIDE DEF After
      <3> QED
        BY <1>8, <1>e, <3>1, <3>2
    <2>2. After(g) = [j \in 0 .. n |-> After(g)[j]]
      BY <1>a
    <2> HIDE DEF After
    <2> QED
      BY <1>4, <2>1, <2>2
  <1>10. PICK f : f = (CHOOSE h : h = After(h))
    OBVIOUS
  <1>11. f = After(f)
    <2> HIDE DEF After
    <2> QED
      BY <1>9, <1>10, Zenon
  <1>12. Sorted(s) = f[n]
    <2>1. Sorted(s) = f[Len(s)]
      BY <1>10, Zenon DEF Sorted
    <2> QED
      BY <1>a, <2>1
  <1>13. /\ f[0] = s
         /\ \A i \in 1 .. n : f[i] = OnePass(f[i - 1], n - i)
    BY <1>a, <1>11, <1>e
  <1> DEFINE A == {k \in Nat : k <= n => f[k] \in T /\ Good(f[k], n - k)}
  <1>14. 0 \in A
    <2>1. n - 0 = n
      BY <1>a
    <2> QED
      BY <1>13, <1>c, <1>d, <2>1
  <1>15. ASSUME NEW k \in Nat, k \in A
         PROVE  k + 1 \in A
    <2> SUFFICES ASSUME k + 1 <= n PROVE f[k + 1] \in T /\ Good(f[k + 1], n - (k + 1))
      OBVIOUS
    <2> DEFINE j == k + 1
    <2>1. /\ f[k] \in T /\ Good(f[k], n - k) /\ j \in 1 .. n /\ j - 1 = k /\ n - j + 1 = n - k
      BY <1>15, <1>e
    <2> HIDE DEF j
    <2>2. f[j] = OnePass(f[k], n - j)
      BY <1>13, <2>1
    <2>3. f[j] \in T /\ Good(f[j], n - j)
      BY <1>c, <2>1, <2>2
    <2> QED
      BY <2>3 DEF j
  <1>16. Nat \subseteq A
    <2> HIDE DEF A
    <2> QED
      BY <1>14, <1>15, SetInduction
  <1>17. Sorted(s) \in T /\ Good(Sorted(s), 0)
    BY <1>a, <1>12, <1>16, <1>e
  <1> QED
    BY <1>17 DEF T, Good

\* What may be open while certain modules are on.
Held(on) == (UNION Range(LifeKeeps)) \cup (UNION {Range(LifeOpens[m]) : m \in on})

\* The life of the system, module by module.
LifeIInv ==
  /\ lifeLink \in Permuted(LifeModule)
  /\ \/ lifeTable = << >>
     \/ /\ lifeTable \in Permuted(LifeModule)
        /\ Stable(lifeTable, lifeLink) /\ SortedAbove(lifeTable, 0)
  /\ lifeAt \in 0 .. Len(lifeTable)
  /\ lifePhase \in {"down", "init", "unwind", "up", "exit"}
  /\ lifePhase = "up" => lifeAt = Len(lifeTable)
  /\ lifePhase = "down" => lifeAt = 0
  /\ lifeOpen \subseteq Held(LifeOn)
  /\ lifeEnded \in Nat /\ (lifePhase # "up" => lifeEnded = 0)
  /\ lifeNode \in {"self", "linked", "stale"}
  /\ lifeTidy => lifeNode # "stale"
  /\ lifeEnded > 0 /\ lifeTidy => lifeNode = "linked"

LEMMA HeldWith ==
  ASSUME NEW S, NEW m
  PROVE  Held(S \cup {m}) = Held(S) \cup Range(LifeOpens[m])
  <1> DEFINE O(T) == UNION {Range(LifeOpens[k]) : k \in T}
  <1>1. \A x, T : x \in O(T) <=> \E k \in T : x \in Range(LifeOpens[k])
    OBVIOUS
  <1> HIDE DEF O
  <1>2. O(S \cup {m}) = O(S) \cup Range(LifeOpens[m])
    BY <1>1
  <1>3. PICK K : K = UNION Range(LifeKeeps)
    OBVIOUS
  <1>4. Held(S) = K \cup O(S) /\ Held(S \cup {m}) = K \cup O(S \cup {m})
    BY <1>3, Zenon DEF Held, O
  <1> QED
    BY <1>2, <1>4

LEMMA LifeIsTidy ==
  ASSUME LifeIInv
  PROVE  LifeInv
  <1>1. CASE lifeTable = << >>
    <2>1. LifeOn = {} /\ Len(lifeTable) = 0 /\ 1 .. Len(lifeTable) = {}
      BY <1>1 DEF LifeIInv, LifeOn
    <2>3. lifeOpen \subseteq UNION Range(LifeKeeps)
      BY <2>1 DEF LifeIInv, Held
    <2> QED
      BY <1>1, <2>1, <2>3 DEF LifeIInv, LifeInv
  <1>2. CASE lifeTable # << >>
    <2>1. /\ lifeTable \in Permuted(LifeModule) /\ lifeLink \in Permuted(LifeModule)
          /\ Stable(lifeTable, lifeLink) /\ SortedAbove(lifeTable, 0)
          /\ lifeAt \in 0 .. Len(lifeTable)
      BY <1>2 DEF LifeIInv
    <2> DEFINE n == Lifes
    <2>2. /\ n \in Nat /\ Len(lifeTable) = n /\ Len(lifeLink) = n
          /\ \A i \in 1 .. n : lifeTable[i] \in LifeModule /\ Lev(lifeTable, i) \in Nat
          /\ \A m \in LifeModule : \E i \in 1 .. n : lifeTable[i] = m
      BY <2>1, PermFacts
    <2> HIDE DEF n
    <2>3. ASSUME NEW m \in LifeOn, NEW l \in LifeModule, LifeLevel[l] < LifeLevel[m]
          PROVE  l \in LifeOn
      <3>1. PICK i \in 1 .. lifeAt : lifeTable[i] = m
        BY DEF LifeOn
      <3>2. PICK j \in 1 .. n : lifeTable[j] = l
        BY <2>2
      <3>3. i \in 1 .. n /\ Lev(lifeTable, j) < Lev(lifeTable, i)
        BY <2>1, <2>2, <2>3, <3>1, <3>2 DEF Lev
      <3>4. ~(i < j) /\ i # j
        BY <2>1, <2>2, <3>2, <3>3 DEF SortedAbove, n
      <3>5. j \in 1 .. lifeAt
        BY <2>1, <2>2, <3>1, <3>2, <3>4
      <3> QED
        BY <3>2, <3>5 DEF LifeOn
    <2>4. ASSUME NEW i \in 1 .. Len(lifeTable), NEW j \in 1 .. Len(lifeTable),
                 i < j, LifeLevel[lifeTable[i]] = LifeLevel[lifeTable[j]]
          PROVE  \E k, l \in 1 .. Len(lifeLink) :
                   k < l /\ lifeLink[k] = lifeTable[i] /\ lifeLink[l] = lifeTable[j]
      BY <2>1, <2>2, <2>4 DEF Stable, Lev, n
    <2>5. ASSUME lifePhase = "up"
          PROVE  LifeOn = LifeModule
      <3>1. lifeAt = n
        BY <2>2, <2>5 DEF LifeIInv
      <3> QED
        BY <2>2, <3>1 DEF LifeOn
    <2>6. ASSUME lifePhase = "down"
          PROVE  LifeOn = {} /\ lifeEnded = 0 /\ lifeOpen \subseteq UNION Range(LifeKeeps)
      <3>1. LifeOn = {}
        BY <2>6 DEF LifeIInv, LifeOn
      <3> QED
        BY <2>6, <3>1 DEF LifeIInv, Held
    <2>7. lifeEnded > 0 /\ lifeTidy => lifeNode = "linked"
      BY DEF LifeIInv
    <2> QED
      BY <2>3, <2>4, <2>5, <2>6, <2>7 DEF LifeInv
  <1> QED
    BY <1>1, <1>2

LEMMA LifeBegins == LifeStart => LifeIInv
  <1> SUFFICES ASSUME LifeStart PROVE LifeIInv
    OBVIOUS
  <1>1. Len(lifeTable) = 0
    BY DEF LifeStart
  <1> QED
    BY <1>1 DEF LifeStart, LifeIInv

LEMMA LifeGoesOn ==
  ASSUME LifeIInv, [LifeNext]_lifeVars
  PROVE  LifeIInv'
  <1> USE DEF LifeIInv
  <1>1. ASSUME NEW found \in BOOLEAN, InteriorInit(found)
        PROVE  LifeIInv'
    <2>1. /\ Sorted(lifeLink) \in Permuted(LifeModule)
          /\ Stable(Sorted(lifeLink), lifeLink) /\ SortedAbove(Sorted(lifeLink), 0)
      BY SortedSorts
    <2>2. LifeOn' = LifeOn
      BY <1>1 DEF InteriorInit, LifeOn
    <2>3. \/ lifeTable' = << >>
          \/ /\ lifeTable' \in Permuted(LifeModule)
             /\ Stable(lifeTable, lifeLink)' /\ SortedAbove(lifeTable, 0)'
      BY <1>1, <2>1 DEF InteriorInit
    <2>4. Len(lifeTable') \in Nat
      BY <2>3, PermFacts
    <2>5. lifeLink' = lifeLink /\ lifeOpen' = lifeOpen /\ lifePhase' = "init" /\ lifeAt' = 0
          /\ lifeEnded' = 0
      BY <1>1 DEF InteriorInit
    <2>6. /\ lifeNode' \in {"self", "linked", "stale"}
          /\ lifeTidy' => lifeNode' # "stale"
      BY <1>1 DEF InteriorInit
    <2>7. lifeOpen' \subseteq Held(LifeOn')
      BY <2>2, <2>5
    <2>8. lifeAt' \in 0 .. Len(lifeTable')
      BY <2>4, <2>5
    <2> QED
      BY <2>3, <2>5, <2>6, <2>7, <2>8
  <1>2. CASE ModuleInit
    <2>1. LifeOn' = LifeOn \cup {lifeTable[lifeAt + 1]}
      BY <1>2 DEF ModuleInit, LifeOn
    <2>2. Held(LifeOn') = Held(LifeOn) \cup Range(LifeOpens[lifeTable[lifeAt + 1]])
      BY <2>1, HeldWith, Zenon
    <2>3. lifeOpen' \subseteq Held(LifeOn')
      BY <1>2, <2>2 DEF ModuleInit
    <2> QED
      BY <1>2, <2>3 DEF ModuleInit, Stable, SortedAbove
  <1>3. CASE ModuleFails \/ ModulesDone \/ InitFailed \/ GlobalExit
    <2> USE DEF LifeOn, Stable, SortedAbove
    <2>1. CASE ModuleFails
      BY <2>1 DEF ModuleFails
    <2>2. CASE ModulesDone
      BY <2>2 DEF ModulesDone
    <2>3. CASE InitFailed
      BY <2>3 DEF InitFailed
    <2>4. CASE GlobalExit
      BY <2>4 DEF GlobalExit
    <2> QED
      BY <1>3, <2>1, <2>2, <2>3, <2>4
  <1>4. CASE ModuleExit
    <2> DEFINE m == lifeTable[lifeAt]
    <2>1. LifeOn = LifeOn' \cup {m}
      BY <1>4 DEF ModuleExit, LifeOn
    <2>2. m \in LifeModule
      <3>1. lifeTable # << >> /\ lifeAt \in 1 .. Len(lifeTable)
        BY <1>4 DEF ModuleExit
      <3> QED
        BY <3>1, PermFacts
    <2>3. LifeKeeps[m] \subseteq Held(LifeOn')
      BY <2>2, LifeAssumption DEF Held, Range
    <2>4. Held(LifeOn) = Held(LifeOn') \cup Range(LifeOpens[m])
      BY <2>1, HeldWith, Zenon
    <2>5. lifeOpen' \subseteq Held(LifeOn')
      BY <1>4, <2>3, <2>4 DEF ModuleExit
    <2> QED
      BY <1>4, <2>5 DEF ModuleExit, Stable, SortedAbove
  <1>5. CASE InteriorExit
    BY <1>5 DEF InteriorExit, LifeOn
  <1>6. CASE DetachedEnds \/ AutoDestruct
    <2> USE DEF LifeOn, Stable, SortedAbove
    <2>1. CASE DetachedEnds
      BY <2>1, LifeAssumption DEF DetachedEnds
    <2>2. CASE AutoDestruct
      BY <2>2 DEF AutoDestruct
    <2> QED
      BY <1>6, <2>1, <2>2
  <1>7. CASE UNCHANGED lifeVars
    BY <1>7 DEF lifeVars, LifeOn, Stable, SortedAbove
  <1> QED
    BY <1>1, <1>2, <1>3, <1>4, <1>5, <1>6, <1>7 DEF LifeNext

(* Theorem: the modules are initialised and left in the order of their     *)
(* levels, and a system that is down holds nothing but what its modules    *)
(* keep (module_group_init with its roll-back, module_group_exit,          *)
(* eh_module_section_init).                                                *)
THEOREM LivesAreTidy == LifeSpec => []LifeInv
  <1>1. LifeIInv /\ [LifeNext]_lifeVars => LifeIInv'
    BY LifeGoesOn
  <1>2. LifeIInv => LifeInv
    BY LifeIsTidy
  <1> QED
    BY <1>1, <1>2, LifeBegins, PTL DEF LifeSpec

-----------------------------------------------------------------------------
(* The heap.  The list of free blocks is in line when something lies       *)
(* between any two of them, which is what joining is for; every operation  *)
(* of the heap replaces a few neighbours of the list by others.  The       *)
(* invariant adds what MemInv leaves out: the list and the blocks in use   *)
(* lie in the heaps, so that they end below the highest address, and that  *)
(* is why the rest of a block that is too small never looks like a large   *)
(* one when it is compared as a number without sign.                       *)

MemBlock == [at : Nat, size : Nat]
End(b) == b.at + MemHead + b.size
Whole(x) == x % MemAlign = 0

\* What the assumption says of the numbers.
LEMMA MemNumbers ==
  /\ MemAlign \in Nat \ {0} /\ MemHead \in Nat \ {0} /\ MemWidth \in Nat \ {0}
  /\ Whole(MemHead) /\ Whole(MemWidth)
  BY MemAssumption DEF Whole

\* A number is aligned when it is a multiple of the unit.
LEMMA WholeIs ==
  ASSUME NEW x \in Int
  PROVE  Whole(x) <=> \E k \in Int : x = k * MemAlign
  <1>1. ASSUME Whole(x)
        PROVE  \E k \in Int : x = k * MemAlign
    <2>1. PICK k \in Int : x = (x % MemAlign) + k * MemAlign
      BY MemNumbers, Modulus
    <2> QED
      BY <1>1, <2>1, MemNumbers DEF Whole
  <1>2. ASSUME NEW k \in Int, x = k * MemAlign
        PROVE  Whole(x)
    <2>1. x = 0 + k * MemAlign /\ 0 \in 0 .. MemAlign - 1
      BY <1>2, MemNumbers
    <2> QED
      BY <2>1, MemNumbers, ModulusIs DEF Whole
  <1> QED
    BY <1>1, <1>2

LEMMA WholeSums ==
  ASSUME NEW x \in Int, NEW y \in Int, Whole(x), Whole(y)
  PROVE  Whole(x + y) /\ Whole(x - y)
  <1>1. PICK k \in Int : x = k * MemAlign
    BY WholeIs
  <1>2. PICK l \in Int : y = l * MemAlign
    BY WholeIs
  <1>3. k + l \in Int /\ x + y = (k + l) * MemAlign /\ k - l \in Int /\ x - y = (k - l) * MemAlign
    BY <1>1, <1>2, MemNumbers
  <1>4. x + y \in Int /\ x - y \in Int
    OBVIOUS
  <1> QED
    BY <1>3, <1>4, WholeIs

\* Rounding up and down.
LEMMA Rounding ==
  ASSUME NEW x \in Nat
  PROVE  /\ MemUp(x) \in Nat /\ Whole(MemUp(x)) /\ x <= MemUp(x) /\ MemUp(x) < x + MemAlign
         /\ MemDown(x) \in Nat /\ Whole(MemDown(x)) /\ MemDown(x) <= x
  <1> DEFINE y == x + MemAlign - 1
  <1>0. y \in Nat
    BY MemNumbers
  <1>1. ASSUME NEW z \in Nat
        PROVE  /\ MemDown(z) \in Nat /\ Whole(MemDown(z))
               /\ MemDown(z) <= z /\ z < MemDown(z) + MemAlign
    <2> DEFINE q == z \div MemAlign
               r == z % MemAlign
    <2>1. q \in Int /\ z = MemAlign * q + r /\ r \in 0 .. MemAlign - 1 /\ q \in Nat
      BY MemNumbers
    <2> HIDE DEF q, r
    <2>2. MemDown(z) = q * MemAlign
      BY DEF MemDown, q
    <2>3. q * MemAlign \in Nat /\ q * MemAlign = MemAlign * q
      BY <2>1, MemNumbers
    <2>4. Whole(q * MemAlign)
      BY <2>1, <2>3, WholeIs
    <2> QED
      BY <2>1, <2>2, <2>3, <2>4, MemNumbers
  <1>2. MemUp(x) = MemDown(y)
    BY DEF MemUp, MemDown
  <1> HIDE DEF y
  <1>3. /\ MemDown(y) \in Nat /\ Whole(MemDown(y)) /\ MemDown(y) <= y /\ y < MemDown(y) + MemAlign
    BY <1>0, <1>1
  <1>4. x <= MemDown(y) /\ MemDown(y) < x + MemAlign
    BY <1>3, MemNumbers DEF y
  <1> QED
    BY <1>1, <1>2, <1>3, <1>4

\* The parts of a block.
LEMMA BlockFields ==
  ASSUME NEW b \in MemBlock
  PROVE  b.at \in Nat /\ b.size \in Nat /\ End(b) \in Nat /\ End(b) > b.at /\ End(b) = b.at + MemHead + b.size
  <1>1. b.at \in Nat /\ b.size \in Nat
    BY DEF MemBlock
  <1> QED
    BY <1>1, MemNumbers DEF End

\* The blocks of a list.
LEMMA ListFields ==
  ASSUME NEW list \in Seq(MemBlock)
  PROVE  /\ Len(list) \in Nat /\ DOMAIN list = 1 .. Len(list)
         /\ \A k \in 1 .. Len(list) :
              /\ list[k] \in MemBlock /\ list[k].at \in Nat /\ list[k].size \in Nat
              /\ End(list[k]) \in Nat /\ End(list[k]) = list[k].at + MemHead + list[k].size
  <1>1. Len(list) \in Nat /\ DOMAIN list = 1 .. Len(list) /\ \A k \in 1 .. Len(list) : list[k] \in MemBlock
    OBVIOUS
  <1> QED
    BY <1>1, BlockFields

\* Blocks that share no byte lie one behind the other.
LEMMA BytesApart ==
  ASSUME NEW b \in MemBlock, NEW c \in MemBlock
  PROVE  BlockBytes(b) \cap BlockBytes(c) = {} <=> End(b) <= c.at \/ End(c) <= b.at
  <1>1. /\ b.at \in Nat /\ b.size \in Nat /\ c.at \in Nat /\ c.size \in Nat
        /\ MemHead \in Nat /\ MemHead > 0
    BY MemNumbers DEF MemBlock
  <1>2. /\ \A x : x \in BlockBytes(b) <=> x \in Int /\ b.at <= x /\ x < End(b)
        /\ \A x : x \in BlockBytes(c) <=> x \in Int /\ c.at <= x /\ x < End(c)
        /\ End(b) > b.at /\ End(c) > c.at /\ End(b) \in Nat /\ End(c) \in Nat
    BY <1>1 DEF BlockBytes, End
  <1>3. ASSUME ~(End(b) <= c.at), ~(End(c) <= b.at)
        PROVE  BlockBytes(b) \cap BlockBytes(c) # {}
    <2>1. CASE b.at <= c.at
      <3>1. c.at \in BlockBytes(b) /\ c.at \in BlockBytes(c)
        BY <1>1, <1>2, <1>3, <2>1
      <3> QED
        BY <3>1
    <2>2. CASE c.at <= b.at
      <3>1. b.at \in BlockBytes(b) /\ b.at \in BlockBytes(c)
        BY <1>1, <1>2, <1>3, <2>2
      <3> QED
        BY <3>1
    <2> QED
      BY <1>1, <2>1, <2>2
  <1>4. ASSUME End(b) <= c.at \/ End(c) <= b.at, NEW x \in BlockBytes(b), x \in BlockBytes(c)
        PROVE  FALSE
    BY <1>1, <1>2, <1>4
  <1> QED
    BY <1>3, <1>4

\* What the first blocks of a list hold.
PartOf(list, f) == [k \in 0 .. Len(list) |-> IF k = 0 THEN 0 ELSE f[k - 1] + list[k].size]
MemPart(list) == CHOOSE f : f = PartOf(list, f)

\* The sum of the sizes is made from the front.
LEMMA PartIs ==
  ASSUME NEW list \in Seq(MemBlock)
  PROVE  /\ MemTotal(list) = MemPart(list)[Len(list)]
         /\ MemPart(list)[0] = 0
         /\ \A k \in 1 .. Len(list) : MemPart(list)[k] = MemPart(list)[k - 1] + list[k].size
         /\ \A k \in 0 .. Len(list) : MemPart(list)[k] \in Nat
  <1> DEFINE n == Len(list)
             F == [p \in Nat \X (1 .. n) |-> p[1] + list[p[2]].size]
  <1>0. n \in Nat /\ \A k \in 1 .. n : list[k].size \in Nat
    BY ListFields
  <1>a. /\ \A k \in 0 .. n : k # 0 => k \in 1 .. n /\ k - 1 \in 0 .. n
        /\ \A k \in 1 .. n : k \in 0 .. n /\ k # 0 /\ k - 1 \in 0 .. n
        /\ 0 \in 0 .. n
    BY <1>0
  <1>1. \A x \in Nat, k \in 1 .. n : F[x, k] = x + list[k].size
    OBVIOUS
  <1> HIDE DEF F
  <1>2. StepsIn(Nat, n, F)
    <2>1. \A x \in Nat, k \in 1 .. n : x + list[k].size \in Nat
      BY <1>0
    <2> QED
      BY <1>1, <2>1, Zenon DEF StepsIn
  <1>3. StepsLead(Nat, 0, n, F)
    BY <1>0, <1>2, StepsTaken
  <1>4. PICK g : g \in [0 .. n -> Nat] /\ g = StepsOf(0, F, n, g)
    BY <1>3, Zenon DEF StepsLead
  <1>5. \A k \in 0 .. n : g[k] = IF k = 0 THEN 0 ELSE F[g[k - 1], k]
    BY <1>4, Zenon DEF StepsOf
  <1>6. g = PartOf(list, g)
    <2>1. \A k \in 0 .. n : PartOf(list, g)[k] = g[k]
      <3>1. \A k \in 0 .. n : PartOf(list, g)[k] = IF k = 0 THEN 0 ELSE g[k - 1] + list[k].size
        BY DEF PartOf
      <3> QED
        BY <1>1, <1>4, <1>5, <1>a, <3>1
    <2>2. PartOf(list, g) = [k \in 0 .. n |-> PartOf(list, g)[k]]
      BY DEF PartOf
    <2>3. g = [k \in 0 .. n |-> g[k]]
      BY <1>4
    <2> QED
      BY <2>1, <2>2, <2>3
  <1>7. PICK f : f = MemPart(list)
    OBVIOUS
  <1>8. f = PartOf(list, f)
    BY <1>6, <1>7, Zenon DEF MemPart
  <1>9. \A k \in 0 .. n : f[k] = IF k = 0 THEN 0 ELSE f[k - 1] + list[k].size
    BY <1>8, Zenon DEF PartOf
  <1>10. f[0] = 0 /\ \A k \in 1 .. n : f[k] = f[k - 1] + list[k].size
    BY <1>9, <1>a
  <1>11. MemTotal(list) = f[n]
    BY <1>7, Zenon DEF MemTotal, MemPart, PartOf
  <1>12. \A k \in 0 .. n : f[k] \in Nat
    <2> DEFINE A == {k \in Nat : k <= n => f[k] \in Nat}
    <2>1. 0 \in A
      BY <1>10
    <2>2. ASSUME NEW k \in Nat, k \in A
          PROVE  k + 1 \in A
      <3> SUFFICES ASSUME k + 1 <= n PROVE f[k + 1] \in Nat
        OBVIOUS
      <3>1. k + 1 \in 1 .. n /\ (k + 1) - 1 = k /\ k <= n
        BY <1>0
      <3>2. f[k + 1] = f[k] + list[k + 1].size
        BY <1>10, <3>1
      <3> QED
        BY <1>0, <2>2, <3>1, <3>2
    <2>3. Nat \subseteq A
      <3> HIDE DEF A
      <3> QED
        BY <2>1, <2>2, SetInduction
    <2> QED
      BY <1>0, <2>3
  <1> QED
    BY <1>7, <1>10, <1>11, <1>12

\* Equal stretches of two lists hold as much.
Alike(p, d, q, e, n) ==
  d + n <= Len(p) /\ e + n <= Len(q) /\ \A j \in 1 .. n : p[d + j] = q[e + j]
HoldAlike(p, d, q, e, n) ==
  MemPart(p)[d + n] + MemPart(q)[e] = MemPart(q)[e + n] + MemPart(p)[d]

LEMMA PartsAgree ==
  ASSUME NEW p \in Seq(MemBlock), NEW q \in Seq(MemBlock), NEW d \in Nat, NEW e \in Nat,
         NEW n \in Nat, Alike(p, d, q, e, n)
  PROVE  HoldAlike(p, d, q, e, n)
  <1> DEFINE f == MemPart(p)
             g == MemPart(q)
             A == {k \in Nat : k <= n => f[d + k] + g[e] = g[e + k] + f[d]}
  <1>1. /\ \A k \in 1 .. Len(p) : f[k] = f[k - 1] + p[k].size
        /\ \A k \in 0 .. Len(p) : f[k] \in Nat
        /\ \A k \in 1 .. Len(q) : g[k] = g[k - 1] + q[k].size
        /\ \A k \in 0 .. Len(q) : g[k] \in Nat
        /\ Len(p) \in Nat /\ Len(q) \in Nat
    BY PartIs
  <1>2. /\ \A k \in 1 .. Len(p) : p[k].size \in Nat
        /\ d + n <= Len(p) /\ e + n <= Len(q) /\ \A j \in 1 .. n : p[d + j] = q[e + j]
    BY ListFields DEF Alike
  <1> HIDE DEF f, g
  <1>3. 0 \in A
    <2>1. d + 0 = d /\ e + 0 = e /\ d \in 0 .. Len(p) /\ e \in 0 .. Len(q)
      BY <1>1, <1>2
    <2> QED
      BY <1>1, <2>1
  <1>4. ASSUME NEW k \in Nat, k \in A
        PROVE  k + 1 \in A
    <2> SUFFICES ASSUME k + 1 <= n PROVE f[d + (k + 1)] + g[e] = g[e + (k + 1)] + f[d]
      OBVIOUS
    <2> DEFINE x == d + (k + 1)
               y == e + (k + 1)
    <2>1. /\ x \in 1 .. Len(p) /\ y \in 1 .. Len(q) /\ x - 1 = d + k /\ y - 1 = e + k
          /\ k <= n /\ k + 1 \in 1 .. n
          /\ d \in 0 .. Len(p) /\ e \in 0 .. Len(q)
          /\ d + k \in 0 .. Len(p) /\ e + k \in 0 .. Len(q)
      BY <1>1, <1>2
    <2>6. p[x] = q[y]
      BY <1>2, <2>1
    <2>2. f[d + k] + g[e] = g[e + k] + f[d]
      BY <1>4, <2>1
    <2> HIDE DEF x, y
    <2>3. f[x] = f[d + k] + p[x].size /\ g[y] = g[e + k] + p[x].size
      BY <1>1, <2>1, <2>6
    <2>4. p[x].size \in Nat /\ f[d + k] \in Nat /\ g[e + k] \in Nat /\ g[e] \in Nat /\ f[d] \in Nat
      BY <1>1, <1>2, <2>1
    <2>5. f[x] + g[e] = g[y] + f[d]
      <3> DEFINE s == p[x].size
                 a == f[d + k]
                 b == g[e + k]
                 u == f[x]
                 v == g[y]
                 c == f[d]
                 w == g[e]
      <3>1. /\ u = a + s /\ v = b + s /\ a + w = b + c
            /\ s \in Nat /\ a \in Nat /\ b \in Nat /\ w \in Nat /\ c \in Nat
        BY <2>2, <2>3, <2>4
      <3> HIDE DEF s, a, b, u, v, c, w
      <3>2. u + w = v + c
        BY <3>1
      <3> QED
        BY <3>2 DEF u, v, c, w
    <2> QED
      BY <2>5 DEF x, y
  <1>5. Nat \subseteq A
    <2> HIDE DEF A
    <2> QED
      BY <1>3, <1>4, SetInduction
  <1> QED
    BY <1>5 DEF f, g, HoldAlike

\* Two lists in a row.
LEMMA JoinIs ==
  ASSUME NEW s \in Seq(MemBlock), NEW t \in Seq(MemBlock)
  PROVE  Len(s \o t) = Len(s) + Len(t)
  OBVIOUS

\* A list in which some neighbours have been replaced by others.
Splice(list, lo, mid, hi) ==
  SubSeq(list, 1, lo) \o mid \o SubSeq(list, hi + 1, Len(list))

Spliced(list, lo, mid, hi, new, m) ==
  /\ new \in Seq(MemBlock) /\ Len(new) = m + (Len(list) - hi)
  /\ \A k \in 1 .. lo : new[k] = list[k]
  /\ \A k \in 1 .. Len(mid) : new[lo + k] = mid[k]
  /\ \A k \in 1 .. Len(list) - hi : new[m + k] = list[hi + k]

\* What is where in it.
LEMMA SpliceIs ==
  ASSUME NEW list \in Seq(MemBlock), NEW mid \in Seq(MemBlock), NEW lo \in Nat, NEW hi \in Nat,
         lo <= hi, hi <= Len(list)
  PROVE  Spliced(list, lo, mid, hi, Splice(list, lo, mid, hi), lo + Len(mid))
  <1> DEFINE n == Len(list)
             x == SubSeq(list, 1, lo)
             z == SubSeq(list, hi + 1, n)
             y == x \o mid
             new == y \o z
             m == lo + Len(mid)
  <1>1. n \in Nat /\ Len(mid) \in Nat /\ n - hi \in Nat /\ lo <= n
    OBVIOUS
  <1>2. /\ x \in Seq(MemBlock) /\ Len(x) = lo
        /\ \A k \in 1 .. lo : x[k] = list[k]
    BY <1>1
  <1>3. /\ z \in Seq(MemBlock) /\ Len(z) = n - hi
        /\ \A k \in 1 .. n - hi : z[k] = list[hi + k]
    <2>1. z \in Seq(MemBlock) /\ Len(z) = n - hi
      BY <1>1
    <2>2. \A k \in 1 .. n - hi : z[k] = list[(hi + 1) + k - 1] /\ (hi + 1) + k - 1 = hi + k
      BY <1>1
    <2> QED
      BY <2>1, <2>2
  <1> HIDE DEF x, z, n
  <1>4. /\ y \in Seq(MemBlock) /\ Len(y) = m /\ m \in Nat
        /\ \A k \in 1 .. lo : y[k] = list[k]
        /\ \A k \in 1 .. Len(mid) : y[lo + k] = mid[k]
    BY <1>1, <1>2
  <1>5. \A k \in 1 .. lo : k \in 1 .. m
    BY <1>1
  <1>6. \A k \in 1 .. Len(mid) : lo + k \in 1 .. m
    BY <1>1
  <1> HIDE DEF y, m
  <1>7. /\ new \in Seq(MemBlock) /\ Len(new) = m + (n - hi)
        /\ \A k \in 1 .. m : new[k] = y[k]
        /\ \A k \in 1 .. n - hi : new[m + k] = z[k]
    <2>1. new \in Seq(MemBlock) /\ Len(new) = m + (n - hi)
      <3>1. new \in Seq(MemBlock)
        BY <1>3, <1>4
      <3>2. Len(new) = Len(y) + Len(z)
        BY <1>3, <1>4, JoinIs, Zenon
      <3> HIDE DEF new
      <3> QED
        BY <1>3, <1>4, <3>1, <3>2
    <2>2. \A k \in 1 .. m : new[k] = y[k]
      BY <1>1, <1>3, <1>4
    <2>3. \A k \in 1 .. n - hi : new[m + k] = z[k]
      BY <1>1, <1>3, <1>4, SMTT(30)
    <2> QED
      BY <2>1, <2>2, <2>3
  <1>8. new = Splice(list, lo, mid, hi)
    BY DEF new, y, x, z, n, Splice
  <1> HIDE DEF new
  <1>9. /\ \A k \in 1 .. lo : new[k] = list[k]
        /\ \A k \in 1 .. Len(mid) : new[lo + k] = mid[k]
        /\ \A k \in 1 .. n - hi : new[m + k] = list[hi + k]
    BY <1>3, <1>4, <1>5, <1>6, <1>7
  <1> QED
    BY <1>7, <1>8, <1>9 DEF m, n, Spliced

LEMMA SpliceSeq ==
  ASSUME NEW list \in Seq(MemBlock), NEW mid \in Seq(MemBlock), NEW lo \in Nat, NEW hi \in Nat,
         lo <= hi, hi <= Len(list)
  PROVE  Splice(list, lo, mid, hi) \in Seq(MemBlock)
  <1>1. Spliced(list, lo, mid, hi, Splice(list, lo, mid, hi), lo + Len(mid))
    BY SpliceIs
  <1> QED
    BY <1>1 DEF Spliced

\* What it holds.
LEMMA SpliceTotal ==
  ASSUME NEW list \in Seq(MemBlock), NEW mid \in Seq(MemBlock), NEW lo \in Nat, NEW hi \in Nat,
         lo <= hi, hi <= Len(list)
  PROVE  MemTotal(Splice(list, lo, mid, hi)) + MemPart(list)[hi] =
           MemTotal(list) + MemPart(list)[lo] + MemTotal(mid)
  <1> DEFINE new == Splice(list, lo, mid, hi)
             n == Len(list)
             m == lo + Len(mid)
  <1>1. /\ new \in Seq(MemBlock) /\ Len(new) = m + (n - hi)
        /\ \A k \in 1 .. lo : new[k] = list[k]
        /\ \A k \in 1 .. Len(mid) : new[lo + k] = mid[k]
        /\ \A k \in 1 .. n - hi : new[m + k] = list[hi + k]
    <2>1. Spliced(list, lo, mid, hi, new, m)
      BY SpliceIs
    <2> QED
      BY <2>1 DEF Spliced
  <1>2. n \in Nat /\ n - hi \in Nat /\ Len(mid) \in Nat /\ m \in Nat /\ n = Len(list)
    OBVIOUS
  <1> HIDE DEF new, n
  <1> DEFINE f == MemPart(list)
             g == MemPart(new)
             h == MemPart(mid)
  <1>3. /\ f[0] = 0 /\ g[0] = 0 /\ h[0] = 0
        /\ MemTotal(list) = f[n] /\ MemTotal(new) = g[m + (n - hi)] /\ MemTotal(mid) = h[Len(mid)]
        /\ f[n] \in Nat /\ f[hi] \in Nat /\ f[lo] \in Nat /\ h[Len(mid)] \in Nat
        /\ g[m] \in Nat /\ g[lo] \in Nat /\ g[m + (n - hi)] \in Nat
    <2>1. /\ n \in 0 .. n /\ hi \in 0 .. n /\ lo \in 0 .. n /\ Len(mid) \in 0 .. Len(mid)
          /\ m \in 0 .. Len(new) /\ lo \in 0 .. Len(new) /\ m + (n - hi) \in 0 .. Len(new)
      BY <1>1, <1>2
    <2> QED
      BY <1>1, <1>2, <2>1, PartIs
  <1>4. f[lo] = g[lo]
    <2>1. \A j \in 1 .. lo : list[0 + j] = new[0 + j]
      BY <1>1
    <2>2. 0 + lo <= Len(list) /\ 0 + lo <= Len(new) /\ 0 \in Nat
      BY <1>1, <1>2
    <2>3. Alike(list, 0, new, 0, lo)
      BY <2>1, <2>2 DEF Alike
    <2>4. HoldAlike(list, 0, new, 0, lo)
      BY <1>1, <2>2, <2>3, PartsAgree
    <2>6. 0 + lo = lo
      OBVIOUS
    <2>5. f[lo] + g[0] = g[lo] + f[0]
      BY <2>4, <2>6 DEF HoldAlike
    <2> QED
      BY <1>3, <2>5
  <1>5. h[Len(mid)] + g[lo] = g[m]
    <2>1. \A j \in 1 .. Len(mid) : mid[0 + j] = new[lo + j]
      BY <1>1, <1>2
    <2>2. 0 + Len(mid) <= Len(mid) /\ lo + Len(mid) <= Len(new) /\ 0 \in Nat
      BY <1>1, <1>2
    <2>3. Alike(mid, 0, new, lo, Len(mid))
      BY <2>1, <2>2 DEF Alike
    <2>4. HoldAlike(mid, 0, new, lo, Len(mid)) /\ 0 + Len(mid) = Len(mid)
      BY <1>1, <1>2, <2>2, <2>3, PartsAgree
    <2>5. h[Len(mid)] + g[lo] = g[m] + h[0]
      BY <2>4 DEF HoldAlike
    <2> QED
      BY <1>3, <2>5
  <1>6. f[n] + g[m] = g[m + (n - hi)] + f[hi]
    <2>1. \A j \in 1 .. n - hi : list[hi + j] = new[m + j]
      BY <1>1
    <2>2. hi + (n - hi) <= Len(list) /\ m + (n - hi) <= Len(new)
      BY <1>1, <1>2
    <2> HIDE DEF m
    <2>3. Alike(list, hi, new, m, n - hi)
      BY <2>1, <2>2 DEF Alike
    <2>4. HoldAlike(list, hi, new, m, n - hi) /\ hi + (n - hi) = n
      BY <1>1, <1>2, <2>3, PartsAgree
    <2> QED
      BY <2>4 DEF HoldAlike
  <1> DEFINE a == f[n]
             b == f[hi]
             c == f[lo]
             d == g[m]
             e == g[m + (n - hi)]
             o == h[Len(mid)]
  <1>7. /\ a \in Nat /\ b \in Nat /\ c \in Nat /\ d \in Nat /\ e \in Nat /\ o \in Nat
        /\ o + c = d /\ a + d = e + b
        /\ MemTotal(list) = a /\ MemTotal(new) = e /\ MemTotal(mid) = o
    BY <1>3, <1>4, <1>5, <1>6
  <1>8. MemTotal(new) + b = MemTotal(list) + c + MemTotal(mid)
    <2> HIDE DEF a, b, c, d, e, o
    <2> QED
      BY <1>7
  <1> QED
    BY <1>8 DEF new

\* A list of blocks in the order of their addresses, between any two of which there is
\* something; and the bytes of its blocks.
InLine(list) == \A i, j \in 1 .. Len(list) : i < j => End(list[i]) < list[j].at
ListBytes(list) == UNION {BlockBytes(b) : b \in Range(list)}
Fits(list, lo, mid, hi) ==
  /\ \A k \in 1 .. lo, j \in 1 .. Len(mid) : End(list[k]) < mid[j].at
  /\ \A k \in 1 .. Len(list), j \in 1 .. Len(mid) : k > hi => End(mid[j]) < list[k].at

\* A byte of a list is a byte of one of its blocks.
LEMMA InBytes ==
  ASSUME NEW list \in Seq(MemBlock)
  PROVE  \A x : x \in ListBytes(list) <=> \E k \in 1 .. Len(list) : x \in BlockBytes(list[k])
  <1>1. DOMAIN list = 1 .. Len(list)
    OBVIOUS
  <1>2. \A x : x \in ListBytes(list) <=> \E b \in Range(list) : x \in BlockBytes(b)
    BY DEF ListBytes
  <1> QED
    BY <1>1, <1>2 DEF Range

\* Each block of the new list comes from one of three places, and all get there.
ComeFrom(list, lo, mid, hi, new) ==
  \A i \in 1 .. Len(new) :
    \/ i <= lo /\ new[i] = list[i] /\ i \in 1 .. Len(list)
    \/ \E j \in 1 .. Len(mid) : i = lo + j /\ new[i] = mid[j]
    \/ \E k \in 1 .. Len(list) : k > hi /\ i = (lo + Len(mid)) + (k - hi) /\ new[i] = list[k]
GetThere(list, lo, mid, hi, new) ==
  /\ \A k \in 1 .. lo : k \in 1 .. Len(new) /\ new[k] = list[k]
  /\ \A j \in 1 .. Len(mid) : \E i \in 1 .. Len(new) : new[i] = mid[j]
  /\ \A k \in 1 .. Len(list) : k > hi => \E i \in 1 .. Len(new) : new[i] = list[k]

LEMMA SplicePlaces ==
  ASSUME NEW list \in Seq(MemBlock), NEW mid \in Seq(MemBlock), NEW lo \in Nat, NEW hi \in Nat,
         lo <= hi, hi <= Len(list)
  PROVE  /\ ComeFrom(list, lo, mid, hi, Splice(list, lo, mid, hi))
         /\ GetThere(list, lo, mid, hi, Splice(list, lo, mid, hi))
  <1> DEFINE new == Splice(list, lo, mid, hi)
             n == Len(list)
             l == Len(mid)
             m == lo + l
  <1>1. /\ new \in Seq(MemBlock) /\ Len(new) = m + (n - hi)
        /\ \A k \in 1 .. lo : new[k] = list[k]
        /\ \A k \in 1 .. l : new[lo + k] = mid[k]
        /\ \A k \in 1 .. n - hi : new[m + k] = list[hi + k]
    <2>1. Spliced(list, lo, mid, hi, new, m)
      BY SpliceIs
    <2> QED
      BY <2>1 DEF Spliced
  <1>2. n \in Nat /\ l \in Nat /\ n - hi \in Nat /\ lo <= n /\ hi <= n
    OBVIOUS
  <1> HIDE DEF new, n, l
  <1>3. ASSUME NEW i \in 1 .. Len(new)
        PROVE  \/ i <= lo /\ new[i] = list[i] /\ i \in 1 .. n
               \/ \E j \in 1 .. l : i = lo + j /\ new[i] = mid[j]
               \/ \E k \in 1 .. n : k > hi /\ i = m + (k - hi) /\ new[i] = list[k]
    <2>1. CASE i <= lo
      BY <1>1, <1>2, <2>1
    <2>2. CASE i > lo /\ i <= m
      <3>1. i - lo \in 1 .. l /\ i = lo + (i - lo)
        BY <1>1, <1>2, <2>2
      <3> QED
        BY <1>1, <3>1
    <2>3. CASE i > m
      <3> DEFINE k == i - m
      <3>1. /\ k \in 1 .. n - hi /\ i = m + k /\ hi + k \in 1 .. n /\ hi + k > hi
            /\ i = m + ((hi + k) - hi)
        BY <1>1, <1>2, <2>3
      <3>2. new[i] = list[hi + k]
        BY <1>1, <3>1
      <3> HIDE DEF k, m
      <3> QED
        BY <3>1, <3>2
    <2> QED
      BY <1>1, <1>2, <2>1, <2>2, <2>3
  <1>4. \A k \in 1 .. lo : k \in 1 .. Len(new) /\ new[k] = list[k]
    BY <1>1, <1>2
  <1>5. ASSUME NEW j \in 1 .. l
        PROVE  \E i \in 1 .. Len(new) : new[i] = mid[j]
    <2>1. lo + j \in 1 .. Len(new)
      BY <1>1, <1>2
    <2> QED
      BY <1>1, <2>1
  <1>6. ASSUME NEW k \in 1 .. n, k > hi
        PROVE  \E i \in 1 .. Len(new) : new[i] = list[k]
    <2>1. m + (k - hi) \in 1 .. Len(new) /\ k - hi \in 1 .. n - hi /\ hi + (k - hi) = k
      BY <1>1, <1>2, <1>6
    <2> QED
      BY <1>1, <2>1
  <1>7. ComeFrom(list, lo, mid, hi, new)
    BY <1>3 DEF ComeFrom, n, l
  <1>8. GetThere(list, lo, mid, hi, new)
    BY <1>4, <1>5, <1>6 DEF GetThere, n, l
  <1> QED
    BY <1>7, <1>8 DEF new

\* The new list is in line when the new blocks fit between their neighbours.
LEMMA SpliceInLine ==
  ASSUME NEW list \in Seq(MemBlock), NEW mid \in Seq(MemBlock), NEW lo \in Nat, NEW hi \in Nat,
         lo <= hi, hi <= Len(list), InLine(list), InLine(mid), Fits(list, lo, mid, hi)
  PROVE  InLine(Splice(list, lo, mid, hi))
  <1> DEFINE new == Splice(list, lo, mid, hi)
             n == Len(list)
             l == Len(mid)
             m == lo + l
  <1>1. /\ \A i \in 1 .. Len(new) :
             \/ i <= lo /\ new[i] = list[i] /\ i \in 1 .. n
             \/ \E j \in 1 .. l : i = lo + j /\ new[i] = mid[j]
             \/ \E k \in 1 .. n : k > hi /\ i = m + (k - hi) /\ new[i] = list[k]
    <2>1. ComeFrom(list, lo, mid, hi, new)
      BY SplicePlaces
    <2> HIDE DEF new
    <2> QED
      BY <2>1, Zenon DEF ComeFrom
  <1>2. n \in Nat /\ l \in Nat
    OBVIOUS
  <1>3. /\ \A i, j \in 1 .. n : i < j => End(list[i]) < list[j].at
        /\ \A i, j \in 1 .. l : i < j => End(mid[i]) < mid[j].at
        /\ \A k \in 1 .. lo, j \in 1 .. l : End(list[k]) < mid[j].at
        /\ \A k \in 1 .. n, j \in 1 .. l : k > hi => End(mid[j]) < list[k].at
    BY DEF InLine, Fits
  <1> HIDE DEF new, n, l
  <1>4. ASSUME NEW i \in 1 .. Len(new), NEW j \in 1 .. Len(new), i < j
        PROVE  End(new[i]) < new[j].at
    <2>1. CASE i <= lo /\ new[i] = list[i] /\ i \in 1 .. n
      <3>1. i \in 1 .. lo
        BY <2>1
      <3>2. CASE j <= lo /\ new[j] = list[j] /\ j \in 1 .. n
        BY <1>3, <1>4, <2>1, <3>2
      <3>3. CASE \E k \in 1 .. l : j = lo + k /\ new[j] = mid[k]
        BY <1>3, <2>1, <3>1, <3>3
      <3>4. CASE \E k \in 1 .. n : k > hi /\ j = m + (k - hi) /\ new[j] = list[k]
        <4>1. PICK k \in 1 .. n : k > hi /\ new[j] = list[k]
          BY <3>4
        <4>2. i < k
          BY <1>2, <3>1, <4>1
        <4> QED
          BY <1>3, <2>1, <4>1, <4>2
      <3> QED
        BY <1>1, <3>2, <3>3, <3>4
    <2>2. CASE \E k \in 1 .. l : i = lo + k /\ new[i] = mid[k]
      <3>1. PICK k \in 1 .. l : i = lo + k /\ new[i] = mid[k]
        BY <2>2
      <3>2. ~(j <= lo)
        BY <1>2, <1>4, <3>1
      <3>3. CASE \E o \in 1 .. l : j = lo + o /\ new[j] = mid[o]
        <4>1. PICK o \in 1 .. l : j = lo + o /\ new[j] = mid[o]
          BY <3>3
        <4>2. k < o
          BY <1>2, <1>4, <3>1, <4>1
        <4> QED
          BY <1>3, <3>1, <4>1, <4>2
      <3>4. CASE \E o \in 1 .. n : o > hi /\ j = m + (o - hi) /\ new[j] = list[o]
        BY <1>3, <3>1, <3>4
      <3> QED
        BY <1>1, <3>2, <3>3, <3>4
    <2>3. CASE \E k \in 1 .. n : k > hi /\ i = m + (k - hi) /\ new[i] = list[k]
      <3>1. PICK k \in 1 .. n : k > hi /\ i = m + (k - hi) /\ new[i] = list[k]
        BY <2>3
      <3>2. i > m
        BY <1>2, <3>1
      <3>3. ~(j <= lo) /\ ~(\E o \in 1 .. l : j = lo + o)
        BY <1>2, <1>4, <3>2
      <3>4. PICK o \in 1 .. n : o > hi /\ j = m + (o - hi) /\ new[j] = list[o]
        BY <1>1, <3>3
      <3>5. k < o
        BY <1>2, <1>4, <3>1, <3>4
      <3> QED
        BY <1>3, <3>1, <3>4, <3>5
    <2> QED
      BY <1>1, <2>1, <2>2, <2>3
  <1> QED
    BY <1>4 DEF InLine, new

\* Its bytes are those of the blocks that stayed and of the new ones.
LEMMA SpliceBytes ==
  ASSUME NEW list \in Seq(MemBlock), NEW mid \in Seq(MemBlock), NEW lo \in Nat, NEW hi \in Nat,
         lo <= hi, hi <= Len(list)
  PROVE  \A x : x \in ListBytes(Splice(list, lo, mid, hi)) <=>
               \/ \E k \in 1 .. Len(list) : (k <= lo \/ k > hi) /\ x \in BlockBytes(list[k])
               \/ x \in ListBytes(mid)
  <1> DEFINE new == Splice(list, lo, mid, hi)
  <1>1. new \in Seq(MemBlock)
    BY SpliceSeq
  <1>2. /\ \A x : x \in ListBytes(new) <=> \E k \in 1 .. Len(new) : x \in BlockBytes(new[k])
        /\ \A x : x \in ListBytes(mid) <=> \E k \in 1 .. Len(mid) : x \in BlockBytes(mid[k])
    BY <1>1, InBytes
  <1>3. ComeFrom(list, lo, mid, hi, new) /\ GetThere(list, lo, mid, hi, new)
    BY SplicePlaces
  <1>4. \A k \in 1 .. Len(list) : k <= lo => k \in 1 .. lo
    OBVIOUS
  <1> HIDE DEF new
  <1>5. ASSUME NEW x
        PROVE  x \in ListBytes(new) <=>
                 \/ \E k \in 1 .. Len(list) : (k <= lo \/ k > hi) /\ x \in BlockBytes(list[k])
                 \/ x \in ListBytes(mid)
    <2>1. ASSUME x \in ListBytes(new)
          PROVE  \/ \E k \in 1 .. Len(list) : (k <= lo \/ k > hi) /\ x \in BlockBytes(list[k])
                 \/ x \in ListBytes(mid)
      <3>1. PICK i \in 1 .. Len(new) : x \in BlockBytes(new[i])
        BY <1>2, <2>1
      <3> QED
        BY <1>2, <1>3, <3>1 DEF ComeFrom
    <2>2. ASSUME NEW k \in 1 .. Len(list), k <= lo \/ k > hi, x \in BlockBytes(list[k])
          PROVE  x \in ListBytes(new)
      BY <1>2, <1>3, <1>4, <2>2 DEF GetThere
    <2>3. ASSUME x \in ListBytes(mid)
          PROVE  x \in ListBytes(new)
      BY <1>2, <1>3, <2>3 DEF GetThere
    <2> QED
      BY <2>1, <2>2, <2>3
  <1> QED
    BY <1>5 DEF new

\* The list of one block.
LEMMA OneBlock ==
  ASSUME NEW b \in MemBlock
  PROVE  /\ <<b>> \in Seq(MemBlock) /\ Len(<<b>>) = 1 /\ <<b>>[1] = b
         /\ InLine(<<b>>) /\ ListBytes(<<b>>) = BlockBytes(b) /\ MemTotal(<<b>>) = b.size
  <1> DEFINE q == <<b>>
  <1>1. q \in Seq(MemBlock) /\ Len(q) = 1 /\ q[1] = b
    OBVIOUS
  <1> HIDE DEF q
  <1>2. \A k \in 1 .. Len(q) : k = 1
    BY <1>1
  <1>3. InLine(q)
    BY <1>2 DEF InLine
  <1>4. \A x : x \in ListBytes(q) <=> x \in BlockBytes(b)
    BY <1>1, <1>2, InBytes, SMTT(30)
  <1>5. ListBytes(q) = BlockBytes(b)
    BY <1>4
  <1>6. MemTotal(q) = b.size
    <2>1. 1 \in 1 .. Len(q) /\ 1 - 1 = 0
      BY <1>1
    <2>2. MemTotal(q) = MemPart(q)[1] /\ MemPart(q)[1] = MemPart(q)[0] + q[1].size /\ MemPart(q)[0] = 0
      BY <1>1, <2>1, PartIs
    <2>3. b.size \in Nat
      BY BlockFields
    <2> QED
      BY <1>1, <2>2, <2>3
  <1> QED
    BY <1>1, <1>3, <1>5, <1>6 DEF q

\* The blocks below an address are the first ones.
LEMMA BelowIs ==
  ASSUME NEW list \in Seq(MemBlock), InLine(list), NEW x \in Nat
  PROVE  \E i \in 0 .. Len(list) :
           /\ Cardinality({k \in DOMAIN list : list[k].at < x}) = i
           /\ \A k \in 1 .. Len(list) : list[k].at < x <=> k <= i
  <1> DEFINE n == Len(list)
             A == {m \in Nat : m <= n => \E i \in 0 .. m : \A k \in 1 .. m : list[k].at < x <=> k <= i}
  <1>1. /\ n \in Nat /\ DOMAIN list = 1 .. n
        /\ \A k \in 1 .. n : list[k].at \in Nat /\ End(list[k]) > list[k].at /\ End(list[k]) \in Nat
        /\ \A i, j \in 1 .. n : i < j => End(list[i]) < list[j].at
    BY ListFields, BlockFields DEF InLine
  <1> HIDE DEF n
  <1>2. \A i, j \in 1 .. n : i < j => list[i].at < list[j].at
    BY <1>1
  <1>3. 0 \in A
    OBVIOUS
  <1>4. ASSUME NEW m \in Nat, m \in A
        PROVE  m + 1 \in A
    <2> SUFFICES ASSUME m + 1 <= n
                 PROVE  \E i \in 0 .. m + 1 : \A k \in 1 .. m + 1 : list[k].at < x <=> k <= i
      OBVIOUS
    <2> DEFINE l == m + 1
    <2>1. l \in 1 .. n /\ l \in 0 .. l /\ \A k \in 1 .. l : k <= l /\ k \in 1 .. n /\ (k = l \/ (k < l /\ k \in 1 .. m))
      BY <1>1
    <2>2. CASE list[l].at < x
      <3>1. \A k \in 1 .. l : list[k].at < x
        <4>1. ASSUME NEW k \in 1 .. l, k # l
              PROVE  list[k].at < x
          <5>1. k \in 1 .. n /\ k < l
            BY <2>1, <4>1
          <5>2. list[k].at < list[l].at /\ list[k].at \in Nat /\ list[l].at \in Nat
            BY <1>1, <1>2, <2>1, <5>1
          <5> HIDE DEF l
          <5> QED
            BY <2>2, <5>2
        <4> QED
          BY <2>2, <4>1
      <3> HIDE DEF l
      <3> QED
        BY <2>1, <3>1 DEF l
    <2>3. CASE ~(list[l].at < x)
      <3>1. PICK i \in 0 .. m : \A k \in 1 .. m : list[k].at < x <=> k <= i
        BY <1>4, <1>1
      <3>2. i \in 0 .. l /\ ~(l <= i)
        BY <3>1
      <3> HIDE DEF l
      <3>3. \A k \in 1 .. l : list[k].at < x <=> k <= i
        BY <2>1, <2>3, <3>1, <3>2
      <3> QED
        BY <3>2, <3>3 DEF l
    <2> QED
      BY <2>2, <2>3
  <1>5. Nat \subseteq A
    <2> HIDE DEF A
    <2> QED
      BY <1>3, <1>4, SetInduction
  <1>6. PICK i \in 0 .. n : \A k \in 1 .. n : list[k].at < x <=> k <= i
    <2>1. n \in A
      <3> HIDE DEF A
      <3> QED
        BY <1>1, <1>5
    <2> QED
      BY <1>1, <2>1
  <1>7. {k \in DOMAIN list : list[k].at < x} = 1 .. i
    BY <1>1, <1>6
  <1>8. Cardinality(1 .. i) = i
    <2>1. i \in Int /\ 1 \in Int
      OBVIOUS
    <2>2. Cardinality(1 .. i) = IF 1 > i THEN 0 ELSE i - 1 + 1
      BY <2>1, FS_Interval, Zenon
    <2> QED
      BY <2>2
  <1> QED
    BY <1>6, <1>7, <1>8 DEF n

\* Aligned blocks.
AllWhole(list) == \A k \in 1 .. Len(list) : Whole(list[k].at) /\ Whole(list[k].size)

\* It is aligned when both are.
LEMMA SpliceWhole ==
  ASSUME NEW list \in Seq(MemBlock), NEW mid \in Seq(MemBlock), NEW lo \in Nat, NEW hi \in Nat,
         lo <= hi, hi <= Len(list), AllWhole(list), AllWhole(mid)
  PROVE  AllWhole(Splice(list, lo, mid, hi))
  <1> DEFINE new == Splice(list, lo, mid, hi)
  <1>1. ComeFrom(list, lo, mid, hi, new)
    BY SplicePlaces
  <1> HIDE DEF new
  <1>2. \A i \in 1 .. Len(new) :
             \/ \E k \in 1 .. Len(list) : new[i] = list[k]
             \/ \E j \in 1 .. Len(mid) : new[i] = mid[j]
    BY <1>1, Zenon DEF ComeFrom
  <1>3. AllWhole(new)
    BY <1>2, Zenon DEF AllWhole
  <1> QED
    BY <1>3 DEF new

\* eh_mem_insert.  The block b lies apart from those of the list; what comes out is in
\* line again, for b is joined with the neighbours it meets, has the bytes of both, and
\* holds what the code adds to the counter.
LEMMA InsertIs ==
  ASSUME NEW list \in Seq(MemBlock), InLine(list), AllWhole(list),
         NEW b \in MemBlock, Whole(b.at), Whole(b.size),
         ListBytes(list) \cap BlockBytes(b) = {}
  PROVE  LET new == MemInsert(list, b)
         IN  /\ new \in Seq(MemBlock) /\ InLine(new) /\ AllWhole(new)
             /\ ListBytes(new) = ListBytes(list) \cup BlockBytes(b)
             /\ MemTotal(new) = MemTotal(list) + MemGain(list, b)
             /\ MemGain(list, b) \in Nat
  <1> DEFINE n == Len(list)
  <1>1. PICK i \in 0 .. n :
          /\ Cardinality({k \in DOMAIN list : list[k].at < b.at}) = i
          /\ \A k \in 1 .. n : list[k].at < b.at <=> k <= i
    BY BelowIs, BlockFields
  <1>2. /\ n \in Nat /\ i \in Nat /\ i <= n
        /\ b.at \in Nat /\ b.size \in Nat /\ End(b) = b.at + MemHead + b.size /\ MemHead \in Nat \ {0}
        /\ \A k \in 1 .. n : /\ list[k] \in MemBlock /\ list[k].at \in Nat /\ list[k].size \in Nat
                            /\ End(list[k]) \in Nat
                            /\ End(list[k]) = list[k].at + MemHead + list[k].size
        /\ \A k, l \in 1 .. n : k < l => End(list[k]) < list[l].at
    BY ListFields, BlockFields, MemNumbers DEF InLine
  <1>3. \A k \in 1 .. n : End(list[k]) <= b.at \/ End(b) <= list[k].at
    <2>1. ASSUME NEW k \in 1 .. n
          PROVE  BlockBytes(list[k]) \cap BlockBytes(b) = {}
      BY InBytes
    <2> QED
      BY <1>2, <2>1, BytesApart
  <1> DEFINE before == i > 0 /\ Meets(list[i], b)
             behind == i < n /\ Meets(b, list[i + 1])
             place == IF before THEN list[i].at ELSE b.at
             size == b.size + (IF before THEN list[i].size + MemHead ELSE 0)
                            + (IF behind THEN list[i + 1].size + MemHead ELSE 0)
             joined == [at |-> place, size |-> size]
             lo == IF before THEN i - 1 ELSE i
             hi == IF behind THEN i + 1 ELSE i
             mid == <<joined>>
             new == Splice(list, lo, mid, hi)
  <1>4. MemInsert(list, b) = new
    <2>1. (IF behind THEN i + 2 ELSE i + 1) = hi + 1
      BY <1>2
    <2> HIDE DEF hi
    <2> QED
      BY <1>1, <2>1 DEF MemInsert, Splice
  <1>5. /\ before => i \in 1 .. n /\ End(list[i]) = b.at
        /\ behind => i + 1 \in 1 .. n /\ End(b) = list[i + 1].at
        /\ ~before /\ i \in 1 .. n => End(list[i]) # b.at
        /\ ~behind /\ i + 1 \in 1 .. n => End(b) # list[i + 1].at
    BY <1>2, SMTT(30) DEF Meets
  <1>6. lo \in Nat /\ hi \in Nat /\ lo <= hi /\ hi <= n /\ lo <= i /\ i <= hi
    BY <1>2
  <1>7. /\ joined \in MemBlock
        /\ joined.at = IF before THEN list[i].at ELSE b.at
        /\ End(joined) = IF behind THEN End(list[i + 1]) ELSE End(b)
        /\ joined.size = b.size + (IF before THEN list[i].size + MemHead ELSE 0)
                                + (IF behind THEN list[i + 1].size + MemHead ELSE 0)
    <2> DEFINE p == list[i]
               q == list[i + 1]
               pa == p.at
               ps == p.size
               qs == q.size
               ba == b.at
               bs == b.size
               qe == End(q)
               be == End(b)
    <2>1. /\ before => pa \in Nat /\ ps \in Nat /\ pa + MemHead + ps = ba
          /\ behind => qs \in Nat /\ qe = be + MemHead + qs
          /\ be = ba + MemHead + bs /\ ba \in Nat /\ bs \in Nat /\ MemHead \in Nat
      BY <1>2, <1>5
    <2>2. /\ place = IF before THEN pa ELSE ba
          /\ size = bs + (IF before THEN ps + MemHead ELSE 0) + (IF behind THEN qs + MemHead ELSE 0)
      OBVIOUS
    <2> HIDE DEF p, q, pa, ps, qs, ba, bs, qe, be, before, behind, place, size
    <2>3. /\ place \in Nat /\ size \in Nat
          /\ place + MemHead + size = IF behind THEN qe ELSE be
      <3>1. CASE before /\ behind
        BY <2>1, <2>2, <3>1, SMTT(30)
      <3>2. CASE before /\ ~behind
        BY <2>1, <2>2, <3>2, SMTT(30)
      <3>3. CASE ~before /\ behind
        BY <2>1, <2>2, <3>3
      <3>4. CASE ~before /\ ~behind
        BY <2>1, <2>2, <3>4
      <3> QED
        BY <3>1, <3>2, <3>3, <3>4
    <2>4. joined \in MemBlock /\ joined.at = place /\ joined.size = size
      BY <2>3 DEF MemBlock
    <2>5. End(joined) = place + MemHead + size
      BY <2>4 DEF End
    <2>6. End(joined) = IF behind THEN End(list[i + 1]) ELSE End(b)
      <3> HIDE DEF joined
      <3> QED
        BY <2>3, <2>5 DEF q, qe, be
    <2> HIDE DEF joined
    <2> QED
      BY <2>4, <2>6 DEF place, size, p, q, bs, ps, qs
  <1> HIDE DEF joined
  <1>8. Fits(list, lo, mid, hi)
    <2>1. ASSUME NEW k \in 1 .. lo
          PROVE  End(list[k]) < joined.at
      <3>1. k \in 1 .. n /\ k <= i /\ i \in 1 .. n
        BY <1>2, <1>6
      <3>2. CASE before
        <4>1. k < i
          BY <1>2, <3>2
        <4> QED
          BY <1>2, <1>7, <3>1, <3>2, <4>1
      <3>3. CASE ~before
        <4>1. End(list[i]) < b.at
          <5>1. list[i].at < b.at /\ End(list[i]) # b.at
            BY <1>1, <1>5, <3>1, <3>3
          <5>2. ~(End(b) <= list[i].at)
            BY <1>2, <3>1, <5>1
          <5> HIDE DEF before
          <5> QED
            BY <1>2, <1>3, <3>1, <5>1, <5>2
        <4>2. k = i \/ End(list[k]) < list[i].at
          BY <1>2, <3>1
        <4>3. End(list[k]) < b.at
          <5> DEFINE x == End(list[k])
                     y == list[i].at
                     z == End(list[i])
                     w == b.at
          <5>1. x \in Nat /\ y \in Nat /\ z \in Nat /\ w \in Nat /\ y < z
            BY <1>2, <3>1, BlockFields
          <5>2. (x = z \/ x < y) /\ z < w
            BY <4>1, <4>2
          <5> HIDE DEF x, y, z, w, before
          <5>3. x < w
            BY <5>1, <5>2
          <5> QED
            BY <5>3 DEF x, w
        <4> QED
          BY <1>7, <3>3, <4>3
      <3> QED
        BY <3>2, <3>3
    <2>2. ASSUME NEW k \in 1 .. n, k > hi
          PROVE  End(joined) < list[k].at
      <3>1. k > i /\ i + 1 \in 1 .. n /\ (k = i + 1 \/ k > i + 1)
        BY <1>2, <1>6, <2>2
      <3>2. CASE behind
        <4>1. k > i + 1
          BY <1>2, <2>2, <3>2
        <4> QED
          BY <1>2, <1>7, <3>1, <3>2, <4>1
      <3>3. CASE ~behind
        <4> HIDE DEF behind
        <4>1. End(b) < list[i + 1].at
          <5>1. ~(list[i + 1].at < b.at) /\ End(b) # list[i + 1].at
            BY <1>1, <1>2, <1>5, <3>1, <3>3
          <5> DEFINE x == list[i + 1].at
                     y == End(list[i + 1])
                     z == b.at
                     w == End(b)
          <5>2. /\ x \in Nat /\ y \in Nat /\ z \in Nat /\ w \in Nat /\ x < y
                /\ y <= z \/ w <= x
            BY <1>2, <1>3, <3>1, BlockFields
          <5>3. ~(x < z) /\ w # x
            BY <5>1
          <5> HIDE DEF x, y, z, w
          <5>4. w < x
            BY <5>2, <5>3
          <5> QED
            BY <5>4 DEF w, x
        <4> DEFINE l == i + 1
                   x == list[l].at
                   y == End(list[l])
                   z == list[k].at
                   w == End(b)
        <4>2. k = l \/ (k > l /\ l < k /\ l \in 1 .. n /\ k \in 1 .. n)
          BY <1>2, <3>1
        <4>4. l \in 1 .. n /\ w < x
          BY <3>1, <4>1
        <4> HIDE DEF l
        <4>5. z = x \/ y < z
          BY <1>2, <4>2
        <4>6. x \in Nat /\ y \in Nat /\ z \in Nat /\ w \in Nat /\ x < y
          BY <1>2, <4>4, BlockFields
        <4> HIDE DEF x, y, z, w
        <4>7. w < z
          BY <4>4, <4>5, <4>6
        <4>3. End(b) < list[k].at
          BY <4>7 DEF w, z
        <4> QED
          BY <1>7, <3>3, <4>3
      <3> QED
        BY <3>2, <3>3
    <2>3. \A j \in 1 .. Len(mid) : mid[j] = joined
      OBVIOUS
    <2> HIDE DEF mid
    <2> HIDE DEF lo, hi
    <2> QED
      BY <2>1, <2>2, <2>3 DEF Fits
  <1>9. /\ mid \in Seq(MemBlock) /\ Len(mid) = 1 /\ mid[1] = joined
        /\ InLine(mid) /\ ListBytes(mid) = BlockBytes(joined)
        /\ MemTotal(mid) = joined.size
    <2>1. joined \in MemBlock
      BY <1>7
    <2> QED
      BY <2>1, OneBlock
  <1> HIDE DEF mid
  <1>10. new \in Seq(MemBlock) /\ Len(new) = (lo + 1) + (n - hi)
    <2>1. new \in Seq(MemBlock) /\ Len(new) = (lo + Len(mid)) + (Len(list) - hi)
      <3>1. mid \in Seq(MemBlock) /\ lo \in Nat /\ hi \in Nat /\ lo <= hi /\ hi <= Len(list)
        BY <1>6, <1>9
      <3> HIDE DEF lo, hi
      <3>2. Spliced(list, lo, mid, hi, new, lo + Len(mid))
        BY <3>1, SpliceIs
      <3> QED
        BY <3>2 DEF Spliced
    <2> HIDE DEF lo, hi, new
    <2> QED
      BY <1>9, <2>1
  <1>11. InLine(new)
    <2> HIDE DEF lo, hi
    <2> QED
      BY <1>6, <1>8, <1>9, SpliceInLine
  <1>12. AllWhole(new)
    <2>1. /\ \A k \in 1 .. n : Whole(list[k].at) /\ Whole(list[k].size)
          /\ Whole(b.at) /\ Whole(b.size) /\ Whole(MemHead)
      BY MemNumbers DEF AllWhole
    <2>2. Whole(joined.at)
      BY <1>5, <1>7, <2>1
    <2>3. Whole(joined.size)
      <3> DEFINE ps == list[i].size
                 qs == list[i + 1].size
                 bs == b.size
      <3>1. /\ bs \in Int /\ Whole(bs) /\ MemHead \in Int
            /\ before => ps \in Int /\ Whole(ps)
            /\ behind => qs \in Int /\ Whole(qs)
        BY <1>2, <1>5, <2>1
      <3>2. joined.size = bs + (IF before THEN ps + MemHead ELSE 0)
                             + (IF behind THEN qs + MemHead ELSE 0)
        BY <1>7
      <3> HIDE DEF ps, qs, bs, before, behind
      <3> DEFINE u == IF before THEN ps + MemHead ELSE 0
                 v == IF behind THEN qs + MemHead ELSE 0
      <3>3. Whole(0)
        <4>1. 0 = 0 * MemAlign /\ 0 \in Int
          BY MemNumbers
        <4> QED
          BY <4>1, WholeIs
      <3>4. u \in Int /\ v \in Int
        BY <3>1
      <3>5. Whole(u)
        <4>1. CASE before
          <5>1. Whole(ps + MemHead)
            BY <2>1, <3>1, <4>1, WholeSums
          <5> QED
            BY <4>1, <5>1
        <4> QED
          BY <3>3, <4>1
      <3>6. Whole(v)
        <4>1. CASE behind
          <5>1. Whole(qs + MemHead)
            BY <2>1, <3>1, <4>1, WholeSums
          <5> QED
            BY <4>1, <5>1
        <4> QED
          BY <3>3, <4>1
      <3> HIDE DEF u, v
      <3>7. Whole(bs + u) /\ bs + u \in Int
        BY <3>1, <3>4, <3>5, WholeSums
      <3>8. Whole((bs + u) + v)
        BY <3>4, <3>6, <3>7, WholeSums
      <3> QED
        BY <3>2, <3>8 DEF u, v
    <2>4. AllWhole(mid)
      <3>1. \A k \in 1 .. Len(mid) : mid[k] = joined
        BY <1>9
      <3> QED
        BY <2>2, <2>3, <3>1, Zenon DEF AllWhole
    <2> HIDE DEF lo, hi
    <2> QED
      BY <1>6, <1>9, <2>4, SpliceWhole
  <1>13. ListBytes(new) = ListBytes(list) \cup BlockBytes(b)
    <2>1. \A x : x \in ListBytes(new) <=>
               \/ \E k \in 1 .. n : (k <= lo \/ k > hi) /\ x \in BlockBytes(list[k])
               \/ x \in BlockBytes(joined)
      <3> HIDE DEF lo, hi
      <3> QED
        BY <1>6, <1>9, SpliceBytes
    <2>2. \A x : x \in ListBytes(list) <=> \E k \in 1 .. n : x \in BlockBytes(list[k])
      BY InBytes
    <2>3. \A c \in MemBlock : \A x : x \in BlockBytes(c) <=> x \in Int /\ c.at <= x /\ x < End(c)
      BY MemNumbers DEF BlockBytes, End, MemBlock
    <2>4. /\ before => (\A x : x \in BlockBytes(list[i]) <=> x \in Int /\ list[i].at <= x /\ x < b.at)
          /\ behind => (\A x : x \in BlockBytes(list[i + 1]) <=> x \in Int /\ End(b) <= x /\ x < End(list[i + 1]))
      BY <1>2, <1>5, <2>3, SMTT(30)
    <2>5. \A x : x \in BlockBytes(b) <=> x \in Int /\ b.at <= x /\ x < End(b)
      BY <2>3
    <2>6. \A x : x \in BlockBytes(joined) <=> x \in Int /\ joined.at <= x /\ x < End(joined)
      BY <1>7, <2>3
    <2>7. /\ \A x \in BlockBytes(joined) :
               x \in BlockBytes(b) \/ (before /\ x \in BlockBytes(list[i])) \/ (behind /\ x \in BlockBytes(list[i + 1]))
          /\ BlockBytes(b) \subseteq BlockBytes(joined)
          /\ before => BlockBytes(list[i]) \subseteq BlockBytes(joined)
          /\ behind => BlockBytes(list[i + 1]) \subseteq BlockBytes(joined)
      <3> DEFINE pa == list[i].at
                 ba == b.at
                 be == End(b)
                 qe == End(list[i + 1])
                 ja == joined.at
                 je == End(joined)
      <3>1. /\ ba \in Nat /\ be \in Nat /\ ba <= be
            /\ before => pa \in Nat /\ pa <= ba
            /\ behind => qe \in Nat /\ be <= qe
            /\ ja = IF before THEN pa ELSE ba
            /\ je = IF behind THEN qe ELSE be
        <4>1. before => pa <= ba
          <5>1. before => list[i] \in MemBlock /\ End(list[i]) = ba
            BY <1>2, <1>5
          <5>2. before => pa \in Nat /\ ba \in Nat /\ ba > pa
            <6> HIDE DEF before
            <6> QED
              BY <5>1, BlockFields
          <5> HIDE DEF pa, ba, before
          <5> QED
            BY <5>2
        <4>2. behind => be <= qe
          <5>1. behind => list[i + 1] \in MemBlock /\ list[i + 1].at = be
            BY <1>2, <1>5
          <5>2. behind => be \in Nat /\ qe \in Nat /\ qe > be
            <6> HIDE DEF behind
            <6> QED
              BY <5>1, BlockFields
          <5> HIDE DEF be, qe, behind
          <5> QED
            BY <5>2
        <4> QED
          BY <1>2, <1>5, <1>7, <4>1, <4>2
      <3> DEFINE B == BlockBytes(b)
                 P == BlockBytes(list[i])
                 Q == BlockBytes(list[i + 1])
                 J == BlockBytes(joined)
      <3>2. /\ \A x : x \in B <=> x \in Int /\ ba <= x /\ x < be
            /\ \A x : x \in J <=> x \in Int /\ ja <= x /\ x < je
            /\ before => (\A x : x \in P <=> x \in Int /\ pa <= x /\ x < ba)
            /\ behind => (\A x : x \in Q <=> x \in Int /\ be <= x /\ x < qe)
        BY <2>4, <2>5, <2>6
      <3> HIDE DEF pa, ba, be, qe, ja, je, B, P, Q, J, before, behind
      <3>3. /\ \A x \in J : x \in B \/ (before /\ x \in P) \/ (behind /\ x \in Q)
            /\ B \subseteq J /\ (before => P \subseteq J) /\ (behind => Q \subseteq J)
        BY <3>1, <3>2
      <3> QED
        BY <3>3 DEF B, P, Q, J
    <2>8. /\ \A k \in 1 .. n :
               (k <= lo \/ k > hi) \/ (before /\ k = i) \/ (behind /\ k = i + 1)
          /\ before => i \in 1 .. n
          /\ behind => i + 1 \in 1 .. n
      <3>1. /\ lo = IF before THEN i - 1 ELSE i
            /\ hi = IF behind THEN i + 1 ELSE i
            /\ before => i > 0
            /\ behind => i < n
        OBVIOUS
      <3> HIDE DEF lo, hi, before, behind
      <3> QED
        BY <1>2, <3>1
    <2> HIDE DEF lo, hi, new, before, behind, n
    <2>9. ASSUME NEW x
          PROVE  x \in ListBytes(new) <=> x \in ListBytes(list) \/ x \in BlockBytes(b)
      <3>1. ASSUME x \in BlockBytes(joined)
            PROVE  x \in ListBytes(list) \/ x \in BlockBytes(b)
        BY <2>2, <2>7, <2>8, <3>1
      <3>2. ASSUME NEW k \in 1 .. n, x \in BlockBytes(list[k])
            PROVE  x \in ListBytes(new)
        BY <2>1, <2>7, <2>8, <3>2
      <3> QED
        BY <2>1, <2>2, <2>7, <3>1, <3>2
    <2> QED
      BY <2>9
  <1>14. /\ MemGain(list, b) = b.size + MemHead * (hi - lo)
         /\ MemTotal(new) = MemTotal(list) + MemGain(list, b)
         /\ MemGain(list, b) \in Nat
    <2> DEFINE f == MemPart(list)
    <2>1. MemTotal(new) + f[hi] = MemTotal(list) + f[lo] + joined.size
      <3> HIDE DEF lo, hi
      <3> QED
        BY <1>6, <1>9, SpliceTotal
    <2>2. /\ \A k \in 1 .. n : f[k] = f[k - 1] + list[k].size
          /\ \A k \in 0 .. n : f[k] \in Nat
          /\ MemTotal(list) = f[n] /\ MemTotal(new) = MemPart(new)[Len(new)]
          /\ MemPart(new)[Len(new)] \in Nat
      <3>1. Len(new) \in 0 .. Len(new)
        BY <1>10
      <3> HIDE DEF new
      <3> QED
        BY <1>10, <3>1, PartIs
    <2>3. n \in 0 .. n /\ lo \in 0 .. n /\ hi \in 0 .. n
      BY <1>2, <1>6
    <2>4. MemGain(list, b) = b.size + MemHead * (hi - lo)
      <3>1. n + 1 - Len(new) = hi - lo
        <4> HIDE DEF lo, hi, new
        <4> QED
          BY <1>2, <1>6, <1>10
      <3> HIDE DEF lo, hi, new
      <3> QED
        BY <1>4, <3>1 DEF MemGain
    <2> DEFINE ps == list[i].size
               qs == list[i + 1].size
               bs == b.size
               fh == f[hi]
               fl == f[lo]
               h == MemHead * (hi - lo)
               js == joined.size
               t == MemTotal(list)
               tn == MemTotal(new)
    <2>5. /\ before => f[i] = f[i - 1] + ps /\ ps \in Nat /\ f[i - 1] \in Nat
          /\ behind => f[i + 1] = f[i] + qs /\ qs \in Nat
          /\ f[i] \in Nat
      <3>1. /\ i \in 0 .. n
            /\ before => i \in 1 .. n /\ i - 1 \in 0 .. n
            /\ behind => i + 1 \in 1 .. n /\ (i + 1) - 1 = i
        BY <1>2
      <3> HIDE DEF before, behind, f
      <3> QED
        BY <1>2, <2>2, <3>1
    <2>6. /\ fh = fl + (IF before THEN ps ELSE 0) + (IF behind THEN qs ELSE 0)
          /\ h = (IF before THEN MemHead ELSE 0) + (IF behind THEN MemHead ELSE 0)
          /\ fl \in Nat
      <3> DEFINE f1 == f[i - 1]
                 f2 == f[i]
                 f3 == f[i + 1]
      <3>1. /\ fh = (IF behind THEN f3 ELSE f2) /\ fl = (IF before THEN f1 ELSE f2)
            /\ hi - lo = (IF before THEN 1 ELSE 0) + (IF behind THEN 1 ELSE 0)
        BY <1>2
      <3>2. MemHead \in Nat
        BY <1>2
      <3>3. h = (IF before THEN MemHead ELSE 0) + (IF behind THEN MemHead ELSE 0)
        <4> DEFINE d == hi - lo
        <4>1. d = (IF before THEN 1 ELSE 0) + (IF behind THEN 1 ELSE 0) /\ h = MemHead * d
          BY <3>1
        <4> HIDE DEF d, before, behind, h
        <4> QED
          BY <3>2, <4>1
      <3>4. /\ before => f2 = f1 + ps /\ ps \in Nat /\ f1 \in Nat
            /\ behind => f3 = f2 + qs /\ qs \in Nat
            /\ f2 \in Nat
        BY <2>5
      <3> HIDE DEF f1, f2, f3, ps, qs, fh, fl, before, behind, h
      <3> QED
        BY <3>1, <3>3, <3>4
    <2>7. /\ js = bs + (IF before THEN ps + MemHead ELSE 0) + (IF behind THEN qs + MemHead ELSE 0)
          /\ bs \in Nat /\ MemHead \in Nat /\ t \in Nat /\ tn \in Nat
          /\ tn + fh = t + fl + js
          /\ before => ps \in Nat
          /\ behind => qs \in Nat
      <3>1. t \in Nat /\ tn \in Nat
        BY <2>2, <2>3
      <3> QED
        BY <1>2, <1>7, <2>1, <2>5, <3>1
    <2>8. MemGain(list, b) = bs + h
      BY <2>4
    <2> HIDE DEF ps, qs, bs, fh, fl, h, js, t, tn, before, behind
    <2> HIDE DEF lo, hi, f, n, new
    <2>9. tn = t + (bs + h) /\ bs + h \in Nat
      <3>1. CASE before /\ behind
        <4>1. /\ fh = fl + ps + qs /\ h = MemHead + MemHead
              /\ js = bs + (ps + MemHead) + (qs + MemHead)
              /\ ps \in Nat /\ qs \in Nat
          BY <2>6, <2>7, <3>1
        <4> QED
          BY <2>6, <2>7, <4>1
      <3>2. CASE before /\ ~behind
        BY <2>6, <2>7, <3>2, SMTT(30)
      <3>3. CASE ~before /\ behind
        BY <2>6, <2>7, <3>3, SMTT(30)
      <3>4. CASE ~before /\ ~behind
        BY <2>6, <2>7, <3>4
      <3> QED
        BY <3>1, <3>2, <3>3, <3>4
    <2>10. tn = t + MemGain(list, b) /\ MemGain(list, b) \in Nat
      BY <2>8, <2>9
    <2> QED
      BY <2>4, <2>10 DEF tn, t
  <1> HIDE DEF new
  <1> QED
    BY <1>4, <1>10, <1>11, <1>12, <1>13, <1>14

-----------------------------------------------------------------------------
(* The blocks of the heaps.                                                *)
AllHeaps == MemExtra \cup {MemStatic}

\* The block of a whole heap is aligned and lies within the heap.
LEMMA HeapBlocks ==
  ASSUME NEW h \in AllHeaps
  PROVE  /\ HeapBlock(h) \in MemBlock /\ Whole(HeapBlock(h).at) /\ Whole(HeapBlock(h).size)
         /\ h.start \in Nat /\ h.size \in Nat /\ h.start <= HeapBlock(h).at
         /\ End(HeapBlock(h)) <= h.start + h.size /\ h.start + h.size < MemWidth
  <1> DEFINE b == HeapBlock(h)
             u == MemUp(h.start)
             d == MemDown(h.start + h.size)
  <1>1. h.start \in Nat /\ h.size \in Nat /\ b.size >= 0 /\ h.start + h.size < MemWidth
    BY MemAssumption DEF AllHeaps
  <1>2. u \in Nat /\ Whole(u) /\ h.start <= u
    BY <1>1, Rounding
  <1>3. d \in Nat /\ Whole(d) /\ d <= h.start + h.size
    <2>1. h.start + h.size \in Nat
      BY <1>1
    <2> QED
      BY <2>1, Rounding
  <1>4. b = [at |-> u, size |-> d - u - MemHead]
    BY DEF HeapBlock
  <1> HIDE DEF u, d, b
  <1>5. b.at = u /\ b.size = d - u - MemHead
    BY <1>4
  <1>6. Whole(b.size)
    <2>1. Whole(d - u) /\ d - u \in Int /\ MemHead \in Int
      BY <1>2, <1>3, WholeSums, MemNumbers
    <2> QED
      BY <1>5, <2>1, WholeSums, MemNumbers
  <1>7. b.size \in Nat
    BY <1>1, <1>2, <1>3, <1>5, MemNumbers
  <1>8. b \in MemBlock
    BY <1>2, <1>4, <1>5, <1>7 DEF MemBlock
  <1>9. End(b) = d
    <2>1. End(b) = u + MemHead + (d - u - MemHead)
      BY <1>5 DEF End
    <2> QED
      BY <1>2, <1>3, <2>1, MemNumbers
  <1> QED
    BY <1>1, <1>2, <1>3, <1>5, <1>6, <1>8, <1>9 DEF b

\* Those of different heaps share no byte.
LEMMA HeapsApart ==
  ASSUME NEW g \in AllHeaps, NEW h \in AllHeaps, g # h
  PROVE  BlockBytes(HeapBlock(g)) \cap BlockBytes(HeapBlock(h)) = {}
  <1> DEFINE b == HeapBlock(g)
             c == HeapBlock(h)
             x == g.start + g.size
             y == h.start + h.size
             p == g.start
             q == h.start
  <1>1. /\ b \in MemBlock /\ c \in MemBlock
        /\ p \in Nat /\ q \in Nat /\ x \in Nat /\ y \in Nat
        /\ p <= b.at /\ q <= c.at /\ End(b) <= x /\ End(c) <= y
    BY HeapBlocks
  <1>2. x <= q \/ y <= p
    BY MemAssumption DEF AllHeaps
  <1> HIDE DEF b, c, x, y, p, q
  <1>3. End(b) <= c.at \/ End(c) <= b.at
    <2> DEFINE eb == End(b)
               ec == End(c)
               ba == b.at
               ca == c.at
    <2>1. eb \in Nat /\ ec \in Nat /\ ba \in Nat /\ ca \in Nat /\ p <= ba /\ q <= ca /\ eb <= x /\ ec <= y
      BY <1>1, BlockFields
    <2> HIDE DEF eb, ec, ba, ca
    <2>2. eb <= ca \/ ec <= ba
      BY <1>1, <1>2, <2>1
    <2> QED
      BY <2>2 DEF eb, ec, ba, ca
  <1>4. BlockBytes(b) \cap BlockBytes(c) = {}
    BY <1>1, <1>3, BytesApart
  <1> QED
    BY <1>4 DEF b, c

\* The bytes of the first heaps, and the list of eh_mem_init after so many of them.
HeapsOf(heaps) ==
  /\ heaps \in Seq(AllHeaps)
  /\ \A i, j \in 1 .. Len(heaps) : heaps[i] = heaps[j] => i = j
HeapBytes(heaps, k) == UNION {BlockBytes(HeapBlock(heaps[i])) : i \in 1 .. k}
BuiltSoFar(heaps, x, k) ==
  x \in Seq(MemBlock) /\ InLine(x) /\ AllWhole(x) /\ ListBytes(x) = HeapBytes(heaps, k)

\* One more heap is inserted.
LEMMA BuildStep ==
  ASSUME NEW heaps, HeapsOf(heaps), NEW k \in 1 .. Len(heaps), NEW x, BuiltSoFar(heaps, x, k - 1)
  PROVE  BuiltSoFar(heaps, MemInsert(x, HeapBlock(heaps[k])), k)
  <1> DEFINE b == HeapBlock(heaps[k])
             new == MemInsert(x, b)
  <1>1. heaps[k] \in AllHeaps /\ Len(heaps) \in Nat
    BY DEF HeapsOf
  <1>2. b \in MemBlock /\ Whole(b.at) /\ Whole(b.size)
    BY <1>1, HeapBlocks
  <1>3. ASSUME NEW y \in ListBytes(x), y \in BlockBytes(b)
        PROVE  FALSE
    <2>1. PICK i \in 1 .. k - 1 : y \in BlockBytes(HeapBlock(heaps[i]))
      BY <1>3 DEF BuiltSoFar, HeapBytes
    <2>2. i \in 1 .. Len(heaps) /\ i # k
      BY <1>1, <2>1
    <2>3. heaps[i] \in AllHeaps /\ heaps[i] # heaps[k]
      BY <2>2 DEF HeapsOf
    <2> QED
      BY <1>1, <1>3, <2>1, <2>3, HeapsApart
  <1>4. x \in Seq(MemBlock) /\ InLine(x) /\ AllWhole(x) /\ ListBytes(x) = HeapBytes(heaps, k - 1)
    BY DEF BuiltSoFar
  <1>5. ListBytes(x) \cap BlockBytes(b) = {}
    BY <1>3
  <1> HIDE DEF b
  <1>6. new \in Seq(MemBlock) /\ InLine(new) /\ AllWhole(new) /\ ListBytes(new) = ListBytes(x) \cup BlockBytes(b)
    BY <1>2, <1>4, <1>5, InsertIs
  <1>7. HeapBytes(heaps, k) = HeapBytes(heaps, k - 1) \cup BlockBytes(b)
    <2>1. 1 .. k = (1 .. k - 1) \cup {k}
      OBVIOUS
    <2> QED
      BY <2>1 DEF HeapBytes, b
  <1> QED
    BY <1>4, <1>6, <1>7 DEF BuiltSoFar, b

\* Whatever the function of the lists is, it has all of them right.
LEMMA BuildAll ==
  ASSUME NEW heaps, HeapsOf(heaps), NEW f, f[0] = << >>,
         \A k \in 1 .. Len(heaps) :
           BuiltSoFar(heaps, f[k - 1], k - 1) => f[k] = MemInsert(f[k - 1], HeapBlock(heaps[k]))
  PROVE  \A k \in 0 .. Len(heaps) : BuiltSoFar(heaps, f[k], k)
  <1> DEFINE n == Len(heaps)
             A == {k \in Nat : k <= n => BuiltSoFar(heaps, f[k], k)}
  <1>1. n \in Nat
    BY DEF HeapsOf
  <1>2. 0 \in A
    <2> DEFINE e == << >>
    <2>1. e \in Seq(MemBlock) /\ Len(e) = 0
      OBVIOUS
    <2> HIDE DEF e
    <2>2. InLine(e) /\ AllWhole(e)
      BY <2>1 DEF InLine, AllWhole
    <2>3. ListBytes(e) = {}
      <3>1. \A x : x \in ListBytes(e) <=> \E k \in 1 .. Len(e) : x \in BlockBytes(e[k])
        BY <2>1, InBytes
      <3>2. \A x : x \notin ListBytes(e)
        BY <2>1, <3>1
      <3> QED
        BY <3>2
    <2>4. HeapBytes(heaps, 0) = {}
      BY DEF HeapBytes
    <2>5. BuiltSoFar(heaps, e, 0)
      BY <2>1, <2>2, <2>3, <2>4 DEF BuiltSoFar
    <2> QED
      BY <2>5 DEF e
  <1>3. ASSUME NEW k \in Nat, k \in A
        PROVE  k + 1 \in A
    <2> SUFFICES ASSUME k + 1 <= n PROVE BuiltSoFar(heaps, f[k + 1], k + 1)
      OBVIOUS
    <2> DEFINE l == k + 1
    <2>1. l \in 1 .. n /\ l - 1 = k /\ k <= n
      BY <1>1
    <2>2. BuiltSoFar(heaps, f[l - 1], l - 1)
      BY <1>3, <2>1
    <2> HIDE DEF l
    <2>3. f[l] = MemInsert(f[l - 1], HeapBlock(heaps[l]))
      BY <2>1, <2>2
    <2>4. BuiltSoFar(heaps, MemInsert(f[l - 1], HeapBlock(heaps[l])), l)
      BY <2>1, <2>2, BuildStep
    <2> QED
      BY <2>3, <2>4 DEF l
  <1>4. Nat \subseteq A
    <2> HIDE DEF A
    <2> QED
      BY <1>2, <1>3, SetInduction
  <1>5. \A k \in 0 .. n : k \in Nat /\ k <= n
    BY <1>1
  <1> QED
    BY <1>4, <1>5

BuiltOf(heaps, f) ==
  [k \in 0 .. Len(heaps) |->
     IF k = 0 THEN << >> ELSE MemInsert(f[k - 1], HeapBlock(heaps[k]))]

\* eh_mem_init makes a list of all the bytes of the heaps.
LEMMA BuiltIs ==
  ASSUME NEW heaps, HeapsOf(heaps)
  PROVE  BuiltSoFar(heaps, MemBuilt(heaps), Len(heaps))
  <1> DEFINE n == Len(heaps)
             T == Seq(MemBlock)
             F == [p \in T \X (1 .. n) |->
                     IF BuiltSoFar(heaps, p[1], p[2] - 1)
                       THEN MemInsert(p[1], HeapBlock(heaps[p[2]])) ELSE << >>]
  <1>0. n \in Nat
    BY DEF HeapsOf
  <1>a. /\ \A k \in 0 .. n : k # 0 => k \in 1 .. n /\ k - 1 \in 0 .. n
        /\ \A k \in 1 .. n : k \in 0 .. n /\ k # 0 /\ k - 1 \in 0 .. n
        /\ 0 \in 0 .. n /\ n \in 0 .. n
    BY <1>0
  <1>1. \A x \in T, k \in 1 .. n :
          F[x, k] = IF BuiltSoFar(heaps, x, k - 1) THEN MemInsert(x, HeapBlock(heaps[k])) ELSE << >>
    OBVIOUS
  <1> HIDE DEF F
  <1>2. StepsIn(T, n, F)
    <2>1. ASSUME NEW x \in T, NEW k \in 1 .. n
          PROVE  F[x, k] \in T
      <3>1. CASE BuiltSoFar(heaps, x, k - 1)
        <4>1. BuiltSoFar(heaps, MemInsert(x, HeapBlock(heaps[k])), k)
          BY <3>1, BuildStep
        <4> QED
          BY <1>1, <3>1, <4>1 DEF BuiltSoFar
      <3>2. CASE ~BuiltSoFar(heaps, x, k - 1)
        <4>1. << >> \in T
          OBVIOUS
        <4> QED
          BY <1>1, <3>2, <4>1, Zenon
      <3> QED
        BY <3>1, <3>2
    <2> QED
      BY <2>1, Zenon DEF StepsIn
  <1>3. << >> \in T
    OBVIOUS
  <1> HIDE DEF T
  <1>4. StepsLead(T, << >>, n, F)
    BY <1>0, <1>2, <1>3, StepsTaken
  <1>5. PICK g : g \in [0 .. n -> T] /\ g = StepsOf(<< >>, F, n, g)
    BY <1>4, Zenon DEF StepsLead
  <1>6. \A k \in 0 .. n : g[k] = IF k = 0 THEN << >> ELSE F[g[k - 1], k]
    BY <1>5, Zenon DEF StepsOf
  <1>7. \A k \in 1 .. n : g[k] = F[g[k - 1], k] /\ g[k - 1] \in T
    BY <1>5, <1>6, <1>a
  <1>8. g[0] = << >>
    BY <1>6, <1>a, Zenon
  <1>9. \A k \in 1 .. n :
          g[k] = IF BuiltSoFar(heaps, g[k - 1], k - 1) THEN MemInsert(g[k - 1], HeapBlock(heaps[k])) ELSE << >>
    BY <1>1, <1>7, Zenon
  <1>10. \A k \in 1 .. n :
           BuiltSoFar(heaps, g[k - 1], k - 1) => g[k] = MemInsert(g[k - 1], HeapBlock(heaps[k]))
    BY <1>9, Zenon
  <1>11. \A k \in 0 .. n : BuiltSoFar(heaps, g[k], k)
    BY <1>8, <1>10, BuildAll
  <1>12. g = BuiltOf(heaps, g)
    <2>1. \A k \in 0 .. n : BuiltOf(heaps, g)[k] = IF k = 0 THEN << >> ELSE MemInsert(g[k - 1], HeapBlock(heaps[k]))
      BY Zenon DEF BuiltOf
    <2>2. \A k \in 0 .. n : g[k] = IF k = 0 THEN << >> ELSE MemInsert(g[k - 1], HeapBlock(heaps[k]))
      BY <1>8, <1>10, <1>11, <1>a, Zenon
    <2>3. \A k \in 0 .. n : BuiltOf(heaps, g)[k] = g[k]
      BY <2>1, <2>2, Zenon
    <2>4. BuiltOf(heaps, g) = [k \in 0 .. n |-> BuiltOf(heaps, g)[k]]
      BY DEF BuiltOf
    <2>5. g = [k \in 0 .. n |-> g[k]]
      BY <1>5
    <2> QED
      BY <2>3, <2>4, <2>5
  <1>13. PICK f : f = CHOOSE h : h = BuiltOf(heaps, h)
    OBVIOUS
  <1>14. f = BuiltOf(heaps, f)
    BY <1>12, <1>13, Zenon
  <1>15. MemBuilt(heaps) = f[n]
    BY <1>13, Zenon DEF MemBuilt, BuiltOf
  <1>16. \A k \in 0 .. n : f[k] = IF k = 0 THEN << >> ELSE MemInsert(f[k - 1], HeapBlock(heaps[k]))
    BY <1>14, Zenon DEF BuiltOf
  <1>17. f[0] = << >> /\ \A k \in 1 .. n : f[k] = MemInsert(f[k - 1], HeapBlock(heaps[k]))
    BY <1>16, <1>a, Zenon
  <1>18. \A k \in 0 .. n : BuiltSoFar(heaps, f[k], k)
    BY <1>17, BuildAll, Zenon
  <1> QED
    BY <1>15, <1>18, <1>a

-----------------------------------------------------------------------------
(* Blocks in use beside the free ones.                                     *)
HeldBlock(used, a) == [at |-> a, size |-> used[a]]
HeldBytes(used) == UNION {BlockBytes(HeldBlock(used, a)) : a \in DOMAIN used}

\* A list of free blocks and the sizes of those in use that share no byte.
Sound(free, used) ==
  /\ free \in Seq(MemBlock) /\ InLine(free) /\ AllWhole(free)
  /\ DOMAIN used \subseteq Nat /\ IsFiniteSet(DOMAIN used)
  /\ \A a \in DOMAIN used : used[a] \in Nat /\ Whole(a) /\ Whole(used[a])
  /\ \A a \in DOMAIN used : ListBytes(free) \cap BlockBytes(HeldBlock(used, a)) = {}
  /\ \A a, c \in DOMAIN used : a # c => BlockBytes(HeldBlock(used, a)) \cap BlockBytes(HeldBlock(used, c)) = {}

SameBytes(free, used, f, u) == ListBytes(f) \cup HeldBytes(u) = ListBytes(free) \cup HeldBytes(used)

\* Blocks of a list in line share no byte.
LEMMA LineApart ==
  ASSUME NEW list \in Seq(MemBlock), InLine(list),
         NEW i \in 1 .. Len(list), NEW j \in 1 .. Len(list), i # j
  PROVE  BlockBytes(list[i]) \cap BlockBytes(list[j]) = {}
  <1>1. i < j \/ j < i
    OBVIOUS
  <1>2. /\ list[i] \in MemBlock /\ list[j] \in MemBlock
        /\ End(list[i]) \in Nat /\ End(list[j]) \in Nat /\ list[i].at \in Nat /\ list[j].at \in Nat
    BY ListFields
  <1>3. End(list[i]) < list[j].at \/ End(list[j]) < list[i].at
    BY <1>1 DEF InLine
  <1> DEFINE x == End(list[i])
             y == End(list[j])
             p == list[i].at
             q == list[j].at
  <1>4. x <= q \/ y <= p
    <2>1. x \in Nat /\ y \in Nat /\ p \in Nat /\ q \in Nat /\ (x < q \/ y < p)
      BY <1>2, <1>3
    <2> HIDE DEF x, y, p, q
    <2> QED
      BY <2>1
  <1> QED
    BY <1>2, <1>4, BytesApart

\* The first byte of a block.
LEMMA AtInBytes ==
  ASSUME NEW b \in MemBlock
  PROVE  b.at \in BlockBytes(b)
  <1>1. b.at \in Nat /\ b.size \in Nat /\ MemHead \in Nat \ {0}
    BY MemNumbers DEF MemBlock
  <1> DEFINE x == b.at
             y == b.size
  <1>2. x \in x .. x + MemHead + y - 1
    <2>1. x \in Nat /\ y \in Nat
      BY <1>1
    <2> HIDE DEF x, y
    <2> QED
      BY <1>1, <2>1
  <1> QED
    BY <1>2 DEF BlockBytes

\* A block in use.
LEMMA HeldFields ==
  ASSUME NEW free, NEW used, Sound(free, used), NEW a \in DOMAIN used
  PROVE  /\ HeldBlock(used, a) \in MemBlock /\ HeldBlock(used, a).at = a /\ HeldBlock(used, a).size = used[a]
         /\ Whole(a) /\ Whole(used[a]) /\ a \in BlockBytes(HeldBlock(used, a))
  <1>1. a \in Nat /\ used[a] \in Nat /\ Whole(a) /\ Whole(used[a])
    BY DEF Sound
  <1>2. HeldBlock(used, a) \in MemBlock /\ HeldBlock(used, a).at = a /\ HeldBlock(used, a).size = used[a]
    BY <1>1 DEF HeldBlock, MemBlock
  <1>3. HeldBlock(used, a).at \in BlockBytes(HeldBlock(used, a))
    BY <1>2, AtInBytes
  <1> QED
    BY <1>1, <1>2, <1>3

\* Both sides of a balance.
LEMMA Balance ==
  ASSUME NEW x \in Nat, NEW y \in Nat, NEW z \in Nat, NEW p \in Nat, NEW q \in Nat, NEW r \in Nat,
         y = z + x, p + y = q + z + r
  PROVE  p + x = q + r
  OBVIOUS

\* A block is taken from the list, and a part of it may go back to its place.
Taken(used, b) == [c \in DOMAIN used \cup {b.at} |-> IF c = b.at THEN b.size ELSE used[c]]
Divides(b, c, mid) ==
  BlockBytes(b) = BlockBytes(c) \cup ListBytes(mid) /\ BlockBytes(c) \cap ListBytes(mid) = {}

\* Nothing is lost and nothing overlaps when a block is taken.
LEMMA TakeSound ==
  ASSUME NEW free, NEW used, Sound(free, used), NEW i \in 1 .. Len(free),
         NEW mid \in Seq(MemBlock), InLine(mid), AllWhole(mid),
         NEW b \in MemBlock, Whole(b.at), Whole(b.size), b.at = free[i].at,
         Divides(free[i], b, mid), Fits(free, i - 1, mid, i)
  PROVE  LET new == Splice(free, i - 1, mid, i)
         IN  /\ Sound(new, Taken(used, b)) /\ SameBytes(free, used, new, Taken(used, b))
             /\ Cardinality(DOMAIN Taken(used, b)) = Cardinality(DOMAIN used) + 1
             /\ MemTotal(new) + free[i].size = MemTotal(free) + MemTotal(mid)
  <1> DEFINE new == Splice(free, i - 1, mid, i)
             D == DOMAIN used
             u == Taken(used, b)
             f == MemPart(free)
             n == Len(free)
  <1>1. /\ free \in Seq(MemBlock) /\ InLine(free) /\ AllWhole(free)
        /\ D \subseteq Nat /\ IsFiniteSet(D)
        /\ \A a \in D : used[a] \in Nat /\ Whole(a) /\ Whole(used[a])
        /\ \A a \in D : ListBytes(free) \cap BlockBytes(HeldBlock(used, a)) = {}
        /\ \A a, c \in D : a # c => BlockBytes(HeldBlock(used, a)) \cap BlockBytes(HeldBlock(used, c)) = {}
    BY DEF Sound
  <1>2. n \in Nat /\ i - 1 \in Nat /\ i \in Nat /\ i - 1 <= i /\ i <= n /\ free[i] \in MemBlock
    BY <1>1
  <1>3. new \in Seq(MemBlock) /\ InLine(new) /\ AllWhole(new)
    <2>1. new \in Seq(MemBlock)
      BY <1>1, <1>2, SpliceSeq
    <2>2. InLine(new)
      BY <1>1, <1>2, SpliceInLine
    <2>3. AllWhole(new)
      BY <1>1, <1>2, SpliceWhole
    <2> QED
      BY <2>1, <2>2, <2>3
  <1>4. ASSUME NEW x
        PROVE  /\ x \in ListBytes(new) <=> x \in ListBytes(free) /\ x \notin BlockBytes(b)
               /\ x \in BlockBytes(b) => x \in ListBytes(free)
    <2>1. x \in ListBytes(new) <=>
            \/ \E k \in 1 .. n : (k <= i - 1 \/ k > i) /\ x \in BlockBytes(free[k])
            \/ x \in ListBytes(mid)
      BY <1>1, <1>2, SpliceBytes
    <2>2. x \in ListBytes(free) <=> \E k \in 1 .. n : x \in BlockBytes(free[k])
      BY <1>1, InBytes
    <2>3. x \in BlockBytes(free[i]) <=> x \in BlockBytes(b) \/ x \in ListBytes(mid)
      BY DEF Divides
    <2>4. ~(x \in BlockBytes(b) /\ x \in ListBytes(mid))
      BY DEF Divides
    <2>5. \A k \in 1 .. n : (k <= i - 1 \/ k > i) <=> k # i
      BY <1>2
    <2>6. \A k \in 1 .. n : k # i => ~(x \in BlockBytes(free[k]) /\ x \in BlockBytes(free[i]))
      BY <1>1, LineApart
    <2> HIDE DEF new, n
    <2> QED
      BY <2>1, <2>2, <2>3, <2>4, <2>5, <2>6, <1>2
  <1>5. b.at \in BlockBytes(b) /\ b.at \in Nat /\ b.size \in Nat
    BY AtInBytes, BlockFields
  <1>6. b.at \notin D
    <2> SUFFICES ASSUME b.at \in D PROVE FALSE
      OBVIOUS
    <2>1. b.at \in BlockBytes(HeldBlock(used, b.at))
      BY HeldFields
    <2> QED
      BY <1>1, <1>4, <1>5, <2>1
  <1>7. /\ DOMAIN u = D \cup {b.at} /\ u[b.at] = b.size
        /\ \A a \in D : u[a] = used[a]
    BY <1>6 DEF Taken
  <1>8. /\ BlockBytes(HeldBlock(u, b.at)) = BlockBytes(b)
        /\ \A a \in D : HeldBlock(u, a) = HeldBlock(used, a)
    <2>1. HeldBlock(u, b.at).at = b.at /\ HeldBlock(u, b.at).size = b.size
      BY <1>7 DEF HeldBlock
    <2>2. BlockBytes(HeldBlock(u, b.at)) = BlockBytes(b)
      BY <2>1 DEF BlockBytes
    <2> QED
      BY <1>7, <2>2 DEF HeldBlock
  <1> HIDE DEF u, D, new
  <1>9. \A a \in DOMAIN u : u[a] \in Nat /\ Whole(a) /\ Whole(u[a])
    BY <1>1, <1>5, <1>7
  <1>10. \A a \in DOMAIN u : ListBytes(new) \cap BlockBytes(HeldBlock(u, a)) = {}
    <2>1. ASSUME NEW a \in DOMAIN u, NEW x \in ListBytes(new), x \in BlockBytes(HeldBlock(u, a))
          PROVE  FALSE
      <3>1. x \in ListBytes(free) /\ x \notin BlockBytes(b)
        BY <1>4
      <3> QED
        BY <1>1, <1>7, <1>8, <2>1, <3>1
    <2> QED
      BY <2>1
  <1>11. ASSUME NEW a \in DOMAIN u, NEW c \in DOMAIN u, a # c
         PROVE  BlockBytes(HeldBlock(u, a)) \cap BlockBytes(HeldBlock(u, c)) = {}
    <2>1. \A e \in D : BlockBytes(b) \cap BlockBytes(HeldBlock(used, e)) = {}
      BY <1>1, <1>4
    <2>2. CASE a \in D /\ c \in D
      BY <1>1, <1>8, <1>11, <2>2
    <2>3. CASE a = b.at /\ c \in D
      BY <1>8, <2>1, <2>3
    <2>4. CASE a \in D /\ c = b.at
      BY <1>8, <2>1, <2>4
    <2> QED
      BY <1>7, <1>11, <2>2, <2>3, <2>4
  <1>12. DOMAIN u \subseteq Nat /\ IsFiniteSet(DOMAIN u) /\ Cardinality(DOMAIN u) = Cardinality(D) + 1
    BY <1>1, <1>5, <1>6, <1>7, FS_AddElement
  <1>13. Sound(new, u)
    BY <1>3, <1>9, <1>10, <1>11, <1>12 DEF Sound
  <1>14. SameBytes(free, used, new, u)
    <2>1. \A x : x \in HeldBytes(u) <=> \E a \in DOMAIN u : x \in BlockBytes(HeldBlock(u, a))
      BY DEF HeldBytes
    <2>2. \A x : x \in HeldBytes(used) <=> \E a \in D : x \in BlockBytes(HeldBlock(used, a))
      BY DEF HeldBytes, D
    <2>3. ASSUME NEW x
          PROVE  x \in HeldBytes(u) <=> x \in BlockBytes(b) \/ x \in HeldBytes(used)
      BY <1>7, <1>8, <2>1, <2>2
    <2>4. ASSUME NEW x
          PROVE  x \in ListBytes(new) \cup HeldBytes(u) <=> x \in ListBytes(free) \cup HeldBytes(used)
      BY <1>4, <2>3
    <2> QED
      BY <2>4 DEF SameBytes
  <1>15. MemTotal(new) + free[i].size = MemTotal(free) + MemTotal(mid)
    <2>1. MemTotal(new) + f[i] = MemTotal(free) + f[i - 1] + MemTotal(mid)
      BY <1>1, <1>2, SpliceTotal DEF new
    <2>2. /\ \A k \in 1 .. n : f[k] = f[k - 1] + free[k].size
          /\ \A k \in 0 .. n : f[k] \in Nat
          /\ MemTotal(free) = f[n]
      BY <1>1, PartIs
    <2>3. i \in 0 .. n /\ i - 1 \in 0 .. n /\ n \in 0 .. n /\ i \in 1 .. n
      BY <1>2
    <2>4. Len(new) \in 0 .. Len(new) /\ Len(mid) \in 0 .. Len(mid)
      BY <1>3
    <2>5. MemTotal(new) \in Nat /\ MemTotal(mid) \in Nat
      BY <1>3, <2>4, PartIs
    <2> DEFINE x == free[i].size
               y == f[i]
               z == f[i - 1]
               p == MemTotal(new)
               q == MemTotal(free)
               r == MemTotal(mid)
    <2>6. /\ x \in Nat /\ y \in Nat /\ z \in Nat /\ p \in Nat /\ q \in Nat /\ r \in Nat
          /\ y = z + x /\ p + y = q + z + r
      BY <1>2, <2>1, <2>2, <2>3, <2>5, BlockFields
    <2> HIDE DEF x, y, z, p, q, r
    <2>7. p + x = q + r
      BY <2>6, Balance, SMTT(30)
    <2> QED
      BY <2>7 DEF p, x, q, r
  <1> QED
    BY <1>12, <1>13, <1>14, <1>15 DEF D, u, new

\* A block in use goes back to the list.
Given(used, a) == [c \in DOMAIN used \ {a} |-> used[c]]

\* And when one is given back.
LEMMA GiveSound ==
  ASSUME NEW free, NEW used, Sound(free, used), NEW a \in DOMAIN used
  PROVE  LET new == MemInsert(free, HeldBlock(used, a))
         IN  /\ Sound(new, Given(used, a)) /\ SameBytes(free, used, new, Given(used, a))
             /\ Cardinality(DOMAIN Given(used, a)) = Cardinality(DOMAIN used) - 1
             /\ MemTotal(new) = MemTotal(free) + MemGain(free, HeldBlock(used, a))
             /\ MemGain(free, HeldBlock(used, a)) \in Nat
  <1> DEFINE D == DOMAIN used
             b == HeldBlock(used, a)
             new == MemInsert(free, b)
             u == Given(used, a)
  <1>1. /\ free \in Seq(MemBlock) /\ InLine(free) /\ AllWhole(free)
        /\ D \subseteq Nat /\ IsFiniteSet(D)
        /\ \A c \in D : used[c] \in Nat /\ Whole(c) /\ Whole(used[c])
        /\ \A c \in D : ListBytes(free) \cap BlockBytes(HeldBlock(used, c)) = {}
        /\ \A c, e \in D : c # e => BlockBytes(HeldBlock(used, c)) \cap BlockBytes(HeldBlock(used, e)) = {}
    BY DEF Sound
  <1>2. b \in MemBlock /\ Whole(b.at) /\ Whole(b.size) /\ ListBytes(free) \cap BlockBytes(b) = {}
    BY <1>1, HeldFields
  <1> HIDE DEF b
  <1>3. /\ new \in Seq(MemBlock) /\ InLine(new) /\ AllWhole(new)
        /\ ListBytes(new) = ListBytes(free) \cup BlockBytes(b)
        /\ MemTotal(new) = MemTotal(free) + MemGain(free, b)
        /\ MemGain(free, b) \in Nat
    BY <1>1, <1>2, InsertIs
  <1>4. DOMAIN u = D \ {a} /\ \A c \in DOMAIN u : u[c] = used[c] /\ HeldBlock(u, c) = HeldBlock(used, c) /\ c \in D /\ c # a
    BY DEF Given, HeldBlock
  <1> HIDE DEF u, new, D
  <1>5. IsFiniteSet(DOMAIN u) /\ DOMAIN u \subseteq Nat /\ Cardinality(DOMAIN u) = Cardinality(D) - 1
    <2>1. a \in D
      BY DEF D
    <2> QED
      BY <1>1, <1>4, <2>1, FS_RemoveElement
  <1>6. \A c \in DOMAIN u : u[c] \in Nat /\ Whole(c) /\ Whole(u[c])
    BY <1>1, <1>4
  <1>a. \A c \in DOMAIN u : BlockBytes(b) \cap BlockBytes(HeldBlock(used, c)) = {}
    BY <1>1, <1>4 DEF b, D
  <1>7. \A c \in DOMAIN u : ListBytes(new) \cap BlockBytes(HeldBlock(u, c)) = {}
    BY <1>1, <1>3, <1>4, <1>a
  <1>8. \A c, e \in DOMAIN u : c # e => BlockBytes(HeldBlock(u, c)) \cap BlockBytes(HeldBlock(u, e)) = {}
    BY <1>1, <1>4
  <1>9. Sound(new, u)
    BY <1>3, <1>5, <1>6, <1>7, <1>8 DEF Sound
  <1>10. SameBytes(free, used, new, u)
    <2>1. \A x : x \in HeldBytes(u) <=> \E c \in DOMAIN u : x \in BlockBytes(HeldBlock(u, c))
      BY DEF HeldBytes
    <2>2. \A x : x \in HeldBytes(used) <=> \E c \in D : x \in BlockBytes(HeldBlock(used, c))
      BY DEF HeldBytes, D
    <2>3. a \in D
      BY DEF D
    <2>4. ASSUME NEW x
          PROVE  x \in HeldBytes(used) <=> x \in BlockBytes(b) \/ x \in HeldBytes(u)
      BY <1>4, <2>1, <2>2, <2>3 DEF b
    <2> QED
      BY <1>3, <2>4 DEF SameBytes
  <1> QED
    BY <1>3, <1>5, <1>9, <1>10 DEF D, b, u, new

-----------------------------------------------------------------------------
(* Sizes: rounding up, and the modulus.                                    *)
LEMMA SizeIs ==
  ASSUME NEW n \in MemRequests
  PROVE  /\ n \in Nat /\ MemUp(n) \in Nat /\ Whole(MemUp(n)) /\ n <= MemUp(n)
         /\ MemSize(n) # 0 => MemSize(n) = MemUp(n) /\ n # 0
         /\ n # 0 /\ MemUp(n) < MemWidth => MemSize(n) = MemUp(n) /\ MemSize(n) # 0
  <1> DEFINE u == MemUp(n)
             r == u % MemWidth
             W == MemWidth
  <1>1. n \in Nat /\ n < W /\ W \in Nat \ {0} /\ Whole(W) /\ MemAlign \in Nat \ {0}
    BY MemAssumption DEF Whole
  <1>2. u \in Nat /\ Whole(u) /\ n <= u /\ u < n + MemAlign
    BY <1>1, Rounding
  <1>3. MemSize(n) = IF r < n THEN 0 ELSE r
    BY DEF MemSize
  <1> HIDE DEF u, r, W
  <1>4. CASE u < W
    <2>1. u \in 0 .. W - 1 /\ u = u + 0 * W /\ 0 \in Int /\ u \in Int
      BY <1>1, <1>2, <1>4
    <2>2. u % W = u
      BY <1>1, <2>1, ModulusIs
    <2>3. r = u
      BY <2>2 DEF r, W
    <2>4. n # 0 => u # 0
      BY <1>1, <1>2
    <2>5. n = 0 => u = 0
      <3>1. ASSUME n = 0
            PROVE  u = 0
        <4>1. u \in 0 .. MemAlign - 1 /\ u = u + 0 * MemAlign /\ 0 \in Int /\ u \in Int
          BY <1>1, <1>2, <3>1
        <4>2. u % MemAlign = u
          BY <1>1, <4>1, ModulusIs
        <4> QED
          BY <1>2, <4>2 DEF Whole
      <3> QED
        BY <3>1
    <2>6. MemSize(n) = u
      BY <1>1, <1>2, <1>3, <2>3
    <2> QED
      BY <1>1, <1>2, <2>4, <2>5, <2>6 DEF u, W
  <1>5. CASE ~(u < W)
    <2> DEFINE d == u - W
    <2>1. Whole(d) /\ d \in Int
      BY <1>1, <1>2, WholeSums
    <2>2. d \in 0 .. MemAlign - 1
      BY <1>1, <1>2, <1>5
    <2> HIDE DEF d
    <2>3. d = 0
      <3>1. d = d + 0 * MemAlign /\ 0 \in Int
        BY <2>1, <1>1
      <3>2. d % MemAlign = d
        BY <1>1, <2>1, <2>2, <3>1, ModulusIs
      <3> QED
        BY <2>1, <3>2 DEF Whole
    <2>4. u = W
      BY <1>1, <1>2, <2>3 DEF d
    <2>5. u % W = 0
      <3>1. u = 0 + 1 * W /\ 0 \in 0 .. W - 1 /\ 1 \in Int /\ u \in Int
        BY <1>1, <1>2, <2>4
      <3> QED
        BY <1>1, <3>1, ModulusIs
    <2>6. r = 0
      BY <2>5 DEF r, W
    <2>7. MemSize(n) = 0
      BY <1>3, <2>6
    <2> QED
      BY <1>1, <1>2, <1>5, <2>7 DEF u, W
  <1> QED
    BY <1>4, <1>5

\* What lies in the heaps ends below the highest address.
LEMMA WithinHeaps ==
  ASSUME NEW heaps, HeapsOf(heaps), NEW k \in 1 .. Len(heaps), NEW b \in MemBlock,
         BlockBytes(b) \subseteq HeapBytes(heaps, k)
  PROVE  End(b) < MemWidth
  <1> DEFINE x == End(b) - 1
  <1>1. \A c \in MemBlock : \A y : y \in BlockBytes(c) <=> y \in Int /\ c.at <= y /\ y < End(c)
    BY MemNumbers DEF BlockBytes, End, MemBlock
  <1>2. x \in Int /\ b.at <= x /\ x < End(b) /\ End(b) \in Nat
    <2> DEFINE e == End(b)
               p == b.at
    <2>1. e \in Nat /\ p \in Nat /\ e > p
      BY BlockFields
    <2> HIDE DEF e, p
    <2>2. e - 1 \in Int /\ p <= e - 1 /\ e - 1 < e
      BY <2>1
    <2> QED
      BY <2>1, <2>2 DEF e, p
  <1>3. x \in BlockBytes(b)
    BY <1>1, <1>2
  <1>4. PICK i \in 1 .. k : x \in BlockBytes(HeapBlock(heaps[i]))
    BY <1>3 DEF HeapBytes
  <1>5. heaps[i] \in AllHeaps
    BY DEF HeapsOf
  <1> DEFINE h == heaps[i]
             c == HeapBlock(h)
  <1>6. c \in MemBlock /\ End(c) <= h.start + h.size /\ h.start + h.size < MemWidth /\ h.start + h.size \in Nat
    BY <1>5, HeapBlocks
  <1>7. x < End(c) /\ End(c) \in Nat
    BY <1>1, <1>4, <1>6, BlockFields
  <1> DEFINE e == End(b)
             f == End(c)
             g == h.start + h.size
  <1>8. e - 1 < f /\ e \in Nat /\ f \in Nat /\ g \in Nat /\ f <= g /\ g < MemWidth
    BY <1>2, <1>6, <1>7
  <1> HIDE DEF e, f, g
  <1>9. e < MemWidth
    BY <1>8, MemNumbers
  <1> QED
    BY <1>9 DEF e

\* eh_malloc splits a block when its rest is larger than a header and a unit; the rest
\* is compared as a number without sign, but a block ends below the highest address.
Rest(b, size) == [at |-> b.at + size + MemHead, size |-> (b.size - size - MemHead) % MemWidth]
Splits(b, size) == Rest(b, size).size > MemAlign /\ b.size > Rest(b, size).size
Mid(b, size) == IF Splits(b, size) THEN <<Rest(b, size)>> ELSE << >>
Part(b, size) == [at |-> b.at, size |-> IF Splits(b, size) THEN size ELSE b.size]

\* The empty list.
LEMMA NoBlock ==
  /\ << >> \in Seq(MemBlock) /\ Len(<< >>) = 0 /\ InLine(<< >>) /\ AllWhole(<< >>)
  /\ ListBytes(<< >>) = {} /\ MemTotal(<< >>) = 0
  <1> DEFINE e == << >>
  <1>1. e \in Seq(MemBlock) /\ Len(e) = 0
    OBVIOUS
  <1> HIDE DEF e
  <1>2. InLine(e) /\ AllWhole(e)
    BY <1>1 DEF InLine, AllWhole
  <1>3. ListBytes(e) = {}
    <2>1. \A x : x \in ListBytes(e) <=> \E k \in 1 .. Len(e) : x \in BlockBytes(e[k])
      BY <1>1, InBytes
    <2>2. \A x : x \notin ListBytes(e)
      BY <1>1, <2>1
    <2> QED
      BY <2>2
  <1>4. MemTotal(e) = 0
    BY <1>1, PartIs
  <1> QED
    BY <1>1, <1>2, <1>3, <1>4 DEF e

\* The parts of a block make up the block.
LEMMA SplitIs ==
  ASSUME NEW b \in MemBlock, Whole(b.at), Whole(b.size), End(b) < MemWidth,
         NEW size \in Nat \ {0}, Whole(size), size <= b.size
  PROVE  LET mid == Mid(b, size)
             c   == Part(b, size)
         IN  /\ c \in MemBlock /\ c.at = b.at /\ Whole(c.at) /\ Whole(c.size)
             /\ mid \in Seq(MemBlock) /\ InLine(mid) /\ AllWhole(mid) /\ Divides(b, c, mid)
             /\ MemTotal(mid) = IF Splits(b, size) THEN Rest(b, size).size ELSE 0
             /\ \A j \in 1 .. Len(mid) : b.at < mid[j].at /\ End(mid[j]) = End(b)
  <1> DEFINE p == b.at
             q == b.size
             d == q - size - MemHead
             r == d % MemWidth
             rest == Rest(b, size)
             c == Part(b, size)
             W == MemWidth
             mid == Mid(b, size)
  <1>1. /\ p \in Nat /\ q \in Nat /\ MemHead \in Nat \ {0} /\ MemAlign \in Nat \ {0} /\ W \in Nat \ {0}
        /\ p + MemHead + q < W /\ size <= q /\ d \in Int /\ End(b) = p + MemHead + q
    <2>1. p \in Nat /\ q \in Nat /\ End(b) = p + MemHead + q
      BY BlockFields
    <2> HIDE DEF p, q
    <2> QED
      BY <2>1, MemNumbers DEF q
  <1>2. rest.at = p + size + MemHead /\ rest.size = r
    BY DEF Rest
  <1>3. /\ mid = IF Splits(b, size) THEN <<rest>> ELSE << >>
        /\ c.at = p /\ c.size = IF Splits(b, size) THEN size ELSE q
        /\ c = [at |-> p, size |-> IF Splits(b, size) THEN size ELSE q]
        /\ Splits(b, size) <=> r > MemAlign /\ q > r
    BY <1>2 DEF Mid, Part, Splits
  <1>4. CASE Splits(b, size)
    <2>1. d >= 0 /\ r = d
      <3>1. CASE d >= 0
        <4>1. d \in 0 .. W - 1 /\ d = d + 0 * W /\ 0 \in Int
          <5> HIDE DEF W, p, q
          <5> QED
            BY <1>1, <3>1
        <4>2. r = d
          <5> HIDE DEF d
          <5> QED
            BY <1>1, <4>1, ModulusIs
        <4> QED
          BY <3>1, <4>2
      <3>2. CASE d < 0
        <4>1. d + W \in 0 .. W - 1 /\ d = (d + W) + (-1) * W /\ -1 \in Int
          <5> HIDE DEF W, p, q
          <5> QED
            BY <1>1, <3>2
        <4>2. r = d + W
          <5> HIDE DEF d
          <5> QED
            BY <1>1, <4>1, ModulusIs
        <4>3. q > d + W
          BY <1>3, <1>4, <4>2
        <4> HIDE DEF W, p, q, r
        <4> QED
          BY <1>1, <4>3
      <3> HIDE DEF W, p, q, r
      <3> QED
        BY <1>1, <3>1, <3>2
    <2>2. rest \in MemBlock /\ rest.at > p /\ End(rest) = End(b)
      <3>1. rest = [at |-> p + size + MemHead, size |-> r]
        BY DEF Rest
      <3>2. rest.at = p + size + MemHead /\ rest.size = d
        BY <1>2, <2>1
      <3>3. p + size + MemHead \in Nat /\ d \in Nat /\ p + size + MemHead > p
        <4> HIDE DEF p, q
        <4> QED
          BY <1>1, <2>1
      <3>4. rest \in MemBlock
        <4> HIDE DEF d
        <4> QED
          BY <2>1, <3>1, <3>3 DEF MemBlock
      <3>5. End(rest) = End(b)
        <4>1. End(rest) = (p + size + MemHead) + MemHead + d
          BY <3>2 DEF End
        <4>2. (p + size + MemHead) + MemHead + d = p + MemHead + q
          <5> HIDE DEF p, q
          <5> QED
            BY <1>1
        <4> QED
          BY <1>1, <4>1, <4>2
      <3> HIDE DEF rest
      <3> QED
        BY <3>2, <3>3, <3>4, <3>5
    <2>3. Whole(rest.at) /\ Whole(rest.size) /\ Whole(p) /\ Whole(size)
      <3>a. p \in Int /\ q \in Int /\ size \in Int /\ Whole(p) /\ Whole(q) /\ Whole(size)
        BY <1>1
      <3> HIDE DEF p, q
      <3>b. p + size \in Int /\ q - size \in Int
        BY <3>a
      <3>1. Whole(p + size) /\ p + size \in Int /\ MemHead \in Int /\ Whole(MemHead)
        BY <3>a, <3>b, WholeSums, MemNumbers
      <3>2. Whole((p + size) + MemHead)
        BY <3>1, WholeSums
      <3>3. Whole(q - size) /\ q - size \in Int
        BY <3>a, <3>b, WholeSums
      <3>4. Whole((q - size) - MemHead)
        BY <3>1, <3>3, WholeSums
      <3> QED
        BY <1>2, <2>1, <3>2, <3>4, <3>a
    <2> HIDE DEF rest
    <2>4. /\ mid \in Seq(MemBlock) /\ Len(mid) = 1 /\ mid[1] = rest /\ InLine(mid)
          /\ ListBytes(mid) = BlockBytes(rest) /\ MemTotal(mid) = rest.size
      BY <1>3, <1>4, <2>2, OneBlock
    <2> HIDE DEF mid
    <2>5. AllWhole(mid) /\ \A j \in 1 .. Len(mid) : b.at < mid[j].at /\ End(mid[j]) = End(b)
      <3>1. \A j \in 1 .. Len(mid) : mid[j] = rest
        BY <2>4
      <3> QED
        BY <2>2, <2>3, <3>1 DEF AllWhole
    <2>6. c \in MemBlock /\ c.at = p /\ c.size = size
      BY <1>1, <1>3, <1>4 DEF MemBlock
    <2>7. Divides(b, c, mid)
      <3>1. \A e \in MemBlock : \A y : y \in BlockBytes(e) <=> y \in Int /\ e.at <= y /\ y < End(e)
        BY MemNumbers DEF BlockBytes, End, MemBlock
      <3>2. End(c) = p + MemHead + size /\ rest.at = p + size + MemHead
        BY <1>2, <2>6 DEF End
      <3> DEFINE m == p + MemHead + size
                 e == End(b)
      <3>3. /\ \A y : y \in BlockBytes(b) <=> y \in Int /\ p <= y /\ y < e
            /\ \A y : y \in BlockBytes(c) <=> y \in Int /\ p <= y /\ y < m
            /\ \A y : y \in BlockBytes(rest) <=> y \in Int /\ m <= y /\ y < e
            /\ p \in Nat /\ m \in Nat /\ e \in Nat /\ p <= m /\ m <= e
        <4>1. rest.at = m
          <5> HIDE DEF p
          <5> QED
            BY <1>1, <3>2
        <4>2. p \in Nat /\ m \in Nat /\ e \in Nat /\ p <= m /\ m <= e
          <5>1. e = p + MemHead + q /\ size <= q
            BY <1>1
          <5> HIDE DEF p, e, q
          <5> QED
            BY <1>1, <5>1
        <4>3. \A y : y \in BlockBytes(b) <=> y \in Int /\ p <= y /\ y < e
          BY <3>1
        <4>4. \A y : y \in BlockBytes(c) <=> y \in Int /\ p <= y /\ y < m
          BY <2>6, <3>1, <3>2
        <4>5. \A y : y \in BlockBytes(rest) <=> y \in Int /\ m <= y /\ y < e
          BY <2>2, <3>1, <4>1
        <4> QED
          BY <4>2, <4>3, <4>4, <4>5
      <3> HIDE DEF m, e, p, c
      <3> QED
        BY <2>4, <3>3 DEF Divides
    <2> HIDE DEF c
    <2> QED
      BY <1>2, <1>4, <2>3, <2>4, <2>5, <2>6, <2>7 DEF rest, mid, c
  <1>5. CASE ~Splits(b, size)
    <2>1. mid = << >> /\ c = [at |-> p, size |-> q]
      BY <1>3, <1>5
    <2>2. c.at = p /\ c.size = q /\ c \in MemBlock /\ BlockBytes(c) = BlockBytes(b)
      BY <1>1, <2>1 DEF MemBlock, BlockBytes
    <2>3. /\ mid \in Seq(MemBlock) /\ Len(mid) = 0 /\ InLine(mid) /\ AllWhole(mid)
          /\ ListBytes(mid) = {} /\ MemTotal(mid) = 0
      BY <2>1, NoBlock
    <2> HIDE DEF mid, c
    <2> QED
      BY <1>5, <2>2, <2>3 DEF mid, c, Divides
  <1> QED
    BY <1>4, <1>5

-----------------------------------------------------------------------------
(* The steps of the heap.                                                  *)

MemIInv ==
  /\ HeapsOf(memHeaps) /\ Len(memHeaps) >= 1 /\ memUp \in BOOLEAN /\ memMin \in Nat
  /\ Sound(memFree, memUsed)
  /\ memUp => \E k \in 1 .. Len(memHeaps) :
                ListBytes(memFree) \cup HeldBytes(memUsed) = HeapBytes(memHeaps, k)
  /\ ~memUp => memFree = << >> /\ DOMAIN memUsed = {}
  /\ MemCounts

\* The first fit fits, and there is one when anything fits.
LEMMA FirstFitIs ==
  ASSUME memFree \in Seq(MemBlock), NEW size \in Nat
  PROVE  /\ FirstFit(size) # 0 => FirstFit(size) \in 1 .. Len(memFree) /\ memFree[FirstFit(size)].size >= size
         /\ (\E i \in 1 .. Len(memFree) : memFree[i].size >= size) => FirstFit(size) # 0
  <1> DEFINE fits == {i \in DOMAIN memFree : memFree[i].size >= size}
             least == CHOOSE i \in fits : \A j \in fits : i <= j
  <1>1. FirstFit(size) = IF fits = {} THEN 0 ELSE least
    BY DEF FirstFit
  <1>2. DOMAIN memFree = 1 .. Len(memFree) /\ Len(memFree) \in Nat
    OBVIOUS
  <1>3. ASSUME fits # {}
        PROVE  least \in fits
    <2>1. fits \subseteq Nat
      BY <1>2
    <2>2. PICK i \in fits : \A j \in fits : ~(<<j, i>> \in OpToRel(<, Nat))
      BY <1>3, <2>1, NatLessThanWellFounded, WFMin
    <2> HIDE DEF fits
    <2>3. ASSUME NEW j \in fits
          PROVE  i <= j
      <3>1. i \in Nat /\ j \in Nat
        BY <2>1
      <3>2. j < i => <<j, i>> \in OpToRel(<, Nat)
        BY <3>1 DEF OpToRel
      <3>3. ~(j < i)
        BY <2>2, <3>2
      <3> QED
        BY <3>1, <3>3
    <2> QED
      BY <2>3, Zenon
  <1> HIDE DEF least
  <1>4. fits # {} => least # 0
    BY <1>2, <1>3
  <1> QED
    BY <1>1, <1>2, <1>3, <1>4

\* The rest of a block fits into its place.
LEMMA MallocFits ==
  ASSUME NEW free \in Seq(MemBlock), InLine(free), NEW i \in 1 .. Len(free),
         NEW mid \in Seq(MemBlock),
         \A j \in 1 .. Len(mid) : free[i].at < mid[j].at /\ End(mid[j]) = End(free[i])
  PROVE  Fits(free, i - 1, mid, i)
  <1>1. /\ \A k, l \in 1 .. Len(free) : k < l => End(free[k]) < free[l].at
        /\ \A k \in 1 .. Len(free) : free[k].at \in Nat /\ End(free[k]) \in Nat
        /\ \A k \in 1 .. Len(mid) : mid[k].at \in Nat
    BY ListFields DEF InLine
  <1>2. ASSUME NEW k \in 1 .. i - 1, NEW j \in 1 .. Len(mid)
        PROVE  End(free[k]) < mid[j].at
    <2>1. k \in 1 .. Len(free) /\ k < i
      OBVIOUS
    <2> DEFINE x == End(free[k])
               y == free[i].at
               z == mid[j].at
    <2>2. x \in Nat /\ y \in Nat /\ z \in Nat /\ x < y /\ y < z
      BY <1>1, <2>1
    <2> HIDE DEF x, y, z
    <2>3. x < z
      BY <2>2
    <2> QED
      BY <2>3 DEF x, z
  <1>3. ASSUME NEW k \in 1 .. Len(free), NEW j \in 1 .. Len(mid), k > i
        PROVE  End(mid[j]) < free[k].at
    <2>1. i < k
      BY <1>3
    <2> QED
      BY <1>1, <2>1
  <1> QED
    BY <1>2, <1>3 DEF Fits

\* What the invariant says of a free block.
LEMMA InHeaps ==
  ASSUME MemIInv, NEW i \in 1 .. Len(memFree)
  PROVE  /\ memUp /\ memFree[i] \in MemBlock /\ End(memFree[i]) < MemWidth
         /\ Whole(memFree[i].at) /\ Whole(memFree[i].size)
         /\ BlockBytes(memFree[i]) \subseteq ListBytes(memFree)
  <1>1. memFree \in Seq(MemBlock) /\ AllWhole(memFree) /\ HeapsOf(memHeaps)
    BY DEF MemIInv, Sound
  <1>2. memFree # << >>
    BY <1>1
  <1>3. PICK k \in 1 .. Len(memHeaps) :
          memUp /\ ListBytes(memFree) \cup HeldBytes(memUsed) = HeapBytes(memHeaps, k)
    BY <1>2 DEF MemIInv
  <1>4. memFree[i] \in MemBlock /\ Whole(memFree[i].at) /\ Whole(memFree[i].size)
    BY <1>1 DEF AllWhole
  <1>5. BlockBytes(memFree[i]) \subseteq ListBytes(memFree)
    BY <1>1, InBytes
  <1>6. BlockBytes(memFree[i]) \subseteq HeapBytes(memHeaps, k)
    BY <1>3, <1>5
  <1>7. End(memFree[i]) < MemWidth
    BY <1>1, <1>4, <1>6, WithinHeaps
  <1> QED
    BY <1>3, <1>4, <1>5, <1>7

\* eh_malloc
LEMMA MallocIs ==
  ASSUME MemIInv, NEW n \in MemRequests, MemMalloc(n)
  PROVE  MemIInv'
  <1> DEFINE size == MemSize(n)
             i == FirstFit(size)
             b == memFree[i]
             mid == Mid(b, size)
             c == Part(b, size)
             new == Splice(memFree, i - 1, mid, i)
  <1>1. size # 0 /\ i # 0 /\ memUp
    BY DEF MemMalloc, MemFinds
  <1>2. size = MemUp(n) /\ n \in Nat \ {0} /\ size \in Nat \ {0} /\ Whole(size)
    BY <1>1, SizeIs
  <1>3. memFree \in Seq(MemBlock) /\ Sound(memFree, memUsed) /\ InLine(memFree)
    BY DEF MemIInv, Sound
  <1>4. i \in 1 .. Len(memFree) /\ size <= b.size
    <2>1. i \in 1 .. Len(memFree) /\ b.size >= size
      BY <1>1, <1>2, <1>3, FirstFitIs
    <2>2. b.size \in Nat
      BY <1>3, <2>1, ListFields
    <2> HIDE DEF i, size
    <2> QED
      BY <1>2, <2>1, <2>2
  <1>5. b \in MemBlock /\ Whole(b.at) /\ Whole(b.size) /\ End(b) < MemWidth
    BY <1>4, InHeaps
  <1>6. /\ memFree' = new
        /\ memUsed' = Taken(memUsed, c)
        /\ memFreeSize' = memFreeSize - b.size + IF Splits(b, size) THEN Rest(b, size).size ELSE 0
        /\ memMin' = IF memFreeSize' < memMin THEN memFreeSize' ELSE memMin
        /\ memUseCnt' = memUseCnt + 1
        /\ memHeaps' = memHeaps /\ memUp' = memUp
    <2>1. memFree' = new
      BY DEF MemMalloc, Splice, Mid, Splits, Rest
    <2>2. memUsed' = Taken(memUsed, c)
      <3>1. c.at = b.at /\ c.size = IF Splits(b, size) THEN size ELSE b.size
        BY DEF Part
      <3>2. memUsed' = [a \in DOMAIN memUsed \cup {b.at} |->
                          IF a = b.at THEN IF Splits(b, size) THEN size ELSE b.size ELSE memUsed[a]]
        BY DEF MemMalloc, Splits, Rest
      <3> HIDE DEF b, c, size
      <3> QED
        BY <3>1, <3>2 DEF Taken
    <2>3. /\ memFreeSize' = memFreeSize - b.size + IF Splits(b, size) THEN Rest(b, size).size ELSE 0
          /\ memMin' = IF memFreeSize' < memMin THEN memFreeSize' ELSE memMin
          /\ memUseCnt' = memUseCnt + 1
          /\ memHeaps' = memHeaps /\ memUp' = memUp
      BY DEF MemMalloc, Splits, Rest
    <2> QED
      BY <2>1, <2>2, <2>3
  <1> HIDE DEF i, size, b
  <1>7. /\ c \in MemBlock /\ c.at = b.at /\ Whole(c.at) /\ Whole(c.size)
        /\ mid \in Seq(MemBlock) /\ InLine(mid) /\ AllWhole(mid) /\ Divides(b, c, mid)
        /\ MemTotal(mid) = IF Splits(b, size) THEN Rest(b, size).size ELSE 0
        /\ \A j \in 1 .. Len(mid) : b.at < mid[j].at /\ End(mid[j]) = End(b)
    BY <1>2, <1>4, <1>5, SplitIs
  <1> HIDE DEF mid, c
  <1>8. Fits(memFree, i - 1, mid, i)
    BY <1>3, <1>4, <1>7, MallocFits DEF b
  <1>9. /\ Sound(new, Taken(memUsed, c)) /\ SameBytes(memFree, memUsed, new, Taken(memUsed, c))
        /\ Cardinality(DOMAIN Taken(memUsed, c)) = Cardinality(DOMAIN memUsed) + 1
        /\ MemTotal(new) + b.size = MemTotal(memFree) + MemTotal(mid)
    BY <1>3, <1>4, <1>7, <1>8, TakeSound DEF b
  <1> HIDE DEF new
  <1>10. Sound(memFree', memUsed') /\ SameBytes(memFree, memUsed, memFree', memUsed')
    BY <1>6, <1>9
  <1>11. MemTotal(memFree) \in Nat /\ MemTotal(new) \in Nat
    <2>1. new \in Seq(MemBlock)
      BY <1>9 DEF Sound
    <2>2. Len(new) \in 0 .. Len(new) /\ Len(memFree) \in 0 .. Len(memFree)
      BY <1>3, <2>1
    <2> QED
      BY <1>3, <2>1, <2>2, PartIs
  <1>12. memFreeSize' = MemTotal(new) /\ memMin' \in Nat /\ 0 <= memMin' /\ memMin' <= memFreeSize'
    <2> DEFINE x == b.size
               y == MemTotal(mid)
               p == MemTotal(memFree)
               q == MemTotal(new)
    <2>1. /\ memFreeSize = p /\ memFreeSize' = memFreeSize - x + y
          /\ memMin' = IF memFreeSize' < memMin THEN memFreeSize' ELSE memMin
          /\ q + x = p + y /\ p \in Nat /\ q \in Nat
      BY <1>6, <1>7, <1>9, <1>11 DEF MemIInv, MemCounts
    <2>2. x \in Nat /\ y \in Nat
      <3>1. Len(mid) \in 0 .. Len(mid)
        BY <1>7
      <3> QED
        BY <1>5, <1>7, <3>1, BlockFields, PartIs
    <2>3. memMin \in Nat /\ memMin <= memFreeSize
      BY DEF MemIInv, MemCounts
    <2> HIDE DEF x, y, p, q
    <2>4. memFreeSize' = q
      BY <2>1, <2>2
    <2>5. memMin' \in Nat /\ 0 <= memMin' /\ memMin' <= memFreeSize'
      BY <2>1, <2>3, <2>4
    <2> QED
      BY <2>4, <2>5 DEF q
  <1>13. MemCounts'
    BY <1>6, <1>9, <1>12 DEF MemCounts, MemIInv
  <1>14. /\ memUp' => \E k \in 1 .. Len(memHeaps') :
                        ListBytes(memFree') \cup HeldBytes(memUsed') = HeapBytes(memHeaps', k)
    BY <1>6, <1>10 DEF MemIInv, SameBytes
  <1>15. HeapsOf(memHeaps') /\ Len(memHeaps') >= 1 /\ memUp' \in BOOLEAN /\ memUp'
    BY <1>1, <1>6 DEF MemIInv
  <1> QED
    BY <1>10, <1>12, <1>13, <1>14, <1>15 DEF MemIInv

\* eh_free
LEMMA ReleaseIs ==
  ASSUME MemIInv, NEW a \in DOMAIN memUsed, MemRelease(a)
  PROVE  MemIInv'
  <1> DEFINE b == HeldBlock(memUsed, a)
             new == MemInsert(memFree, b)
             g == MemGain(memFree, b)
  <1>1. /\ memFree' = new /\ memUsed' = Given(memUsed, a)
        /\ memFreeSize' = memFreeSize + g /\ memUseCnt' = memUseCnt - 1
        /\ memHeaps' = memHeaps /\ memUp' = memUp /\ memMin' = memMin
    BY DEF MemRelease, HeldBlock, Given
  <1>2. /\ Sound(new, Given(memUsed, a)) /\ SameBytes(memFree, memUsed, new, Given(memUsed, a))
        /\ Cardinality(DOMAIN Given(memUsed, a)) = Cardinality(DOMAIN memUsed) - 1
        /\ MemTotal(new) = MemTotal(memFree) + g
        /\ g \in Nat
    BY GiveSound DEF MemIInv
  <1> HIDE DEF new, g, b
  <1>3. Sound(memFree', memUsed') /\ SameBytes(memFree, memUsed, memFree', memUsed')
    BY <1>1, <1>2
  <1>4. MemCounts'
    <2>1. MemTotal(memFree) \in Nat
      <3>1. memFree \in Seq(MemBlock)
        BY DEF MemIInv, Sound
      <3>2. Len(memFree) \in 0 .. Len(memFree)
        BY <3>1
      <3> QED
        BY <3>1, <3>2, PartIs
    <2>2. memFreeSize = MemTotal(memFree) /\ memMin \in Nat /\ memMin <= memFreeSize
      BY DEF MemIInv, MemCounts
    <2> DEFINE p == MemTotal(memFree)
    <2>3. p \in Nat /\ memFreeSize = p
      BY <2>1, <2>2
    <2> HIDE DEF p
    <2>4. 0 <= memMin' /\ memMin' <= memFreeSize'
      BY <1>1, <1>2, <2>2, <2>3
    <2>5. memFreeSize' = MemTotal(memFree') /\ memUseCnt' = Cardinality(DOMAIN memUsed')
      BY <1>1, <1>2 DEF MemIInv, MemCounts
    <2> QED
      BY <2>4, <2>5 DEF MemCounts
  <1>5. memUp
    BY DEF MemIInv
  <1>6. /\ memUp' => \E k \in 1 .. Len(memHeaps') :
                        ListBytes(memFree') \cup HeldBytes(memUsed') = HeapBytes(memHeaps', k)
    BY <1>1, <1>3 DEF MemIInv, SameBytes
  <1>7. HeapsOf(memHeaps') /\ Len(memHeaps') >= 1 /\ memUp' \in BOOLEAN /\ memUp' /\ memMin' \in Nat
    BY <1>1, <1>5 DEF MemIInv
  <1> QED
    BY <1>3, <1>4, <1>6, <1>7 DEF MemIInv

\* Without blocks in use.
LEMMA EmptySound ==
  ASSUME NEW free, NEW used, free \in Seq(MemBlock), InLine(free), AllWhole(free), DOMAIN used = {}
  PROVE  Sound(free, used) /\ HeldBytes(used) = {}
  <1>1. IsFiniteSet(DOMAIN used)
    BY FS_EmptySet
  <1> QED
    BY <1>1 DEF Sound, HeldBytes

\* The invariant holds at the start, and every step keeps it.
LEMMA HeapStarts ==
  ASSUME MemStart
  PROVE  MemIInv
  <1>1. DOMAIN memUsed = {} /\ Cardinality(DOMAIN memUsed) = 0
    <2>1. DOMAIN memUsed = {}
      BY DEF MemStart
    <2> QED
      BY <2>1, FS_EmptySet
  <1>2. Sound(memFree, memUsed) /\ MemTotal(memFree) = 0
    BY <1>1, NoBlock, EmptySound DEF MemStart
  <1>3. HeapsOf(memHeaps) /\ Len(memHeaps) >= 1
    <2>1. MemStatic \in AllHeaps
      BY DEF AllHeaps
    <2>2. memHeaps \in Seq(AllHeaps) /\ Len(memHeaps) = 1
      BY <2>1 DEF MemStart
    <2> QED
      BY <2>2 DEF HeapsOf
  <1>4. MemCounts
    BY <1>1, <1>2 DEF MemStart, MemCounts
  <1> QED
    BY <1>1, <1>2, <1>3, <1>4 DEF MemIInv, MemStart

\* eh_mem_heap_register
LEMMA RegisterIs ==
  ASSUME MemIInv, NEW h \in MemExtra, MemRegister(h)
  PROVE  MemIInv'
  <1>1. /\ memHeaps' = Append(memHeaps, h) /\ h \notin Range(memHeaps)
        /\ memUp' = memUp /\ memFree' = memFree /\ memUsed' = memUsed
        /\ memFreeSize' = memFreeSize /\ memUseCnt' = memUseCnt /\ memMin' = memMin
    BY DEF MemRegister
  <1>2. /\ memHeaps \in Seq(AllHeaps) /\ Len(memHeaps) >= 1 /\ h \in AllHeaps
        /\ \A i, j \in 1 .. Len(memHeaps) : memHeaps[i] = memHeaps[j] => i = j
    BY DEF MemIInv, HeapsOf, AllHeaps
  <1> DEFINE n == Len(memHeaps)
             new == memHeaps'
  <1>3. /\ new \in Seq(AllHeaps) /\ n \in Nat /\ Len(new) = n + 1
        /\ \A i \in 1 .. n : new[i] = memHeaps[i]
        /\ new[n + 1] = h
    BY <1>1, <1>2
  <1>4. \A i \in 1 .. n : new[i] # h
    <2>1. DOMAIN memHeaps = 1 .. n
      BY <1>2
    <2> QED
      BY <1>1, <1>3, <2>1 DEF Range
  <1> HIDE DEF new, n
  <1>5. ASSUME NEW i \in 1 .. Len(new), NEW j \in 1 .. Len(new), new[i] = new[j]
        PROVE  i = j
    <2>1. /\ i \in 1 .. n \/ i = n + 1
          /\ j \in 1 .. n \/ j = n + 1
      BY <1>3
    <2>2. CASE i \in 1 .. n /\ j \in 1 .. n
      BY <1>2, <1>3, <1>5, <2>2 DEF n
    <2> QED
      BY <1>3, <1>4, <1>5, <2>1, <2>2
  <1>6. HeapsOf(new)
    BY <1>3, <1>5 DEF HeapsOf
  <1>7. \A k \in 1 .. n : k \in 1 .. Len(new) /\ HeapBytes(new, k) = HeapBytes(memHeaps, k)
    <2>1. ASSUME NEW k \in 1 .. n
          PROVE  k \in 1 .. Len(new) /\ \A i \in 1 .. k : new[i] = memHeaps[i]
      BY <1>3
    <2> QED
      BY <2>1 DEF HeapBytes
  <1>8. /\ memUp' => \E k \in 1 .. Len(memHeaps') :
                        ListBytes(memFree') \cup HeldBytes(memUsed') = HeapBytes(memHeaps', k)
    BY <1>1, <1>7 DEF MemIInv, new, n
  <1>9. MemCounts' /\ Sound(memFree', memUsed')
    BY <1>1 DEF MemIInv, MemCounts
  <1>10. Len(memHeaps') >= 1
    BY <1>2, <1>3 DEF new, n
  <1> QED
    BY <1>1, <1>6, <1>8, <1>9, <1>10 DEF MemIInv, new

\* eh_mem_init
LEMMA MemInitIs ==
  ASSUME MemIInv, MemInit
  PROVE  MemIInv'
  <1>1. /\ memUp' = TRUE /\ memFree' = MemBuilt(memHeaps) /\ memFreeSize' = MemTotal(memFree')
        /\ memMin' = memFreeSize' /\ memUseCnt' = 0 /\ memHeaps' = memHeaps /\ memUsed' = memUsed
    BY DEF MemInit
  <1>2. HeapsOf(memHeaps) /\ Len(memHeaps) >= 1 /\ DOMAIN memUsed = {} /\ Len(memHeaps) \in Nat
    BY DEF MemIInv, MemInit, HeapsOf
  <1>3. BuiltSoFar(memHeaps, memFree', Len(memHeaps))
    BY <1>1, <1>2, BuiltIs
  <1>4. Sound(memFree', memUsed') /\ HeldBytes(memUsed') = {}
    BY <1>1, <1>2, <1>3, EmptySound DEF BuiltSoFar
  <1>5. memFreeSize' \in Nat
    <2>1. memFree' \in Seq(MemBlock)
      BY <1>3 DEF BuiltSoFar
    <2>2. Len(memFree') \in 0 .. Len(memFree')
      BY <2>1
    <2> QED
      BY <1>1, <2>1, <2>2, PartIs
  <1>6. MemCounts'
    <2>1. Cardinality(DOMAIN memUsed') = 0
      BY <1>1, <1>2, FS_EmptySet
    <2> QED
      BY <1>1, <1>5, <2>1 DEF MemCounts
  <1>7. ListBytes(memFree') \cup HeldBytes(memUsed') = HeapBytes(memHeaps', Len(memHeaps'))
    BY <1>1, <1>3, <1>4 DEF BuiltSoFar
  <1>8. Len(memHeaps') \in 1 .. Len(memHeaps')
    BY <1>1, <1>2
  <1> QED
    BY <1>1, <1>2, <1>4, <1>5, <1>6, <1>7, <1>8 DEF MemIInv

LEMMA HeapKeeps ==
  ASSUME MemIInv, [MemNext]_memVars
  PROVE  MemIInv'
  <1>1. CASE \E h \in MemExtra : MemRegister(h)
    BY <1>1, RegisterIs
  <1>2. CASE MemInit
    BY <1>2, MemInitIs
  <1>3. CASE \E n \in MemRequests : MemMalloc(n)
    BY <1>3, MallocIs
  <1>4. CASE \E a \in DOMAIN memUsed : MemRelease(a)
    BY <1>4, ReleaseIs
  <1>5. CASE UNCHANGED memVars
    BY <1>5 DEF memVars, MemIInv, MemCounts
  <1> QED
    BY <1>1, <1>2, <1>3, <1>4, <1>5 DEF MemNext

\* What the invariant is for.
LEMMA HeapTiles ==
  ASSUME MemIInv
  PROVE  MemTiles
  <1>1. memFree \in Seq(MemBlock) /\ InLine(memFree) /\ AllWhole(memFree) /\ Sound(memFree, memUsed)
    BY DEF MemIInv, Sound
  <1>2. FreeBytes = ListBytes(memFree)
    BY DEF FreeBytes, ListBytes
  <1>3. UsedBytes = HeldBytes(memUsed)
    BY DEF UsedBytes, UsedBlocks, HeldBytes, HeldBlock
  <1>4. ASSUME NEW b \in AllBlocks
        PROVE  \/ \E a \in DOMAIN memUsed : b = HeldBlock(memUsed, a)
               \/ \E i \in 1 .. Len(memFree) : b = memFree[i]
    <2>1. DOMAIN memFree = 1 .. Len(memFree)
      BY <1>1
    <2> QED
      BY <2>1 DEF AllBlocks, UsedBlocks, HeldBlock, Range
  <1>5. ASSUME NEW b \in AllBlocks, NEW c \in AllBlocks, b # c
        PROVE  BlockBytes(b) \cap BlockBytes(c) = {}
    <2>1. \A i \in 1 .. Len(memFree), a \in DOMAIN memUsed :
            BlockBytes(memFree[i]) \cap BlockBytes(HeldBlock(memUsed, a)) = {}
      <3>1. \A i \in 1 .. Len(memFree) : BlockBytes(memFree[i]) \subseteq ListBytes(memFree)
        BY <1>1, InBytes
      <3>2. \A a \in DOMAIN memUsed : ListBytes(memFree) \cap BlockBytes(HeldBlock(memUsed, a)) = {}
        BY <1>1 DEF Sound
      <3> QED
        BY <3>1, <3>2
    <2>2. \A i, j \in 1 .. Len(memFree) : i # j => BlockBytes(memFree[i]) \cap BlockBytes(memFree[j]) = {}
      BY <1>1, LineApart
    <2>3. \A a, e \in DOMAIN memUsed : a # e => BlockBytes(HeldBlock(memUsed, a)) \cap BlockBytes(HeldBlock(memUsed, e)) = {}
      BY <1>1 DEF Sound
    <2>4. CASE (\E a \in DOMAIN memUsed : b = HeldBlock(memUsed, a)) /\ (\E a \in DOMAIN memUsed : c = HeldBlock(memUsed, a))
      BY <1>5, <2>3, <2>4
    <2>5. CASE (\E i \in 1 .. Len(memFree) : b = memFree[i]) /\ (\E i \in 1 .. Len(memFree) : c = memFree[i])
      BY <1>5, <2>2, <2>5
    <2>6. CASE (\E a \in DOMAIN memUsed : b = HeldBlock(memUsed, a)) /\ (\E i \in 1 .. Len(memFree) : c = memFree[i])
      BY <2>1, <2>6
    <2>7. CASE (\E i \in 1 .. Len(memFree) : b = memFree[i]) /\ (\E a \in DOMAIN memUsed : c = HeldBlock(memUsed, a))
      BY <2>1, <2>7
    <2> QED
      BY <1>4, <2>4, <2>5, <2>6, <2>7
  <1>6. ASSUME NEW b \in AllBlocks
        PROVE  b.at % MemAlign = 0 /\ b.size % MemAlign = 0
    <2>1. Whole(b.at) /\ Whole(b.size)
      <3>1. CASE \E a \in DOMAIN memUsed : b = HeldBlock(memUsed, a)
        BY <1>1, <3>1, HeldFields
      <3>2. CASE \E i \in 1 .. Len(memFree) : b = memFree[i]
        BY <1>1, <3>2 DEF AllWhole
      <3> QED
        BY <1>4, <3>1, <3>2
    <2> QED
      BY <2>1 DEF Whole
  <1>7. memUp => \E k \in 1 .. Len(memHeaps) :
          FreeBytes \cup UsedBytes = UNION {BlockBytes(HeapBlock(memHeaps[i])) : i \in 1 .. k}
    BY <1>2, <1>3 DEF MemIInv, HeapBytes
  <1> QED
    BY <1>5, <1>6, <1>7 DEF MemTiles

LEMMA HeapOrdered ==
  ASSUME MemIInv
  PROVE  MemOrdered
  <1>1. memFree \in Seq(MemBlock) /\ InLine(memFree)
    BY DEF MemIInv, Sound
  <1>2. DOMAIN memFree = 1 .. Len(memFree)
    BY <1>1
  <1>3. ASSUME NEW i \in 1 .. Len(memFree), NEW j \in 1 .. Len(memFree), i < j
        PROVE  memFree[i].at < memFree[j].at /\ ~Meets(memFree[i], memFree[j])
    <2> DEFINE x == memFree[i].at
               y == memFree[j].at
               e == End(memFree[i])
               z == memFree[i].size
    <2>1. x \in Nat /\ y \in Nat /\ e \in Nat /\ z \in Nat /\ e = x + MemHead + z /\ e < y
      BY <1>1, <1>3, ListFields DEF InLine
    <2>2. Meets(memFree[i], memFree[j]) <=> x + z + MemHead = y
      BY DEF Meets
    <2> HIDE DEF x, y, e, z
    <2>3. x < y /\ x + z + MemHead # y
      BY <2>1, MemNumbers
    <2> QED
      BY <2>2, <2>3 DEF x, y
  <1> QED
    BY <1>2, <1>3 DEF MemOrdered

LEMMA HeapFinds ==
  ASSUME MemIInv
  PROVE  MemFindsSpace
  <1>1. memFree \in Seq(MemBlock) /\ InLine(memFree) /\ memFreeSize = MemTotal(memFree)
    BY DEF MemIInv, Sound, MemCounts
  <1>2. FreeBytes = ListBytes(memFree)
    BY DEF FreeBytes, ListBytes
  <1>3. \A c \in MemBlock : \A y : y \in BlockBytes(c) <=> y \in Int /\ c.at <= y /\ y < End(c)
    BY MemNumbers DEF BlockBytes, End, MemBlock
  <1>4. ASSUME NEW n \in MemRequests, n # 0, MemFinds(n)
        PROVE  \E a \in FreeBytes : a % MemAlign = 0 /\ a .. a + MemHead + MemUp(n) - 1 \subseteq FreeBytes
    <2> DEFINE size == MemSize(n)
               i == FirstFit(size)
               b == memFree[i]
    <2>1. size # 0 /\ i # 0 /\ size = MemUp(n) /\ size \in Nat
      BY <1>4, SizeIs DEF MemFinds
    <2>2. i \in 1 .. Len(memFree) /\ b.size >= size
      BY <1>1, <2>1, FirstFitIs
    <2> HIDE DEF i, size
    <2>3. /\ b \in MemBlock /\ Whole(b.at) /\ BlockBytes(b) \subseteq FreeBytes /\ b.at \in BlockBytes(b)
          /\ b.at \in Nat /\ b.size \in Nat
      BY <1>2, <2>2, InHeaps, AtInBytes, BlockFields
    <2>4. b.at .. b.at + MemHead + size - 1 \subseteq BlockBytes(b)
      <3> DEFINE x == b.at
                 y == b.size
      <3>1. BlockBytes(b) = x .. x + MemHead + y - 1 /\ x \in Nat /\ y \in Nat /\ y >= size
        BY <2>2, <2>3 DEF BlockBytes
      <3> HIDE DEF x, y, b
      <3>2. x .. x + MemHead + size - 1 \subseteq x .. x + MemHead + y - 1
        BY <2>1, <3>1, MemNumbers
      <3> QED
        BY <3>1, <3>2 DEF x
    <2> QED
      BY <2>1, <2>3, <2>4 DEF Whole
  <1>5. ASSUME NEW n \in MemRequests, n # 0, NEW a \in FreeBytes,
               a .. a + MemHead + MemUp(n) - 1 \subseteq FreeBytes
        PROVE  MemFinds(n)
    <2> DEFINE u == MemUp(n)
    <2>1. u \in Nat
      BY SizeIs
    <2>2. PICK i \in 1 .. Len(memFree) : a \in BlockBytes(memFree[i])
      BY <1>1, <1>2, InBytes
    <2> DEFINE b == memFree[i]
               e == End(b)
    <2>3. b \in MemBlock /\ e < MemWidth /\ e \in Nat
      BY InHeaps, BlockFields
    <2>4. a \in Int /\ b.at <= a /\ a < e
      BY <1>3, <2>2, <2>3
    <2>5. e \notin FreeBytes
      <3> SUFFICES ASSUME e \in FreeBytes PROVE FALSE
        OBVIOUS
      <3>1. PICK j \in 1 .. Len(memFree) : e \in BlockBytes(memFree[j])
        BY <1>1, <1>2, InBytes
      <3> DEFINE p == memFree[j].at
                 q == End(memFree[j])
                 r == b.at
      <3>2. p \in Nat /\ q \in Nat /\ r \in Nat /\ p <= e /\ e < q /\ r < e
        BY <1>1, <1>3, <2>3, <3>1, ListFields, BlockFields
      <3>3. i # j => (i < j /\ e < p) \/ (j < i /\ q < r)
        BY <1>1 DEF InLine
      <3>4. i = j => q = e
        OBVIOUS
      <3> HIDE DEF p, q, r, e
      <3> QED
        BY <2>3, <3>2, <3>3, <3>4
    <2>6. a + MemHead + u <= e
      <3>1. ASSUME ~(a + MemHead + u <= e)
            PROVE  FALSE
        <4> HIDE DEF e, u
        <4>1. e \in a .. a + MemHead + u - 1
          BY <2>1, <2>3, <2>4, <3>1, MemNumbers
        <4> QED
          BY <1>5, <2>5, <4>1 DEF u
      <3>2. a + MemHead + u \in Int
        <4> HIDE DEF u
        <4> QED
          BY <2>1, <2>4, MemNumbers
      <3> HIDE DEF e, u
      <3> QED
        BY <2>3, <3>1, <3>2
    <2>7. u <= b.size /\ u < MemWidth /\ b.size \in Nat
      <3> DEFINE x == b.at
                 y == b.size
      <3>1. x \in Nat /\ y \in Nat /\ e = x + MemHead + y /\ x <= a
        BY <2>3, <2>4, BlockFields
      <3> HIDE DEF x, y, e, u
      <3>2. u <= y /\ u < MemWidth
        BY <2>1, <2>3, <2>4, <2>6, <3>1, MemNumbers
      <3> QED
        BY <3>1, <3>2 DEF y
    <2>8. MemSize(n) = u /\ MemSize(n) # 0
      BY <1>5, <2>7, SizeIs
    <2> HIDE DEF u
    <2>9. FirstFit(u) # 0
      <3>1. memFree[i].size >= u
        BY <2>1, <2>7
      <3> QED
        BY <1>1, <2>1, <3>1, FirstFitIs
    <2>10. memFreeSize >= u
      <3> DEFINE s == MemPart(memFree)
                 z == MemTotal(memFree)
                 x == s[i - 1]
                 y == b.size
                 mid == << >>
      <3>1. /\ \A k \in 1 .. Len(memFree) : s[k] = s[k - 1] + memFree[k].size
            /\ \A k \in 0 .. Len(memFree) : s[k] \in Nat
        BY <1>1, PartIs
      <3>2. i - 1 \in 0 .. Len(memFree) /\ i \in 0 .. Len(memFree) /\ i \in Nat /\ i - 1 \in Nat
        BY <1>1
      <3>3. x \in Nat /\ s[i] = x + y
        BY <3>1, <3>2
      <3>a. /\ mid \in Seq(MemBlock) /\ MemTotal(mid) = 0 /\ 0 \in Nat /\ i \in Nat
            /\ 0 <= i /\ i <= Len(memFree)
        BY <1>1, <3>2, NoBlock
      <3> HIDE DEF s, mid
      <3>4. MemTotal(Splice(memFree, 0, mid, i)) + s[i] = z + s[0] + MemTotal(mid)
        BY <1>1, <3>a, SpliceTotal DEF s
      <3>5. s[0] = 0 /\ MemTotal(mid) = 0
        BY <1>1, <3>a, PartIs DEF s
      <3>6. Splice(memFree, 0, mid, i) \in Seq(MemBlock)
        BY <1>1, <3>a, SpliceSeq
      <3> DEFINE t == MemTotal(Splice(memFree, 0, mid, i))
                 f == Splice(memFree, 0, mid, i)
      <3>7. t \in Nat /\ z \in Nat
        <4> HIDE DEF f
        <4>1. Len(f) \in 0 .. Len(f) /\ Len(memFree) \in 0 .. Len(memFree)
          BY <1>1, <3>6 DEF f
        <4>2. MemTotal(f) \in Nat /\ z \in Nat
          BY <1>1, <3>6, <4>1, PartIs DEF f
        <4> QED
          BY <4>2 DEF f
      <3>8. /\ t + (x + y) = z /\ x \in Nat /\ y \in Nat /\ t \in Nat /\ z \in Nat /\ u <= y
            /\ memFreeSize = z
        <4> DEFINE o == s[i]
        <4>1. t + o = z + 0 + 0 /\ o = x + y /\ z \in Nat
          BY <3>3, <3>4, <3>5, <3>7
        <4>2. x \in Nat /\ y \in Nat /\ t \in Nat /\ z \in Nat /\ u <= y /\ memFreeSize = z
          BY <1>1, <2>7, <3>3, <3>7
        <4> HIDE DEF t, o, x, y, z
        <4> QED
          BY <4>1, <4>2
      <3> HIDE DEF t, x, y, z
      <3> QED
        BY <2>1, <3>8
    <2> QED
      BY <2>8, <2>9, <2>10 DEF MemFinds
  <1> QED
    BY <1>4, <1>5 DEF MemFindsSpace

\* Whatever sequence of eh_malloc and eh_free runs, on whatever heaps and for whatever
\* alignment, header and width, the free blocks and those in use tile the heaps, the list
\* is in order and joined, the counters are true, and eh_malloc finds what is there.
THEOREM HeapIsSound == MemSpec => []MemInv
  <1>1. MemStart => MemIInv
    BY HeapStarts
  <1>2. MemIInv /\ [MemNext]_memVars => MemIInv'
    BY HeapKeeps
  <1>3. MemIInv => MemInv
    BY HeapTiles, HeapOrdered, HeapFinds DEF MemInv, MemIInv
  <1> QED
    BY <1>1, <1>2, <1>3, PTL DEF MemSpec
=============================================================================
