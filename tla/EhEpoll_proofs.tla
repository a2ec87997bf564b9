---------------------------- MODULE EhEpoll_proofs ----------------------------
(***************************************************************************)
(* The pending list of an epoll agrees with the marks of the receptors,    *)
(* its task sleeps only while there is nothing to report, and what it is   *)
(* told is a queue of what happened, for every set of events and every     *)
(* number of slots.  On top of it, the triggers of an event loop and the   *)
(* slots that are connected to them agree, for every set of slots and of   *)
(* connections.                                                            *)
(***************************************************************************)
EXTENDS EhEventCb, WellFoundedInduction, FiniteSetTheorems, TLAPS

\* The invariant with the shapes of the pending list and of the marks.
EpollIInv ==
  /\ pending \in Seq(Events)
  /\ mask = [e \in Events |-> mask[e]]
  /\ EpollInv

\* What eh_list_add_tail does to the members of a list without repetition.
LEMMA AppendMembers ==
  ASSUME NEW S, NEW q \in Seq(S), NEW e \in S, IsInjective(q), e \notin Range(q)
  PROVE  /\ Append(q, e) \in Seq(S) /\ IsInjective(Append(q, e))
         /\ Range(Append(q, e)) = Range(q) \cup {e}
  <1> DEFINE r == Append(q, e)
             n == Len(q)
  <1>1. /\ n \in Nat /\ DOMAIN q = 1 .. n
        /\ r \in Seq(S) /\ DOMAIN r = 1 .. n + 1
        /\ \A i \in 1 .. n : r[i] = q[i]
        /\ r[n + 1] = e
    OBVIOUS
  <1> HIDE DEF r, n
  <1>2. /\ \A i \in 1 .. n : i \in 1 .. n + 1
        /\ n + 1 \in 1 .. n + 1
        /\ \A i \in 1 .. n + 1 : i \in 1 .. n \/ i = n + 1
    BY <1>1
  <1>3. IsInjective(r)
    BY <1>1, <1>2 DEF IsInjective, Range
  <1>4. \A f : f \in Range(r) <=> f \in Range(q) \/ f = e
    BY <1>1, <1>2 DEF Range
  <1> QED
    BY <1>1, <1>3, <1>4 DEF r

\* What eh_list_del does to them.
LEMMA UnlinkMembers ==
  ASSUME NEW S, NEW q \in Seq(S), NEW e \in S, IsInjective(q)
  PROVE  /\ EpollUnlink(q, e) \in Seq(S) /\ IsInjective(EpollUnlink(q, e))
         /\ Range(EpollUnlink(q, e)) = Range(q) \ {e}
  <1>1. CASE e \notin Range(q)
    BY <1>1 DEF EpollUnlink
  <1>2. CASE e \in Range(q)
    <2>1. PICK k \in DOMAIN q : q[k] = e /\ EpollUnlink(q, e) = RemoveAt(q, k)
      BY <1>2, Zenon DEF EpollUnlink, Range
    <2> DEFINE n == Len(q)
               x == SubSeq(q, 1, k - 1)
               y == SubSeq(q, k + 1, n)
               r == RemoveAt(q, k)
    <2>2. /\ n \in Nat /\ DOMAIN q = 1 .. n /\ k \in 1 .. n
          /\ x \in Seq(S) /\ y \in Seq(S)
          /\ Len(x) = k - 1 /\ Len(y) = n - k
          /\ \A i \in 1 .. k - 1 : x[i] = q[i]
          /\ \A i \in 1 .. n - k : y[i] = q[i + k]
      OBVIOUS
    <2>3. r = x \o y
      BY DEF RemoveAt
    <2> HIDE DEF n, x, y, r
    <2>4. /\ r \in Seq(S) /\ Len(r) = Len(x) + Len(y) /\ DOMAIN r = 1 .. Len(r)
          /\ \A i \in 1 .. Len(x) + Len(y) :
               r[i] = IF i <= Len(x) THEN x[i] ELSE y[i - Len(x)]
      BY <2>2, <2>3, SMTT(30)
    <2>5. Len(x) + Len(y) = n - 1 /\ n \in Nat /\ k \in Nat /\ 1 <= k /\ k <= n
      BY <2>2
    <2>6. ASSUME NEW i \in 1 .. n - 1
          PROVE  r[i] = IF i < k THEN q[i] ELSE q[i + 1]
      <3>1. CASE i < k
        <4>1. i \in 1 .. k - 1 /\ i <= Len(x) /\ i \in 1 .. Len(x) + Len(y)
          BY <2>2, <2>5, <3>1
        <4> QED
          BY <2>2, <2>4, <3>1, <4>1
      <3>2. CASE ~(i < k)
        <4>1. /\ i - (k - 1) \in 1 .. n - k /\ i - (k - 1) + k = i + 1
              /\ ~(i <= Len(x)) /\ i \in 1 .. Len(x) + Len(y) /\ i - Len(x) = i - (k - 1)
          BY <2>2, <2>5, <3>2
        <4>2. r[i] = y[i - (k - 1)]
          BY <2>4, <4>1
        <4>3. y[i - (k - 1)] = q[i + 1]
          BY <2>2, <4>1
        <4> QED
          BY <3>2, <4>2, <4>3
      <3> QED
        BY <3>1, <3>2
    <2>7. DOMAIN r = 1 .. n - 1
      BY <2>4, <2>5
    <2>8. IsInjective(r)
      <3> SUFFICES ASSUME NEW i \in 1 .. n - 1, NEW j \in 1 .. n - 1, r[i] = r[j]
                   PROVE  i = j
        BY <2>7 DEF IsInjective
      <3> DEFINE at(l) == IF l < k THEN l ELSE l + 1
      <3>1. at(i) \in 1 .. n /\ at(j) \in 1 .. n /\ r[i] = q[at(i)] /\ r[j] = q[at(j)]
        BY <2>5, <2>6
      <3>2. at(i) = at(j)
        BY <2>2, <3>1, ZenonT(40) DEF IsInjective
      <3> QED
        BY <2>5, <3>2
    <2>9. ASSUME NEW f
          PROVE  f \in Range(r) <=> f \in Range(q) /\ f # e
      <3>1. ASSUME NEW i \in 1 .. n - 1, r[i] = f
            PROVE  f \in Range(q) /\ f # e
        <4> DEFINE j == IF i < k THEN i ELSE i + 1
        <4>1. j \in 1 .. n /\ j # k /\ q[j] = f
          BY <2>5, <2>6, <3>1
        <4> HIDE DEF j
        <4> QED
          BY <2>1, <2>2, <4>1 DEF IsInjective, Range
      <3>2. ASSUME NEW j \in 1 .. n, q[j] = f, f # e
            PROVE  f \in Range(r)
        <4> DEFINE i == IF j < k THEN j ELSE j - 1
        <4>1. j # k
          BY <2>1, <3>2
        <4>2. i \in 1 .. n - 1 /\ (IF i < k THEN i ELSE i + 1) = j
          BY <2>5, <4>1
        <4>3. r[i] = f
          BY <2>6, <3>2, <4>2
        <4> HIDE DEF i
        <4> QED
          BY <2>7, <4>2, <4>3 DEF Range
      <3> QED
        BY <2>2, <2>7, <3>1, <3>2 DEF Range
    <2> QED
      BY <2>1, <2>4, <2>8, <2>9 DEF r
  <1> QED
    BY <1>1, <1>2

\* What _eh_epoll_pending_read_on_lock takes off the front and leaves behind.
LEMMA ReadMembers ==
  ASSUME pending \in Seq(Events), IsInjective(pending), SlotSize \in Nat
  PROVE  LET rest == SubSeq(pending, Len(Batch) + 1, Len(pending))
         IN  /\ rest \in Seq(Events) /\ IsInjective(rest)
             /\ Range(rest) = Range(pending) \ Range(Batch)
             /\ Range(Batch) \subseteq Events
  <1> DEFINE n == Len(pending)
             k == IF n < SlotSize THEN n ELSE SlotSize
             r == SubSeq(pending, k + 1, n)
             b == SubSeq(pending, 1, k)
  <1>1. /\ n \in Nat /\ k \in 0 .. n /\ DOMAIN pending = 1 .. n
        /\ \A i \in 1 .. n : pending[i] \in Events
    OBVIOUS
  <1> HIDE DEF k
  <1>2. /\ r \in Seq(Events) /\ DOMAIN r = 1 .. n - k
        /\ \A i \in 1 .. n - k : r[i] = pending[i + k]
        /\ Len(b) = k /\ DOMAIN b = 1 .. k
        /\ \A i \in 1 .. k : b[i] = pending[i]
    BY <1>1
  <1>3. b = Batch /\ Len(Batch) = k
    BY <1>2 DEF Batch, k
  <1> HIDE DEF n, r, b
  <1>4. IsInjective(r)
    <2> SUFFICES ASSUME NEW i \in 1 .. n - k, NEW j \in 1 .. n - k, r[i] = r[j]
                 PROVE  i = j
      BY <1>2 DEF IsInjective
    <2>1. i + k \in 1 .. n /\ j + k \in 1 .. n
      BY <1>1
    <2>2. i + k = j + k
      BY <1>1, <1>2, <2>1 DEF IsInjective
    <2> QED
      BY <1>1, <2>2
  <1>5. ASSUME NEW f
        PROVE  f \in Range(r) <=> f \in Range(pending) /\ f \notin Range(b)
    <2>1. ASSUME NEW i \in 1 .. n - k, r[i] = f
          PROVE  f \in Range(pending) /\ f \notin Range(b)
      <3>1. i + k \in 1 .. n /\ pending[i + k] = f
        BY <1>1, <1>2, <2>1
      <3>2. ASSUME NEW j \in 1 .. k
            PROVE  b[j] # f
        <4>1. j \in 1 .. n /\ j # i + k
          BY <1>1
        <4> QED
          BY <1>1, <1>2, <3>1, <4>1 DEF IsInjective
      <3> QED
        BY <1>1, <1>2, <3>1, <3>2 DEF Range
    <2>2. ASSUME NEW j \in 1 .. n, pending[j] = f, f \notin Range(b)
          PROVE  f \in Range(r)
      <3>1. j \notin 1 .. k
        BY <1>2, <2>2 DEF Range
      <3>2. j - k \in 1 .. n - k /\ j - k + k = j
        BY <1>1, <3>1
      <3> QED
        BY <1>2, <2>2, <3>2 DEF Range
    <2> QED
      BY <1>1, <1>2, <2>1, <2>2 DEF Range
  <1>6. Range(b) \subseteq Events
    <2>1. \A i \in 1 .. k : i \in 1 .. n
      BY <1>1
    <2> QED
      BY <1>1, <1>2, <2>1 DEF Range
  <1> QED
    BY <1>2, <1>3, <1>4, <1>5, <1>6 DEF r, n

\* An event's receptor gets a bit: it is pending from now on, and a sleeping task wakes up.
LEMMA TriggerKeeps ==
  ASSUME EpollIInv, NEW e \in epollTree, NEW bit, TriggerReceptor(e, bit),
         epollTree' = epollTree, wakeupTask' = wakeupTask, wait' = wait, epollTimer' = epollTimer,
         bit = "error" => e \notin linked', bit # "error" => e \in linked,
         linked' \subseteq linked
  PROVE  EpollIInv'
  <1> USE DEF EpollIInv, EpollInv, TriggerReceptor
  <1>1. e \in Events /\ mask' = [f \in Events |-> mask'[f]]
        /\ \A f \in Events : mask'[f] = IF f = e THEN mask[e] \cup {bit} ELSE mask[f]
    OBVIOUS
  <1>2. /\ pending' \in Seq(Events) /\ IsInjective(pending')
        /\ Range(pending') = Range(pending) \cup {e}
    BY <1>1, AppendMembers
  <1>3. Range(pending') = {f \in Events : mask'[f] # {}}
    BY <1>1, <1>2
  <1>4. \A f \in Range(pending') : "error" \in mask'[f] => f \notin linked'
    BY <1>1, <1>2, <1>3
  <1>5. asleep' = FALSE
    OBVIOUS
  <1> QED
    BY <1>1, <1>2, <1>3, <1>4, <1>5

\* A batch is taken off the pending list, and its bits with it.
LEMMA ReadKeeps ==
  ASSUME EpollIInv, Read
  PROVE  /\ pending' \in Seq(Events) /\ IsInjective(pending')
         /\ mask' = [e \in Events |-> mask'[e]]
         /\ Range(pending') = {e \in Events : mask'[e] # {}}
         /\ Range(pending') \subseteq Range(pending)
         /\ \A e \in Range(pending') : mask'[e] = mask[e]
         /\ pending = << >> => pending' = << >>
  <1>1. /\ pending' \in Seq(Events) /\ IsInjective(pending')
        /\ Range(pending') = Range(pending) \ Range(Batch)
    BY ReadMembers, EpollConstants DEF EpollIInv, EpollInv, Read
  <1>2. mask' = [e \in Events |-> IF e \in Range(Batch) THEN {} ELSE mask[e]]
    BY DEF Read
  <1>3. pending = << >> => pending' = << >>
    BY EpollConstants DEF Read, Batch
  <1> QED
    BY <1>1, <1>2, <1>3 DEF EpollIInv, EpollInv

\* Every step keeps the invariant.
LEMMA EpollStepInv ==
  ASSUME EpollIInv, [EpollNext]_epollVars
  PROVE  EpollIInv'
  <1>1. CASE EpollWait \/ EpollWaitTimeout \/ EpollSleep \/ EpollWoken \/ EpollTimer \/ EpollTimedOut
    BY <1>1 DEF EpollIInv, EpollInv, EpollWait, EpollWaitTimeout, EpollSleep, EpollWoken, EpollTimer,
                EpollTimedOut
  <1>2. CASE EpollPoll
    <2>1. Read /\ UNCHANGED <<epollTree, linked, wakeupTask, asleep, wait, epollTimer>>
      BY <1>2 DEF EpollPoll
    <2> QED
      BY <2>1, ReadKeeps DEF EpollIInv, EpollInv
  <1>3. CASE EpollFound
    <2>1. Read /\ wait = "look" /\ UNCHANGED <<epollTree, linked, asleep>> /\ wakeupTask' = FALSE
      BY <1>3 DEF EpollFound
    <2> QED
      BY <2>1, ReadKeeps DEF EpollIInv, EpollInv
  <1>4. CASE EpollDelete
    <2>1. Range(<< >>) = {} /\ IsInjective(<< >>)
      BY DEF Range, IsInjective
    <2> QED
      BY <1>4, <2>1 DEF EpollIInv, EpollInv, EpollDelete
  <1>5. ASSUME NEW e \in Events, EpollAdd(e)
        PROVE  EpollIInv'
    BY <1>5 DEF EpollIInv, EpollInv, EpollAdd
  <1>6. ASSUME NEW e \in Events, EpollDel(e)
        PROVE  EpollIInv'
    <2>1. /\ pending' \in Seq(Events) /\ IsInjective(pending')
          /\ Range(pending') = Range(pending) \ {e}
      <3>1. pending \in Seq(Events) /\ IsInjective(pending) /\ pending' = EpollUnlink(pending, e)
        BY <1>6 DEF EpollDel, EpollIInv, EpollInv
      <3> QED
        BY <3>1, UnlinkMembers
    <2>2. pending = << >> => pending' = << >>
      BY <1>6 DEF EpollDel, EpollUnlink, Range
    <2> QED
      BY <1>6, <2>1, <2>2 DEF EpollIInv, EpollInv, EpollDel
  <1>7. ASSUME NEW e \in Events, EventNotify(e)
        PROVE  EpollIInv'
    <2>1. CASE e \in linked
      BY <1>7, <2>1, TriggerKeeps DEF EventNotify, EpollIInv, EpollInv
    <2>2. CASE e \notin linked
      BY <1>7, <2>2 DEF EventNotify, EpollIInv, EpollInv
    <2> QED
      BY <2>1, <2>2
  <1>8. ASSUME NEW e \in Events, EventClean(e)
        PROVE  EpollIInv'
    BY <1>8, TriggerKeeps DEF EventClean, EpollIInv, EpollInv
  <1>9. CASE UNCHANGED epollVars
    BY <1>9 DEF epollVars, EpollIInv, EpollInv
  <1> QED
    BY <1>1, <1>2, <1>3, <1>4, <1>5, <1>6, <1>7, <1>8, <1>9 DEF EpollNext

\* eh_epoll_add_event, _del_event, _del and _wait against notifications, cleanings and the
\* timeout: the pending list holds each receptor with a bit to report once, and no task
\* sleeps over one, however many events there are and however small the batches.
THEOREM EpollCorrect == EpollSpec => []EpollInv
  <1>1. EpollInit => EpollIInv
    BY DEF EpollInit, EpollIInv, EpollInv, Range, IsInjective
  <1>2. EpollIInv /\ [EpollNext]_epollVars => EpollIInv'
    BY EpollStepInv
  <1>3. EpollIInv => EpollInv
    BY DEF EpollIInv
  <1> QED
    BY <1>1, <1>2, <1>3, PTL DEF EpollSpec
-----------------------------------------------------------------------------
(***************************************************************************)
(* The epoll implements the queue it promises to its task.  An entry of    *)
(* the queue is what is to be said of a pending receptor; the entries of   *)
(* receptors that are not pending do not matter.                           *)
(***************************************************************************)

Mapped(list, f) == [i \in DOMAIN list |-> f[list[i]]]
Entries == [e \in Events |-> Entry(e)]
EntryRecords == [event : Events, affair : {"trigger", "error"}]

\* The image of a list is a list of the same length.
LEMMA MappedShape ==
  ASSUME NEW p \in Seq(Events), NEW f \in [Events -> EntryRecords]
  PROVE  /\ Mapped(p, f) \in Seq(EntryRecords) /\ Len(Mapped(p, f)) = Len(p)
         /\ DOMAIN Mapped(p, f) = 1 .. Len(p)
         /\ \A i \in 1 .. Len(p) : Mapped(p, f)[i] = f[p[i]]
  <1>1. Mapped(p, f) \in [1 .. Len(p) -> EntryRecords]
    BY DEF Mapped
  <1> QED
    BY <1>1 DEF Mapped

\* An append, and its image.
LEMMA MappedAppend ==
  ASSUME NEW p \in Seq(Events), NEW f \in [Events -> EntryRecords], NEW e \in Events
  PROVE  Mapped(Append(p, e), f) = Append(Mapped(p, f), f[e])
  <1> DEFINE a == Mapped(Append(p, e), f)
             b == Append(Mapped(p, f), f[e])
             m == Mapped(p, f)
             q == Append(p, e)
             n == Len(p)
  <1>1. /\ q \in Seq(Events) /\ Len(q) = n + 1 /\ n \in Nat /\ q[n + 1] = e
        /\ \A i \in 1 .. n : q[i] = p[i]
    OBVIOUS
  <1>2. /\ m \in Seq(EntryRecords) /\ Len(m) = n
        /\ \A i \in 1 .. n : m[i] = f[p[i]]
    BY MappedShape
  <1>3. /\ a \in Seq(EntryRecords) /\ Len(a) = n + 1
        /\ \A i \in 1 .. n + 1 : a[i] = f[q[i]]
    BY <1>1, MappedShape, ZenonT(40)
  <1>4. /\ b \in Seq(EntryRecords) /\ Len(b) = n + 1 /\ b[n + 1] = f[e]
        /\ \A i \in 1 .. n : b[i] = m[i]
    BY <1>2
  <1> HIDE DEF a, b, m, q, n
  <1>5. \A i \in 1 .. n + 1 : i \in 1 .. n \/ i = n + 1
    BY <1>1
  <1>6. \A i \in 1 .. n + 1 : a[i] = b[i]
    <2>1. \A i \in 1 .. n + 1 : a[i] = f[q[i]]
      BY <1>3
    <2>2. ASSUME NEW i \in 1 .. n + 1, i \in 1 .. n
          PROVE  a[i] = b[i]
      <3>1. q[i] = p[i]
        BY <1>1, <2>2, Zenon
      <3>2. b[i] = f[p[i]]
        BY <1>2, <1>4, <2>2, Zenon
      <3>3. a[i] = f[q[i]]
        BY <2>1, Zenon
      <3> QED
        BY <3>1, <3>2, <3>3, Zenon
    <2>3. a[n + 1] = b[n + 1]
      BY <1>1, <1>4, <2>1
    <2> QED
      BY <1>5, <2>2, <2>3
  <1>7. a = b
    BY <1>3, <1>4, <1>6
  <1> QED
    BY <1>7 DEF a, b

\* A part of a list, and its image.
LEMMA MappedSubSeq ==
  ASSUME NEW p \in Seq(Events), NEW f \in [Events -> EntryRecords],
         NEW x \in Nat, NEW y \in Nat, 1 <= x, y <= Len(p)
  PROVE  Mapped(SubSeq(p, x, y), f) = SubSeq(Mapped(p, f), x, y)
  <1> DEFINE q == SubSeq(p, x, y)
             m == Mapped(p, f)
             a == Mapped(q, f)
             b == SubSeq(m, x, y)
             k == IF x <= y THEN y - x + 1 ELSE 0
             n == Len(p)
  <1>1. /\ q \in Seq(Events) /\ Len(q) = k /\ k \in Nat /\ n \in Nat
        /\ \A i \in 1 .. k : q[i] = p[i + x - 1] /\ i + x - 1 \in 1 .. n
    OBVIOUS
  <1> HIDE DEF q, k, n
  <1>2. /\ m \in Seq(EntryRecords) /\ Len(m) = n
        /\ \A i \in 1 .. n : m[i] = f[p[i]]
    BY MappedShape DEF n
  <1>3. /\ a \in Seq(EntryRecords) /\ Len(a) = k
        /\ \A i \in 1 .. k : a[i] = f[q[i]]
    BY <1>1, MappedShape
  <1>4. /\ b \in Seq(EntryRecords) /\ Len(b) = k
        /\ \A i \in 1 .. k : b[i] = m[i + x - 1]
    BY <1>1, <1>2 DEF k, n
  <1> HIDE DEF a, b, m
  <1>5. ASSUME NEW i \in 1 .. k
        PROVE  a[i] = b[i]
    <2> DEFINE j == i + x - 1
    <2>1. q[i] = p[j] /\ j \in 1 .. n /\ b[i] = m[j] /\ a[i] = f[q[i]]
      BY <1>1, <1>3, <1>4
    <2> HIDE DEF j
    <2>2. m[j] = f[p[j]]
      BY <1>2, <2>1
    <2> QED
      BY <2>1, <2>2
  <1>6. a = b
    <2>1. \A i \in 1 .. k : a[i] = b[i]
      BY <1>5
    <2> QED
      BY <1>3, <1>4, <2>1
  <1> QED
    BY <1>6 DEF a, b, q, m

\* A list without one of its places, and its image.
LEMMA MappedRemove ==
  ASSUME NEW p \in Seq(Events), NEW f \in [Events -> EntryRecords], NEW k \in 1 .. Len(p)
  PROVE  Mapped(RemoveAt(p, k), f) = RemoveAt(Mapped(p, f), k)
  <1> DEFINE n == Len(p)
             x == SubSeq(p, 1, k - 1)
             y == SubSeq(p, k + 1, n)
             m == Mapped(p, f)
             u == SubSeq(m, 1, k - 1)
             v == SubSeq(m, k + 1, n)
             a == Mapped(x \o y, f)
             b == u \o v
  <1>1. /\ n \in Nat /\ x \in Seq(Events) /\ y \in Seq(Events)
        /\ k - 1 \in Nat /\ k + 1 \in Nat /\ 1 <= k + 1 /\ k - 1 <= n /\ n <= n
        /\ 1 \in Nat /\ 1 <= 1
    OBVIOUS
  <1>2. m \in Seq(EntryRecords) /\ Len(m) = n
    BY MappedShape
  <1>3. Mapped(x, f) = u /\ Mapped(y, f) = v
    BY <1>1, MappedSubSeq, ZenonT(40)
  <1> HIDE DEF x, y, u, v
  <1>4. /\ u \in Seq(EntryRecords) /\ Len(u) = Len(x) /\ \A i \in 1 .. Len(x) : u[i] = f[x[i]]
        /\ v \in Seq(EntryRecords) /\ Len(v) = Len(y) /\ \A i \in 1 .. Len(y) : v[i] = f[y[i]]
    <2>1. /\ Mapped(x, f) \in Seq(EntryRecords) /\ Len(Mapped(x, f)) = Len(x)
          /\ \A i \in 1 .. Len(x) : Mapped(x, f)[i] = f[x[i]]
      BY <1>1, MappedShape
    <2>2. /\ Mapped(y, f) \in Seq(EntryRecords) /\ Len(Mapped(y, f)) = Len(y)
          /\ \A i \in 1 .. Len(y) : Mapped(y, f)[i] = f[y[i]]
      BY <1>1, MappedShape
    <2> QED
      BY <1>3, <2>1, <2>2
  <1> DEFINE s == x \o y
             g == Len(x)
             h == Len(y)
  <1>5. /\ s \in Seq(Events) /\ Len(s) = g + h /\ g \in Nat /\ h \in Nat
        /\ \A i \in 1 .. g + h : s[i] = IF i <= g THEN x[i] ELSE y[i - g]
    BY <1>1
  <1>6. /\ b \in Seq(EntryRecords) /\ Len(b) = g + h
        /\ \A i \in 1 .. g + h : b[i] = IF i <= g THEN u[i] ELSE v[i - g]
    <2> HIDE DEF s
    <2>1. Len(u) = g /\ Len(v) = h
      BY <1>4
    <2>2. /\ b \in Seq(EntryRecords) /\ Len(b) = Len(u) + Len(v)
          /\ \A i \in 1 .. Len(u) + Len(v) :
               b[i] = IF i <= Len(u) THEN u[i] ELSE v[i - Len(u)]
      <3>1. u \in Seq(EntryRecords) /\ v \in Seq(EntryRecords)
        BY <1>4
      <3> QED
        BY <3>1
    <2> HIDE DEF g, h, b
    <2> QED
      BY <2>1, <2>2
  <1>7. /\ a \in Seq(EntryRecords) /\ Len(a) = g + h
        /\ \A i \in 1 .. g + h : a[i] = f[s[i]]
    BY <1>5, MappedShape, ZenonT(40)
  <1> HIDE DEF a, b, s, g, h
  <1>8. ASSUME NEW i \in 1 .. g + h
        PROVE  a[i] = b[i]
    <2>1. CASE i <= g
      <3>1. i \in 1 .. g
        BY <1>5, <2>1
      <3>2. u[i] = f[x[i]]
        BY <1>4, <3>1 DEF g
      <3>3. s[i] = x[i] /\ a[i] = f[s[i]] /\ b[i] = u[i]
        BY <1>5, <1>6, <1>7, <2>1
      <3> QED
        BY <3>2, <3>3
    <2>2. CASE ~(i <= g)
      <3>1. i - g \in 1 .. h
        BY <1>5, <2>2
      <3>2. v[i - g] = f[y[i - g]]
        BY <1>4, <3>1 DEF h
      <3> QED
        BY <1>5, <1>6, <1>7, <2>2, <3>2
    <2> QED
      BY <2>1, <2>2
  <1>9. a = b
    BY <1>6, <1>7, <1>8
  <1> QED
    BY <1>2, <1>9 DEF a, b, x, y, u, v, RemoveAt

\* The image depends on what is said of the members only.
LEMMA MappedSame ==
  ASSUME NEW p \in Seq(Events), NEW f, NEW g, \A e \in Range(p) : f[e] = g[e]
  PROVE  Mapped(p, f) = Mapped(p, g)
  <1>1. \A i \in DOMAIN p : p[i] \in Range(p)
    BY DEF Range
  <1> QED
    BY <1>1 DEF Mapped

\* The queue of the epoll is the image of its pending list.
LEMMA QueueFacts ==
  ASSUME EpollIInv
  PROVE  /\ pending \in Seq(Events)
         /\ Entries \in [Events -> EntryRecords]
         /\ Queue = Mapped(pending, Entries)
         /\ Queue \in Seq(EntryRecords) /\ Len(Queue) = Len(pending)
         /\ DOMAIN Queue = DOMAIN pending
         /\ \A i \in DOMAIN pending : /\ Queue[i] = Entry(pending[i])
                                      /\ Queue[i].event = pending[i]
         /\ \A e : Promised!Queued(e) <=> e \in Range(pending)
  <1>1. /\ pending \in Seq(Events)
        /\ Entries \in [Events -> EntryRecords]
    BY DEF EpollIInv, Entries, Entry, EntryRecords, Affair
  <1>2. \A i \in DOMAIN pending : pending[i] \in Events
    BY <1>1
  <1>3. Queue = Mapped(pending, Entries)
    BY <1>2 DEF Queue, Mapped, Entries
  <1>4. /\ Queue \in Seq(EntryRecords) /\ Len(Queue) = Len(pending)
        /\ DOMAIN Queue = DOMAIN pending
    BY <1>1, <1>3, MappedShape
  <1>5. \A i \in DOMAIN pending : /\ Queue[i] = Entry(pending[i])
                                  /\ Queue[i].event = pending[i]
    BY DEF Queue, Entry
  <1>6. \A e : Promised!Queued(e) <=> e \in Range(pending)
    BY <1>4, <1>5 DEF Promised!Queued, Range
  <1> QED
    BY <1>1, <1>3, <1>4, <1>5, <1>6

\* The same of the next state.
LEMMA QueueNext ==
  ASSUME EpollIInv'
  PROVE  Queue' = Mapped(pending', Entries')
  <1>1. \A i \in DOMAIN pending' : pending'[i] \in Events
    BY DEF EpollIInv
  <1> QED
    BY <1>1 DEF Queue, Mapped, Entries

\* Nothing is said of the pending receptors that was not said before.
LEMMA QueueStays ==
  ASSUME EpollIInv, EpollIInv', pending' = pending,
         \A e \in Range(pending) : mask'[e] = mask[e]
  PROVE  Queue' = Queue
  <1>1. \A e \in Range(pending) : e \in Events /\ Entries'[e] = Entries[e]
    BY DEF EpollIInv, EpollInv, Entries, Entry, Affair
  <1>2. Mapped(pending, Entries') = Mapped(pending, Entries)
    BY <1>1, QueueFacts, MappedSame
  <1> QED
    BY <1>2, QueueFacts, QueueNext

\* A notification or the cleaning of an event is what happens to it in the queue.
LEMMA TriggerHappens ==
  ASSUME EpollIInv, EpollIInv', NEW e \in epollTree, NEW bit \in {"trigger", "error"},
         TriggerReceptor(e, bit), UNCHANGED last
  PROVE  Promised!Happen(e, bit)
  <1>1. e \in Events /\ \A f \in Events : mask'[f] = IF f = e THEN mask[e] \cup {bit}
                                                              ELSE mask[f]
    BY DEF EpollIInv, EpollInv, TriggerReceptor
  <1>2. \A f \in Events : Entry(f)' = IF f = e THEN [event |-> e,
                                                     affair |-> IF bit = "error"
                                                                  THEN "error"
                                                                  ELSE Affair(e)]
                                               ELSE Entry(f)
    BY <1>1 DEF Entry, Affair
  <1>3. CASE e \in Range(pending)
    <2>1. pending' = pending
      BY <1>3 DEF TriggerReceptor
    <2>2. Promised!Queued(e)
      BY <1>3, QueueFacts
    <2>3. ASSUME NEW i \in DOMAIN pending
          PROVE  Entry(pending[i])' = IF Queue[i].event = e /\ bit = "error"
                                        THEN [Queue[i] EXCEPT !.affair = bit]
                                        ELSE Queue[i]
      <3>1. pending[i] \in Events /\ pending'[i] = pending[i]
        BY <2>1, QueueFacts
      <3>2. Queue[i] = [event |-> pending[i], affair |-> Affair(pending[i])]
        BY QueueFacts DEF Entry
      <3>3. Entry(pending[i])' = [event |-> pending[i],
                                  affair |-> IF pending[i] = e /\ bit = "error"
                                               THEN "error" ELSE Affair(pending[i])]
        BY <1>2, <2>1, <3>1 DEF Entry
      <3> QED
        BY <3>2, <3>3
    <2>4. Queue' = [i \in DOMAIN Queue |->
                      IF Queue[i].event = e /\ bit = "error"
                        THEN [Queue[i] EXCEPT !.affair = bit] ELSE Queue[i]]
      BY <2>1, <2>3, QueueFacts DEF Queue
    <2> QED
      BY <2>2, <2>4 DEF Promised!Happen
  <1>4. CASE e \notin Range(pending)
    <2>1. pending' = Append(pending, e) /\ mask[e] = {}
      BY <1>1, <1>4 DEF TriggerReceptor, EpollIInv, EpollInv
    <2>2. ~Promised!Queued(e)
      BY <1>4, QueueFacts
    <2>3. /\ Entries' \in [Events -> EntryRecords]
          /\ Entries'[e] = [event |-> e, affair |-> bit]
          /\ \A f \in Range(pending) : Entries'[f] = Entries[f]
      BY <1>1, <1>2, <1>4, <2>1 DEF Entries, Entry, Affair, EntryRecords, EpollIInv,
                                    EpollInv
    <2>4. Queue' = Append(Mapped(pending, Entries'), Entries'[e])
      BY <1>1, <2>1, <2>3, QueueFacts, QueueNext, MappedAppend
    <2>5. Mapped(pending, Entries') = Queue
      BY <2>3, QueueFacts, MappedSame
    <2> QED
      BY <2>2, <2>3, <2>4, <2>5 DEF Promised!Happen
  <1> QED
    BY <1>3, <1>4

\* A batch is a report, or a timeout when there is nothing to report.
LEMMA ReadReports ==
  ASSUME EpollIInv, EpollIInv', Read
  PROVE  Promised!Report \/ Promised!TimeOut
  <1> DEFINE n == IF Len(pending) < SlotSize THEN Len(pending) ELSE SlotSize
  <1>1. /\ Batch = SubSeq(pending, 1, n) /\ n \in Nat /\ n <= Len(pending)
        /\ n + 1 \in Nat /\ 1 <= n + 1 /\ 1 \in Nat /\ 1 <= 1 /\ Len(pending) \in Nat
        /\ Len(Batch) = n
    BY QueueFacts, EpollConstants DEF Batch
  <1>2. /\ Batch \in Seq(Events)
        /\ last' = Mapped(Batch, Entries)
        /\ pending' = SubSeq(pending, n + 1, Len(pending))
    <2>1. Batch \in Seq(Events)
      BY <1>1, QueueFacts
    <2>2. last' = Mapped(Batch, Entries)
      BY <2>1 DEF Read, Mapped, Entries
    <2> QED
      BY <1>1, <2>1, <2>2 DEF Read
  <1>3. n = IF Len(Queue) < SlotSize THEN Len(Queue) ELSE SlotSize
    BY QueueFacts
  <1>4. pending = <<>> <=> Queue = <<>>
    BY QueueFacts
  <1> HIDE DEF n
  <1>5. last' = SubSeq(Queue, 1, n)
    <2>1. Mapped(SubSeq(pending, 1, n), Entries) = SubSeq(Mapped(pending, Entries), 1, n)
      BY <1>1, QueueFacts, MappedSubSeq, Zenon
    <2> QED
      BY <1>1, <1>2, <2>1, QueueFacts, Zenon
  <1>6. Queue' = SubSeq(Queue, n + 1, Len(Queue))
    <2>1. \A e \in Range(pending') : Entries'[e] = Entries[e] /\ e \in Events
      <3>1. \A e \in Range(pending') : mask'[e] = mask[e] /\ e \in Events
        BY ReadKeeps DEF EpollIInv, EpollInv
      <3> QED
        BY <3>1 DEF Entries, Entry, Affair
    <2>2. pending' \in Seq(Events)
      BY ReadKeeps
    <2>3. Queue' = Mapped(pending', Entries)
      BY <2>1, <2>2, QueueNext, MappedSame
    <2>4. Mapped(SubSeq(pending, n + 1, Len(pending)), Entries)
            = SubSeq(Mapped(pending, Entries), n + 1, Len(pending))
      <3>1. Len(pending) <= Len(pending)
        BY <1>1
      <3> QED
        BY <1>1, <3>1, QueueFacts, MappedSubSeq, Zenon
    <2> QED
      BY <1>2, <2>3, <2>4, QueueFacts
  <1>7. CASE pending = <<>>
    <2>1. n = 0 /\ Len(Queue) = 0
      BY <1>7, QueueFacts, EpollConstants DEF n
    <2>2. Queue = <<>> /\ last' = <<>> /\ Queue' = <<>>
      BY <1>4, <1>5, <1>6, <1>7, <2>1, QueueFacts
    <2> QED
      BY <2>2 DEF Promised!TimeOut
  <1>8. CASE pending # <<>>
    BY <1>3, <1>4, <1>5, <1>6, <1>8 DEF Promised!Report
  <1> QED
    BY <1>7, <1>8

\* Every step of the epoll is a step of the queue or leaves it alone.
LEMMA QueueStep ==
  ASSUME EpollIInv, [EpollNext]_epollVars
  PROVE  \/ Promised!Report \/ Promised!TimeOut \/ Promised!ForgetAll
         \/ \E e \in Events : Promised!Forget(e)
                              \/ \E a \in Promised!Affairs : Promised!Happen(e, a)
         \/ UNCHANGED <<Queue, last>>
  <1>1. EpollIInv'
    BY EpollStepInv
  <1>2. CASE \/ EpollWait \/ EpollWaitTimeout \/ EpollSleep \/ EpollWoken \/ EpollTimer
             \/ UNCHANGED epollVars
    <2>1. UNCHANGED <<pending, mask, last>>
      BY <1>2 DEF EpollWait, EpollWaitTimeout, EpollSleep, EpollWoken, EpollTimer, epollVars
    <2> QED
      BY <1>1, <2>1, QueueStays
  <1>3. CASE EpollTimedOut
    <2>1. UNCHANGED <<pending, mask>> /\ last' = <<>> /\ pending = <<>>
      BY <1>3 DEF EpollTimedOut
    <2>2. Queue' = Queue /\ Queue = <<>>
      BY <1>1, <2>1, QueueStays, QueueFacts
    <2> QED
      BY <2>1, <2>2 DEF Promised!TimeOut
  <1>4. CASE EpollPoll \/ EpollFound
    BY <1>1, <1>4, ReadReports DEF EpollPoll, EpollFound
  <1>5. CASE EpollDelete
    <2>1. pending' = <<>> /\ last' = last
      BY <1>5 DEF EpollDelete
    <2>2. Queue' = <<>>
      BY <2>1 DEF Queue
    <2> QED
      BY <2>1, <2>2 DEF Promised!ForgetAll
  <1>6. ASSUME NEW e \in Events, EpollAdd(e)
        PROVE  UNCHANGED <<Queue, last>>
    <2>1. /\ UNCHANGED <<pending, last>> /\ e \notin Range(pending)
          /\ mask' = [mask EXCEPT ![e] = {}]
      BY <1>6 DEF EpollAdd, EpollIInv, EpollInv
    <2>2. \A f \in Range(pending) : mask'[f] = mask[f]
      BY <2>1 DEF EpollIInv, EpollInv
    <2> QED
      BY <1>1, <2>1, <2>2, QueueStays
  <1>7. ASSUME NEW e \in Events, EpollDel(e)
        PROVE  Promised!Forget(e) \/ UNCHANGED <<Queue, last>>
    <2>1. /\ pending' = EpollUnlink(pending, e) /\ last' = last
          /\ \A f \in Events : f # e => mask'[f] = mask[f]
      BY <1>7 DEF EpollDel, EpollIInv, EpollInv
    <2>2. CASE e \notin Range(pending)
      <3>1. pending' = pending /\ \A f \in Range(pending) : mask'[f] = mask[f]
        BY <2>1, <2>2 DEF EpollUnlink, EpollIInv, EpollInv
      <3> QED
        BY <1>1, <2>1, <3>1, QueueStays
    <2>3. CASE e \in Range(pending)
      <3>1. PICK k \in DOMAIN pending : pending[k] = e /\ pending' = RemoveAt(pending, k)
        BY <2>1, <2>3, Zenon DEF EpollUnlink, Range
      <3>2. /\ pending' \in Seq(Events) /\ e \notin Range(pending')
            /\ Range(pending') \subseteq Events
        <4>1. /\ pending \in Seq(Events) /\ IsInjective(pending)
              /\ Range(pending) \subseteq Events
          BY DEF EpollIInv, EpollInv
        <4>2. /\ pending' \in Seq(Events) /\ IsInjective(pending')
              /\ Range(pending') = Range(pending) \ {e}
          BY <2>1, <4>1, UnlinkMembers, ZenonT(40)
        <4> QED
          BY <4>1, <4>2
      <3>3. Queue' = Mapped(pending', Entries)
        <4>1. \A f \in Range(pending') : Entries'[f] = Entries[f]
          BY <2>1, <3>2 DEF Entries, Entry, Affair
        <4> QED
          BY <1>1, <3>2, <4>1, QueueNext, MappedSame
      <3>4. k \in 1 .. Len(pending)
        BY QueueFacts
      <3>5. Queue' = RemoveAt(Queue, k)
        BY <3>1, <3>3, <3>4, QueueFacts, MappedRemove
      <3>6. k \in DOMAIN Queue /\ Queue[k].event = e
        BY <3>1, QueueFacts
      <3> QED
        BY <2>1, <3>5, <3>6 DEF Promised!Forget, RemoveAt, Promised!RemoveAt
    <2> QED
      BY <2>2, <2>3
  <1>8. ASSUME NEW e \in Events, EventNotify(e)
        PROVE  Promised!Happen(e, "trigger") \/ UNCHANGED <<Queue, last>>
    <2>1. CASE e \in linked
      <3>1. e \in epollTree /\ TriggerReceptor(e, "trigger") /\ UNCHANGED last
        BY <1>8, <2>1 DEF EventNotify, EpollIInv, EpollInv
      <3> QED
        BY <1>1, <3>1, TriggerHappens
    <2>2. CASE e \notin linked
      <3>1. UNCHANGED <<pending, mask, last>>
        BY <1>8, <2>2 DEF EventNotify
      <3> QED
        BY <1>1, <3>1, QueueStays
    <2> QED
      BY <2>1, <2>2
  <1>9. ASSUME NEW e \in Events, EventClean(e)
        PROVE  Promised!Happen(e, "error")
    <2>1. e \in epollTree /\ TriggerReceptor(e, "error") /\ UNCHANGED last
      BY <1>9 DEF EventClean, EpollIInv, EpollInv
    <2> QED
      BY <1>1, <2>1, TriggerHappens
  <1>10. "trigger" \in Promised!Affairs /\ "error" \in Promised!Affairs
    BY DEF Promised!Affairs
  <1> QED
    BY <1>2, <1>3, <1>4, <1>5, <1>6, <1>7, <1>8, <1>9, <1>10, Zenon DEF EpollNext

\* Seen from the task that calls eh_epoll_wait the epoll is a queue: nothing is reported
\* twice, out of order or after its deletion, an error is not hidden by a later
\* notification, and no timeout is reported while there is something to report.
THEOREM EpollsReportInOrder == EpollSpec => ImplementsEpoll
  <1>1. EpollInit => Queue = <<>> /\ last = <<>>
    BY DEF EpollInit, Queue
  <1>2. EpollInit => EpollIInv
    BY DEF EpollInit, EpollIInv, EpollInv, Range, IsInjective
  <1>3. EpollIInv /\ [EpollNext]_epollVars => EpollIInv'
    BY EpollStepInv
  <1>4. EpollIInv /\ [EpollNext]_epollVars =>
          [\/ Promised!Report \/ Promised!TimeOut \/ Promised!ForgetAll
           \/ \E e \in Events : Promised!Forget(e)
                                \/ \E a \in Promised!Affairs : Promised!Happen(e, a)]_<<Queue, last>>
    BY QueueStep
  <1> QED
    BY <1>1, <1>2, <1>3, <1>4, PTL DEF EpollSpec, ImplementsEpoll, Promised!EpollSpec

-----------------------------------------------------------------------------
\* Induction over the numbers, for a set of them.
LEMMA SetInduction ==
  ASSUME NEW S, 0 \in S, \A n \in Nat : n \in S => n + 1 \in S
  PROVE  Nat \subseteq S
  <1> DEFINE T == Nat \ S
  <1> SUFFICES ASSUME T # {} PROVE FALSE
    OBVIOUS
  <1>1. PICK x \in T : \A y \in T : ~(<<y, x>> \in OpToRel(<, Nat))
    BY NatLessThanWellFounded, WFMin
  <1>2. x # 0 /\ x - 1 \in Nat /\ x - 1 < x /\ x \in Nat
    OBVIOUS
  <1>3. x - 1 \in T
    <2>1. (x - 1) + 1 = x
      BY <1>2
    <2> QED
      BY <1>2, <2>1
  <1>4. <<x - 1, x>> \in OpToRel(<, Nat)
    BY <1>2 DEF OpToRel
  <1> QED
    BY <1>1, <1>3, <1>4, Zenon

\* The walk along a list that picks out its members in a set.
OnlyStep(list, S, n, f) ==
  [i \in 0 .. n |-> IF i = 0 THEN << >>
                    ELSE IF list[i] \in S THEN Append(f[i - 1], list[i]) ELSE f[i - 1]]

LEMMA OnlyWalk ==
  ASSUME NEW list, NEW S, NEW n \in Nat
  PROVE  \E f : f = OnlyStep(list, S, n, f)
  <1> DEFINE A == {k \in Nat : \E f : f = OnlyStep(list, S, k, f)}
  <1>1. 0 \in A
    <2> DEFINE f == [i \in 0 .. 0 |-> << >>]
    <2>1. f = OnlyStep(list, S, 0, f)
      BY DEF OnlyStep
    <2> QED
      BY <2>1
  <1>2. ASSUME NEW k \in Nat, k \in A
        PROVE  k + 1 \in A
    <2>1. PICK f : f = OnlyStep(list, S, k, f)
      BY <1>2
    <2> DEFINE m == k + 1
               new == IF list[m] \in S THEN Append(f[k], list[m]) ELSE f[k]
               g == [i \in 0 .. m |-> IF i = m THEN new ELSE f[i]]
    <2>2. /\ k + 1 \in Nat /\ 0 # m /\ m - 1 = k /\ k # m
          /\ \A i \in 0 .. k : i \in 0 .. m /\ i # m /\ i - 1 # m
          /\ \A i \in 0 .. m : i # m => i \in 0 .. k
          /\ \A i \in 0 .. k : i # 0 => i - 1 \in 0 .. k
          /\ k \in 0 .. k /\ m \in Nat
      OBVIOUS
    <2> HIDE DEF m
    <2>3. \A i \in 0 .. k : f[i] = IF i = 0 THEN << >>
                            ELSE IF list[i] \in S THEN Append(f[i - 1], list[i]) ELSE f[i - 1]
      BY <2>1, Zenon DEF OnlyStep
    <2>4. \A i \in 0 .. k : g[i] = f[i]
      BY <2>2
    <2>5. ASSUME NEW i \in 0 .. m
          PROVE  g[i] = OnlyStep(list, S, m, g)[i]
      <3>1. OnlyStep(list, S, m, g)[i] =
              IF i = 0 THEN << >>
              ELSE IF list[i] \in S THEN Append(g[i - 1], list[i]) ELSE g[i - 1]
        BY Zenon DEF OnlyStep
      <3>2. CASE i = m
        <4>1. g[i] = new /\ g[i - 1] = f[k]
          BY <2>2, <2>4, <3>2
        <4> HIDE DEF g
        <4> QED
          BY <2>2, <3>1, <3>2, <4>1, Zenon
      <3>3. CASE i # m
        <4>1. i \in 0 .. k /\ g[i] = f[i] /\ (i # 0 => g[i - 1] = f[i - 1])
          BY <2>2, <2>4, <3>3
        <4> HIDE DEF g, new
        <4> QED
          BY <2>3, <3>1, <4>1, Zenon
      <3> QED
        BY <3>2, <3>3
    <2>6. g = [i \in 0 .. m |-> g[i]]
      OBVIOUS
    <2>7. OnlyStep(list, S, m, g) = [i \in 0 .. m |-> OnlyStep(list, S, m, g)[i]]
      BY DEF OnlyStep
    <2> HIDE DEF g
    <2>8. g = OnlyStep(list, S, m, g)
      BY <2>5, <2>6, <2>7
    <2> QED
      BY <2>2, <2>8 DEF m
  <1>3. Nat \subseteq A
    <2> HIDE DEF A
    <2> QED
      BY <1>1, <1>2, SetInduction
  <1> QED
    BY <1>3

LEMMA OnlyMembers ==
  ASSUME NEW T, NEW q \in Seq(T), NEW S, IsInjective(q)
  PROVE  /\ Only(q, S) \in Seq(T) /\ IsInjective(Only(q, S))
         /\ Range(Only(q, S)) = Range(q) \cap S
  <1> DEFINE n == Len(q)
             f == CHOOSE g : g = OnlyStep(q, S, n, g)
             Taken(k) == {q[i] : i \in 1 .. k} \cap S
             A == {k \in Nat : k <= n => /\ f[k] \in Seq(T) /\ IsInjective(f[k])
                                         /\ Range(f[k]) = Taken(k)}
  <1>1. n \in Nat /\ DOMAIN q = 1 .. n /\ \A i \in 1 .. n : q[i] \in T
    OBVIOUS
  <1>2. Only(q, S) = f[n]
    BY Zenon DEF Only, OnlyStep
  <1> HIDE DEF n
  <1>3. f = OnlyStep(q, S, n, f)
    <2>1. \E g : g = OnlyStep(q, S, n, g)
      BY <1>1, OnlyWalk
    <2> QED
      BY <2>1, Zenon
  <1> HIDE DEF f
  <1>4. \A i \in 0 .. n : f[i] = IF i = 0 THEN << >>
                            ELSE IF q[i] \in S THEN Append(f[i - 1], q[i]) ELSE f[i - 1]
    BY <1>3, Zenon DEF OnlyStep
  <1>5. 0 \in A
    <2>1. f[0] = << >>
      BY <1>1, <1>4
    <2>2. << >> \in Seq(T) /\ IsInjective(<< >>) /\ Range(<< >>) = {}
      BY DEF IsInjective, Range
    <2>3. Taken(0) = {}
      OBVIOUS
    <2> QED
      BY <2>1, <2>2, <2>3
  <1>6. ASSUME NEW k \in Nat, k \in A
        PROVE  k + 1 \in A
    <2> DEFINE m == k + 1
    <2> SUFFICES ASSUME m <= n
                 PROVE  /\ f[m] \in Seq(T) /\ IsInjective(f[m])
                        /\ Range(f[m]) = Taken(m)
      BY <1>1
    <2>1. /\ f[k] \in Seq(T) /\ IsInjective(f[k]) /\ Range(f[k]) = Taken(k)
      BY <1>1, <1>6
    <2>2. /\ m \in 0 .. n /\ m # 0 /\ m - 1 = k /\ m \in 1 .. n /\ q[m] \in T
          /\ \A i \in 1 .. k : i \in 1 .. n /\ i # m /\ i \in 1 .. m
          /\ \A i \in 1 .. m : i = m \/ i \in 1 .. k
      BY <1>1
    <2> HIDE DEF m
    <2>3. f[m] = IF q[m] \in S THEN Append(f[k], q[m]) ELSE f[k]
      BY <1>4, <2>2, Zenon
    <2>4. \A i \in 1 .. k : q[i] # q[m]
      BY <1>1, <2>2 DEF IsInjective
    <2>5. q[m] \notin Range(f[k])
      BY <2>1, <2>4
    <2>6. {q[i] : i \in 1 .. m} = {q[i] : i \in 1 .. k} \cup {q[m]}
      BY <2>2
    <2> HIDE DEF A
    <2>7. CASE q[m] \in S
      <3>1. /\ f[m] = Append(f[k], q[m])
            /\ f[m] \in Seq(T) /\ IsInjective(f[m]) /\ Range(f[m]) = Range(f[k]) \cup {q[m]}
        BY <2>1, <2>2, <2>3, <2>5, <2>7, AppendMembers
      <3> QED
        BY <2>1, <2>6, <2>7, <3>1
    <2>8. CASE q[m] \notin S
      BY <2>1, <2>3, <2>6, <2>8
    <2> QED
      BY <2>7, <2>8
  <1>7. Nat \subseteq A
    <2> HIDE DEF A
    <2> QED
      BY <1>5, <1>6, SetInduction
  <1>8. /\ f[n] \in Seq(T) /\ IsInjective(f[n]) /\ Range(f[n]) = Taken(n)
    <2>1. n \in A /\ n <= n
      <3> HIDE DEF A
      <3> QED
        BY <1>1, <1>7
    <2> QED
      BY <2>1
  <1>9. {q[i] : i \in 1 .. n} = Range(q)
    BY <1>1 DEF Range
  <1> QED
    BY <1>2, <1>8, <1>9

\* What moving the first node of a list to another one does to the members.
LEMMA TailMembers ==
  ASSUME NEW T, NEW q \in Seq(T), q # << >>, IsInjective(q)
  PROVE  /\ Head(q) \in Range(q) /\ Head(q) \in T
         /\ Tail(q) \in Seq(T) /\ IsInjective(Tail(q))
         /\ Range(Tail(q)) = Range(q) \ {Head(q)}
  <1> DEFINE n == Len(q)
             r == Tail(q)
  <1>1. /\ n \in Nat /\ n >= 1 /\ DOMAIN q = 1 .. n /\ Head(q) = q[1] /\ q[1] \in T
        /\ r \in Seq(T) /\ DOMAIN r = 1 .. n - 1
        /\ \A i \in 1 .. n - 1 : r[i] = q[i + 1]
    OBVIOUS
  <1> HIDE DEF n, r
  <1>2. /\ 1 \in 1 .. n /\ \A i \in 1 .. n - 1 : i + 1 \in 1 .. n /\ i + 1 # 1
        /\ \A i \in 1 .. n : i # 1 => i - 1 \in 1 .. n - 1 /\ (i - 1) + 1 = i
    BY <1>1
  <1>3. IsInjective(r)
    <2> SUFFICES ASSUME NEW i \in 1 .. n - 1, NEW j \in 1 .. n - 1, r[i] = r[j] PROVE i = j
      BY <1>1 DEF IsInjective
    <2>1. i + 1 = j + 1
      BY <1>1, <1>2 DEF IsInjective
    <2> QED
      BY <1>1, <2>1
  <1>4. ASSUME NEW x
        PROVE  x \in Range(r) <=> x \in Range(q) /\ x # q[1]
    <2>1. ASSUME NEW i \in 1 .. n - 1, r[i] = x
          PROVE  x \in Range(q) /\ x # q[1]
      <3>1. i + 1 \in 1 .. n /\ q[i + 1] = x /\ i + 1 # 1
        BY <1>1, <1>2, <2>1
      <3> QED
        BY <1>1, <1>2, <3>1 DEF Range, IsInjective
    <2>2. ASSUME NEW i \in 1 .. n, q[i] = x, x # q[1]
          PROVE  x \in Range(r)
      <3>1. i - 1 \in 1 .. n - 1 /\ r[i - 1] = x
        BY <1>1, <1>2, <2>2
      <3> QED
        BY <1>1, <3>1 DEF Range
    <2> QED
      BY <1>1, <2>1, <2>2 DEF Range
  <1>5. q[1] \in Range(q)
    BY <1>1, <1>2 DEF Range
  <1> QED
    BY <1>1, <1>3, <1>4, <1>5 DEF r

LEMMA PrependMembers ==
  ASSUME NEW T, NEW q \in Seq(T), NEW e \in T, IsInjective(q), e \notin Range(q)
  PROVE  /\ <<e>> \o q \in Seq(T) /\ IsInjective(<<e>> \o q)
         /\ Range(<<e>> \o q) = Range(q) \cup {e}
  <1> DEFINE n == Len(q)
             r == <<e>> \o q
  <1>1. /\ n \in Nat /\ DOMAIN q = 1 .. n
        /\ r \in Seq(T) /\ DOMAIN r = 1 .. n + 1 /\ r[1] = e
        /\ \A i \in 1 .. n + 1 : i # 1 => r[i] = q[i - 1] /\ i - 1 \in 1 .. n
    OBVIOUS
  <1> HIDE DEF n, r
  <1>2. /\ 1 \in 1 .. n + 1
        /\ \A i \in 1 .. n : i + 1 \in 1 .. n + 1 /\ i + 1 # 1 /\ (i + 1) - 1 = i
    BY <1>1
  <1>3. IsInjective(r)
    <2> SUFFICES ASSUME NEW i \in 1 .. n + 1, NEW j \in 1 .. n + 1, r[i] = r[j] PROVE i = j
      BY <1>1 DEF IsInjective
    <2>1. i # 1 => r[i] \in Range(q)
      BY <1>1 DEF Range
    <2>2. j # 1 => r[j] \in Range(q)
      BY <1>1 DEF Range
    <2>3. CASE i = 1 \/ j = 1
      BY <1>1, <2>1, <2>2, <2>3
    <2>4. CASE i # 1 /\ j # 1
      <3> DEFINE x == i - 1
                 y == j - 1
      <3>1. x \in 1 .. n /\ y \in 1 .. n /\ q[x] = q[y]
        BY <1>1, <2>4
      <3>2. x = y
        <4> HIDE DEF x, y
        <4> QED
          BY <1>1, <3>1 DEF IsInjective
      <3> QED
        BY <1>1, <3>2
    <2> QED
      BY <2>3, <2>4
  <1>4. ASSUME NEW x
        PROVE  x \in Range(r) <=> x \in Range(q) \/ x = e
    <2>1. ASSUME NEW i \in 1 .. n + 1, r[i] = x
          PROVE  x \in Range(q) \/ x = e
      BY <1>1, <2>1 DEF Range
    <2>2. ASSUME NEW i \in 1 .. n, q[i] = x
          PROVE  x \in Range(r)
      <3>1. i + 1 \in 1 .. n + 1 /\ r[i + 1] = x
        BY <1>1, <1>2, <2>2
      <3> QED
        BY <1>1, <3>1 DEF Range
    <2>3. e \in Range(r)
      BY <1>1, <1>2 DEF Range
    <2> QED
      BY <1>1, <2>1, <2>2, <2>3 DEF Range
  <1> QED
    BY <1>1, <1>3, <1>4 DEF r

LEMMA MembersFinite ==
  ASSUME NEW T, NEW q \in Seq(T)
  PROVE  IsFiniteSet(Range(q)) /\ Range(q) \subseteq T
  <1> DEFINE n == Len(q)
  <1>1. n \in Nat /\ q \in [1 .. n -> T] /\ DOMAIN q = 1 .. n
    OBVIOUS
  <1> HIDE DEF n
  <1>2. q \in Surjection(1 .. n, Range(q))
    BY <1>1 DEF Surjection, Range
  <1>3. IsFiniteSet(1 .. n)
    <2>1. 1 \in Int /\ n \in Int
      BY <1>1
    <2> QED
      BY <2>1, FS_Interval, Zenon
  <1> QED
    BY <1>1, <1>2, <1>3, FS_Surjection DEF Range

-----------------------------------------------------------------------------
(* Signals and slots.                                                      *)

CbEntries == [event : Events, affair : {"trigger", "error"}, trigger : Triggers \cup {NoTrigger}]

\* The triggers that receptors refer to, those the loop keeps, and the slots of a trigger.
Held == {userdata[e] : e \in epollTree \cap Signals}
Kept == IF loop = "slots" THEN {a.trigger : a \in Range(last)} ELSE {}
Mine(t) == Range(cbHead[t]) \cup IF used # << >> /\ Head(last).trigger = t THEN Range(used) ELSE {}

EpollShape ==
  /\ epollTree \subseteq Events /\ linked \subseteq epollTree
  /\ pending \in Seq(Events) /\ IsInjective(pending) /\ Range(pending) \subseteq epollTree

CbShape ==
  /\ userdata \in [Events -> Triggers \cup {NoTrigger}]
  /\ allocated \subseteq Triggers
  /\ cbHead \in [Triggers -> Seq(Slots)]
  /\ connects \in [Triggers -> Nat]
  /\ forced \in [Triggers -> BOOLEAN]
  /\ used \in Seq(Slots) /\ IsInjective(used)
  /\ last \in Seq(CbEntries) /\ IsInjective(last)
  /\ loop \in {"out", "wait", "batch", "slots"}

\* A receptor has a trigger of its event with slots, and what no receptor refers to has none.
CbHolds ==
  /\ \A e \in epollTree \cap Signals : userdata[e] \in Triggers /\ userdata[e][1] = e
                                  /\ connects[userdata[e]] # 0
  /\ \A e \in Events : e \notin epollTree \cap Signals => userdata[e] = NoTrigger
  /\ \A t \in Triggers \ Held : connects[t] = 0

\* What the loop keeps of a batch refers to one event each, and to triggers that it
\* finds again; only while it calls slots it has a list of its own.
CbLoops ==
  /\ \A a, b \in Range(last) : a.event = b.event => a = b
  /\ loop \in {"out", "wait"} => last = << >>
  /\ loop = "batch" => \A a \in Range(last) : a.event \in epollTree /\ a.trigger = userdata[a.event]
  /\ loop = "slots" => \A a \in Range(last) : a.trigger \in Triggers /\ a.trigger[1] = a.event
  /\ used # << >> \/ running # NoSlot => loop = "slots" /\ last # << >>
  /\ used # << >> => Range(used) \cap Range(cbHead[Head(last).trigger]) = {}

CbOwns ==
  /\ \A t \in Triggers \ allocated : cbHead[t] = << >>
  /\ \A t \in Triggers : IsInjective(cbHead[t]) /\ connects[t] = Cardinality(Mine(t))
  /\ \A t, u \in Triggers : t # u => Mine(t) \cap Mine(u) = {}
  /\ allocated = Held \cup Kept
  /\ \A t \in Triggers : forced[t] <=> t \in Kept

CbIInv == EpollShape /\ CbShape /\ CbHolds /\ CbLoops /\ CbOwns

LEMMA SlotsAreOwned == CbIInv => SlotsInv
  <1> SUFFICES ASSUME CbIInv PROVE SlotsInv
    OBVIOUS
  <1>1. Busy = Kept
    <2>1. CASE loop = "slots"
      <3>1. \A i \in DOMAIN last : last[i].trigger # NoTrigger
        BY <2>1, CbConstants DEF CbIInv, CbLoops, Triggers, Signals, Range
      <3>2. {last[i].trigger : i \in DOMAIN last} = {a.trigger : a \in Range(last)}
        BY DEF Range
      <3> QED
        BY <2>1, <3>1, <3>2 DEF Busy, Kept, TriggersOf
    <2>2. CASE loop # "slots"
      BY <2>2 DEF Busy, Kept
    <2> QED
      BY <2>1, <2>2
  <1>2. used # << >> => Busy # {}
    <2> SUFFICES ASSUME used # << >> PROVE Kept # {}
      BY <1>1
    <2>1. loop = "slots" /\ last # << >> /\ last \in Seq(CbEntries) /\ IsInjective(last)
      BY DEF CbIInv, CbLoops, CbShape
    <2>2. Head(last) \in Range(last)
      BY <2>1, TailMembers
    <2> QED
      BY <2>1, <2>2 DEF Kept
  <1>3. ASSUME NEW t \in Triggers
        PROVE  Owned(t) = Mine(t)
    <2>1. CASE used # << >>
      BY <1>2, <2>1 DEF Owned, Mine
    <2>2. CASE used = << >>
      BY <2>2 DEF Owned, Mine, Range
    <2> QED
      BY <2>1, <2>2
  <1>4. {userdata[e] : e \in epollTree \cap Signals} = Held
    BY DEF Held
  <1>5. \A e \in epollTree \cap Signals : userdata[e] # NoTrigger
    BY CbConstants DEF CbIInv, CbHolds, Triggers, Signals
  <1> QED
    BY <1>1, <1>2, <1>3, <1>4, <1>5 DEF SlotsInv, FreedTriggersAreEmpty, CbIInv, CbOwns

LEMMA CbBegins == Init => CbIInv
  <1> SUFFICES ASSUME Init PROVE CbIInv
    OBVIOUS
  <1>1. /\ << >> \in Seq(Events) /\ << >> \in Seq(Slots) /\ << >> \in Seq(CbEntries)
        /\ IsInjective(<< >>) /\ Range(<< >>) = {}
    BY DEF IsInjective, Range
  <1>2. EpollShape
    BY <1>1 DEF Init, EpollInit, EpollShape
  <1>3. CbShape
    BY <1>1 DEF Init, EpollInit, CbShape
  <1>4. CbHolds
    BY DEF Init, EpollInit, CbHolds
  <1>5. CbLoops
    BY <1>1 DEF Init, EpollInit, CbLoops
  <1>6. Held = {} /\ Kept = {} /\ \A t \in Triggers : Mine(t) = {}
    BY <1>1 DEF Init, EpollInit, Held, Kept, Mine
  <1>7. CbOwns
    BY <1>1, <1>6, FS_EmptySet DEF Init, EpollInit, CbOwns
  <1> QED
    BY <1>2, <1>3, <1>4, <1>5, <1>7 DEF CbIInv

\* The operations on the epoll keep its lists.
LEMMA EpollKeeps ==
  ASSUME EpollShape, NEW e \in Events,
         \/ EventNotify(e) \/ EventClean(e) \/ EpollAdd(e) \/ EpollDel(e)
         \/ EpollSleep \/ EpollWoken \/ EpollWait \/ UNCHANGED epollVars
  PROVE  EpollShape'
  <1>1. ASSUME NEW bit, e \in linked, TriggerReceptor(e, bit)
        PROVE  /\ pending' \in Seq(Events) /\ IsInjective(pending')
               /\ Range(pending') \subseteq epollTree
    <2>1. CASE e \in Range(pending)
      BY <1>1, <2>1 DEF TriggerReceptor, EpollShape
    <2>2. CASE e \notin Range(pending)
      <3>1. pending' = Append(pending, e) /\ pending \in Seq(Events) /\ IsInjective(pending)
        BY <1>1, <2>2 DEF TriggerReceptor, EpollShape
      <3>2. /\ pending' \in Seq(Events) /\ IsInjective(pending')
            /\ Range(pending') = Range(pending) \cup {e}
        BY <2>2, <3>1, AppendMembers
      <3> QED
        BY <1>1, <3>2 DEF EpollShape
    <2> QED
      BY <2>1, <2>2
  <1>2. CASE EventNotify(e)
    BY <1>1, <1>2 DEF EventNotify, EpollShape
  <1>3. CASE EventClean(e)
    BY <1>1, <1>3 DEF EventClean, EpollShape
  <1>4. CASE EpollAdd(e)
    BY <1>4 DEF EpollAdd, EpollShape
  <1>5. CASE EpollDel(e)
    <2>1. pending \in Seq(Events) /\ IsInjective(pending) /\ pending' = EpollUnlink(pending, e)
      BY <1>5 DEF EpollDel, EpollShape
    <2>2. /\ pending' \in Seq(Events) /\ IsInjective(pending')
          /\ Range(pending') = Range(pending) \ {e}
      BY <2>1, UnlinkMembers
    <2> QED
      BY <1>5, <2>2 DEF EpollDel, EpollShape
  <1>6. CASE EpollSleep \/ EpollWoken \/ EpollWait \/ UNCHANGED epollVars
    BY <1>6 DEF EpollSleep, EpollWoken, EpollWait, epollVars, EpollShape
  <1> QED
    BY <1>2, <1>3, <1>4, <1>5, <1>6

\* Steps that leave the triggers, their receptors and the batch alone.
LEMMA CbStays ==
  ASSUME CbIInv, EpollShape', epollTree \subseteq epollTree', epollTree' \subseteq epollTree \cup {Self},
         UNCHANGED <<triggerVars, loop, used, last>>, running' \in {running, NoSlot}
  PROVE  CbIInv'
  <1>1. epollTree' \cap Signals = epollTree \cap Signals
    BY DEF Signals
  <1>2. /\ UNCHANGED <<userdata, allocated, cbHead, connects, forced, loop, used, last>>
    BY DEF triggerVars
  <1>3. Held' = Held /\ Kept' = Kept /\ \A t \in Triggers : Mine(t)' = Mine(t)
    BY <1>1, <1>2 DEF Held, Kept, Mine
  <1>4. CbShape'
    BY <1>2 DEF CbIInv, CbShape
  <1>5. CbHolds'
    BY <1>1, <1>2, <1>3 DEF CbIInv, CbHolds
  <1>6. CbLoops'
    BY <1>2 DEF CbIInv, CbLoops
  <1>7. CbOwns'
    BY <1>2, <1>3 DEF CbIInv, CbOwns
  <1> QED
    BY <1>4, <1>5, <1>6, <1>7 DEF CbIInv

\* The loop is entered, left or goes on with a batch that is done.
LEMMA CbIdles ==
  ASSUME CbIInv, EpollShape', last = << >>, loop' \in {"out", "wait"},
         UNCHANGED <<epollTree, triggerVars, used, running, last>>
  PROVE  CbIInv'
  <1>1. /\ UNCHANGED <<epollTree, userdata, allocated, cbHead, connects, forced, running, used, last>>
    BY DEF triggerVars
  <1>2. used = << >> /\ running = NoSlot /\ Range(last) = {}
    BY DEF CbIInv, CbLoops, Range
  <1>3. Held' = Held /\ Kept' = Kept /\ \A t \in Triggers : Mine(t)' = Mine(t)
    BY <1>1, <1>2 DEF Held, Kept, Mine
  <1>4. CbShape'
    BY <1>1 DEF CbIInv, CbShape
  <1>5. CbHolds'
    BY <1>1, <1>3 DEF CbIInv, CbHolds
  <1>6. CbLoops'
    BY <1>1, <1>2 DEF CbIInv, CbLoops
  <1>7. CbOwns'
    BY <1>1, <1>3 DEF CbIInv, CbOwns
  <1> QED
    BY <1>4, <1>5, <1>6, <1>7 DEF CbIInv

LEMMA BatchMembers ==
  ASSUME pending \in Seq(Events), IsInjective(pending), SlotSize \in Nat
  PROVE  Batch \in Seq(Events) /\ IsInjective(Batch) /\ Range(Batch) \subseteq Range(pending)
  <1> DEFINE n == Len(pending)
             k == IF n < SlotSize THEN n ELSE SlotSize
             b == SubSeq(pending, 1, k)
  <1>1. n \in Nat /\ k \in 0 .. n /\ DOMAIN pending = 1 .. n
    OBVIOUS
  <1>2. b = Batch
    BY DEF Batch
  <1> HIDE DEF k
  <1>3. b \in Seq(Events) /\ DOMAIN b = 1 .. k /\ \A i \in 1 .. k : b[i] = pending[i]
    BY <1>1
  <1>4. \A i \in 1 .. k : i \in 1 .. n
    BY <1>1
  <1> HIDE DEF b, n
  <1> QED
    BY <1>1, <1>2, <1>3, <1>4 DEF IsInjective, Range

LEMMA CbFinds ==
  ASSUME CbIInv, LoopFound
  PROVE  CbIInv'
  <1>1. /\ UNCHANGED <<epollTree, linked, userdata, allocated, cbHead, connects, forced, used, running>>
        /\ loop = "wait" /\ loop' = "batch"
    BY DEF LoopFound, triggerVars
  <1>2. used = << >> /\ running = NoSlot
    BY <1>1 DEF CbIInv, CbLoops
  <1>3. /\ Batch \in Seq(Events) /\ IsInjective(Batch)
        /\ Range(Batch) \subseteq Range(pending)
    BY BatchMembers, EpollConstants DEF CbIInv, EpollShape
  <1>4. /\ pending' \in Seq(Events) /\ IsInjective(pending')
        /\ Range(pending') \subseteq Range(pending)
    BY ReadMembers, EpollConstants DEF CbIInv, EpollShape, LoopFound
  <1>5. EpollShape'
    BY <1>1, <1>4 DEF CbIInv, EpollShape
  <1> DEFINE n == Len(Batch)
             entry(e) == [event |-> e, affair |-> Affair(e), trigger |-> userdata[e]]
  <1>6. /\ n \in Nat /\ DOMAIN Batch = 1 .. n
        /\ last' = [i \in 1 .. n |-> entry(Batch[i])]
        /\ \A i \in 1 .. n : Batch[i] \in Events /\ Batch[i] \in epollTree
    <2>1. \A i \in DOMAIN Batch : Batch[i] \in Range(Batch)
      BY DEF Range
    <2> QED
      BY <1>3, <2>1 DEF LoopFound, CbIInv, EpollShape
  <1>7. \A e \in Events : entry(e) \in CbEntries
    BY DEF CbIInv, CbShape, CbEntries, Affair
  <1>8. \A i \in 1 .. n : /\ last'[i].event = Batch[i] /\ last'[i].trigger = userdata[Batch[i]]
                          /\ last'[i] \in CbEntries
    BY <1>6, <1>7
  <1> HIDE DEF entry, n
  <1>9. last' \in Seq(CbEntries) /\ DOMAIN last' = 1 .. n
    BY <1>6, <1>7
  <1>10. \A i, j \in 1 .. n : last'[i].event = last'[j].event => i = j
    BY <1>3, <1>6, <1>8 DEF IsInjective
  <1>11. IsInjective(last')
    BY <1>9, <1>10 DEF IsInjective
  <1>12. CbShape'
    BY <1>1, <1>9, <1>11 DEF CbIInv, CbShape
  <1>13. Held' = Held /\ Kept' = Kept /\ \A t \in Triggers : Mine(t)' = Mine(t)
    BY <1>1, <1>2 DEF Held, Kept, Mine
  <1>14. CbHolds'
    BY <1>1, <1>13 DEF CbIInv, CbHolds
  <1>15. CbLoops'
    <2>1. \A a, b \in Range(last') : a.event = b.event => a = b
      BY <1>9, <1>10 DEF Range
    <2>2. \A a \in Range(last') : a.event \in epollTree' /\ a.trigger = userdata'[a.event]
      BY <1>1, <1>6, <1>8, <1>9 DEF Range
    <2> QED
      BY <1>1, <1>2, <2>1, <2>2 DEF CbLoops
  <1>16. CbOwns'
    BY <1>1, <1>13 DEF CbIInv, CbOwns
  <1> QED
    BY <1>5, <1>12, <1>14, <1>15, <1>16 DEF CbIInv

\* The loop calls a slot.
LEMMA CbCalls ==
  ASSUME CbIInv, SlotCall
  PROVE  CbIInv'
  <1> DEFINE t == Head(last).trigger
             q == cbHead[t]
             s == Head(q)
  <1>1. /\ UNCHANGED <<epollTree, linked, pending, last, userdata, allocated, connects, forced, loop>>
        /\ loop = "slots" /\ running = NoSlot /\ last # << >> /\ q # << >>
        /\ running' = s /\ used' = Append(used, s)
        /\ cbHead' = [cbHead EXCEPT ![t] = Tail(q)]
    BY DEF SlotCall, epollVars
  <1>2. last \in Seq(CbEntries) /\ IsInjective(last)
    BY DEF CbIInv, CbShape
  <1>3. Head(last) \in Range(last) /\ t \in Triggers
    BY <1>1, <1>2, TailMembers DEF CbIInv, CbLoops
  <1>4. /\ q \in Seq(Slots) /\ IsInjective(q)
        /\ used \in Seq(Slots) /\ IsInjective(used) /\ (used # << >> => Range(used) \cap Range(q) = {})
        /\ used = << >> => Range(used) = {}
    <2>1. Range(<< >>) = {}
      BY DEF Range
    <2> QED
      BY <1>3, <2>1 DEF CbIInv, CbShape, CbOwns, CbLoops
  <1> HIDE DEF t, q, s
  <1>5. /\ s \in Range(q) /\ s \in Slots /\ Tail(q) \in Seq(Slots) /\ IsInjective(Tail(q))
        /\ Range(Tail(q)) = Range(q) \ {s}
    BY <1>1, <1>4, TailMembers DEF s
  <1>6. s \notin Range(used)
    BY <1>4, <1>5
  <1>7. /\ used' \in Seq(Slots) /\ IsInjective(used') /\ Range(used') = Range(used) \cup {s}
    BY <1>1, <1>4, <1>5, <1>6, AppendMembers
  <1>8. used' # << >>
    BY <1>7 DEF Range
  <1>9. /\ cbHead'[t] = Tail(q)
        /\ \A u \in Triggers : u # t => cbHead'[u] = cbHead[u]
        /\ cbHead' \in [Triggers -> Seq(Slots)]
    BY <1>1, <1>3, <1>5 DEF CbIInv, CbShape
  <1>10. Held' = Held /\ Kept' = Kept /\ t \in Kept
    BY <1>1, <1>3 DEF Held, Kept, t
  <1>11. \A u \in Triggers : Mine(u)' = Mine(u)
    <2> SUFFICES ASSUME NEW u \in Triggers PROVE Mine(u)' = Mine(u)
      OBVIOUS
    <2>1. CASE u = t
      <3>1. Mine(u)' = (Range(q) \ {s}) \cup (Range(used) \cup {s})
        BY <1>1, <1>5, <1>7, <1>8, <1>9, <2>1 DEF Mine, t
      <3>2. Mine(u) = Range(q) \cup Range(used)
        BY <1>4, <2>1 DEF Mine, t, q
      <3> QED
        BY <1>5, <3>1, <3>2
    <2>2. CASE u # t
      BY <1>1, <1>9, <2>2 DEF Mine, t
    <2> QED
      BY <2>1, <2>2
  <1>12. EpollShape'
    BY <1>1 DEF CbIInv, EpollShape
  <1>13. CbShape'
    BY <1>1, <1>7, <1>9 DEF CbIInv, CbShape
  <1>14. CbHolds'
    BY <1>1, <1>10 DEF CbIInv, CbHolds
  <1>15. Range(used') \cap Range(cbHead'[t]) = {}
    BY <1>4, <1>5, <1>7, <1>9
  <1>16. CbLoops'
    BY <1>1, <1>15 DEF CbIInv, CbLoops, t
  <1>17. CbOwns'
    <2>1. t \in allocated
      BY <1>10 DEF CbIInv, CbOwns
    <2>2. \A u \in Triggers : IsInjective(cbHead'[u])
      BY <1>5, <1>9 DEF CbIInv, CbOwns
    <2> QED
      BY <1>1, <1>9, <1>10, <1>11, <2>1, <2>2 DEF CbIInv, CbOwns
  <1> QED
    BY <1>12, <1>13, <1>14, <1>16, <1>17 DEF CbIInv

\* A list without members is empty.
LEMMA NoMembers ==
  ASSUME NEW T, NEW q \in Seq(T), Range(q) = {}
  PROVE  q = << >>
  <1>1. Len(q) \in Nat /\ DOMAIN q = 1 .. Len(q)
    OBVIOUS
  <1>2. Len(q) # 0 => 1 \in 1 .. Len(q)
    BY <1>1
  <1>3. Len(q) = 0
    BY <1>1, <1>2 DEF Range
  <1> QED
    BY <1>3

\* The slots of a trigger have been called.
LEMMA CbDone ==
  ASSUME CbIInv, SlotsDone
  PROVE  CbIInv'
  <1> DEFINE t == Head(last).trigger
  <1>1. /\ UNCHANGED <<epollTree, linked, pending, userdata, connects, loop, running>>
        /\ loop = "slots" /\ running = NoSlot /\ last # << >> /\ cbHead[t] = << >>
        /\ cbHead' = [cbHead EXCEPT ![t] = used]
        /\ forced' = [forced EXCEPT ![t] = FALSE]
        /\ allocated' = FreeUnreferenced(t)
        /\ used' = << >> /\ last' = Tail(last)
    BY DEF SlotsDone
  <1>2. last \in Seq(CbEntries) /\ IsInjective(last)
    BY DEF CbIInv, CbShape
  <1>3. /\ Head(last) \in Range(last)
        /\ last' \in Seq(CbEntries) /\ IsInjective(last')
        /\ Range(last') = Range(last) \ {Head(last)}
    BY <1>1, <1>2, TailMembers
  <1>4. /\ t \in Triggers
        /\ \A a \in Range(last) : a.trigger = t => a = Head(last)
    BY <1>1, <1>3 DEF CbIInv, CbLoops
  <1> HIDE DEF t
  <1>5. /\ cbHead'[t] = used /\ ~forced'[t]
        /\ \A u \in Triggers : u # t => cbHead'[u] = cbHead[u] /\ forced'[u] = forced[u]
        /\ cbHead' \in [Triggers -> Seq(Slots)] /\ forced' \in [Triggers -> BOOLEAN]
    BY <1>1, <1>4 DEF CbIInv, CbShape
  <1>6. Range(<< >>) = {} /\ << >> \in Seq(Slots) /\ IsInjective(<< >>)
    BY DEF Range, IsInjective
  <1>7. Mine(t) = Range(used)
    BY <1>1, <1>6 DEF Mine, t
  <1>8. \A u \in Triggers : Mine(u)' = Mine(u)
    <2> SUFFICES ASSUME NEW u \in Triggers PROVE Mine(u)' = Mine(u)
      OBVIOUS
    <2>1. Mine(u)' = Range(cbHead'[u])
      BY <1>1 DEF Mine
    <2>2. CASE u = t
      BY <1>5, <1>7, <2>1, <2>2
    <2>3. CASE u # t
      BY <1>5, <2>1, <2>3 DEF Mine, t
    <2> QED
      BY <2>2, <2>3
  <1>9. Held' = Held /\ Kept' = Kept \ {t} /\ t \in Kept
    BY <1>1, <1>3, <1>4 DEF Held, Kept, t
  <1>10. connects[t] = 0 <=> t \notin Held
    BY <1>4 DEF CbIInv, CbHolds, Held
  <1>11. allocated' = IF connects[t] = 0 THEN allocated \ {t} ELSE allocated
    BY <1>1, <1>5 DEF FreeUnreferenced
  <1>12. connects[t] = 0 => used = << >>
    <2>1. IsFiniteSet(Range(used)) /\ connects[t] = Cardinality(Range(used)) /\ used \in Seq(Slots)
      BY <1>4, <1>7, MembersFinite DEF CbIInv, CbShape, CbOwns
    <2> QED
      BY <2>1, FS_EmptySet, NoMembers
  <1>13. EpollShape'
    BY <1>1 DEF CbIInv, EpollShape
  <1>14. CbShape'
    BY <1>1, <1>3, <1>5, <1>6, <1>11 DEF CbIInv, CbShape
  <1>15. CbHolds'
    BY <1>1, <1>9 DEF CbIInv, CbHolds
  <1>16. CbLoops'
    BY <1>1, <1>3 DEF CbIInv, CbLoops
  <1>17. CbOwns'
    <2>1. allocated' = Held' \cup Kept'
      BY <1>9, <1>10, <1>11 DEF CbIInv, CbOwns
    <2>2. \A u \in Triggers \ allocated' : cbHead'[u] = << >>
      BY <1>5, <1>10, <1>11, <1>12 DEF CbIInv, CbOwns
    <2>3. \A u \in Triggers : IsInjective(cbHead'[u])
      BY <1>5 DEF CbIInv, CbShape, CbOwns
    <2>4. \A u \in Triggers : connects'[u] = Cardinality(Mine(u)')
      BY <1>1, <1>8 DEF CbIInv, CbOwns
    <2>5. \A u, v \in Triggers : u # v => Mine(u)' \cap Mine(v)' = {}
      BY <1>8 DEF CbIInv, CbOwns
    <2>6. \A u \in Triggers : forced'[u] <=> u \in Kept'
      BY <1>5, <1>9 DEF CbIInv, CbOwns
    <2> QED
      BY <2>1, <2>2, <2>3, <2>4, <2>5, <2>6 DEF CbOwns
  <1> QED
    BY <1>13, <1>14, <1>15, <1>16, <1>17 DEF CbIInv

\* The triggers of the events in a batch that have been cleaned go away.
LEMMA CbSorts ==
  ASSUME CbIInv, LoopBatch
  PROVE  CbIInv'
  <1> DEFINE G == {last[i].event : i \in Gone}
             K == {last[i] : i \in Live}
             D == TriggersOf(Gone)
  <1>1. /\ loop = "batch" /\ loop' = "slots"
        /\ cbHead' = [t \in Triggers |-> IF t \in D THEN << >> ELSE cbHead[t]]
        /\ connects' = [t \in Triggers |-> IF t \in D THEN 0 ELSE connects[t]]
        /\ allocated' = allocated \ D
        /\ forced' = [t \in Triggers |-> forced[t] \/ t \in TriggersOf(Live)]
        /\ epollTree' = epollTree \ G /\ linked' = linked \ G /\ pending' = Only(pending, Events \ G)
        /\ userdata' = [e \in Events |-> IF e \in G THEN NoTrigger ELSE userdata[e]]
        /\ last' = Only(last, K)
        /\ UNCHANGED <<used, running>>
    BY DEF LoopBatch
  <1>2. /\ used = << >> /\ running = NoSlot /\ Kept = {}
        /\ last \in Seq(CbEntries) /\ IsInjective(last)
        /\ \A a, b \in Range(last) : a.event = b.event => a = b
        /\ \A a \in Range(last) : /\ a \in CbEntries /\ a.event \in epollTree
                                  /\ a.trigger = userdata[a.event]
    <2>1. Range(last) \subseteq CbEntries
      BY MembersFinite DEF CbIInv, CbShape
    <2> QED
      BY <1>1, <2>1 DEF CbIInv, CbShape, CbLoops, Kept
  <1>3. /\ G = {a.event : a \in {b \in Range(last) : b.affair = "error"}}
        /\ D = {a.trigger : a \in {b \in Range(last) : b.affair = "error"}} \ {NoTrigger}
        /\ K = {b \in Range(last) : b.affair # "error" /\ b.trigger # NoTrigger}
        /\ TriggersOf(Live) = {a.trigger : a \in K}
    <2>1. Gone = {i \in DOMAIN last : last[i].affair = "error"}
      BY DEF Gone
    <2>2. Live = {i \in DOMAIN last : last[i].affair # "error" /\ last[i].trigger # NoTrigger}
      BY <2>1 DEF Live
    <2>3. K = {b \in Range(last) : b.affair # "error" /\ b.trigger # NoTrigger}
      BY <2>2 DEF Range
    <2>4. TriggersOf(Live) = {a.trigger : a \in K}
      BY <2>2 DEF TriggersOf
    <2> QED
      BY <2>1, <2>3, <2>4 DEF Range, TriggersOf
  <1> HIDE DEF G, K, D
  <1>4. /\ pending' \in Seq(Events) /\ IsInjective(pending')
        /\ Range(pending') = Range(pending) \cap (Events \ G)
    BY <1>1, OnlyMembers DEF CbIInv, EpollShape
  <1>5. /\ last' \in Seq(CbEntries) /\ IsInjective(last') /\ Range(last') = K
    BY <1>1, <1>2, <1>3, OnlyMembers
  <1>6. EpollShape'
    BY <1>1, <1>4 DEF CbIInv, EpollShape
  <1>7. NoTrigger \notin Triggers /\ Signals \subseteq Events
    BY CbConstants DEF Triggers, Signals
  <1>8. /\ G \subseteq epollTree
        /\ \A e \in epollTree \cap Signals : userdata[e] \in D <=> e \in G
        /\ \A e \in G : e \notin Signals => userdata[e] = NoTrigger
        /\ D \subseteq {userdata[e] : e \in G \cap Signals}
    <2>1. G \subseteq epollTree
      BY <1>2, <1>3
    <2>2. ASSUME NEW e \in epollTree \cap Signals
          PROVE  userdata[e] \in D <=> e \in G
      <3>1. ASSUME userdata[e] \in D
            PROVE  e \in G
        <4>1. PICK a \in Range(last) : a.affair = "error" /\ a.trigger = userdata[e]
          BY <1>3, <3>1
        <4>2. a.event \in epollTree /\ userdata[a.event] = userdata[e] /\ userdata[e] \in Triggers
          BY <1>2, <4>1 DEF CbIInv, CbHolds
        <4>3. a.event \in Events /\ a.event \in epollTree \cap Signals
          BY <1>7, <4>2 DEF CbIInv, CbHolds, EpollShape
        <4>4. a.event = e
          BY <4>2, <4>3 DEF CbIInv, CbHolds
        <4> QED
          BY <1>3, <4>1, <4>4
      <3>2. ASSUME e \in G
            PROVE  userdata[e] \in D
        BY <1>2, <1>3, <1>7, <3>2 DEF CbIInv, CbHolds
      <3> QED
        BY <3>1, <3>2
    <2>3. \A e \in G : e \notin Signals => userdata[e] = NoTrigger
      BY <2>1 DEF CbIInv, CbHolds, EpollShape
    <2>4. D \subseteq {userdata[e] : e \in G \cap Signals}
      BY <1>2, <1>3, <2>3
    <2> QED
      BY <2>1, <2>2, <2>3, <2>4
  <1>9. Held' = Held \ D
    <2>1. /\ \A e \in Events : e \notin G => userdata'[e] = userdata[e]
          /\ epollTree' \cap Signals = (epollTree \cap Signals) \ G
      BY <1>1
    <2>2. Held' = {userdata[e] : e \in (epollTree \cap Signals) \ G}
      BY <1>7, <2>1 DEF Held
    <2> QED
      BY <1>8, <2>2 DEF Held
  <1>10. /\ Kept' = {a.trigger : a \in K}
         /\ \A a \in K : /\ a.event \in (epollTree \cap Signals) \ G /\ a.trigger = userdata[a.event]
                         /\ a.trigger \in Triggers /\ a.trigger[1] = a.event
    <2>1. Kept' = {a.trigger : a \in K}
      BY <1>1, <1>5 DEF Kept
    <2> SUFFICES ASSUME NEW a \in K
                 PROVE  /\ a.event \in (epollTree \cap Signals) \ G /\ a.trigger = userdata[a.event]
                        /\ a.trigger \in Triggers /\ a.trigger[1] = a.event
      BY <2>1
    <2>2. /\ a \in Range(last) /\ a.affair # "error" /\ a.trigger # NoTrigger
          /\ a.event \in epollTree /\ a.event \in Events /\ a.trigger = userdata[a.event]
      BY <1>2, <1>3 DEF CbIInv, EpollShape
    <2>3. a.event \in epollTree \cap Signals
      BY <2>2 DEF CbIInv, CbHolds
    <2>4. a.event \notin G
      BY <1>2, <1>3, <2>2
    <2> QED
      BY <2>2, <2>3, <2>4 DEF CbIInv, CbHolds
  <1>11. Kept' \subseteq Held'
    BY <1>8, <1>9, <1>10 DEF Held
  <1>12. \A t \in Triggers : /\ Mine(t) = Range(cbHead[t]) /\ Mine(t)' = Range(cbHead'[t])
                             /\ t \in D => cbHead'[t] = << >> /\ connects'[t] = 0
                             /\ t \notin D => cbHead'[t] = cbHead[t] /\ connects'[t] = connects[t]
    BY <1>1, <1>2 DEF Mine
  <1>13. << >> \in Seq(Slots) /\ IsInjective(<< >>) /\ Range(<< >>) = {}
    BY DEF IsInjective, Range
  <1>14. CbShape'
    <2>1. userdata' \in [Events -> Triggers \cup {NoTrigger}]
      BY <1>1 DEF CbIInv, CbShape
    <2>2. cbHead' \in [Triggers -> Seq(Slots)] /\ connects' \in [Triggers -> Nat]
      BY <1>1, <1>13 DEF CbIInv, CbShape
    <2>3. forced' \in [Triggers -> BOOLEAN]
      BY <1>1 DEF CbIInv, CbShape
    <2> QED
      BY <1>1, <1>5, <2>1, <2>2, <2>3 DEF CbIInv, CbShape
  <1>15. CbHolds'
    <2>1. ASSUME NEW e \in epollTree' \cap Signals
          PROVE  /\ userdata'[e] \in Triggers /\ userdata'[e][1] = e
                 /\ connects'[userdata'[e]] # 0
      <3>1. e \in epollTree \cap Signals /\ e \notin G /\ e \in Events
        BY <1>1, <1>7
      <3>2. userdata'[e] = userdata[e] /\ userdata[e] \notin D
        BY <1>1, <1>8, <3>1
      <3> QED
        BY <1>12, <3>1, <3>2 DEF CbIInv, CbHolds
    <2>2. \A e \in Events : e \notin epollTree' \cap Signals => userdata'[e] = NoTrigger
      BY <1>1 DEF CbIInv, CbHolds
    <2>3. \A t \in Triggers \ Held' : connects'[t] = 0
      BY <1>9, <1>12 DEF CbIInv, CbHolds
    <2> QED
      BY <2>1, <2>2, <2>3 DEF CbHolds
  <1>16. CbLoops'
    BY <1>1, <1>2, <1>3, <1>5, <1>10 DEF CbLoops
  <1>17. CbOwns'
    <2>1. allocated' = Held' \cup Kept'
      BY <1>1, <1>2, <1>9, <1>11 DEF CbIInv, CbOwns
    <2>2. \A t \in Triggers \ allocated' : cbHead'[t] = << >>
      BY <1>1, <1>12 DEF CbIInv, CbOwns
    <2>3. ASSUME NEW t \in Triggers
          PROVE  IsInjective(cbHead'[t]) /\ connects'[t] = Cardinality(Mine(t)')
      <3>1. CASE t \in D
        <4>1. cbHead'[t] = << >> /\ connects'[t] = 0 /\ Mine(t)' = {}
          BY <1>12, <1>13, <3>1
        <4> QED
          BY <1>13, <4>1, FS_EmptySet
      <3>2. CASE t \notin D
        <4>1. cbHead'[t] = cbHead[t] /\ connects'[t] = connects[t] /\ Mine(t)' = Mine(t)
          BY <1>12, <3>2
        <4> QED
          BY <4>1 DEF CbIInv, CbOwns
      <3> QED
        BY <3>1, <3>2
    <2>4. \A t, u \in Triggers : t # u => Mine(t)' \cap Mine(u)' = {}
      BY <1>12, <1>13 DEF CbIInv, CbOwns
    <2>5. \A t \in Triggers : forced'[t] <=> t \in Kept'
      BY <1>1, <1>2, <1>3, <1>10 DEF CbIInv, CbOwns
    <2> QED
      BY <2>1, <2>2, <2>3, <2>4, <2>5 DEF CbOwns
  <1> QED
    BY <1>6, <1>14, <1>15, <1>16, <1>17 DEF CbIInv

\* The epoll goes away with the task, and every trigger with it.
LEMMA CbDestructs ==
  ASSUME CbIInv, TaskDestruct
  PROVE  CbIInv'
  <1> DEFINE D == {userdata[e] : e \in epollTree}
  <1>1. /\ loop = "out"
        /\ epollTree' = {} /\ linked' = {} /\ pending' = << >>
        /\ userdata' = [e \in Events |-> NoTrigger]
        /\ allocated' = allocated \ D
        /\ cbHead' = [t \in Triggers |-> IF t \in D THEN << >> ELSE cbHead[t]]
        /\ connects' = [t \in Triggers |-> IF t \in D THEN 0 ELSE connects[t]]
        /\ UNCHANGED <<forced, loop, used, running, last>>
    BY DEF TaskDestruct, EpollDelete
  <1>2. used = << >> /\ running = NoSlot /\ last = << >> /\ Kept = {} /\ Range(last) = {}
    BY <1>1 DEF CbIInv, CbLoops, Kept, Range
  <1>3. allocated \subseteq D
    BY <1>2 DEF CbIInv, CbOwns, Held
  <1> HIDE DEF D
  <1>4. << >> \in Seq(Slots) /\ << >> \in Seq(Events) /\ IsInjective(<< >>) /\ Range(<< >>) = {}
    BY DEF IsInjective, Range
  <1>5. /\ allocated' = {} /\ Held' = {} /\ Kept' = {}
        /\ \A t \in Triggers : cbHead'[t] = << >> /\ Mine(t)' = {} /\ connects'[t] = 0
    <2>1. allocated' = {} /\ Held' = {} /\ Kept' = {}
      BY <1>1, <1>3 DEF Held, Kept
    <2>2. ASSUME NEW t \in Triggers
          PROVE  cbHead'[t] = << >> /\ connects'[t] = 0
      <3>1. CASE t \in D
        BY <1>1, <3>1
      <3>2. CASE t \notin D
        <4>1. t \notin allocated /\ t \notin Held
          BY <1>3, <3>2 DEF CbIInv, CbOwns
        <4> QED
          BY <1>1, <3>2, <4>1 DEF CbIInv, CbOwns, CbHolds
      <3> QED
        BY <3>1, <3>2
    <2> QED
      BY <1>1, <1>2, <1>4, <2>1, <2>2 DEF Mine
  <1>6. EpollShape'
    BY <1>1, <1>4 DEF EpollShape
  <1>7. CbShape'
    <2>1. cbHead' \in [Triggers -> Seq(Slots)] /\ connects' \in [Triggers -> Nat]
      BY <1>1, <1>4 DEF CbIInv, CbShape
    <2> QED
      BY <1>1, <1>5, <2>1 DEF CbIInv, CbShape
  <1>8. CbHolds'
    BY <1>1, <1>5 DEF CbHolds
  <1>9. CbLoops'
    BY <1>1, <1>2 DEF CbIInv, CbLoops
  <1>10. CbOwns'
    BY <1>1, <1>2, <1>4, <1>5, FS_EmptySet DEF CbIInv, CbOwns
  <1> QED
    BY <1>6, <1>7, <1>8, <1>9, <1>10 DEF CbIInv

\* A slot is connected to an event that has a receptor.
LEMMA CbConnectsMore ==
  ASSUME CbIInv, NEW e \in Events, NEW s \in Slots,
         e \in Signals, ~Linked(s), ConnectExisting(e, s), UNCHANGED <<loop, used, running>>
  PROVE  CbIInv'
  <1> PICK t : t = userdata[e]
    OBVIOUS
  <1>1. /\ e \in epollTree \cap Signals
        /\ cbHead' = [cbHead EXCEPT ![t] = <<s>> \o @]
        /\ connects' = [connects EXCEPT ![t] = @ + 1]
        /\ UNCHANGED <<epollTree, linked, pending, last, userdata, allocated, forced, loop, used, running>>
    BY DEF ConnectExisting, epollVars
  <1>2. t \in Triggers /\ t \in Held
    BY <1>1 DEF CbIInv, CbHolds, Held
  <1>3. /\ cbHead[t] \in Seq(Slots) /\ IsInjective(cbHead[t]) /\ connects[t] \in Nat
        /\ s \notin Range(used) /\ \A u \in Triggers : s \notin Range(cbHead[u])
    BY <1>2 DEF CbIInv, CbShape, CbOwns, Linked
  <1>4. /\ cbHead'[t] = <<s>> \o cbHead[t] /\ connects'[t] = connects[t] + 1
        /\ \A u \in Triggers : u # t => cbHead'[u] = cbHead[u] /\ connects'[u] = connects[u]
    BY <1>1, <1>2 DEF CbIInv, CbShape
  <1>5. /\ cbHead'[t] \in Seq(Slots) /\ IsInjective(cbHead'[t])
        /\ Range(cbHead'[t]) = Range(cbHead[t]) \cup {s}
    <2> DEFINE q == cbHead[t]
    <2>1. q \in Seq(Slots) /\ IsInjective(q) /\ s \notin Range(q) /\ cbHead'[t] = <<s>> \o q
      BY <1>2, <1>3, <1>4
    <2> HIDE DEF q
    <2>2. /\ <<s>> \o q \in Seq(Slots) /\ IsInjective(<<s>> \o q)
          /\ Range(<<s>> \o q) = Range(q) \cup {s}
      BY <2>1, PrependMembers
    <2>3. /\ cbHead'[t] \in Seq(Slots) /\ IsInjective(cbHead'[t])
          /\ Range(cbHead'[t]) = Range(q) \cup {s}
      BY <2>1, <2>2
    <2> QED
      BY <2>3 DEF q
  <1>6. /\ cbHead' \in [Triggers -> Seq(Slots)] /\ connects' \in [Triggers -> Nat]
    BY <1>1, <1>3, <1>4, <1>5 DEF CbIInv, CbShape
  <1>7. Held' = Held /\ Kept' = Kept
    BY <1>1 DEF Held, Kept
  <1>8. /\ Mine(t)' = Mine(t) \cup {s}
        /\ \A u \in Triggers : u # t => Mine(u)' = Mine(u)
        /\ \A u \in Triggers : s \notin Mine(u)
    <2>1. \A u \in Triggers : s \notin Mine(u)
      BY <1>3 DEF Mine
    <2>2. \A u \in Triggers :
            Mine(u)' = Range(cbHead'[u])
                       \cup IF used # << >> /\ Head(last).trigger = u THEN Range(used) ELSE {}
      BY <1>1 DEF Mine
    <2>3. \A u \in Triggers : u # t => Mine(u)' = Mine(u)
      BY <1>4, <2>2 DEF Mine
    <2>4. Mine(t)' = Mine(t) \cup {s}
      BY <1>2, <1>5, <2>2 DEF Mine
    <2> QED
      BY <2>1, <2>3, <2>4
  <1>9. IsFiniteSet(Mine(t))
    BY <1>2, <1>3, MembersFinite, FS_Union, FS_EmptySet DEF Mine, CbIInv, CbShape
  <1>10. connects'[t] = Cardinality(Mine(t)')
    <2> DEFINE M == Mine(t)
    <2>1. /\ IsFiniteSet(M) /\ s \notin M /\ connects[t] = Cardinality(M)
          /\ Mine(t)' = M \cup {s}
      BY <1>2, <1>8, <1>9 DEF CbIInv, CbOwns
    <2> HIDE DEF M
    <2>2. Cardinality(M \cup {s}) = Cardinality(M) + 1
      BY <2>1, FS_AddElement
    <2> QED
      BY <1>4, <2>1, <2>2
  <1>11. EpollShape'
    BY <1>1 DEF CbIInv, EpollShape
  <1>12. CbShape'
    BY <1>1, <1>6 DEF CbIInv, CbShape
  <1>13. CbHolds'
    <2>1. \A u \in Triggers : connects'[u] # 0 <=> connects[u] # 0 \/ u = t
      BY <1>3, <1>4
    <2> QED
      BY <1>1, <1>2, <1>7, <2>1 DEF CbIInv, CbHolds
  <1>14. CbLoops'
    <2>1. ASSUME used # << >>
          PROVE  Range(used) \cap Range(cbHead'[Head(last).trigger]) = {}
      <3>1. Head(last).trigger \in Triggers
        <4>1. last \in Seq(CbEntries) /\ IsInjective(last) /\ last # << >> /\ loop = "slots"
          BY <2>1 DEF CbIInv, CbShape, CbLoops
        <4>2. Head(last) \in Range(last)
          BY <4>1, TailMembers
        <4> QED
          BY <4>1, <4>2 DEF CbIInv, CbLoops
      <3> DEFINE h == Head(last).trigger
      <3>2. Range(used) \cap Range(cbHead[h]) = {}
        BY <2>1 DEF CbIInv, CbLoops
      <3> HIDE DEF h
      <3>3. Range(cbHead'[h]) \subseteq Range(cbHead[h]) \cup {s}
        BY <1>4, <1>5, <3>1 DEF h
      <3>4. Range(used) \cap Range(cbHead'[h]) = {}
        BY <1>3, <3>2, <3>3
      <3> QED
        BY <3>4 DEF h
    <2> QED
      BY <1>1, <2>1 DEF CbIInv, CbLoops
  <1>15. CbOwns'
    <2>1. t \in allocated
      BY <1>2 DEF CbIInv, CbOwns
    <2>2. \A u \in Triggers \ allocated' : cbHead'[u] = << >>
      BY <1>1, <1>4, <2>1 DEF CbIInv, CbOwns
    <2>3. ASSUME NEW u \in Triggers
          PROVE  IsInjective(cbHead'[u]) /\ connects'[u] = Cardinality(Mine(u)')
      <3>1. CASE u = t
        BY <1>5, <1>10, <3>1
      <3>2. CASE u # t
        <4>1. cbHead'[u] = cbHead[u] /\ connects'[u] = connects[u] /\ Mine(u)' = Mine(u)
          BY <1>4, <1>8, <3>2
        <4> QED
          BY <4>1 DEF CbIInv, CbOwns
      <3> QED
        BY <3>1, <3>2
    <2>4. ASSUME NEW u \in Triggers, NEW v \in Triggers, u # v
          PROVE  Mine(u)' \cap Mine(v)' = {}
      <3>1. Mine(u) \cap Mine(v) = {} /\ s \notin Mine(u) /\ s \notin Mine(v)
        BY <1>8, <2>4 DEF CbIInv, CbOwns
      <3>2. CASE u = t
        <4>1. Mine(u)' = Mine(u) \cup {s} /\ Mine(v)' = Mine(v)
          BY <1>8, <2>4, <3>2
        <4> QED
          BY <3>1, <4>1
      <3>3. CASE u # t /\ v = t
        <4>1. Mine(v)' = Mine(v) \cup {s} /\ Mine(u)' = Mine(u)
          BY <1>8, <3>3
        <4> QED
          BY <3>1, <4>1
      <3>4. CASE u # t /\ v # t
        <4>1. Mine(v)' = Mine(v) /\ Mine(u)' = Mine(u)
          BY <1>8, <3>4
        <4> QED
          BY <3>1, <4>1
      <3> QED
        BY <3>2, <3>3, <3>4
    <2> QED
      BY <1>1, <1>7, <2>2, <2>3, <2>4 DEF CbIInv, CbOwns
  <1> QED
    BY <1>11, <1>12, <1>13, <1>14, <1>15 DEF CbIInv

\* A slot is connected to an event that gets a receptor: the trigger it gets is not in use.
LEMMA CbConnectsNew ==
  ASSUME CbIInv, NEW e \in Events, NEW s \in Slots,
         e \in Signals, ~Linked(s), ConnectNew(e, s), UNCHANGED <<loop, used, running>>
  PROVE  CbIInv'
  <1> PICK t : t = FreeTrigger(e)
    OBVIOUS
  <1>1. /\ e \notin epollTree /\ epollTree' = epollTree \cup {e} /\ UNCHANGED <<last, loop, used, running>>
        /\ userdata' = [userdata EXCEPT ![e] = t]
        /\ allocated' = allocated \cup {t}
        /\ cbHead' = [cbHead EXCEPT ![t] = <<s>>]
        /\ connects' = [connects EXCEPT ![t] = 1]
        /\ forced' = [forced EXCEPT ![t] = FALSE]
    BY DEF ConnectNew, EpollAdd
  <1>2. t \in Triggers /\ t[1] = e /\ (t = <<e, 1>> \/ (t = <<e, 2>> /\ <<e, 1>> \in allocated))
    BY DEF FreeTrigger, Triggers
  <1>3. t \notin allocated /\ t \notin Held /\ t \notin Kept
    <2>1. t \notin Held
      <3>1. ASSUME NEW f \in epollTree \cap Signals, userdata[f] = t
            PROVE  FALSE
        BY <1>1, <1>2, <3>1 DEF CbIInv, CbHolds
      <3> QED
        BY <3>1 DEF Held
    <2>2. <<e, 1>> \in allocated => <<e, 1>> \in Kept
      <3>1. ASSUME NEW f \in epollTree \cap Signals, userdata[f] = <<e, 1>>
            PROVE  FALSE
        BY <1>1, <3>1 DEF CbIInv, CbHolds
      <3>2. <<e, 1>> \notin Held
        BY <3>1 DEF Held
      <3> QED
        BY <3>2 DEF CbIInv, CbOwns
    <2>3. ~(<<e, 1>> \in Kept /\ <<e, 2>> \in Kept)
      <3> SUFFICES ASSUME <<e, 1>> \in Kept, <<e, 2>> \in Kept PROVE FALSE
        OBVIOUS
      <3>1. loop = "slots"
        BY DEF Kept
      <3>2. PICK a \in Range(last) : a.trigger = <<e, 1>>
        BY <3>1 DEF Kept
      <3>3. PICK b \in Range(last) : b.trigger = <<e, 2>>
        BY <3>1 DEF Kept
      <3>4. a.event = e /\ b.event = e
        BY <3>1, <3>2, <3>3 DEF CbIInv, CbLoops
      <3>5. a = b
        BY <3>4 DEF CbIInv, CbLoops
      <3> QED
        BY <3>2, <3>3, <3>5
    <2>4. CASE <<e, 1>> \in allocated
      <3>1. t = <<e, 2>>
        BY <2>4 DEF FreeTrigger
      <3> QED
        BY <2>1, <2>2, <2>3, <2>4, <3>1 DEF CbIInv, CbOwns
    <2>5. CASE <<e, 1>> \notin allocated
      BY <1>2, <2>1, <2>5 DEF CbIInv, CbOwns
    <2> QED
      BY <2>4, <2>5
  <1>4. /\ cbHead[t] = << >> /\ s \notin Range(used) /\ \A u \in Triggers : s \notin Range(cbHead[u])
    BY <1>2, <1>3 DEF CbIInv, CbOwns, Linked
  <1>5. /\ cbHead'[t] = <<s>> /\ connects'[t] = 1 /\ ~forced'[t]
        /\ \A u \in Triggers : u # t => /\ cbHead'[u] = cbHead[u] /\ connects'[u] = connects[u]
                                        /\ forced'[u] = forced[u]
        /\ userdata'[e] = t /\ \A f \in Events : f # e => userdata'[f] = userdata[f]
    BY <1>1, <1>2 DEF CbIInv, CbShape
  <1>6. <<s>> \in Seq(Slots) /\ IsInjective(<<s>>) /\ Range(<<s>>) = {s}
    BY DEF IsInjective, Range
  <1>7. epollTree' \cap Signals = (epollTree \cap Signals) \cup {e}
    BY <1>1
  <1>8. Held' = Held \cup {t} /\ Kept' = Kept
    <2>1. Signals \subseteq Events
      BY DEF Signals
    <2>2. \A f \in epollTree \cap Signals : userdata'[f] = userdata[f]
      BY <1>1, <1>5, <2>1
    <2> QED
      BY <1>1, <1>5, <1>7, <2>2 DEF Held, Kept
  <1>9. \A u \in Triggers :
          Mine(u)' = Range(cbHead'[u])
                     \cup IF used # << >> /\ Head(last).trigger = u THEN Range(used) ELSE {}
    BY <1>1 DEF Mine
  <1>10. used # << >> => Head(last).trigger \in Kept /\ Head(last).trigger \in Triggers
    <2> SUFFICES ASSUME used # << >> PROVE Head(last).trigger \in Kept /\ Head(last).trigger \in Triggers
      OBVIOUS
    <2>1. last \in Seq(CbEntries) /\ IsInjective(last) /\ last # << >> /\ loop = "slots"
      BY DEF CbIInv, CbShape, CbLoops
    <2>2. Head(last) \in Range(last)
      BY <2>1, TailMembers
    <2> QED
      BY <2>1, <2>2 DEF CbIInv, CbLoops, Kept
  <1>11. /\ Mine(t)' = {s}
         /\ \A u \in Triggers : u # t => Mine(u)' = Mine(u)
         /\ \A u \in Triggers : s \notin Mine(u)
    <2>1. Mine(t)' = {s}
      BY <1>2, <1>3, <1>5, <1>6, <1>9, <1>10
    <2>2. \A u \in Triggers : u # t => Mine(u)' = Mine(u)
      BY <1>5, <1>9 DEF Mine
    <2>3. \A u \in Triggers : s \notin Mine(u)
      BY <1>4 DEF Mine
    <2> QED
      BY <2>1, <2>2, <2>3
  <1>12. EpollShape'
    <2>1. EventNotify(e) \/ EventClean(e) \/ EpollAdd(e) \/ EpollDel(e)
          \/ EpollSleep \/ EpollWoken \/ EpollWait \/ UNCHANGED epollVars
      BY DEF ConnectNew
    <2> QED
      BY <2>1, EpollKeeps DEF CbIInv
  <1>13. CbShape'
    <2>1. userdata' \in [Events -> Triggers \cup {NoTrigger}] /\ forced' \in [Triggers -> BOOLEAN]
      BY <1>1, <1>2 DEF CbIInv, CbShape
    <2>2. cbHead' \in [Triggers -> Seq(Slots)] /\ connects' \in [Triggers -> Nat]
      BY <1>1, <1>6 DEF CbIInv, CbShape
    <2> QED
      BY <1>1, <1>2, <2>1, <2>2 DEF CbIInv, CbShape
  <1>14. CbHolds'
    <2>1. ASSUME NEW f \in epollTree' \cap Signals
          PROVE  /\ userdata'[f] \in Triggers /\ userdata'[f][1] = f
                 /\ connects'[userdata'[f]] # 0
      <3>1. CASE f = e
        BY <1>2, <1>5, <3>1
      <3>2. CASE f # e
        <4>1. f \in epollTree \cap Signals /\ f \in Events
          BY <1>7, <3>2 DEF Signals
        <4>2. userdata'[f] = userdata[f] /\ userdata[f] # t
          BY <1>3, <1>5, <3>2, <4>1 DEF Held
        <4> QED
          BY <1>5, <4>1, <4>2 DEF CbIInv, CbHolds
      <3> QED
        BY <3>1, <3>2
    <2>2. \A f \in Events : f \notin epollTree' \cap Signals => userdata'[f] = NoTrigger
      BY <1>5, <1>7 DEF CbIInv, CbHolds
    <2>3. \A u \in Triggers \ Held' : connects'[u] = 0
      BY <1>5, <1>8 DEF CbIInv, CbHolds
    <2> QED
      BY <2>1, <2>2, <2>3 DEF CbHolds
  <1>15. CbLoops'
    <2>1. ASSUME used # << >>
          PROVE  Range(used) \cap Range(cbHead'[Head(last).trigger]) = {}
      <3>1. cbHead'[Head(last).trigger] = cbHead[Head(last).trigger]
        BY <1>3, <1>5, <1>10, <2>1
      <3> QED
        BY <2>1, <3>1 DEF CbIInv, CbLoops
    <2>2. ASSUME loop = "batch", NEW a \in Range(last)
          PROVE  a.event \in epollTree' /\ a.trigger = userdata'[a.event]
      <3>1. a.event \in epollTree /\ a.trigger = userdata[a.event] /\ a.event \in Events
        BY <2>2 DEF CbIInv, CbLoops, EpollShape
      <3> QED
        BY <1>1, <1>5, <3>1
    <2> QED
      BY <1>1, <2>1, <2>2 DEF CbIInv, CbLoops
  <1>16. CbOwns'
    <2>1. allocated' = Held' \cup Kept'
      BY <1>1, <1>8 DEF CbIInv, CbOwns
    <2>2. \A u \in Triggers \ allocated' : cbHead'[u] = << >>
      BY <1>1, <1>5 DEF CbIInv, CbOwns
    <2>3. ASSUME NEW u \in Triggers
          PROVE  IsInjective(cbHead'[u]) /\ connects'[u] = Cardinality(Mine(u)')
      <3>1. CASE u = t
        <4>1. Cardinality({s}) = 1
          BY FS_Singleton
        <4> QED
          BY <1>5, <1>6, <1>11, <3>1, <4>1
      <3>2. CASE u # t
        <4>1. cbHead'[u] = cbHead[u] /\ connects'[u] = connects[u] /\ Mine(u)' = Mine(u)
          BY <1>5, <1>11, <3>2
        <4> QED
          BY <4>1 DEF CbIInv, CbOwns
      <3> QED
        BY <3>1, <3>2
    <2>4. ASSUME NEW u \in Triggers, NEW v \in Triggers, u # v
          PROVE  Mine(u)' \cap Mine(v)' = {}
      <3>1. Mine(u) \cap Mine(v) = {} /\ s \notin Mine(u) /\ s \notin Mine(v)
        BY <1>11, <2>4 DEF CbIInv, CbOwns
      <3>2. CASE u = t
        BY <1>11, <2>4, <3>1, <3>2
      <3>3. CASE u # t /\ v = t
        BY <1>11, <3>1, <3>3
      <3>4. CASE u # t /\ v # t
        BY <1>11, <3>1, <3>4
      <3> QED
        BY <3>2, <3>3, <3>4
    <2>5. \A u \in Triggers : forced'[u] <=> u \in Kept'
      BY <1>3, <1>5, <1>8 DEF CbIInv, CbOwns
    <2> QED
      BY <2>1, <2>2, <2>3, <2>4, <2>5 DEF CbOwns
  <1> QED
    BY <1>12, <1>13, <1>14, <1>15, <1>16 DEF CbIInv

\* A slot is disconnected; the last one takes the receptor with it, and the trigger, unless
\* the loop still refers to that.
LEMMA CbDisconnects ==
  ASSUME CbIInv, NEW e \in Events, NEW s \in Slots, CbDisconnect(e, s)
  PROVE  CbIInv'
  <1> PICK t : t = userdata[e]
    OBVIOUS
  <1>1. /\ e \in epollTree \cap Signals
        /\ s \in Range(cbHead[t]) \/ (s \in Range(used) /\ Head(last).trigger = t)
        /\ cbHead' = [cbHead EXCEPT ![t] = EpollUnlink(@, s)]
        /\ used' = EpollUnlink(used, s)
        /\ connects' = [connects EXCEPT ![t] = @ - 1]
        /\ UNCHANGED <<forced, loop, running>>
        /\ allocated' = FreeUnreferenced(t)
        /\ IF connects'[t] = 0
           THEN EpollDel(e) /\ userdata' = [userdata EXCEPT ![e] = NoTrigger]
           ELSE UNCHANGED <<userdata, epollVars>>
    BY DEF CbDisconnect
  <1>2. t \in Triggers /\ t \in Held /\ t[1] = e
    BY <1>1 DEF CbIInv, CbHolds, Held
  <1>3. /\ cbHead[t] \in Seq(Slots) /\ IsInjective(cbHead[t]) /\ connects[t] \in Nat
        /\ used \in Seq(Slots) /\ IsInjective(used)
    BY <1>2 DEF CbIInv, CbShape, CbOwns
  <1>4. /\ cbHead'[t] = EpollUnlink(cbHead[t], s) /\ connects'[t] = connects[t] - 1
        /\ \A u \in Triggers : u # t => cbHead'[u] = cbHead[u] /\ connects'[u] = connects[u]
    BY <1>1, <1>2 DEF CbIInv, CbShape
  <1>5. /\ cbHead'[t] \in Seq(Slots) /\ IsInjective(cbHead'[t])
        /\ Range(cbHead'[t]) = Range(cbHead[t]) \ {s}
        /\ used' \in Seq(Slots) /\ IsInjective(used') /\ Range(used') = Range(used) \ {s}
    <2> DEFINE q == cbHead[t]
    <2>1. q \in Seq(Slots) /\ IsInjective(q) /\ cbHead'[t] = EpollUnlink(q, s)
      BY <1>3, <1>4
    <2> HIDE DEF q
    <2>2. /\ cbHead'[t] \in Seq(Slots) /\ IsInjective(cbHead'[t])
          /\ Range(cbHead'[t]) = Range(q) \ {s}
      BY <2>1, UnlinkMembers
    <2>3. used' \in Seq(Slots) /\ IsInjective(used') /\ Range(used') = Range(used) \ {s}
      BY <1>1, <1>3, UnlinkMembers
    <2> QED
      BY <2>2, <2>3 DEF q
  <1>6. /\ used = << >> => used' = << >>
        /\ UNCHANGED last
    <2>1. Range(<< >>) = {}
      BY DEF Range
    <2>2. used = << >> => used' = << >>
      BY <1>1, <2>1 DEF EpollUnlink
    <2> QED
      BY <1>1, <2>2 DEF EpollDel, epollVars
  <1>7. \A u \in Triggers : Mine(u)' = Mine(u) \ {s}
    <2> SUFFICES ASSUME NEW u \in Triggers PROVE Mine(u)' = Mine(u) \ {s}
      OBVIOUS
    <2>1. s \in Mine(t)
      <3>1. CASE s \in Range(cbHead[t])
        BY <3>1 DEF Mine
      <3>2. CASE s \in Range(used) /\ Head(last).trigger = t
        <4>1. used # << >>
          BY <3>2 DEF Range
        <4> QED
          BY <3>2, <4>1 DEF Mine
      <3> QED
        BY <1>1, <3>1, <3>2
    <2>2. u # t => s \notin Mine(u)
      BY <1>2, <2>1 DEF CbIInv, CbOwns
    <2>3. Range(cbHead'[u]) = Range(cbHead[u]) \ {s}
      <3>1. CASE u = t
        BY <1>5, <3>1
      <3>2. CASE u # t
        BY <1>4, <2>2, <3>2 DEF Mine
      <3> QED
        BY <3>1, <3>2
    <2>4. used' = << >> => Range(used') = {}
      BY DEF Range
    <2> DEFINE h == Head(last).trigger = u
    <2>5. Mine(u)' = Range(cbHead'[u]) \cup IF used' # << >> /\ h THEN Range(used') ELSE {}
      BY <1>6 DEF Mine
    <2>6. Mine(u) = Range(cbHead[u]) \cup IF used # << >> /\ h THEN Range(used) ELSE {}
      BY DEF Mine
    <2> HIDE DEF h
    <2> QED
      BY <1>5, <1>6, <2>3, <2>4, <2>5, <2>6
  <1>8. s \in Mine(t) /\ IsFiniteSet(Mine(t))
    <2>1. s \in Mine(t)
      <3>1. s \in Range(used) => used # << >>
        BY DEF Range
      <3> QED
        BY <1>1, <3>1 DEF Mine
    <2>2. IsFiniteSet(Mine(t))
      BY <1>2, <1>3, MembersFinite, FS_Union, FS_EmptySet DEF Mine
    <2> QED
      BY <2>1, <2>2
  <1>9. \A u \in Triggers : connects'[u] = Cardinality(Mine(u)')
    <2> DEFINE M == Mine(t)
    <2>1. IsFiniteSet(M) /\ s \in M /\ connects[t] = Cardinality(M)
      BY <1>2, <1>8 DEF CbIInv, CbOwns
    <2> HIDE DEF M
    <2>2. Cardinality(M \ {s}) = Cardinality(M) - 1
      BY <2>1, FS_RemoveElement
    <2>3. ASSUME NEW u \in Triggers, u = t
          PROVE  connects'[u] = Cardinality(Mine(u)')
      <3>1. Mine(u)' = M \ {s}
        BY <1>7, <2>3 DEF M
      <3> QED
        BY <1>4, <2>1, <2>2, <2>3, <3>1
    <2>4. ASSUME NEW u \in Triggers, u # t
          PROVE  connects'[u] = Cardinality(Mine(u)')
      <3>1. s \notin Mine(u)
        BY <1>2, <1>8, <2>4 DEF CbIInv, CbOwns
      <3>2. Mine(u)' = Mine(u) /\ connects'[u] = connects[u]
        BY <1>4, <1>7, <2>4, <3>1
      <3> QED
        BY <3>2 DEF CbIInv, CbOwns
    <2> QED
      BY <2>3, <2>4
  <1>10. connects[t] # 0 /\ connects'[t] \in Nat
    BY <1>1, <1>3, <1>4 DEF CbIInv, CbHolds
  <1>11. EpollShape'
    <2>1. \/ EventNotify(e) \/ EventClean(e) \/ EpollAdd(e) \/ EpollDel(e)
          \/ EpollSleep \/ EpollWoken \/ EpollWait \/ UNCHANGED epollVars
      BY <1>1
    <2> QED
      BY <2>1, EpollKeeps DEF CbIInv
  <1>12. Kept' = Kept
    BY <1>1, <1>6 DEF Kept
  <1>13. /\ connects'[t] = 0 => epollTree' = epollTree \ {e} /\ userdata' = [userdata EXCEPT ![e] = NoTrigger]
         /\ connects'[t] # 0 => epollTree' = epollTree /\ userdata' = userdata
    BY <1>1 DEF EpollDel, epollVars
  <1>14. Held' = IF connects'[t] = 0 THEN Held \ {t} ELSE Held
    <2>1. CASE connects'[t] = 0
      <3>1. \A f \in epollTree \cap Signals : f # e => userdata'[f] = userdata[f] /\ userdata[f] # t
        BY <1>2, <1>13, <2>1 DEF CbIInv, CbHolds, CbShape, Signals
      <3>2. epollTree' \cap Signals = (epollTree \cap Signals) \ {e}
        BY <1>13, <2>1
      <3> QED
        BY <1>1, <2>1, <3>1, <3>2 DEF Held
    <2>2. CASE connects'[t] # 0
      BY <1>13, <2>2 DEF Held
    <2> QED
      BY <2>1, <2>2
  <1>15. allocated' = IF connects'[t] = 0 /\ t \notin Kept THEN allocated \ {t} ELSE allocated
    BY <1>1, <1>2 DEF FreeUnreferenced, CbIInv, CbOwns
  <1>16. CbShape'
    <2>1. userdata' \in [Events -> Triggers \cup {NoTrigger}]
      BY <1>13 DEF CbIInv, CbShape
    <2>2. cbHead' \in [Triggers -> Seq(Slots)] /\ connects' \in [Triggers -> Nat]
      BY <1>1, <1>2, <1>4, <1>5, <1>10 DEF CbIInv, CbShape
    <2> QED
      BY <1>1, <1>5, <1>6, <1>15, <2>1, <2>2 DEF CbIInv, CbShape
  <1>17. CbHolds'
    <2>1. ASSUME NEW f \in epollTree' \cap Signals
          PROVE  /\ userdata'[f] \in Triggers /\ userdata'[f][1] = f
                 /\ connects'[userdata'[f]] # 0
      <3>1. f \in epollTree \cap Signals /\ f \in Events /\ userdata'[f] = userdata[f]
            /\ (connects'[t] = 0 => f # e)
        BY <1>13, <2>1 DEF Signals, CbIInv, CbShape
      <3>2. userdata[f] \in Triggers /\ userdata[f][1] = f /\ connects[userdata[f]] # 0
        BY <3>1 DEF CbIInv, CbHolds
      <3>3. userdata[f] = t => connects'[t] # 0
        BY <1>2, <3>1, <3>2
      <3> QED
        BY <1>4, <3>1, <3>2, <3>3
    <2>2. \A f \in Events : f \notin epollTree' \cap Signals => userdata'[f] = NoTrigger
      BY <1>13 DEF CbIInv, CbHolds, CbShape
    <2>3. ASSUME NEW u \in Triggers, u \notin Held'
          PROVE  connects'[u] = 0
      <3>1. CASE u = t
        BY <1>2, <1>14, <2>3, <3>1
      <3>2. CASE u # t
        <4>1. u \notin Held
          BY <1>14, <2>3, <3>2
        <4> QED
          BY <1>4, <3>2, <4>1 DEF CbIInv, CbHolds
      <3> QED
        BY <3>1, <3>2
    <2> QED
      BY <2>1, <2>2, <2>3 DEF CbHolds
  <1>18. CbLoops'
    <2>1. loop # "batch"
      BY DEF CbDisconnect, TasksMayRun, CbIInv, CbLoops
    <2>2. ASSUME used' # << >>
          PROVE  Range(used') \cap Range(cbHead'[Head(last').trigger]) = {}
      <3>1. used # << >>
        BY <1>6, <2>2
      <3> DEFINE h == Head(last).trigger
      <3>2. h \in Triggers
        <4>1. last \in Seq(CbEntries) /\ IsInjective(last) /\ last # << >> /\ loop = "slots"
          BY <3>1 DEF CbIInv, CbShape, CbLoops
        <4>2. Head(last) \in Range(last)
          BY <4>1, TailMembers
        <4> QED
          BY <4>1, <4>2 DEF CbIInv, CbLoops
      <3>3. Range(used) \cap Range(cbHead[h]) = {}
        BY <3>1 DEF CbIInv, CbLoops
      <3>4. Head(last').trigger = h
        BY <1>6
      <3> HIDE DEF h
      <3>5. Range(cbHead'[h]) \subseteq Range(cbHead[h])
        BY <1>4, <1>5, <3>2
      <3> QED
        BY <1>5, <3>3, <3>4, <3>5
    <2> QED
      BY <1>1, <1>6, <2>1, <2>2 DEF CbIInv, CbLoops
  <1>19. CbOwns'
    <2>1. allocated' = Held' \cup Kept'
      BY <1>2, <1>12, <1>14, <1>15 DEF CbIInv, CbOwns
    <2>2. \A u \in Triggers \ allocated' : cbHead'[u] = << >>
      <3> SUFFICES ASSUME NEW u \in Triggers, u \notin allocated' PROVE cbHead'[u] = << >>
        OBVIOUS
      <3>1. CASE u = t
        <4>1. connects'[t] = 0 /\ Cardinality(Mine(t)') = 0
          BY <1>2, <1>9, <1>15, <3>1 DEF CbIInv, CbOwns
        <4>2. IsFiniteSet(Mine(t)')
          BY <1>2, <1>7, <1>8, FS_RemoveElement
        <4>3. Mine(t)' = {}
          BY <4>1, <4>2, FS_EmptySet
        <4>4. Range(cbHead'[t]) = {}
          BY <4>3 DEF Mine
        <4> QED
          BY <1>5, <3>1, <4>4, NoMembers
      <3>2. CASE u # t
        BY <1>4, <1>15, <3>2 DEF CbIInv, CbOwns
      <3> QED
        BY <3>1, <3>2
    <2>3. \A u \in Triggers : IsInjective(cbHead'[u])
      BY <1>4, <1>5 DEF CbIInv, CbOwns
    <2>4. \A u, v \in Triggers : u # v => Mine(u)' \cap Mine(v)' = {}
      BY <1>7 DEF CbIInv, CbOwns
    <2>5. \A u \in Triggers : forced'[u] <=> u \in Kept'
      BY <1>1, <1>12 DEF CbIInv, CbOwns
    <2> QED
      BY <1>9, <2>1, <2>2, <2>3, <2>4, <2>5 DEF CbOwns
  <1> QED
    BY <1>11, <1>16, <1>17, <1>18, <1>19 DEF CbIInv

\* An event is cleaned from the task; not the one whose slots are being called, as long
\* as some of them are on the list of the loop.
LEMMA CbCleans ==
  ASSUME CleansReach, CbIInv, NEW e \in Events, CbClean(e)
  PROVE  CbIInv'
  <1> PICK t : t = userdata[e]
    OBVIOUS
  <1>1. /\ e \in epollTree \cap Signals /\ TasksMayRun
        /\ ~(used # << >> /\ Head(last).trigger = t)
        /\ cbHead' = [cbHead EXCEPT ![t] = << >>]
        /\ connects' = [connects EXCEPT ![t] = 0]
        /\ allocated' = FreeUnreferenced(t)
        /\ EpollDel(e)
        /\ userdata' = [userdata EXCEPT ![e] = NoTrigger]
        /\ UNCHANGED <<forced, loop, used, running, last>> /\ epollTree' = epollTree \ {e}
    BY DEF CbClean, CleanTrigger, EpollDel, CleansReach, Unreached
  <1>2. t \in Triggers /\ t \in Held /\ t[1] = e
    BY <1>1 DEF CbIInv, CbHolds, Held
  <1>3. /\ cbHead'[t] = << >> /\ connects'[t] = 0
        /\ \A u \in Triggers : u # t => cbHead'[u] = cbHead[u] /\ connects'[u] = connects[u]
    BY <1>1, <1>2 DEF CbIInv, CbShape
  <1>4. used # << >> => Head(last).trigger # t
    BY <1>1
  <1>5. << >> \in Seq(Slots) /\ IsInjective(<< >>) /\ Range(<< >>) = {}
    BY DEF IsInjective, Range
  <1>6. /\ Mine(t)' = {}
        /\ \A u \in Triggers : u # t => Mine(u)' = Mine(u)
    BY <1>1, <1>3, <1>4, <1>5 DEF Mine
  <1>7. EpollShape'
    <2>1. \/ EventNotify(e) \/ EventClean(e) \/ EpollAdd(e) \/ EpollDel(e)
          \/ EpollSleep \/ EpollWoken \/ EpollWait \/ UNCHANGED epollVars
      BY <1>1
    <2> QED
      BY <2>1, EpollKeeps DEF CbIInv
  <1>8. Kept' = Kept
    BY <1>1 DEF Kept
  <1>9. Held' = Held \ {t}
    <2>1. \A f \in epollTree \cap Signals : f # e => userdata'[f] = userdata[f] /\ userdata[f] # t
      BY <1>1, <1>2 DEF CbIInv, CbHolds, CbShape, Signals
    <2>2. epollTree' \cap Signals = (epollTree \cap Signals) \ {e}
      BY <1>1
    <2> QED
      BY <1>1, <2>1, <2>2 DEF Held
  <1>10. allocated' = IF t \notin Kept THEN allocated \ {t} ELSE allocated
    BY <1>1, <1>2, <1>3 DEF FreeUnreferenced, CbIInv, CbOwns
  <1>11. CbShape'
    <2>1. userdata' \in [Events -> Triggers \cup {NoTrigger}]
      BY <1>1 DEF CbIInv, CbShape
    <2>2. cbHead' \in [Triggers -> Seq(Slots)] /\ connects' \in [Triggers -> Nat]
      BY <1>1, <1>5 DEF CbIInv, CbShape
    <2> QED
      BY <1>1, <1>10, <2>1, <2>2 DEF CbIInv, CbShape
  <1>12. CbHolds'
    <2>1. ASSUME NEW f \in epollTree' \cap Signals
          PROVE  /\ userdata'[f] \in Triggers /\ userdata'[f][1] = f
                 /\ connects'[userdata'[f]] # 0
      <3>1. f \in epollTree \cap Signals /\ f \in Events /\ userdata'[f] = userdata[f] /\ f # e
        BY <1>1, <2>1 DEF Signals, CbIInv, CbShape
      <3>2. userdata[f] \in Triggers /\ userdata[f][1] = f /\ connects[userdata[f]] # 0
        BY <3>1 DEF CbIInv, CbHolds
      <3>3. userdata[f] # t
        BY <1>2, <3>1, <3>2
      <3> QED
        BY <1>3, <3>1, <3>2, <3>3
    <2>2. \A f \in Events : f \notin epollTree' \cap Signals => userdata'[f] = NoTrigger
      BY <1>1 DEF CbIInv, CbHolds, CbShape
    <2>3. \A u \in Triggers \ Held' : connects'[u] = 0
      BY <1>3, <1>9 DEF CbIInv, CbHolds
    <2> QED
      BY <2>1, <2>2, <2>3 DEF CbHolds
  <1>13. CbLoops'
    <2>1. loop # "batch"
      BY <1>1 DEF TasksMayRun, CbIInv, CbLoops
    <2>2. ASSUME used # << >>
          PROVE  Range(used) \cap Range(cbHead'[Head(last).trigger]) = {}
      <3>1. Head(last).trigger \in Triggers
        <4>1. last \in Seq(CbEntries) /\ IsInjective(last) /\ last # << >> /\ loop = "slots"
          BY <2>2 DEF CbIInv, CbShape, CbLoops
        <4>2. Head(last) \in Range(last)
          BY <4>1, TailMembers
        <4> QED
          BY <4>1, <4>2 DEF CbIInv, CbLoops
      <3>2. cbHead'[Head(last).trigger] = cbHead[Head(last).trigger]
        BY <1>3, <1>4, <2>2, <3>1
      <3> QED
        BY <2>2, <3>2 DEF CbIInv, CbLoops
    <2> QED
      BY <1>1, <2>1, <2>2 DEF CbIInv, CbLoops
  <1>14. CbOwns'
    <2>1. allocated' = Held' \cup Kept'
      BY <1>2, <1>8, <1>9, <1>10 DEF CbIInv, CbOwns
    <2>2. \A u \in Triggers \ allocated' : cbHead'[u] = << >>
      BY <1>3, <1>10 DEF CbIInv, CbOwns
    <2>3. ASSUME NEW u \in Triggers
          PROVE  IsInjective(cbHead'[u]) /\ connects'[u] = Cardinality(Mine(u)')
      <3>1. CASE u = t
        <4>1. Mine(u)' = {}
          BY <1>6, <3>1
        <4> QED
          BY <1>3, <1>5, <3>1, <4>1, FS_EmptySet
      <3>2. CASE u # t
        <4>1. cbHead'[u] = cbHead[u] /\ connects'[u] = connects[u] /\ Mine(u)' = Mine(u)
          BY <1>3, <1>6, <3>2
        <4> QED
          BY <4>1 DEF CbIInv, CbOwns
      <3> QED
        BY <3>1, <3>2
    <2>4. \A u, v \in Triggers : u # v => Mine(u)' \cap Mine(v)' = {}
      BY <1>6 DEF CbIInv, CbOwns
    <2>5. \A u \in Triggers : forced'[u] <=> u \in Kept'
      BY <1>1, <1>8 DEF CbIInv, CbOwns
    <2> QED
      BY <2>1, <2>2, <2>3, <2>4, <2>5 DEF CbOwns
  <1> QED
    BY <1>7, <1>11, <1>12, <1>13, <1>14 DEF CbIInv

LEMMA CbSteps ==
  ASSUME [CleansReach]_loopVars, CbIInv, [Next]_loopVars
  PROVE  CbIInv'
  <1>1. CASE UNCHANGED loopVars
    <2>1. EpollShape' /\ UNCHANGED <<epollTree, triggerVars, loop, used, last, running>>
      BY <1>1 DEF loopVars, epollVars, cbVars, triggerVars, CbIInv, EpollShape
    <2> QED
      BY <2>1, CbStays
  <1>2. CASE LoopEnter \/ LoopAgain
    <2>1. last = << >> /\ EpollWait
      BY <1>2 DEF LoopEnter, LoopAgain, CbIInv, CbLoops
    <2>2. /\ loop' \in {"out", "wait"}
          /\ UNCHANGED <<epollTree, linked, pending, triggerVars, used, running, last>>
      BY <1>2, <2>1 DEF LoopEnter, LoopAgain, EpollWait
    <2> QED
      BY <2>1, <2>2, CbIdles DEF EpollShape, CbIInv
  <1>3. CASE LoopQuit
    <2>1. /\ last = << >> /\ loop' \in {"out", "wait"}
          /\ UNCHANGED <<epollTree, linked, pending, triggerVars, used, running, last>>
      BY <1>3 DEF LoopQuit, epollVars
    <2> QED
      BY <2>1, CbIdles DEF EpollShape, CbIInv
  <1>4. CASE LoopWait
    <2>1. /\ UNCHANGED <<epollTree, linked, pending, last>> /\ UNCHANGED cbVars
      BY <1>4 DEF LoopWait, EpollSleep, EpollWoken
    <2> QED
      BY <2>1, CbStays DEF EpollShape, CbIInv, cbVars, triggerVars
  <1>5. CASE LoopFound
    BY <1>5, CbFinds
  <1>6. CASE LoopBatch
    BY <1>6, CbSorts
  <1>7. CASE SlotCall
    BY <1>7, CbCalls
  <1>8. CASE SlotReturn
    <2>1. /\ UNCHANGED <<epollTree, linked, pending, last, triggerVars, loop, used>>
          /\ running' = NoSlot
      BY <1>8 DEF SlotReturn, epollVars
    <2> QED
      BY <2>1, CbStays DEF EpollShape, CbIInv
  <1>9. CASE SlotsDone
    BY <1>9, CbDone
  <1>10. CASE TaskDestruct
    BY <1>10, CbDestructs
  <1>11. CASE CbNewEpoll
    <2>1. Self \in Events /\ EpollAdd(Self) /\ UNCHANGED cbVars
      BY <1>11, CbConstants DEF CbNewEpoll
    <2>2. EpollShape'
      BY <2>1, EpollKeeps DEF CbIInv
    <2> QED
      BY <2>1, <2>2, CbStays DEF EpollAdd, cbVars, triggerVars
  <1>12. CASE RequestQuit \/ ThreadQuitNotify
    <2>1. Self \in Events /\ EventNotify(Self) /\ UNCHANGED <<triggerVars, loop, used, running>>
      BY <1>12, CbConstants DEF RequestQuit, ThreadQuitNotify
    <2>2. EpollShape'
      BY <2>1, EpollKeeps DEF CbIInv
    <2> QED
      BY <2>1, <2>2, CbStays DEF EventNotify
  <1>13. CASE ThreadQuitFlag
    <2>1. UNCHANGED <<epollTree, linked, pending, last, triggerVars, loop, used, running>>
      BY <1>13 DEF ThreadQuitFlag, epollVars
    <2> QED
      BY <2>1, CbStays DEF EpollShape, CbIInv
  <1>14. ASSUME NEW e \in Events, CbNotify(e) \/ EventIsCleaned(e)
         PROVE  CbIInv'
    <2>1. (EventNotify(e) \/ EventClean(e)) /\ UNCHANGED cbVars
      BY <1>14 DEF CbNotify, EventIsCleaned
    <2>2. EpollShape'
      BY <2>1, EpollKeeps DEF CbIInv
    <2> QED
      BY <2>1, <2>2, CbStays DEF EventNotify, EventClean, cbVars, triggerVars
  <1>15. ASSUME CleansReach, NEW e \in Events, CbClean(e)
         PROVE  CbIInv'
    BY <1>15, CbCleans
  <1>16. ASSUME NEW e \in Events, NEW s \in Slots, CbConnect(e, s)
         PROVE  CbIInv'
    <2>1. /\ e \in Signals /\ ~Linked(s) /\ UNCHANGED <<loop, used, running>>
          /\ ConnectExisting(e, s) \/ ConnectNew(e, s)
      BY <1>16, CbConstants DEF CbConnect, Signals
    <2> QED
      BY <2>1, CbConnectsMore, CbConnectsNew
  <1>17. ASSUME NEW e \in Events, NEW s \in Slots, CbDisconnect(e, s)
         PROVE  CbIInv'
    BY <1>17, CbDisconnects
  <1> QED
    BY <1>1, <1>2, <1>3, <1>4, <1>5, <1>6, <1>7, <1>8, <1>9, <1>10, <1>11, <1>12, <1>13,
       <1>14, <1>15, <1>16, <1>17 DEF Next

\* Whatever slot functions, other tasks and interrupts connect, disconnect, clean and notify
\* while eh_event_loop goes through a batch: no slot hangs in memory that has been freed,
\* a slot is in one list, a trigger has as many connections as slots, and it is allocated as
\* long as a receptor or the loop refers to it, not longer.  Only the event whose slots are
\* being called must not be cleaned while some of them are on the list of the loop, which
\* eh_event_cb_clean_from_task does not reach (hypothesis CleansReach of the theorem): the
\* run cb_cleaned shows what happens then.
THEOREM SlotsKeepTheirTriggers == Spec /\ [][CleansReach]_loopVars => []SlotsInv
  <1>1. Init => CbIInv
    BY CbBegins
  <1>2. CbIInv /\ [Next]_loopVars /\ [CleansReach]_loopVars => CbIInv'
    BY CbSteps
  <1>3. CbIInv => SlotsInv
    BY SlotsAreOwned
  <1> QED
    BY <1>1, <1>2, <1>3, PTL DEF Spec

=============================================================================
