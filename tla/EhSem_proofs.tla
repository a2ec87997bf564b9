----------------------------- MODULE EhSem_proofs -----------------------------
(***************************************************************************)
(* Proofs about semaphores, for every set of tasks and semaphores and      *)
(* every width of the counters: what a wait relies on, that no token is    *)
(* stranded, and that semaphores implement their abstract specification.   *)
(*                                                                         *)
(* The invariant adds five facts to the core of EhEvent_proofs.  The one   *)
(* about the receptors of a destroyed semaphore (its cleaning loop is      *)
(* under way as long as there are any) is what makes a semaphore that is   *)
(* created at the same address start without receptors; the one about      *)
(* tokens is inductive as it stands, since every step that posts a token   *)
(* or takes one moves exactly one receptor into or out of the covered ones.*)
(***************************************************************************)
EXTENDS EhSem, EhEvent_proofs

-----------------------------------------------------------------------------
(***************************************************************************)
(* The counters.                                                           *)
(***************************************************************************)

Counts == 0 .. Width - 1

\* Incrementing modulo Width, and what it does to the difference.
LEMMA IncDifference ==
  ASSUME NEW p \in Counts, NEW v \in Counts
  PROVE  /\ Inc(v) \in Counts
         /\ Difference(v, p) \in 0 .. Width - 1
         /\ Difference(v, 0) = v
         /\ v # p <=> Difference(v, p) > 0
         /\ Inc(v) # p =>
              /\ Difference(v, p) < Width - 1
              /\ Difference(Inc(v), p) = Difference(v, p) + 1
         /\ v # p => Difference(v, Inc(p)) = Difference(v, p) - 1
  BY SemAssumption DEF Counts, Inc, Difference

-----------------------------------------------------------------------------
(***************************************************************************)
(* The invariant.                                                          *)
(***************************************************************************)

SemCore ==
  /\ SemTypeOK
  /\ \A t \in Task : wpc[t] # "none" => wev[t] \in Sem
  /\ \A t \in Task : wpc[t] \in {"add", "ok"} => alive[wev[t]]
  /\ \A t \in Task : wpc[t] = "ok" => HasToken(wev[t])
  /\ \A s \in Sem : ~alive[s] => Gone(s)
  /\ NoStrandedToken

SemIInv == CoreInv /\ SemCore

\* What the invariant says, at hand for the steps.
LEMMA SemFacts ==
  ASSUME SemIInv
  PROVE  /\ CoreInv /\ Current \in Task /\ Sem \subseteq Event
         /\ alive \in [Sem -> BOOLEAN]
         /\ sem_num_p \in [Sem -> Counts] /\ sem_num_v \in [Sem -> Counts]
         /\ \A t \in Task : wpc[t] # "none" => wev[t] \in Sem
         /\ \A t \in Task : wpc[t] \in {"add", "ok"} => alive[wev[t]]
         /\ \A t \in Task : wpc[t] = "ok" => HasToken(wev[t])
         /\ \A s \in Sem : ~alive[s] => Gone(s)
         /\ NoStrandedToken
         /\ \A t \in Task :
              wpc[t] \in {"add", "ok"} => t = Current /\ phase = "run"
         /\ Width \in Nat
  BY CoreFacts, SemAssumption
     DEF SemIInv, SemCore, SemTypeOK, Counts, Sem, Event

\* The number of tokens, and how many of them nobody has gone on to take.
LEMMA ValueFacts ==
  ASSUME SemIInv, NEW s \in Sem
  PROVE  /\ Value(s) \in Nat
         /\ HasToken(s) <=> Value(s) > 0
         /\ Available(s) \in Nat
         /\ (\A t \in Task : wpc[t] # "ok") => Available(s) = Value(s)
         /\ \A t \in Task : wpc[t] = "ok" =>
              Available(s) = IF wev[t] = s THEN Value(s) - 1 ELSE Value(s)
  <1>1. sem_num_p[s] \in Counts /\ sem_num_v[s] \in Counts
    BY SemFacts
  <1>2. Value(s) \in 0 .. Width - 1 /\ (HasToken(s) <=> Value(s) > 0)
    BY <1>1, IncDifference DEF Value, HasToken
  <1>3. Value(s) \in Nat
    BY <1>2
  <1>4. /\ \A t \in Task : wpc[t] = "ok" => t = Current /\ HasToken(wev[t])
        /\ Current \in Task
    BY SemFacts
  <1> QED
    BY <1>2, <1>3, <1>4 DEF Available

\* Tokens and receptors, in this state and in the next.
LEMMA TokensCovered ==
  ASSUME SemIInv, NEW s \in Sem, alive[s], NEW n \in Nat, n = Available(s)
  PROVE  Covered(s, n)
  BY DEF SemIInv, SemCore, NoStrandedToken, Covered, Awake

LEMMA TokensCoveredNext ==
  ASSUME \A s \in Sem : Available(s)' \in Nat,
         \A s \in Sem : \A n \in Nat :
           alive'[s] /\ n = Available(s)' => Covered(s, n)'
  PROVE  NoStrandedToken'
  <1> SUFFICES ASSUME NEW s \in Sem, alive'[s], NEW i \in 1 .. Len(recv'[s]),
                      i + Available(s)' > Len(recv'[s])
               PROVE  state'[recv'[s][i]] # "WAIT" \/ InWalk(recv[s][i])'
    BY DEF NoStrandedToken
  <1>1. PICK n \in Nat : n = Available(s)'
    OBVIOUS
  <1>2. Covered(s, n)'
    BY <1>1
  <1> QED
    BY <1>1, <1>2 DEF Covered, Awake

\* The invariant of the next state, wait by wait.
LEMMA SemCoreNext ==
  ASSUME SemTypeOK', NoStrandedToken',
         \A t \in Task : wpc'[t] # "none" => wev'[t] \in Sem,
         \A t \in Task : wpc'[t] \in {"add", "ok"} => alive'[wev'[t]],
         \A t \in Task :
           wpc'[t] = "ok" => sem_num_p'[wev'[t]] # sem_num_v'[wev'[t]],
         \A s \in Sem : ~alive'[s] => Gone(s)'
  PROVE  SemCore'
  BY DEF SemCore, HasToken

-----------------------------------------------------------------------------
(***************************************************************************)
(* The steps.                                                              *)
(***************************************************************************)

\* Before the first semaphore is created.
LEMMA InitSemIInv == SemInit => SemIInv
  <1> SUFFICES ASSUME SemInit PROVE SemIInv
    OBVIOUS
  <1>1. /\ alive = [s \in Sem |-> FALSE] /\ sem_num_p = [s \in Sem |-> 0]
        /\ sem_num_v = [s \in Sem |-> 0] /\ EventInit
    BY DEF SemInit
  <1>2. SemTypeOK
    BY <1>1, SemAssumption DEF SemTypeOK
  <1>3. /\ \A t \in Task : wpc[t] = "none"
        /\ \A s \in Sem : recv[s] = <<>>
    BY <1>1 DEF EventInit, Sem, Event
  <1> QED
    BY <1>1, <1>2, <1>3, CoreInit DEF SemIInv, SemCore, NoStrandedToken, Gone

\* Nothing changes.
LEMMA StutterSem ==
  ASSUME SemIInv, UNCHANGED allVars
  PROVE  SemIInv'
  <1>1. UNCHANGED vars /\ UNCHANGED <<alive, sem_num_p, sem_num_v>>
    BY DEF allVars, semVars
  <1>2. UNCHANGED <<state, recv, flags, timer, wpc, wev, walk>>
    BY <1>1 DEF vars, schedVars, eventVars, waitVars
  <1>3. CoreInv'
    BY <1>1, CoreStutter DEF SemIInv
  <1>4. SemTypeOK' /\ NoStrandedToken'
    BY <1>1, <1>2 DEF SemIInv, SemCore, SemTypeOK, NoStrandedToken, Available,
                      Value, InWalk
  <1>5. SemCore'
    BY <1>1, <1>2, <1>4, SemFacts, SemCoreNext DEF HasToken, Gone
  <1> QED
    BY <1>3, <1>5 DEF SemIInv

\* Notifiers, timers, the scheduler and the ends of tasks.
LEMMA UnderlyingSem ==
  ASSUME SemIInv, Underlying, UNCHANGED semVars
  PROVE  SemIInv'
  <1>1. /\ UNCHANGED <<wpc, wev, alive, sem_num_p, sem_num_v>>
        /\ \A e \in Event : Gone(e) => Gone(e)'
    BY UnderlyingEffect, SemFacts DEF semVars
  <1>2. \A s \in Sem : Available(s)' = Available(s)
    BY <1>1 DEF Available, Value
  <1>3. NoStrandedToken'
    <2> SUFFICES ASSUME NEW s \in Sem, NEW n \in Nat, alive[s], n = Available(s)
                 PROVE  Covered(s, n)'
      BY <1>1, <1>2, ValueFacts, TokensCoveredNext
    <2>1. Covered(s, n)
      BY TokensCovered
    <2> QED
      BY <2>1, SemFacts, CoveredUnderlying
  <1>4. SemTypeOK'
    BY <1>1 DEF SemIInv, SemCore, SemTypeOK
  <1>5. SemCore'
    BY <1>1, <1>3, <1>4, SemFacts, SemCoreNext DEF HasToken
  <1> QED
    BY <1>5, SemFacts, CoreUnderlying DEF SemIInv

\* A semaphore is created without receptors, whatever was at its address.
LEMMA SemCreateInv ==
  ASSUME SemIInv, NEW s \in Sem, NEW value \in 0 .. Width - 1, SemCreate(s, value)
  PROVE  SemIInv'
  <1>1. /\ Unlocked /\ ~alive[s]
        /\ alive' = [alive EXCEPT ![s] = TRUE]
        /\ sem_num_v' = [sem_num_v EXCEPT ![s] = value]
        /\ sem_num_p' = [sem_num_p EXCEPT ![s] = 0]
        /\ UNCHANGED vars
    BY DEF SemCreate
  <1>2. UNCHANGED <<state, recv, wpc, wev, walk>>
    BY <1>1 DEF vars, schedVars, eventVars, waitVars
  <1>3. \A x \in Sem : x # s => /\ alive'[x] = alive[x]
                                /\ sem_num_v'[x] = sem_num_v[x]
                                /\ sem_num_p'[x] = sem_num_p[x]
    BY <1>1, SemFacts
  <1>4. SemTypeOK'
    BY <1>1, SemAssumption DEF SemIInv, SemCore, SemTypeOK
  <1>5. recv[s] = <<>>
    BY <1>1, SemFacts, UnlockedWalk DEF Gone
  <1>6. \A t \in Task : wpc[t] \in {"add", "ok"} => wev[t] # s /\ wev[t] \in Sem
    BY <1>1, SemFacts
  <1>7. NoStrandedToken'
    <2> SUFFICES ASSUME NEW x \in Sem, alive'[x], NEW i \in 1 .. Len(recv[x]),
                        i + Available(x)' > Len(recv[x])
                 PROVE  state[recv[x][i]] # "WAIT" \/ InWalk(recv[x][i])
      BY <1>2 DEF NoStrandedToken, InWalk
    <2>1. x # s
      BY <1>5
    <2>2. Available(x)' = Available(x)
      BY <1>2, <1>3, <2>1 DEF Available, Value
    <2> QED
      BY <1>3, <2>1, <2>2 DEF SemIInv, SemCore, NoStrandedToken
  <1>8. \A x \in Sem : ~alive'[x] => Gone(x)'
    BY <1>1, <1>2, <1>3, SemFacts DEF Gone
  <1>9. SemCore'
    BY <1>2, <1>3, <1>4, <1>6, <1>7, <1>8, SemFacts, SemCoreNext DEF HasToken
  <1> QED
    BY <1>1, <1>9, SemFacts, CoreStutter DEF SemIInv

\* A post adds a token and covers one receptor more.
LEMMA SemPostInv ==
  ASSUME SemIInv, NEW s \in Sem, SemPost(s)
  PROVE  SemIInv'
  <1>1. /\ Unlocked /\ alive[s] /\ Inc(sem_num_v[s]) # sem_num_p[s]
        /\ sem_num_v' = [sem_num_v EXCEPT ![s] = Inc(@)]
        /\ UNCHANGED <<alive, sem_num_p>>
        /\ IF recv[s] = <<>> THEN UNCHANGED vars ELSE NotifyAndReorder(s, 1)
    BY DEF SemPost
  <1>2. s \in Event /\ sem_num_p[s] \in Counts /\ sem_num_v[s] \in Counts
    BY SemFacts
  <1>3. \A x \in Sem : sem_num_v'[x] = IF x = s THEN Inc(sem_num_v[s])
                                                ELSE sem_num_v[x]
    BY <1>1, SemFacts
  <1>4. /\ Inc(sem_num_v[s]) \in Counts
        /\ Difference(Inc(sem_num_v[s]), sem_num_p[s]) = Value(s) + 1
    BY <1>1, <1>2, IncDifference DEF Value
  <1>5. SemTypeOK'
    BY <1>1, <1>4 DEF SemIInv, SemCore, SemTypeOK, Counts
  <1>6. /\ CoreInv'
        /\ UNCHANGED <<wpc, wev>>
        /\ \A x \in Event : x # s => recv'[x] = recv[x]
        /\ \A x \in Event, n \in Nat :
             Covered(x, n) => Covered(x, IF x = s THEN n + 1 ELSE n)'
    <2>1. CASE recv[s] = <<>>
      <3>1. UNCHANGED vars
        BY <1>1, <2>1
      <3>2. UNCHANGED <<state, recv, wpc, wev, walk>>
        BY <3>1 DEF vars, schedVars, eventVars, waitVars
      <3>3. \A x \in Event, n \in Nat : Covered(x, n) => Covered(x, n)'
        BY <3>2 DEF Covered, Awake, InWalk
      <3>4. \A n \in Nat : Covered(s, n)'
        BY <2>1, <3>2 DEF Covered
      <3> QED
        BY <3>1, <3>2, <3>3, <3>4, SemFacts, CoreStutter
    <2>2. CASE recv[s] # <<>>
      <3>1. NotifyAndReorder(s, 1)
        BY <1>1, <2>2
      <3>2. UNCHANGED <<schedVars, wpc, wev>>
        BY <3>1 DEF NotifyAndReorder
      <3>3. SchedInv' /\ WaitCore'
        BY <1>2, <3>1, <3>2, SemFacts, SchedStays, CoreReorder
      <3>4. \A x \in Event : x # s => recv'[x] = recv[x]
        BY <1>2, <3>1, SemFacts, ReorderEffect
      <3> QED
        BY <1>2, <3>1, <3>2, <3>3, <3>4, SemFacts, CoveredReorder DEF CoreInv
    <2> QED
      BY <2>1, <2>2
  <1>7. /\ \A x \in Sem : x # s => Available(x)' = Available(x)
        /\ Available(s)' = Available(s) + 1
    <2>1. Value(s)' = Value(s) + 1
      BY <1>1, <1>3, <1>4 DEF Value
    <2>2. Value(s) \in Nat
      BY ValueFacts
    <2> QED
      BY <1>1, <1>3, <1>6, <2>1, <2>2 DEF Available, Value
  <1>8. NoStrandedToken'
    <2>1. \A x \in Sem : Available(x)' \in Nat
      BY <1>7, ValueFacts
    <2> SUFFICES ASSUME NEW x \in Sem, NEW n \in Nat, alive[x], n = Available(x)'
                 PROVE  Covered(x, n)'
      BY <1>1, <2>1, TokensCoveredNext
    <2>2. x \in Event
      BY SemFacts
    <2>3. CASE x = s
      <3>1. n - 1 \in Nat /\ n - 1 = Available(s) /\ (n - 1) + 1 = n
        BY <1>7, <2>3, ValueFacts
      <3>2. Covered(s, n - 1)
        BY <1>1, <3>1, TokensCovered
      <3> QED
        BY <1>2, <1>6, <2>3, <3>1, <3>2
    <2>4. CASE x # s
      <3>1. Covered(x, n)
        BY <1>7, <2>4, TokensCovered
      <3> QED
        BY <1>6, <2>2, <2>4, <3>1
    <2> QED
      BY <2>3, <2>4
  <1>9. \A x \in Sem : ~alive'[x] => Gone(x)'
    BY <1>1, <1>6, SemFacts, UnlockedWalk DEF Gone
  <1>10. SemCore'
    BY <1>1, <1>3, <1>5, <1>6, <1>8, <1>9, SemFacts, SemCoreNext DEF HasToken
  <1> QED
    BY <1>6, <1>10 DEF SemIInv

\* A destroyed semaphore is gone: its receptors are about to be cleaned.  No
\* task is in its window then.
LEMMA SemDestroyInv ==
  ASSUME SemIInv, SparesWindow, NEW s \in Sem, SemDestroy(s)
  PROVE  SemIInv'
  <1>1. /\ Unlocked /\ alive[s]
        /\ alive' = [alive EXCEPT ![s] = FALSE]
        /\ StartWalk("clean", s, recv[s])
        /\ UNCHANGED <<schedVars, waitVars, sem_num_p, sem_num_v>>
    BY DEF SemDestroy
  <1>2. UNCHANGED <<recv, wpc, wev>> /\ s \in Event
    BY <1>1, SemFacts DEF waitVars
  <1>3. SchedInv' /\ UNCHANGED <<state, ring, phase>>
    BY <1>1, SemFacts, SchedStays
  <1>4. WaitCore'
    BY <1>1, <1>2, <1>3, SemFacts, CoreNotify
  <1>5. \A x \in Sem : alive'[x] = IF x = s THEN FALSE ELSE alive[x]
    BY <1>1, SemFacts
  <1>6. SemTypeOK'
    BY <1>1, <1>5 DEF SemIInv, SemCore, SemTypeOK
  <1>7. \A t \in Task : wpc[t] \in {"add", "ok"} => alive'[wev[t]] /\ wev[t] \in Sem
    <2>1. ~InWindow(s)
      BY <1>1, <1>5 DEF SparesWindow
    <2> QED
      BY <1>5, <2>1, SemFacts DEF InWindow
  <1>8. \A x \in Sem : Available(x)' = Available(x)
    BY <1>1, <1>2 DEF Available, Value
  <1>9. NoStrandedToken'
    <2> SUFFICES ASSUME NEW x \in Sem, NEW n \in Nat, alive'[x], n = Available(x)
                 PROVE  Covered(x, n)'
      BY <1>8, ValueFacts, TokensCoveredNext
    <2>1. Covered(x, n)
      BY <1>5, TokensCovered
    <2> QED
      BY <1>1, <1>2, <1>3, <2>1, SemFacts, CoveredUnlocked
  <1>10. \A x \in Sem : ~alive'[x] => Gone(x)'
    <2>1. Gone(s)'
      BY <1>1, <1>2 DEF StartWalk, Gone
    <2>2. \A x \in Sem : ~alive[x] => recv[x] = <<>>
      BY <1>1, SemFacts, UnlockedWalk DEF Gone
    <2> QED
      BY <1>2, <1>5, <2>1, <2>2 DEF Gone
  <1>11. \A t \in Task : wpc[t] = "ok" => sem_num_p'[wev[t]] # sem_num_v'[wev[t]]
    BY <1>1, SemFacts DEF HasToken
  <1>12. SemCore'
    BY <1>2, <1>6, <1>7, <1>9, <1>10, <1>11, SemFacts, SemCoreNext
  <1> QED
    BY <1>3, <1>4, <1>12 DEF SemIInv, CoreInv

\* A step of the running task on its way through a wait: where it is after it,
\* and what it leaves for the others.
LEMMA SemMoves ==
  ASSUME SemIInv, CoreInv', Unlocked, UNCHANGED <<walk, alive>>,
         SemTypeOK', NoStrandedToken',
         \A x \in Sem : sem_num_p'[x] = sem_num_p[x] \/ wpc'[Current] = "none",
         \A t \in Task : t # Current => wpc'[t] = wpc[t] /\ wev'[t] = wev[t],
         UNCHANGED sem_num_v,
         wpc'[Current] # "none" =>
           /\ wev'[Current] \in Sem
           /\ wpc'[Current] \in {"add", "ok"} => alive[wev'[Current]]
           /\ wpc'[Current] = "ok" => HasToken(wev'[Current]),
         \A x \in Sem : alive[x] \/ recv'[x] = recv[x]
  PROVE  SemIInv'
  <1>1. \A t \in Task : wpc'[t] # "none" => wev'[t] \in Sem
    BY SemFacts
  <1>2. \A t \in Task : wpc'[t] \in {"add", "ok"} =>
          /\ t = Current
          /\ alive[wev'[t]]
          /\ wpc'[t] = "ok" => HasToken(wev'[t])
    BY SemFacts
  <1>3. \A x \in Sem : ~alive'[x] => Gone(x)'
    BY SemFacts DEF Gone
  <1>4. SemCore'
    BY <1>1, <1>2, <1>3, SemCoreNext DEF HasToken
  <1> QED
    BY <1>4 DEF SemIInv

\* The running task finds a token, or begins to wait for one.
LEMMA WaitStartInv ==
  ASSUME SemIInv, NEW s \in Sem,
         SemWaitAtOnce(s) \/ (\E timed \in BOOLEAN : SemWait(s, timed))
  PROVE  SemIInv'
  <1> DEFINE point == IF SemWaitAtOnce(s) THEN "ok" ELSE "add"
  <1>1. /\ Unlocked /\ phase = "run" /\ wpc[Current] = "none"
        /\ alive[s]
        /\ UNCHANGED <<schedVars, recv, walk, alive, sem_num_p, sem_num_v>>
        /\ point = "ok" => HasToken(s)
    BY DEF SemWaitAtOnce, SemWait, WaitBegin, Running, semVars
  <1>2. s \in Event
    BY SemFacts
  <1>3. /\ WaitCore'
        /\ \A u \in Task : /\ wpc'[u] = IF u = Current THEN point ELSE wpc[u]
                           /\ wev'[u] = IF u = Current THEN s ELSE wev[u]
    <2>1. CASE SemWaitAtOnce(s)
      BY <1>2, <2>1, SemFacts, CoreAtOnce DEF SemWaitAtOnce
    <2>2. CASE ~SemWaitAtOnce(s)
      BY <1>2, <2>2, SemFacts, CoreWaitBegin DEF SemWait
    <2> QED
      BY <2>1, <2>2
  <1>4. point \in {"add", "ok"}
    OBVIOUS
  <1> HIDE DEF point
  <1>5. SchedInv' /\ UNCHANGED state
    BY <1>1, SemFacts, SchedStays
  <1>6. \A t \in Task : wpc[t] \notin {"add", "ok"}
    BY <1>1, SemFacts, NoPoint
  <1>7. \A x \in Sem : Available(x)' = IF x = s /\ point = "ok" THEN Available(x) - 1
                                                                ELSE Available(x)
    <2>1. \A x \in Sem : Value(x)' = Value(x) /\ Available(x) = Value(x)
      BY <1>1, <1>6, ValueFacts DEF Value
    <2>2. \A x \in Sem : (\E t \in Task : wpc'[t] = "ok" /\ wev'[t] = x)
                           <=> x = s /\ point = "ok"
      BY <1>3, <1>6, SemFacts
    <2> QED
      BY <2>1, <2>2 DEF Available
  <1>8. point = "ok" => Available(s) > 0
    BY <1>1, <1>6, ValueFacts
  <1>9. NoStrandedToken'
    <2>1. \A x \in Sem : Available(x)' \in Nat
      BY <1>7, <1>8, ValueFacts
    <2> SUFFICES ASSUME NEW x \in Sem, NEW n \in Nat, alive[x], n = Available(x)'
                 PROVE  Covered(x, n)'
      BY <1>1, <2>1, TokensCoveredNext
    <2>2. PICK k \in Nat : k = Available(x)
      BY ValueFacts
    <2>3. Covered(x, k) /\ n <= k
      BY <1>7, <2>2, TokensCovered
    <2>4. recv[x] \in Seq(Task) /\ x \in Event
      BY SemFacts, CoreFacts
    <2>5. Covered(x, n)
      BY <2>3, <2>4 DEF Covered
    <2> QED
      BY <1>1, <1>5, <2>4, <2>5, SemFacts, CoveredUnlocked
  <1>10. SemTypeOK'
    BY <1>1 DEF SemIInv, SemCore, SemTypeOK
  <1> QED
    BY <1>1, <1>3, <1>4, <1>5, <1>9, <1>10, SemFacts, SemMoves DEF CoreInv

\* A step in the loop of a wait that leaves the tokens alone: no task has gone
\* on to take one, before the step or after it.
LEMMA LoopTokens ==
  ASSUME SemIInv, phase = "run", wpc[Current] \notin {"add", "ok"},
         UNCHANGED <<alive, sem_num_p, sem_num_v>>,
         \A t \in Task : wpc'[t] # "ok",
         \A x \in Sem, n \in Nat :
           alive[x] /\ n = Value(x) /\ Covered(x, n) => Covered(x, n)'
  PROVE  SemTypeOK' /\ NoStrandedToken'
  <1>1. SemTypeOK'
    BY DEF SemIInv, SemCore, SemTypeOK
  <1>2. \A t \in Task : wpc[t] \notin {"add", "ok"}
    BY SemFacts, NoPoint
  <1>3. \A x \in Sem : /\ Available(x)' = Value(x) /\ Available(x) = Value(x)
                       /\ Value(x) \in Nat
    BY <1>2, ValueFacts DEF Available, Value
  <1>4. NoStrandedToken'
    <2> SUFFICES ASSUME NEW x \in Sem, NEW n \in Nat, alive[x], n = Value(x)
                 PROVE  Covered(x, n)'
      BY <1>3, TokensCoveredNext
    <2>1. Covered(x, n)
      BY <1>3, TokensCovered
    <2> QED
      BY <2>1
  <1> QED
    BY <1>1, <1>4

\* The receptor is linked.
LEMMA WaitAddInv ==
  ASSUME SemIInv, SemWaitAdd
  PROVE  SemIInv'
  <1>1. /\ Unlocked /\ phase = "run" /\ wpc[Current] = "add" /\ AddReceptor
        /\ UNCHANGED <<schedVars, wev, walk, alive, sem_num_p, sem_num_v>>
    BY DEF SemWaitAdd, AddReceptor, Running, semVars
  <1>2. /\ WaitCore'
        /\ \A x \in Event : recv'[x] = IF x = wev[Current]
                                         THEN Append(recv[x], Current)
                                         ELSE recv[x]
        /\ \A u \in Task : wpc'[u] = IF u = Current THEN "check" ELSE wpc[u]
    BY <1>1, SemFacts, CoreAddReceptor
  <1>3. SchedInv'
    BY <1>1, SemFacts, SchedStays
  <1>4. alive[wev[Current]] /\ wev[Current] \in Sem
    BY <1>1, SemFacts
  <1>5. \A x \in Sem : alive[x] \/ recv'[x] = recv[x]
    BY <1>2, <1>4, SemFacts
  <1>6. \A t \in Task : wpc[t] # "ok" /\ wpc'[t] # "ok"
    BY <1>1, <1>2, SemFacts
  <1>7. \A x \in Sem : Available(x)' = Available(x)
    BY <1>1, <1>6 DEF Available, Value
  <1>8. NoStrandedToken'
    <2> SUFFICES ASSUME NEW x \in Sem, NEW n \in Nat, alive[x], n = Available(x)
                 PROVE  Covered(x, n)'
      BY <1>1, <1>7, ValueFacts, TokensCoveredNext
    <2>1. Covered(x, n)
      BY TokensCovered
    <2> QED
      BY <1>1, <2>1, SemFacts, CoveredAdd
  <1>9. SemTypeOK'
    BY <1>1 DEF SemIInv, SemCore, SemTypeOK
  <1> QED
    BY <1>1, <1>2, <1>3, <1>4, <1>5, <1>8, <1>9, SemFacts, SemMoves DEF CoreInv

\* A wait returns: told of the end of the semaphore, its receptor unlinked by
\* that, or without a token at its expiry, when there is none to cover.
LEMMA WaitReturnInv ==
  ASSUME SemIInv, SemWaitError \/ SemWaitTimeout
  PROVE  SemIInv'
  <1> DEFINE s == wev[Current]
  <1>1. /\ Running("check") /\ WaitReturn
        /\ Unlocked /\ phase = "run" /\ wpc[Current] = "check"
        /\ "error" \in flags[Current] \/ ~HasToken(s)
        /\ recv' = [recv EXCEPT ![s] = Unlink(@, Current)]
        /\ UNCHANGED <<schedVars, walk, alive, sem_num_p, sem_num_v>>
    BY DEF SemWaitError, SemWaitTimeout, CheckError, CheckTimeout, WaitReturn,
           WaitLeave, Running, semVars
  <1>2. /\ WaitCore'
        /\ \A u \in Task :
             /\ wpc'[u] = IF u = Current THEN "none" ELSE wpc[u]
             /\ u # Current => wev'[u] = wev[u]
    BY <1>1, SemFacts, ReturnEffect
  <1>3. /\ recv' \in [Event -> Seq(Task)]
        /\ \A x \in Event : x # s => recv'[x] = recv[x]
        /\ s \in Sem
    BY <1>1, SemFacts, LeaveEffect
  <1>4. SchedInv' /\ UNCHANGED state
    BY <1>1, SemFacts, SchedStays
  <1>5. \A t \in Task : wpc[t] \notin {"add", "ok"}
    BY <1>1, SemFacts, NoPoint
  <1>6. SemTypeOK' /\ NoStrandedToken'
    <2>1. ASSUME NEW x \in Sem, NEW n \in Nat, n = Value(x), Covered(x, n)
          PROVE  Covered(x, n)'
      <3>1. x \in Event
        BY SemFacts
      <3>2. CASE x # s \/ "error" \in flags[Current]
        BY <1>1, <1>4, <2>1, <3>1, <3>2, SemFacts, CoveredLeave
      <3>3. CASE x = s /\ ~HasToken(s)
        <4>1. n = 0
          BY <2>1, <3>3, ValueFacts
        <4> QED
          BY <1>3, <3>1, <4>1, CoveredNoneNext
      <3> QED
        BY <1>1, <3>2, <3>3
    <2> QED
      BY <1>1, <1>2, <1>5, <2>1, LoopTokens
  <1>7. \A x \in Sem : alive[x] \/ recv'[x] = recv[x]
    <2>1. CASE alive[s]
      BY <1>3, <2>1, SemFacts
    <2>2. CASE ~alive[s]
      <3>1. recv[s] = <<>>
        BY <1>1, <1>3, <2>2, SemFacts, UnlockedWalk DEF Gone
      <3>2. recv'[s] = Unlink(recv[s], Current)
        BY <1>1, <1>3, SemFacts, LeaveEffect
      <3>3. recv'[s] = recv[s]
        <4>1. Len(recv[s]) = 0
          BY <3>1
        <4> QED
          BY <3>2, <4>1 DEF Unlink
      <3> QED
        BY <1>3, <3>3, SemFacts
    <2> QED
      BY <2>1, <2>2
  <1> QED
    BY <1>1, <1>2, <1>4, <1>6, <1>7, SemFacts, SemMoves DEF CoreInv

\* A wait has found a token: one receptor and one token less, although the
\* token is taken later.
LEMMA WaitOkInv ==
  ASSUME SemIInv, SemWaitOk
  PROVE  SemIInv'
  <1> DEFINE s == wev[Current]
  <1>1. /\ Running("check") /\ WaitLeave("ok")
        /\ Unlocked /\ phase = "run" /\ wpc[Current] = "check"
        /\ HasToken(s) /\ "error" \notin flags[Current]
        /\ recv' = [recv EXCEPT ![s] = Unlink(@, Current)]
        /\ flags' = [flags EXCEPT ![Current] = {}]
        /\ UNCHANGED <<schedVars, wev, walk, alive, sem_num_p, sem_num_v>>
    BY DEF SemWaitOk, CheckOk, WaitLeave, Running, semVars
  <1>2. /\ WaitCore'
        /\ \A u \in Task : wpc'[u] = IF u = Current THEN "ok" ELSE wpc[u]
    BY <1>1, SemFacts, CoreLeave
  <1>3. /\ \A x \in Event : x # s => recv'[x] = recv[x]
        /\ s \in Sem /\ s \in Event
    BY <1>1, SemFacts, LeaveEffect
  <1>4. SchedInv' /\ UNCHANGED state
    BY <1>1, SemFacts, SchedStays
  <1>5. \A t \in Task : wpc[t] \notin {"add", "ok"}
    BY <1>1, SemFacts, NoPoint
  <1>6. alive[s]
    <2>1. ~InWalk(Current)
      BY <1>1, SemFacts, UnlockedWalk
    <2> QED
      BY <1>1, <1>3, <2>1, SemFacts, GoneIsToldOf
  <1>7. \A x \in Sem : Available(x)' = IF x = s THEN Available(x) - 1
                                                ELSE Available(x)
    <2>1. \A x \in Sem : Value(x)' = Value(x) /\ Available(x) = Value(x)
      BY <1>1, <1>5, ValueFacts DEF Value
    <2>2. \A x \in Sem : (\E t \in Task : wpc'[t] = "ok" /\ wev'[t] = x) <=> x = s
      BY <1>1, <1>2, <1>5, SemFacts
    <2> QED
      BY <2>1, <2>2 DEF Available
  <1>8. Available(s) > 0
    BY <1>1, <1>3, <1>5, ValueFacts
  <1>9. NoStrandedToken'
    <2>1. \A x \in Sem : Available(x)' \in Nat
      BY <1>7, <1>8, ValueFacts
    <2> SUFFICES ASSUME NEW x \in Sem, NEW n \in Nat, alive[x], n = Available(x)'
                 PROVE  Covered(x, n)'
      BY <1>1, <2>1, TokensCoveredNext
    <2>2. x \in Event
      BY SemFacts
    <2>3. CASE x = s
      <3>1. n + 1 = Available(x) /\ n + 1 \in Nat /\ n + 1 > 0 /\ (n + 1) - 1 = n
        BY <1>7, <1>8, <2>3, ValueFacts
      <3>2. Covered(x, n + 1)
        BY <3>1, TokensCovered
      <3>3. \A k \in Nat : Covered(x, k) /\ k > 0 => Covered(x, k - 1)'
        BY <1>1, <1>4, <2>2, SemFacts, CoveredLeave
      <3> HIDE DEF s
      <3>4. Covered(x, (n + 1) - 1)'
        BY <3>1, <3>2, <3>3
      <3> QED
        BY <3>1, <3>4
    <2>4. CASE x # s
      <3>1. Covered(x, n)
        BY <1>7, <2>4, TokensCovered
      <3> QED
        BY <1>1, <1>4, <2>2, <2>4, <3>1, SemFacts, CoveredLeave
    <2> QED
      BY <2>3, <2>4
  <1>10. SemTypeOK'
    BY <1>1 DEF SemIInv, SemCore, SemTypeOK
  <1>11. \A x \in Sem : alive[x] \/ recv'[x] = recv[x]
    BY <1>3, <1>6, SemFacts
  <1> QED
    BY <1>1, <1>2, <1>3, <1>4, <1>6, <1>9, <1>10, <1>11, SemFacts, SemMoves
       DEF CoreInv

\* The running task goes to sleep: it has found no token.
LEMMA WaitSleepInv ==
  ASSUME SemIInv, SemWaitSleep
  PROVE  SemIInv'
  <1>1. /\ Running("check") /\ WaitSleep /\ TaskBlock
        /\ Unlocked /\ phase = "run" /\ wpc[Current] = "check"
        /\ ~HasToken(wev[Current])
        /\ UNCHANGED <<recv, wpc, wev, walk, alive, sem_num_p, sem_num_v>>
    BY DEF SemWaitSleep, CheckSleep, WaitSleep, Running, semVars, eventVars,
           waitVars
  <1>2. WaitCore' /\ SchedInv'
    <2>1. [SchedNext]_schedVars
      BY <1>1 DEF SchedNext
    <2> QED
      BY <1>1, <2>1, SemFacts, CoreSleep, NextSchedInv DEF CoreInv
  <1>3. \A t \in Task : wpc[t] \notin {"add", "ok"}
    BY <1>1, SemFacts, NoPoint
  <1>4. SemTypeOK' /\ NoStrandedToken'
    <2>1. ASSUME NEW x \in Sem, NEW n \in Nat, n = Value(x), Covered(x, n)
          PROVE  Covered(x, n)'
      <3>1. x = wev[Current] => n = 0
        BY <1>1, <2>1, ValueFacts
      <3> QED
        BY <1>1, <2>1, <3>1, SemFacts, CoveredSleep
    <2> QED
      BY <1>1, <1>3, <2>1, LoopTokens
  <1>5. SemCore'
    BY <1>1, <1>3, <1>4, SemFacts, SemCoreNext DEF Gone
  <1> QED
    BY <1>2, <1>5 DEF SemIInv, CoreInv

\* The token is taken: nobody else could take it in the meantime.
LEMMA SemTakeInv ==
  ASSUME SemIInv, SemTake
  PROVE  SemIInv'
  <1> DEFINE s == wev[Current]
  <1>1. /\ Running("ok") /\ Unlocked /\ phase = "run" /\ wpc[Current] = "ok"
        /\ sem_num_p' = [sem_num_p EXCEPT ![s] = Inc(@)]
        /\ wpc' = [wpc EXCEPT ![Current] = "none"]
        /\ wev' = [wev EXCEPT ![Current] = NoEvent]
        /\ UNCHANGED <<schedVars, recv, flags, timer, walk, alive, sem_num_v>>
    BY DEF SemTake, Running
  <1>2. /\ s \in Sem /\ HasToken(s) /\ Current \in Task
        /\ sem_num_p[s] \in Counts /\ sem_num_v[s] \in Counts
    BY <1>1, SemFacts
  <1>3. SchedInv' /\ UNCHANGED <<state, ring, phase>>
    BY <1>1, SemFacts, SchedStays
  <1>4. /\ WaitCore'
        /\ \A u \in Task : /\ wpc'[u] = IF u = Current THEN "none" ELSE wpc[u]
                           /\ wev'[u] = IF u = Current THEN NoEvent ELSE wev[u]
    BY <1>1, <1>3, SemFacts, CoreFacts, CoreOver
  <1>5. \A x \in Sem : sem_num_p'[x] = IF x = s THEN Inc(sem_num_p[s])
                                                ELSE sem_num_p[x]
    BY <1>1, SemFacts
  <1>6. /\ Inc(sem_num_p[s]) \in Counts
        /\ Difference(sem_num_v[s], Inc(sem_num_p[s])) = Value(s) - 1
    BY <1>2, IncDifference DEF Value, HasToken
  <1>7. SemTypeOK'
    BY <1>1, <1>6 DEF SemIInv, SemCore, SemTypeOK, Counts
  <1>8. \A x \in Sem : Available(x)' = Available(x)
    <2>1. \A x \in Sem : Value(x)' = IF x = s THEN Value(x) - 1 ELSE Value(x)
      BY <1>1, <1>5, <1>6 DEF Value
    <2>2. \A x \in Sem : Available(x) = IF s = x THEN Value(x) - 1 ELSE Value(x)
      BY <1>1, <1>2, ValueFacts
    <2>3. \A t \in Task : wpc'[t] # "ok"
      BY <1>4, SemFacts
    <2> QED
      BY <2>1, <2>2, <2>3 DEF Available
  <1>9. NoStrandedToken'
    <2> SUFFICES ASSUME NEW x \in Sem, NEW n \in Nat, alive[x], n = Available(x)
                 PROVE  Covered(x, n)'
      BY <1>1, <1>8, ValueFacts, TokensCoveredNext
    <2>1. Covered(x, n)
      BY TokensCovered
    <2> QED
      BY <1>1, <1>3, <2>1, SemFacts, CoveredUnlocked
  <1> QED
    BY <1>1, <1>3, <1>4, <1>7, <1>9, <1>2, SemFacts, SemMoves DEF CoreInv

\* Every step keeps the invariant, the destruction of a semaphore in a window
\* excepted.
LEMMA NextSemIInv ==
    SemIInv /\ [SemNext]_allVars /\ [SparesWindow]_allVars => SemIInv'
  <1> SUFFICES ASSUME SemIInv, [SemNext]_allVars, [SparesWindow]_allVars
               PROVE  SemIInv'
    OBVIOUS
  <1>1. CASE UNCHANGED allVars
    BY <1>1, StutterSem
  <1>2. ASSUME NEW s \in Sem, NEW value \in 0 .. Width - 1, SemCreate(s, value)
        PROVE  SemIInv'
    BY <1>2, SemCreateInv
  <1>3. ASSUME NEW s \in Sem, SemPost(s) \/ SemDestroy(s), SparesWindow
        PROVE  SemIInv'
    BY <1>3, SemPostInv, SemDestroyInv
  <1>4. ASSUME NEW s \in Sem, SemWaitAtOnce(s) \/ \E timed \in BOOLEAN : SemWait(s, timed)
        PROVE  SemIInv'
    BY <1>4, WaitStartInv
  <1>5. CASE SemWaitAdd \/ SemWaitError \/ SemWaitOk \/ SemWaitTimeout
               \/ SemWaitSleep \/ SemTake
    BY <1>5, WaitAddInv, WaitReturnInv, WaitOkInv, WaitSleepInv, SemTakeInv
  <1>6. CASE Underlying /\ UNCHANGED semVars
    BY <1>6, UnderlyingSem
  <1> QED
    BY <1>1, <1>2, <1>3, <1>4, <1>5, <1>6, Zenon DEF SemNext, SemProceed, Underlying

\* Whoever destroys semaphores, as long as nobody destroys one in the window of
\* a wait (between its first look and the linking of its receptor, or between
\* its last look and sem_num_p++): the semaphore a wait refers to exists until
\* the wait has been told that it has been destroyed, and a token found is
\* still there when it is taken.  The run sem_destroyed shows the other case.
THEOREM SemCorrect == SemSpec /\ [][SparesWindow]_allVars => []SemInv
  <1>1. SemIInv => SemInv
    <2> SUFFICES ASSUME SemIInv, NEW t \in Task
                 PROVE  /\ wpc[t] = "add" => alive[wev[t]]
                        /\ (wpc[t] = "check" /\ "error" \notin flags[t] /\ ~InWalk(t))
                             => alive[wev[t]]
                        /\ wpc[t] = "ok" =>
                             (t = Current /\ alive[wev[t]] /\ HasToken(wev[t]))
      BY DEF SemInv, SemInUse, SemIInv, SemCore
    <2> QED
      BY SemFacts, GoneIsToldOf
  <1> QED
    BY <1>1, InitSemIInv, NextSemIInv, PTL DEF SemSpec

\* With the same exception no token is stranded: with k tokens to take the last k receptors belong to
\* tasks that are awake or about to be woken up, whatever timeouts, late
\* waiters and tasks that take a token without queueing do.
THEOREM TokensReachWaiters == SemSpec /\ [][SparesWindow]_allVars => []NoStrandedToken
  <1>1. SemIInv => NoStrandedToken
    BY DEF SemIInv, SemCore
  <1> QED
    BY <1>1, InitSemIInv, NextSemIInv, PTL DEF SemSpec

-----------------------------------------------------------------------------
(***************************************************************************)
(* The refinement.                                                         *)
(***************************************************************************)

\* The tokens of the abstract semaphore.
Tokens == [s \in Sem |-> IF alive[s] THEN Value(s) ELSE Dead]

\* A step that leaves the semaphores alone.
LEMMA TokensStay ==
  ASSUME UNCHANGED semVars
  PROVE  Tokens' = Tokens
  BY DEF semVars, Tokens, Value

\* Every step of a semaphore is one of the abstract semaphore, or none.
LEMMA CounterStep ==
  ASSUME SemIInv, [SemNext]_allVars
  PROVE  [Counter!Next]_Tokens
  <1> USE DEF Tokens
  <1>1. /\ alive \in [Sem -> BOOLEAN]
        /\ \A s \in Sem : sem_num_p[s] \in Counts /\ sem_num_v[s] \in Counts
        /\ sem_num_p \in [Sem -> Counts] /\ sem_num_v \in [Sem -> Counts]
        /\ Width \in Nat /\ Dead \notin Nat /\ \A s \in Sem : Value(s) \in Nat
    BY SemFacts, SemAssumption, ValueFacts
  <1>2. ASSUME NEW s \in Sem, NEW value \in 0 .. Width - 1, SemCreate(s, value)
        PROVE  Counter!Create(s, value)
    <2>1. /\ ~alive[s] /\ alive'[s]
          /\ \A x \in Sem : x # s => alive'[x] = alive[x] /\ Value(x)' = Value(x)
      BY <1>1, <1>2 DEF SemCreate, Value
    <2>2. Value(s)' = value
      <3>1. sem_num_v'[s] = value /\ sem_num_p'[s] = 0
        BY <1>1, <1>2 DEF SemCreate
      <3>2. Difference(value, 0) = value
        BY SemAssumption DEF Difference
      <3> QED
        BY <3>1, <3>2 DEF Value
    <2>3. Tokens' = [Tokens EXCEPT ![s] = value]
      BY <2>1, <2>2
    <2> QED
      BY <2>1, <2>3 DEF Counter!Create
  <1>3. ASSUME NEW s \in Sem, SemPost(s)
        PROVE  Counter!Post(s)
    <2>1. /\ alive[s] /\ UNCHANGED alive
          /\ Inc(sem_num_v[s]) # sem_num_p[s]
          /\ \A x \in Sem : x # s => Value(x)' = Value(x)
          /\ Value(s)' = Difference(Inc(sem_num_v[s]), sem_num_p[s])
      BY <1>1, <1>3 DEF SemPost, Value
    <2>2. Value(s)' = Value(s) + 1 /\ Value(s) < Width - 1
      BY <1>1, <2>1, IncDifference DEF Value
    <2>3. Tokens' = [Tokens EXCEPT ![s] = Value(s) + 1]
      BY <2>1, <2>2
    <2> QED
      BY <1>1, <2>1, <2>2, <2>3 DEF Counter!Post
  <1>4. ASSUME NEW s \in Sem, SemDestroy(s)
        PROVE  Counter!Destroy(s)
    <2>1. /\ alive[s] /\ ~alive'[s]
          /\ \A x \in Sem : x # s => alive'[x] = alive[x]
          /\ \A x \in Sem : Value(x)' = Value(x)
      BY <1>1, <1>4 DEF SemDestroy, Value
    <2>2. Tokens' = [Tokens EXCEPT ![s] = Dead]
      BY <2>1
    <2> QED
      BY <1>1, <2>1, <2>2 DEF Counter!Destroy
  <1>5. ASSUME NEW s \in Sem, s = wev[Current], SemTake
        PROVE  Counter!Take(s)
    <2>1. wpc[Current] = "ok" /\ UNCHANGED alive
      BY <1>5 DEF SemTake, Running
    <2>2. alive[s] /\ HasToken(s)
      BY <1>5, <2>1, SemFacts
    <2>3. /\ \A x \in Sem : x # s => Value(x)' = Value(x)
          /\ Value(s)' = Difference(sem_num_v[s], Inc(sem_num_p[s]))
      BY <1>1, <1>5 DEF SemTake, Value
    <2>4. Value(s)' = Value(s) - 1 /\ Value(s) > 0
      BY <1>1, <2>2, <2>3, IncDifference, ValueFacts DEF Value, HasToken
    <2>5. Tokens' = [Tokens EXCEPT ![s] = Value(s) - 1]
      BY <2>1, <2>2, <2>3, <2>4
    <2> QED
      BY <1>1, <2>2, <2>4, <2>5 DEF Counter!Take
  <1> HIDE DEF Tokens
  <1>6. CASE UNCHANGED semVars
    BY <1>6, TokensStay
  <1>7. \/ UNCHANGED semVars
        \/ \E s \in Sem : s = wev[Current] /\ SemTake
        \/ \E s \in Sem : SemPost(s) \/ SemDestroy(s)
        \/ \E s \in Sem, value \in 0 .. Width - 1 : SemCreate(s, value)
    <2>1. SemTake => wev[Current] \in Sem
      BY SemFacts DEF SemTake, Running
    <2> QED
      BY <2>1, Zenon
         DEF SemNext, SemProceed, SemWaitAtOnce, SemWait, SemWaitAdd,
             SemWaitError, SemWaitOk, SemWaitTimeout, SemWaitSleep, allVars
  <1> QED
    BY <1>2, <1>3, <1>4, <1>5, <1>6, <1>7, Zenon DEF Counter!Next

\* Whatever the interleaving of posts and waits, and across the wrap of both
\* counters, the semaphore counts: no post is lost and no token taken twice,
\* with the same exception.
THEOREM SemaphoresCount == SemSpec /\ [][SparesWindow]_allVars => ImplementsSemaphore
  <1>1. SemInit => Counter!Init
    BY DEF SemInit, Counter!Init
  <1>2. SemIInv /\ [SemNext]_allVars => [Counter!Next]_Tokens
    BY CounterStep
  <1> QED
    BY <1>1, <1>2, InitSemIInv, NextSemIInv, PTL
       DEF SemSpec, ImplementsSemaphore, Counter!Spec, Tokens

=============================================================================
