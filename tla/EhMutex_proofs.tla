---------------------------- MODULE EhMutex_proofs ----------------------------
(***************************************************************************)
(* Proofs about mutexes, for every set of tasks and mutexes and every      *)
(* depth: who may lock, that a free mutex strands no waiter, and that      *)
(* mutexes implement their abstract specification.                         *)
(*                                                                         *)
(* A free mutex that no task is about to lock is one grant: the last       *)
(* receptor is covered.  NoStrandedWaiter, which asks for any receptor, is *)
(* not inductive: the one it asks for might return by a timeout.           *)
(***************************************************************************)
EXTENDS EhMutex, EhEvent_proofs

-----------------------------------------------------------------------------
(***************************************************************************)
(* The invariant.                                                          *)
(***************************************************************************)

\* Free, and no task is on its way to lock it.
Open(x) ==
  /\ alive[x]
  /\ lock_cnt[x] = 0
  /\ \A u \in Task : ~(wpc[u] = "ok" /\ wev[u] = x)

MutexCore ==
  /\ MutexTypeOK
  /\ \A t \in Task : wpc[t] # "none" => wev[t] \in Mx
  /\ \A t \in Task : wpc[t] \in {"add", "ok"} => alive[wev[t]]
  /\ \A t \in Task : wpc[t] = "ok" => CanLock(wev[t])
  /\ \A x \in Mx : ~alive[x] => Gone(x)
  /\ \A x \in Mx : Open(x) => Covered(x, 1)

MutexIInv == CoreInv /\ MutexCore

\* What the invariant says, at hand for the steps.
LEMMA MutexFacts ==
  ASSUME MutexIInv
  PROVE  /\ CoreInv /\ Current \in Task /\ Mx \subseteq Event
         /\ alive \in [Mx -> BOOLEAN]
         /\ lock_cnt \in [Mx -> 0 .. LockCntMax] /\ lock_task \in [Mx -> Task]
         /\ \A t \in Task : wpc[t] # "none" => wev[t] \in Mx
         /\ \A t \in Task : wpc[t] \in {"add", "ok"} => alive[wev[t]]
         /\ \A t \in Task : wpc[t] = "ok" => CanLock(wev[t])
         /\ \A x \in Mx : ~alive[x] => Gone(x)
         /\ \A x \in Mx : Open(x) => Covered(x, 1)
         /\ \A t \in Task :
              wpc[t] \in {"add", "ok"} => t = Current /\ phase = "run"
         /\ LockCntMax \in Nat \ {0}
  BY CoreFacts, MutexAssumption DEF MutexIInv, MutexCore, MutexTypeOK, Mx, Event

\* A task on its way to lock is the only one, and the others leave it there.
LEMMA OpenNext ==
  ASSUME MutexIInv, NEW x \in Mx, UNCHANGED <<alive, lock_cnt>>, Open(x)',
         \A t \in Task : wpc[t] = "ok" /\ wev[t] = x =>
           wpc'[t] = "ok" /\ wev'[t] = x
  PROVE  Open(x) /\ Covered(x, 1) /\ lock_cnt[x] = 0
  BY MutexFacts DEF Open

\* The invariant of the next state, wait by wait.
LEMMA MutexCoreNext ==
  ASSUME MutexTypeOK',
         \A t \in Task : wpc'[t] # "none" => wev'[t] \in Mx,
         \A t \in Task : wpc'[t] \in {"add", "ok"} => alive'[wev'[t]],
         \A t \in Task : wpc'[t] = "ok" =>
           \/ lock_cnt'[wev'[t]] = 0
           \/ wev'[t] \in RecursiveMutex /\ lock_task'[wev'[t]] = Current',
         \A x \in Mx : ~alive'[x] => Gone(x)',
         \A x \in Mx : Open(x)' => Covered(x, 1)'
  PROVE  MutexCore'
  BY DEF MutexCore, CanLock

-----------------------------------------------------------------------------
(***************************************************************************)
(* The steps.                                                              *)
(***************************************************************************)

\* Before the first mutex is created.
LEMMA InitMutexIInv == MutexInit => MutexIInv
  <1> SUFFICES ASSUME MutexInit PROVE MutexIInv
    OBVIOUS
  <1>1. /\ alive = [x \in Mx |-> FALSE] /\ lock_cnt = [x \in Mx |-> 0]
        /\ lock_task = [x \in Mx |-> Main] /\ EventInit
    BY DEF MutexInit
  <1>2. MutexTypeOK
    BY <1>1, MutexAssumption, SchedAssumption DEF MutexTypeOK
  <1>3. /\ \A t \in Task : wpc[t] = "none"
        /\ \A x \in Mx : recv[x] = <<>>
    BY <1>1 DEF EventInit, Mx, Event
  <1> QED
    BY <1>1, <1>2, <1>3, CoreInit DEF MutexIInv, MutexCore, Open, Gone

\* Nothing changes.
LEMMA StutterMutex ==
  ASSUME MutexIInv, UNCHANGED allVars
  PROVE  MutexIInv'
  <1>1. UNCHANGED vars /\ UNCHANGED <<alive, lock_cnt, lock_task>>
    BY DEF allVars, mutexVars
  <1>2. UNCHANGED <<state, recv, flags, timer, wpc, wev, walk>>
        /\ Current' = Current
    BY <1>1 DEF vars, schedVars, eventVars, waitVars, Current
  <1>3. CoreInv'
    BY <1>1, MutexFacts, CoreStutter
  <1>4. MutexTypeOK' /\ \A x \in Mx : Open(x)' => Covered(x, 1)'
    BY <1>1, <1>2 DEF MutexIInv, MutexCore, MutexTypeOK, Open, Covered, Awake, InWalk
  <1>5. MutexCore'
    BY <1>1, <1>2, <1>4, MutexFacts, MutexCoreNext DEF CanLock, Gone
  <1> QED
    BY <1>3, <1>5 DEF MutexIInv

\* Notifiers, timers, the scheduler and the ends of tasks.
LEMMA UnderlyingMutex ==
  ASSUME MutexIInv, Underlying, UNCHANGED mutexVars
  PROVE  MutexIInv'
  <1>1. /\ UNCHANGED <<wpc, wev, alive, lock_cnt, lock_task>>
        /\ \A e \in Event : Gone(e) => Gone(e)'
    BY UnderlyingEffect, MutexFacts DEF mutexVars
  <1>2. CoreInv'
    BY MutexFacts, CoreUnderlying
  <1>3. \A t \in Task : wpc[t] = "ok" => t = Current /\ t = Current'
    BY <1>1, <1>2, MutexFacts DEF CoreInv, WaitCore, PointsOfCurrent
  <1>4. MutexTypeOK'
    BY <1>1 DEF MutexIInv, MutexCore, MutexTypeOK
  <1>5. \A x \in Mx : Open(x)' => Covered(x, 1)'
    BY <1>1, OpenNext, MutexFacts, CoveredUnderlying
  <1>6. MutexCore'
    BY <1>1, <1>3, <1>4, <1>5, MutexFacts, MutexCoreNext DEF CanLock
  <1> QED
    BY <1>2, <1>6 DEF MutexIInv

\* A mutex is created without receptors, whatever was at its address.
LEMMA MutexCreateInv ==
  ASSUME MutexIInv, NEW x \in Mx, NEW garbage \in Task, MutexCreate(x, garbage)
  PROVE  MutexIInv'
  <1>1. /\ Unlocked /\ phase = "run" /\ wpc[Current] = "none" /\ ~alive[x]
        /\ alive' = [alive EXCEPT ![x] = TRUE]
        /\ lock_cnt' = [lock_cnt EXCEPT ![x] = 0]
        /\ lock_task' = [lock_task EXCEPT ![x] = garbage]
        /\ UNCHANGED vars
    BY DEF MutexCreate, Running
  <1>2. UNCHANGED <<state, recv, wpc, wev, walk>>
    BY <1>1 DEF vars, schedVars, eventVars, waitVars
  <1>3. \A y \in Mx : y # x => /\ alive'[y] = alive[y]
                               /\ lock_cnt'[y] = lock_cnt[y]
    BY <1>1, MutexFacts
  <1>4. MutexTypeOK'
    BY <1>1, MutexAssumption DEF MutexIInv, MutexCore, MutexTypeOK
  <1>5. recv[x] = <<>>
    BY <1>1, MutexFacts, UnlockedWalk DEF Gone
  <1>6. \A t \in Task : wpc[t] \notin {"add", "ok"}
    BY <1>1, MutexFacts, NoPoint
  <1>7. \A y \in Mx : Open(y)' => Covered(y, 1)'
    <2>1. Covered(x, 1)'
      BY <1>2, <1>5 DEF Covered
    <2>2. ASSUME NEW y \in Mx, y # x, Open(y)'
          PROVE  Covered(y, 1)'
      <3>1. Covered(y, 1)
        BY <1>2, <1>3, <2>2, MutexFacts DEF Open
      <3> QED
        BY <1>2, <3>1 DEF Covered, Awake, InWalk
    <2> QED
      BY <2>1, <2>2
  <1>8. \A y \in Mx : ~alive'[y] => Gone(y)'
    BY <1>1, <1>2, <1>3, MutexFacts DEF Gone
  <1>9. MutexCore'
    BY <1>2, <1>4, <1>6, <1>7, <1>8, MutexFacts, MutexCoreNext
  <1> QED
    BY <1>1, <1>9, MutexFacts, CoreStutter DEF MutexIInv

\* A destroyed mutex is gone: its receptors are about to be cleaned.
LEMMA MutexDestroyInv ==
  ASSUME MutexIInv, NEW x \in Mx, MutexDestroy(x)
  PROVE  MutexIInv'
  <1>1. /\ Unlocked /\ phase = "run" /\ wpc[Current] = "none"
        /\ alive[x]
        /\ alive' = [alive EXCEPT ![x] = FALSE]
        /\ StartWalk("clean", x, recv[x])
        /\ UNCHANGED <<schedVars, waitVars, lock_cnt, lock_task>>
    BY DEF MutexDestroy, Running
  <1>2. UNCHANGED <<recv, wpc, wev>> /\ x \in Event
    BY <1>1, MutexFacts DEF waitVars
  <1>3. SchedInv' /\ UNCHANGED <<state, ring, phase>>
    BY <1>1, MutexFacts, SchedStays
  <1>4. WaitCore'
    BY <1>1, <1>2, <1>3, MutexFacts, CoreNotify
  <1>5. \A y \in Mx : alive'[y] = IF y = x THEN FALSE ELSE alive[y]
    BY <1>1, MutexFacts
  <1>6. MutexTypeOK'
    BY <1>1, <1>5 DEF MutexIInv, MutexCore, MutexTypeOK
  <1>7. \A t \in Task : wpc[t] \notin {"add", "ok"}
    BY <1>1, MutexFacts, NoPoint
  <1>8. ASSUME NEW y \in Mx, Open(y)'
        PROVE  Covered(y, 1)'
    <2>1. Covered(y, 1)
      BY <1>1, <1>2, <1>5, <1>8, MutexFacts DEF Open
    <2> QED
      BY <1>1, <1>2, <1>3, <2>1, MutexFacts, CoveredUnlocked
  <1>9. \A y \in Mx : ~alive'[y] => Gone(y)'
    <2>1. Gone(x)'
      BY <1>1, <1>2 DEF StartWalk, Gone
    <2>2. \A y \in Mx : ~alive[y] => recv[y] = <<>>
      BY <1>1, MutexFacts, UnlockedWalk DEF Gone
    <2> QED
      BY <1>2, <1>5, <2>1, <2>2 DEF Gone
  <1>10. MutexCore'
    BY <1>2, <1>6, <1>7, <1>8, <1>9, MutexFacts, MutexCoreNext
  <1> QED
    BY <1>3, <1>4, <1>10 DEF MutexIInv, CoreInv

\* The last unlock notifies the first waiter, which goes behind the others.
LEMMA MutexUnlockInv ==
  ASSUME MutexIInv, NEW x \in Mx, MutexUnlock(x)
  PROVE  MutexIInv'
  <1>1. /\ Unlocked /\ phase = "run" /\ wpc[Current] = "none" /\ alive[x]
        /\ lock_cnt[x] # 0
        /\ lock_cnt' = [lock_cnt EXCEPT ![x] = @ - 1]
        /\ IF lock_cnt[x] > 1 \/ recv[x] = <<>> THEN UNCHANGED vars
                                                ELSE NotifyAndReorder(x, 1)
        /\ UNCHANGED <<alive, lock_task>>
    BY DEF MutexUnlock, Running
  <1>2. x \in Event /\ lock_cnt[x] \in 0 .. LockCntMax /\ LockCntMax \in Nat
    BY MutexFacts
  <1>3. /\ \A y \in Mx : lock_cnt'[y] = IF y = x THEN lock_cnt[x] - 1
                                                 ELSE lock_cnt[y]
        /\ lock_cnt[x] - 1 \in 0 .. LockCntMax
    BY <1>1, <1>2, MutexFacts
  <1>4. MutexTypeOK'
    BY <1>1, <1>3 DEF MutexIInv, MutexCore, MutexTypeOK
  <1>5. /\ CoreInv'
        /\ UNCHANGED <<wpc, wev>>
        /\ \A y \in Event : y # x => recv'[y] = recv[y]
        /\ \A y \in Event : y # x /\ Covered(y, 1) => Covered(y, 1)'
        /\ lock_cnt[x] > 1 \/ Covered(x, 1)'
    <2>1. CASE lock_cnt[x] > 1 \/ recv[x] = <<>>
      <3>1. UNCHANGED vars
        BY <1>1, <2>1
      <3>2. UNCHANGED <<state, recv, wpc, wev, walk>>
        BY <3>1 DEF vars, schedVars, eventVars, waitVars
      <3>3. \A y \in Event : Covered(y, 1) => Covered(y, 1)'
        BY <3>2 DEF Covered, Awake, InWalk
      <3>4. recv[x] = <<>> => Covered(x, 1)'
        BY <3>2 DEF Covered
      <3> QED
        BY <2>1, <3>1, <3>2, <3>3, <3>4, MutexFacts, CoreStutter
    <2>2. CASE ~(lock_cnt[x] > 1 \/ recv[x] = <<>>)
      <3>1. NotifyAndReorder(x, 1)
        BY <1>1, <2>2
      <3>2. UNCHANGED <<schedVars, wpc, wev>>
        BY <3>1 DEF NotifyAndReorder
      <3>3. SchedInv' /\ WaitCore'
        BY <1>2, <3>1, <3>2, MutexFacts, SchedStays, CoreReorder
      <3>4. \A y \in Event : y # x => recv'[y] = recv[y]
        BY <1>2, <3>1, MutexFacts, ReorderEffect
      <3>5. \A y \in Event, n \in Nat :
              Covered(y, n) => Covered(y, IF y = x THEN n + 1 ELSE n)'
        BY <1>2, <3>1, MutexFacts, CoveredReorder
      <3>6. Covered(x, 0 + 1)'
        BY <1>2, <3>5, MutexFacts, CoveredNone
      <3> QED
        BY <3>2, <3>3, <3>4, <3>5, <3>6 DEF CoreInv
    <2> QED
      BY <2>1, <2>2
  <1>6. \A t \in Task : wpc[t] \notin {"add", "ok"}
    BY <1>1, MutexFacts, NoPoint
  <1>7. ASSUME NEW y \in Mx, Open(y)'
        PROVE  Covered(y, 1)'
    <2>1. CASE y = x
      <3>1. lock_cnt[x] - 1 = 0
        BY <1>3, <1>7, <2>1 DEF Open
      <3>2. ~(lock_cnt[x] > 1)
        BY <1>2, <3>1
      <3> QED
        BY <1>5, <2>1, <3>2
    <2>2. CASE y # x
      BY <1>1, <1>3, <1>5, <1>7, <2>2, MutexFacts DEF Open
    <2> QED
      BY <2>1, <2>2
  <1>8. \A y \in Mx : ~alive'[y] => Gone(y)'
    BY <1>1, <1>5, MutexFacts, UnlockedWalk DEF Gone
  <1>9. MutexCore'
    BY <1>4, <1>5, <1>6, <1>7, <1>8, MutexFacts, MutexCoreNext
  <1> QED
    BY <1>5, <1>9 DEF MutexIInv

\* A step of the running task on its way through a wait: where it is after it,
\* and what it leaves for the others.
LEMMA MutexMoves ==
  ASSUME MutexIInv, CoreInv', Unlocked, UNCHANGED <<walk, alive, lock_cnt, lock_task>>,
         Current' = Current,
         \A t \in Task : t # Current => wpc'[t] = wpc[t] /\ wev'[t] = wev[t],
         wpc'[Current] # "none" =>
           /\ wev'[Current] \in Mx
           /\ wpc'[Current] \in {"add", "ok"} => alive[wev'[Current]]
           /\ wpc'[Current] = "ok" => CanLock(wev'[Current]),
         \A x \in Mx : alive[x] \/ recv'[x] = recv[x],
         \A x \in Mx : Open(x)' => Covered(x, 1)'
  PROVE  MutexIInv'
  <1>1. \A t \in Task : wpc'[t] # "none" => wev'[t] \in Mx
    BY MutexFacts
  <1>2. \A t \in Task : wpc'[t] \in {"add", "ok"} =>
          /\ t = Current
          /\ alive[wev'[t]]
          /\ wpc'[t] = "ok" => CanLock(wev'[t])
    BY MutexFacts
  <1>3. \A x \in Mx : ~alive'[x] => Gone(x)'
    BY MutexFacts DEF Gone
  <1>4. MutexTypeOK'
    BY DEF MutexIInv, MutexCore, MutexTypeOK
  <1>5. MutexCore'
    BY <1>1, <1>2, <1>3, <1>4, MutexCoreNext DEF CanLock
  <1> QED
    BY <1>5 DEF MutexIInv

\* The running task finds the mutex free, or begins to wait for it.
LEMMA LockStartInv ==
  ASSUME MutexIInv, NEW x \in Mx,
         MutexLockAtOnce(x) \/ (\E timed \in BOOLEAN : MutexLockWait(x, timed))
  PROVE  MutexIInv'
  <1> DEFINE point == IF MutexLockAtOnce(x) THEN "ok" ELSE "add"
  <1>1. /\ Unlocked /\ phase = "run" /\ wpc[Current] = "none"
        /\ alive[x]
        /\ UNCHANGED <<schedVars, recv, walk, alive, lock_cnt, lock_task>>
        /\ point = "ok" => CanLock(x)
    BY DEF MutexLockAtOnce, MutexLockWait, WaitBegin, Running, mutexVars
  <1>2. x \in Event
    BY MutexFacts
  <1>3. /\ WaitCore'
        /\ \A u \in Task : /\ wpc'[u] = IF u = Current THEN point ELSE wpc[u]
                           /\ wev'[u] = IF u = Current THEN x ELSE wev[u]
    <2>1. CASE MutexLockAtOnce(x)
      BY <1>2, <2>1, MutexFacts, CoreAtOnce DEF MutexLockAtOnce
    <2>2. CASE ~MutexLockAtOnce(x)
      BY <1>2, <2>2, MutexFacts, CoreWaitBegin DEF MutexLockWait
    <2> QED
      BY <2>1, <2>2
  <1>4. point \in {"add", "ok"}
    OBVIOUS
  <1> HIDE DEF point
  <1>5. SchedInv' /\ UNCHANGED state /\ Current' = Current
    BY <1>1, MutexFacts, SchedStays
  <1>6. \A t \in Task : wpc[t] \notin {"add", "ok"}
    BY <1>1, MutexFacts, NoPoint
  <1>7. ASSUME NEW y \in Mx, Open(y)'
        PROVE  Covered(y, 1)'
    <2>1. Covered(y, 1)
      BY <1>1, <1>6, <1>7, OpenNext
    <2> QED
      BY <1>1, <1>5, <2>1, MutexFacts, CoveredUnlocked
  <1> QED
    BY <1>1, <1>3, <1>4, <1>5, <1>7, MutexFacts, MutexMoves DEF CoreInv

\* The receptor is linked.
LEMMA LockAddInv ==
  ASSUME MutexIInv, MutexLockAdd
  PROVE  MutexIInv'
  <1>1. /\ Unlocked /\ phase = "run" /\ wpc[Current] = "add" /\ AddReceptor
        /\ UNCHANGED <<schedVars, wev, walk, alive, lock_cnt, lock_task>>
    BY DEF MutexLockAdd, AddReceptor, Running, mutexVars
  <1>2. /\ WaitCore'
        /\ \A x \in Event : recv'[x] = IF x = wev[Current]
                                         THEN Append(recv[x], Current)
                                         ELSE recv[x]
        /\ \A u \in Task : wpc'[u] = IF u = Current THEN "check" ELSE wpc[u]
    BY <1>1, MutexFacts, CoreAddReceptor
  <1>3. SchedInv' /\ Current' = Current
    BY <1>1, MutexFacts, SchedStays
  <1>4. alive[wev[Current]] /\ wev[Current] \in Mx
    BY <1>1, MutexFacts
  <1>5. \A x \in Mx : alive[x] \/ recv'[x] = recv[x]
    BY <1>2, <1>4, MutexFacts
  <1>6. \A t \in Task : wpc[t] # "ok"
    BY <1>1, MutexFacts
  <1>7. ASSUME NEW y \in Mx, Open(y)'
        PROVE  Covered(y, 1)'
    <2>1. Covered(y, 1)
      BY <1>1, <1>6, <1>7, OpenNext
    <2> QED
      BY <1>1, <2>1, MutexFacts, CoveredAdd
  <1> QED
    BY <1>1, <1>2, <1>3, <1>4, <1>5, <1>7, MutexFacts, MutexMoves DEF CoreInv

\* A wait returns: told of the end of the mutex, its receptor unlinked by that,
\* or at its expiry, when the mutex is locked.
LEMMA LockReturnInv ==
  ASSUME MutexIInv, MutexLockError \/ MutexLockTimeout
  PROVE  MutexIInv'
  <1> DEFINE x == wev[Current]
  <1>1. /\ Running("check") /\ WaitReturn
        /\ Unlocked /\ phase = "run" /\ wpc[Current] = "check"
        /\ "error" \in flags[Current] \/ lock_cnt[x] # 0
        /\ recv' = [recv EXCEPT ![x] = Unlink(@, Current)]
        /\ UNCHANGED <<schedVars, walk, alive, lock_cnt, lock_task>>
    BY DEF MutexLockError, MutexLockTimeout, CheckError, CheckTimeout, WaitReturn,
           WaitLeave, Running, CanLock, mutexVars
  <1>2. /\ WaitCore'
        /\ \A u \in Task :
             /\ wpc'[u] = IF u = Current THEN "none" ELSE wpc[u]
             /\ u # Current => wev'[u] = wev[u]
    BY <1>1, MutexFacts, ReturnEffect
  <1>3. /\ \A y \in Event : y # x => recv'[y] = recv[y]
        /\ x \in Mx
    BY <1>1, MutexFacts, LeaveEffect
  <1>4. SchedInv' /\ UNCHANGED state /\ Current' = Current
    BY <1>1, MutexFacts, SchedStays
  <1>5. \A t \in Task : wpc[t] \notin {"add", "ok"}
    BY <1>1, MutexFacts, NoPoint
  <1>6. ASSUME NEW y \in Mx, Open(y)'
        PROVE  Covered(y, 1)'
    <2>1. Covered(y, 1) /\ lock_cnt[y] = 0 /\ y \in Event
      BY <1>1, <1>5, <1>6, OpenNext, MutexFacts
    <2>2. y # x \/ "error" \in flags[Current]
      BY <1>1, <2>1
    <2> QED
      BY <1>1, <1>4, <2>1, <2>2, MutexFacts, CoveredLeave
  <1>7. \A y \in Mx : alive[y] \/ recv'[y] = recv[y]
    <2>1. CASE alive[x]
      BY <1>3, <2>1, MutexFacts
    <2>2. CASE ~alive[x]
      <3>1. recv[x] = <<>>
        BY <1>1, <1>3, <2>2, MutexFacts, UnlockedWalk DEF Gone
      <3>2. recv'[x] = Unlink(recv[x], Current)
        BY <1>1, <1>3, MutexFacts, LeaveEffect
      <3>3. recv'[x] = recv[x]
        <4>1. Len(recv[x]) = 0
          BY <3>1
        <4> QED
          BY <3>2, <4>1 DEF Unlink
      <3> QED
        BY <1>3, <3>3, MutexFacts
    <2> QED
      BY <2>1, <2>2
  <1> QED
    BY <1>1, <1>2, <1>4, <1>6, <1>7, MutexFacts, MutexMoves DEF CoreInv

\* A wait has found the mutex open: the receptor is not needed any more.
LEMMA LockOkInv ==
  ASSUME MutexIInv, MutexLockOk
  PROVE  MutexIInv'
  <1> DEFINE x == wev[Current]
  <1>1. /\ Running("check") /\ WaitLeave("ok")
        /\ Unlocked /\ phase = "run" /\ wpc[Current] = "check"
        /\ CanLock(x) /\ "error" \notin flags[Current]
        /\ recv' = [recv EXCEPT ![x] = Unlink(@, Current)]
        /\ flags' = [flags EXCEPT ![Current] = {}]
        /\ UNCHANGED <<schedVars, wev, walk, alive, lock_cnt, lock_task>>
    BY DEF MutexLockOk, CheckOk, WaitLeave, Running, mutexVars
  <1>2. /\ WaitCore'
        /\ \A u \in Task : wpc'[u] = IF u = Current THEN "ok" ELSE wpc[u]
    BY <1>1, MutexFacts, CoreLeave
  <1>3. /\ \A y \in Event : y # x => recv'[y] = recv[y]
        /\ x \in Mx /\ Current \in Task
    BY <1>1, MutexFacts, LeaveEffect
  <1>4. SchedInv' /\ UNCHANGED state /\ Current' = Current
    BY <1>1, MutexFacts, SchedStays
  <1>5. \A t \in Task : wpc[t] \notin {"add", "ok"}
    BY <1>1, MutexFacts, NoPoint
  <1>6. alive[x]
    <2>1. ~InWalk(Current)
      BY <1>1, MutexFacts, UnlockedWalk
    <2> QED
      BY <1>1, <1>3, <2>1, MutexFacts, GoneIsToldOf
  <1>7. ASSUME NEW y \in Mx, Open(y)'
        PROVE  Covered(y, 1)'
    <2>1. Covered(y, 1) /\ y \in Event
      BY <1>1, <1>5, <1>7, OpenNext, MutexFacts
    <2>2. y # x
      BY <1>1, <1>2, <1>3, <1>7 DEF Open
    <2> QED
      BY <1>1, <1>4, <2>1, <2>2, MutexFacts, CoveredLeave
  <1>8. \A y \in Mx : alive[y] \/ recv'[y] = recv[y]
    BY <1>3, <1>6, MutexFacts
  <1> QED
    BY <1>1, <1>2, <1>3, <1>4, <1>6, <1>7, <1>8, MutexFacts, MutexMoves
       DEF CoreInv

\* The running task goes to sleep: it has found the mutex locked.
LEMMA LockSleepInv ==
  ASSUME MutexIInv, MutexLockSleep
  PROVE  MutexIInv'
  <1>1. /\ Running("check") /\ WaitSleep /\ TaskBlock
        /\ Unlocked /\ phase = "run" /\ wpc[Current] = "check"
        /\ lock_cnt[wev[Current]] # 0
        /\ UNCHANGED <<recv, wpc, wev, walk, alive, lock_cnt, lock_task>>
    BY DEF MutexLockSleep, CheckSleep, WaitSleep, Running, CanLock, mutexVars,
           eventVars, waitVars
  <1>2. WaitCore' /\ SchedInv'
    <2>1. [SchedNext]_schedVars
      BY <1>1 DEF SchedNext
    <2> QED
      BY <1>1, <2>1, MutexFacts, CoreSleep, NextSchedInv DEF CoreInv
  <1>3. \A t \in Task : wpc[t] \notin {"add", "ok"}
    BY <1>1, MutexFacts, NoPoint
  <1>4. ASSUME NEW y \in Mx, Open(y)'
        PROVE  Covered(y, 1)'
    <2>1. Covered(y, 1) /\ lock_cnt[y] = 0 /\ y \in Event
      BY <1>1, <1>3, <1>4, OpenNext, MutexFacts
    <2>2. y # wev[Current]
      BY <1>1, <2>1
    <2> QED
      BY <1>1, <2>1, <2>2, MutexFacts, CoveredSleep
  <1>5. MutexTypeOK'
    BY <1>1 DEF MutexIInv, MutexCore, MutexTypeOK
  <1>6. MutexCore'
    BY <1>1, <1>3, <1>4, <1>5, MutexFacts, MutexCoreNext DEF Gone
  <1> QED
    BY <1>2, <1>6 DEF MutexIInv, CoreInv

\* The mutex is locked now.
LEMMA MutexTakeInv ==
  ASSUME MutexIInv, MutexTake
  PROVE  MutexIInv'
  <1> DEFINE x == wev[Current]
  <1>1. /\ Running("ok") /\ Unlocked /\ phase = "run" /\ wpc[Current] = "ok"
        /\ IF lock_cnt[x] = LockCntMax
             THEN UNCHANGED <<lock_cnt, lock_task>>
             ELSE /\ lock_cnt' = [lock_cnt EXCEPT ![x] = @ + 1]
                  /\ lock_task' = [lock_task EXCEPT ![x] = Current]
        /\ wpc' = [wpc EXCEPT ![Current] = "none"]
        /\ wev' = [wev EXCEPT ![Current] = NoEvent]
        /\ UNCHANGED <<schedVars, recv, flags, timer, walk, alive>>
    BY DEF MutexTake, Running
  <1>2. /\ x \in Mx /\ Current \in Task
        /\ lock_cnt[x] \in 0 .. LockCntMax /\ LockCntMax \in Nat \ {0}
    BY <1>1, MutexFacts
  <1>3. SchedInv' /\ UNCHANGED <<state, ring, phase>>
    BY <1>1, MutexFacts, SchedStays
  <1>4. /\ WaitCore'
        /\ \A u \in Task : /\ wpc'[u] = IF u = Current THEN "none" ELSE wpc[u]
                           /\ wev'[u] = IF u = Current THEN NoEvent ELSE wev[u]
    BY <1>1, <1>3, MutexFacts, CoreFacts, CoreOver
  <1>5. /\ \A y \in Mx : y # x => lock_cnt'[y] = lock_cnt[y]
        /\ lock_cnt'[x] # 0
        /\ MutexTypeOK'
    <2>1. CASE lock_cnt[x] = LockCntMax
      BY <1>1, <1>2, <2>1 DEF MutexIInv, MutexCore, MutexTypeOK
    <2>2. CASE lock_cnt[x] # LockCntMax
      <3>1. lock_cnt[x] + 1 \in 0 .. LockCntMax /\ lock_cnt[x] + 1 # 0
        BY <1>2, <2>2
      <3>2. /\ lock_cnt' = [lock_cnt EXCEPT ![x] = lock_cnt[x] + 1]
            /\ lock_task' = [lock_task EXCEPT ![x] = Current]
        BY <1>1, <2>2
      <3> HIDE DEF x
      <3> QED
        BY <1>1, <1>2, <3>1, <3>2, MutexFacts DEF MutexIInv, MutexCore, MutexTypeOK
    <2> QED
      BY <2>1, <2>2
  <1>6. \A t \in Task : wpc'[t] \notin {"add", "ok"}
    BY <1>4, MutexFacts
  <1>7. ASSUME NEW y \in Mx, Open(y)'
        PROVE  Covered(y, 1)'
    <2>1. y # x
      BY <1>5, <1>7 DEF Open
    <2>2. \A t \in Task : wpc[t] = "ok" => wev[t] = x
      BY MutexFacts
    <2>3. Covered(y, 1)
      BY <1>1, <1>5, <1>7, <2>1, <2>2, MutexFacts DEF Open
    <2> QED
      BY <1>1, <1>3, <2>3, MutexFacts, CoveredUnlocked
  <1>8. \A y \in Mx : ~alive'[y] => Gone(y)'
    BY <1>1, MutexFacts DEF Gone
  <1>9. MutexCore'
    BY <1>1, <1>4, <1>5, <1>6, <1>7, <1>8, MutexFacts, MutexCoreNext
  <1> QED
    BY <1>3, <1>4, <1>9 DEF MutexIInv, CoreInv

\* Every step keeps the invariant.
LEMMA NextMutexIInv == MutexIInv /\ [MutexNext]_allVars => MutexIInv'
  <1> SUFFICES ASSUME MutexIInv, [MutexNext]_allVars
               PROVE  MutexIInv'
    OBVIOUS
  <1>1. CASE UNCHANGED allVars
    BY <1>1, StutterMutex
  <1>2. ASSUME NEW x \in Mx, NEW garbage \in Task, MutexCreate(x, garbage)
        PROVE  MutexIInv'
    BY <1>2, MutexCreateInv
  <1>3. ASSUME NEW x \in Mx, MutexDestroy(x) \/ MutexUnlock(x)
        PROVE  MutexIInv'
    BY <1>3, MutexDestroyInv, MutexUnlockInv
  <1>4. ASSUME NEW x \in Mx,
               MutexLockAtOnce(x) \/ \E timed \in BOOLEAN : MutexLockWait(x, timed)
        PROVE  MutexIInv'
    BY <1>4, LockStartInv
  <1>5. CASE MutexLockAdd \/ MutexLockError \/ MutexLockOk \/ MutexLockTimeout
               \/ MutexLockSleep \/ MutexTake
    BY <1>5, LockAddInv, LockReturnInv, LockOkInv, LockSleepInv, MutexTakeInv
  <1>6. CASE Underlying /\ UNCHANGED mutexVars
    BY <1>6, UnderlyingMutex
  <1> QED
    BY <1>1, <1>2, <1>3, <1>4, <1>5, <1>6, Zenon
       DEF MutexNext, MutexProceed, Underlying

\* A task that goes on to lock a mutex is the running task, the mutex exists,
\* and it is free or, if recursive, held by this task.
THEOREM MutexCorrect == MutexSpec => []MutexInv
  <1>1. MutexIInv => MutexInv
    BY MutexFacts DEF MutexInv, LockIsOpen, MutexIInv, MutexCore
  <1> QED
    BY <1>1, InitMutexIInv, NextMutexIInv, PTL DEF MutexSpec

\* A free mutex does not strand its waiters, whatever timeouts, late waiters
\* and tasks that lock it without queueing do.
THEOREM FreeMutexReachesWaiter == MutexSpec => []NoStrandedWaiter
  <1>1. MutexIInv => NoStrandedWaiter
    <2> SUFFICES ASSUME MutexIInv, NEW x \in Mx,
                        alive[x], lock_cnt[x] = 0, recv[x] # <<>>,
                        ~\E u \in Task : wpc[u] = "ok" /\ wev[u] = x
                 PROVE  \E i \in 1 .. Len(recv[x]) :
                          state[recv[x][i]] # "WAIT" \/ InWalk(recv[x][i])
      BY DEF NoStrandedWaiter
    <2>1. Covered(x, 1)
      BY MutexFacts DEF Open
    <2>2. Len(recv[x]) \in 1 .. Len(recv[x]) /\ Len(recv[x]) + 1 > Len(recv[x])
      <3>1. recv[x] \in Seq(Task)
        BY MutexFacts, CoreFacts
      <3> QED
        BY <3>1
    <2> QED
      BY <2>1, <2>2 DEF Covered, Awake
  <1> QED
    BY <1>1, InitMutexIInv, NextMutexIInv, PTL DEF MutexSpec

-----------------------------------------------------------------------------
(***************************************************************************)
(* The refinement.                                                         *)
(***************************************************************************)

\* The holders and depths of the abstract mutexes.
Holder == [x \in Mx |-> IF alive[x] /\ lock_cnt[x] > 0 THEN lock_task[x] ELSE NoEvent]
Depth == [x \in Mx |-> IF alive[x] THEN lock_cnt[x] ELSE 0]

\* Every step of a mutex is one of the abstract mutex, or none; everything
\* else may only change the running task.
LEMMA ExclusionStep ==
  ASSUME MutexIInv, MutexIInv', [MutexNext]_allVars
  PROVE  [Exclusion!Next]_<<Current, Holder, Depth>>
  <1>1. /\ alive \in [Mx -> BOOLEAN] /\ lock_cnt \in [Mx -> 0 .. LockCntMax]
        /\ lock_task \in [Mx -> Task] /\ LockCntMax \in Nat \ {0}
        /\ Current \in Task /\ Current' \in Task /\ NoEvent \notin Task
        /\ \A x \in Mx : lock_cnt[x] \in Nat
    <2>1. ring' \in Seq(Task) /\ Len(ring') >= 1
      BY DEF MutexIInv, CoreInv, SchedInv, SchedTypeOK
    <2>2. Current' \in Task
      BY <2>1 DEF Current
    <2>3. \A x \in Mx : lock_cnt[x] \in Nat
      BY MutexFacts
    <2> QED
      BY <2>2, <2>3, MutexFacts, CoreFacts, EventAssumption
  <1>2. CASE UNCHANGED mutexVars
    <2>1. UNCHANGED <<Holder, Depth>>
      BY <1>2 DEF mutexVars, Holder, Depth
    <2> QED
      BY <1>1, <2>1 DEF Exclusion!Next, Exclusion!Dispatch, Holder, Depth
  <1>3. ASSUME NEW x \in Mx, NEW garbage \in Task, MutexCreate(x, garbage)
        PROVE  UNCHANGED <<Current, Holder, Depth>>
    <2>1. /\ ~alive[x] /\ lock_cnt'[x] = 0
          /\ \A y \in Mx : y # x => /\ alive'[y] = alive[y]
                                    /\ lock_cnt'[y] = lock_cnt[y]
                                    /\ lock_task'[y] = lock_task[y]
          /\ UNCHANGED ring
      BY <1>1, <1>3 DEF MutexCreate, vars, schedVars
    <2> QED
      BY <1>1, <2>1 DEF Holder, Depth, Current
  <1>4. ASSUME NEW x \in Mx, MutexDestroy(x)
        PROVE  Exclusion!Reset(x)
    <2>1. /\ ~alive'[x]
          /\ \A y \in Mx : y # x => alive'[y] = alive[y]
          /\ UNCHANGED <<ring, lock_cnt, lock_task>>
      BY <1>1, <1>4 DEF MutexDestroy, schedVars
    <2>2. Holder' = [Holder EXCEPT ![x] = NoEvent]
      BY <2>1 DEF Holder
    <2>3. Depth' = [Depth EXCEPT ![x] = 0]
      BY <2>1 DEF Depth
    <2> QED
      BY <2>1, <2>2, <2>3 DEF Exclusion!Reset, Holder, Depth, Current
  <1>5. ASSUME NEW x \in Mx, MutexUnlock(x)
        PROVE  Exclusion!Release(x)
    <2>1. /\ alive[x] /\ lock_cnt[x] # 0 /\ lock_task[x] = Current
          /\ UNCHANGED <<alive, lock_task>>
          /\ \A y \in Mx : lock_cnt'[y] = IF y = x THEN lock_cnt[x] - 1
                                                   ELSE lock_cnt[y]
      BY <1>1, <1>5 DEF MutexUnlock
    <2>2. Current' = Current
      BY <1>5 DEF MutexUnlock, NotifyAndReorder, vars, schedVars, Current
    <2>3. /\ lock_cnt[x] > 0
          /\ lock_cnt[x] - 1 > 0 <=> lock_cnt[x] # 1
      BY <1>1, <2>1
    <2>4. Holder' = [Holder EXCEPT ![x] = IF lock_cnt[x] = 1 THEN NoEvent ELSE Current]
      BY <1>1, <2>1, <2>3 DEF Holder
    <2>5. Depth' = [Depth EXCEPT ![x] = lock_cnt[x] - 1]
      BY <2>1 DEF Depth
    <2>6. Holder[x] = Current /\ Depth[x] = lock_cnt[x]
      BY <2>1, <2>3 DEF Holder, Depth
    <2> QED
      BY <2>2, <2>4, <2>5, <2>6 DEF Exclusion!Release, Holder, Depth
  <1>6. ASSUME NEW x \in Mx, x = wev[Current], MutexTake
        PROVE  Exclusion!Acquire(x) \/ UNCHANGED <<Current, Holder, Depth>>
    <2>1. /\ wpc[Current] = "ok" /\ UNCHANGED <<ring, alive>>
      BY <1>6 DEF MutexTake, Running, schedVars
    <2>2. alive[x] /\ CanLock(x)
      BY <1>6, <2>1, MutexFacts
    <2>3. CASE lock_cnt[x] = LockCntMax
      BY <1>6, <2>1, <2>3 DEF MutexTake, Holder, Depth, Current
    <2>4. CASE lock_cnt[x] # LockCntMax
      <3>1. /\ \A y \in Mx : /\ lock_cnt'[y] = IF y = x THEN lock_cnt[x] + 1
                                                        ELSE lock_cnt[y]
                             /\ lock_task'[y] = IF y = x THEN Current
                                                         ELSE lock_task[y]
        BY <1>1, <1>6, <2>4 DEF MutexTake
      <3>2. lock_cnt[x] + 1 > 0 /\ lock_cnt[x] < LockCntMax
            /\ (lock_cnt[x] > 0 <=> lock_cnt[x] # 0)
        BY <1>1, <2>4
      <3>3. Holder' = [Holder EXCEPT ![x] = Current]
        BY <2>1, <2>2, <3>1, <3>2 DEF Holder
      <3>4. Depth' = [Depth EXCEPT ![x] = lock_cnt[x] + 1]
        BY <2>1, <2>2, <3>1 DEF Depth
      <3>5. /\ Depth[x] = lock_cnt[x]
            /\ Holder[x] = NoEvent \/ (Holder[x] = Current /\ x \in RecursiveMutex)
        BY <2>2, <3>2 DEF Holder, Depth, CanLock
      <3> QED
        BY <2>1, <3>2, <3>3, <3>4, <3>5 DEF Exclusion!Acquire, Holder, Depth, Current
    <2> QED
      BY <2>3, <2>4
  <1>7. \/ UNCHANGED mutexVars
        \/ \E x \in Mx : x = wev[Current] /\ MutexTake
        \/ \E x \in Mx : MutexUnlock(x) \/ MutexDestroy(x)
        \/ \E x \in Mx, garbage \in Task : MutexCreate(x, garbage)
    <2>1. MutexTake => wev[Current] \in Mx
      BY MutexFacts DEF MutexTake, Running
    <2> QED
      BY <2>1, Zenon
         DEF MutexNext, MutexProceed, MutexLockAtOnce, MutexLockWait, MutexLockAdd,
             MutexLockError, MutexLockOk, MutexLockTimeout, MutexLockSleep, allVars
  <1> QED
    BY <1>2, <1>3, <1>4, <1>5, <1>6, <1>7, Zenon DEF Exclusion!Next, Holder, Depth

\* At most one task holds a mutex, only the holder locks it again, up to the
\* limit and if it is recursive, and only the holder unlocks it: garbage in
\* lock_task, tasks that end and destroyed mutexes do not break it.
THEOREM MutexesExclude == MutexSpec => ImplementsMutex
  <1>1. MutexInit => Exclusion!Init
    <2> SUFFICES ASSUME MutexInit PROVE Exclusion!Init
      OBVIOUS
    <2>1. Current \in Task
      BY InitMutexIInv, MutexFacts
    <2> QED
      BY <2>1 DEF MutexInit, Exclusion!Init
  <1>2. MutexIInv /\ MutexIInv' /\ [MutexNext]_allVars
          => [Exclusion!Next]_<<Current, Holder, Depth>>
    BY ExclusionStep
  <1> QED
    BY <1>1, <1>2, InitMutexIInv, NextMutexIInv, PTL
       DEF MutexSpec, ImplementsMutex, Exclusion!Spec, Exclusion!vars, Holder, Depth

=============================================================================
