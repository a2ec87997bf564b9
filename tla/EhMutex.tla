------------------------------- MODULE EhMutex -------------------------------
(***************************************************************************)
(* Mutexes (src/src/eh_mutex.c) on top of events: the events of the        *)
(* application are the wakeup_event of the mutexes here.  Every function   *)
(* is called by tasks only.  A task that finds the mutex free takes it     *)
(* without queueing, so that the waiter an unlock has woken may come too   *)
(* late.                                                                   *)
(***************************************************************************)
EXTENDS EhEvent

CONSTANTS
  RecursiveMutex,   \* the mutexes created with EH_MUTEX_TYPE_RECURSIVE
  LockCntMax        \* EH_MUTEX_LOCK_CNT_MAX

ASSUME MutexAssumption ==
  /\ RecursiveMutex \subseteq UserEvent
  /\ LockCntMax \in Nat \ {0}

Mx == UserEvent

VARIABLES
  alive,      \* between eh_mutex_create and eh_mutex_destroy
  lock_cnt,   \* how often the mutex is locked
  lock_task   \* the last task that has locked it; not initialised before

mutexVars == <<alive, lock_cnt, lock_task>>
allVars == <<vars, mutexVars>>

MutexInit ==
  /\ EventInit
  /\ alive = [x \in Mx |-> FALSE]
  /\ lock_cnt = [x \in Mx |-> 0]
  /\ lock_task = [x \in Mx |-> Main]

-----------------------------------------------------------------------------
\* condition_mutex, evaluated by the running task.
CanLock(x) ==
  \/ lock_cnt[x] = 0
  \/ x \in RecursiveMutex /\ lock_task[x] = Current

\* eh_mutex_create: lock_task is what the allocated memory held before.
MutexCreate(x, garbage) ==
  /\ Running("none")
  /\ ~alive[x]
  /\ alive' = [alive EXCEPT ![x] = TRUE]
  /\ lock_cnt' = [lock_cnt EXCEPT ![x] = 0]
  /\ lock_task' = [lock_task EXCEPT ![x] = garbage]
  /\ UNCHANGED vars

\* eh_mutex_destroy: the waits return with an error; a holder is not told.
MutexDestroy(x) ==
  /\ Running("none")
  /\ alive[x]
  /\ alive' = [alive EXCEPT ![x] = FALSE]
  /\ StartWalk("clean", x, recv[x])
  /\ UNCHANGED <<schedVars, waitVars, lock_cnt, lock_task>>

\* Mutant: no waiter is notified.
MutexUnlockSilentMutant(x) ==
  /\ Running("none")
  /\ alive[x]
  /\ lock_cnt[x] # 0
  /\ lock_task[x] = Current
  /\ lock_cnt' = [lock_cnt EXCEPT ![x] = @ - 1]
  /\ UNCHANGED <<vars, alive, lock_task>>

\* Mutant: any task unlocks.
MutexUnlockAnyMutant(x) ==
  /\ Running("none")
  /\ alive[x]
  /\ lock_cnt[x] # 0
  /\ lock_cnt' = [lock_cnt EXCEPT ![x] = @ - 1]
  /\ IF lock_cnt[x] > 1 \/ recv[x] = <<>> THEN UNCHANGED vars
                                          ELSE NotifyAndReorder(x, 1)
  /\ UNCHANGED <<alive, lock_task>>

\* eh_mutex_unlock by the holder of a locked mutex; any other call changes
\* nothing.  The last unlock notifies the first waiter.
MutexUnlock(x) ==
  /\ Running("none")
  /\ alive[x]
  /\ lock_cnt[x] # 0
  /\ lock_task[x] = Current
  /\ lock_cnt' = [lock_cnt EXCEPT ![x] = @ - 1]
  /\ IF lock_cnt[x] > 1 \/ recv[x] = <<>> THEN UNCHANGED vars
                                          ELSE NotifyAndReorder(x, 1)
  /\ UNCHANGED <<alive, lock_task>>

-----------------------------------------------------------------------------
(***************************************************************************)
(* eh_mutex_lock.  With timeout 0 it locks the mutex or changes nothing.   *)
(***************************************************************************)

\* The condition holds at once.
MutexLockAtOnce(x) ==
  /\ Running("none")
  /\ alive[x]
  /\ CanLock(x)
  /\ wpc' = [wpc EXCEPT ![Current] = "ok"]
  /\ wev' = [wev EXCEPT ![Current] = x]
  /\ UNCHANGED <<schedVars, recv, flags, timer, walk, mutexVars>>

MutexLockWait(x, timed) ==
  /\ alive[x]
  /\ ~CanLock(x)
  /\ WaitBegin(x, timed)
  /\ UNCHANGED mutexVars

MutexLockAdd == AddReceptor /\ UNCHANGED mutexVars

MutexLockError ==
  /\ CheckError
  /\ WaitReturn
  /\ UNCHANGED mutexVars

MutexLockOk ==
  /\ CheckOk(CanLock(wev[Current]))
  /\ WaitLeave("ok")
  /\ flags' = [flags EXCEPT ![Current] = {}]
  /\ UNCHANGED <<schedVars, wev, walk, mutexVars>>

MutexLockTimeout ==
  /\ CheckTimeout(CanLock(wev[Current]))
  /\ WaitReturn
  /\ UNCHANGED mutexVars

MutexLockSleep ==
  /\ CheckSleep(CanLock(wev[Current]))
  /\ WaitSleep
  /\ UNCHANGED mutexVars

\* The wait has returned EH_RET_OK: lock, unless the count is at its limit
\* (EH_RET_INVALID_STATE).
MutexTake ==
  LET x == wev[Current]
  IN  /\ Running("ok")
      /\ IF lock_cnt[x] = LockCntMax
           THEN UNCHANGED <<lock_cnt, lock_task>>
           ELSE /\ lock_cnt' = [lock_cnt EXCEPT ![x] = @ + 1]
                /\ lock_task' = [lock_task EXCEPT ![x] = Current]
      /\ wpc' = [wpc EXCEPT ![Current] = "none"]
      /\ wev' = [wev EXCEPT ![Current] = NoEvent]
      /\ UNCHANGED <<schedVars, recv, flags, timer, walk, alive>>

-----------------------------------------------------------------------------
\* The rest of an eh_mutex_lock that has begun.
MutexProceed ==
  \/ MutexLockAdd
  \/ MutexLockError
  \/ MutexLockOk
  \/ MutexLockTimeout
  \/ MutexLockSleep
  \/ MutexTake
  \/ FinishNotify /\ UNCHANGED mutexVars

\* Tasks may end while they hold a mutex, which then stays locked.
MutexNext ==
  \/ \E x \in Mx, garbage \in Task : MutexCreate(x, garbage)
  \/ \E x \in Mx : MutexDestroy(x)
  \/ \E x \in Mx : MutexUnlock(x)
  \/ \E x \in Mx : MutexLockAtOnce(x)
  \/ \E x \in Mx, timed \in BOOLEAN : MutexLockWait(x, timed)
  \/ MutexProceed
  \/ WalkStep /\ UNCHANGED mutexVars
  \/ \E t \in Task : TimerFire(t) /\ UNCHANGED mutexVars
  \/ \E t \in Task : Create(t) /\ UNCHANGED mutexVars
  \/ Yield /\ UNCHANGED mutexVars
  \/ Finish /\ UNCHANGED mutexVars
  \/ Kernel /\ UNCHANGED mutexVars

\* As in EhEvent.
MutexFairness ==
  /\ WF_allVars(WalkStep /\ UNCHANGED mutexVars)
  /\ SF_allVars(MutexProceed)
  /\ SF_allVars(Kernel /\ UNCHANGED mutexVars)
  /\ SF_allVars((Yield \/ Finish) /\ UNCHANGED mutexVars)

MutexSpec == MutexInit /\ [][MutexNext]_allVars

MutexFairSpec == MutexSpec /\ MutexFairness

-----------------------------------------------------------------------------
(***************************************************************************)
(* Properties.                                                             *)
(***************************************************************************)

\* The variables have the types of the fields they model.
MutexTypeOK ==
  /\ alive \in [Mx -> BOOLEAN]
  /\ lock_cnt \in [Mx -> 0 .. LockCntMax]
  /\ lock_task \in [Mx -> Task]

\* A task that goes on to lock a mutex is the running task, the mutex exists,
\* and it is free or, if recursive, held by this task.
LockIsOpen ==
  \A t \in Task :
    wpc[t] = "ok" => (t = Current /\ alive[wev[t]] /\ CanLock(wev[t]))

MutexInv ==
  /\ MutexTypeOK
  /\ LockIsOpen

\* A free mutex does not strand its waiters: one of them is awake and will
\* look at the condition, or the unlock is about to wake one up, or some task
\* is about to lock the mutex.
NoStrandedWaiter ==
  \A x \in Mx :
    (alive[x] /\ lock_cnt[x] = 0 /\ recv[x] # <<>>)
      => \/ \E i \in 1 .. Len(recv[x]) :
              state[recv[x][i]] # "WAIT" \/ InWalk(recv[x][i])
         \/ \E u \in Task : wpc[u] = "ok" /\ wev[u] = x

\* At most one task holds a mutex, only the holder locks it again, up to the
\* limit and if it is recursive, and only the holder unlocks it: garbage in
\* lock_task, tasks that end and destroyed mutexes do not break it.
Exclusion == INSTANCE Mutex WITH
  Recursive <- RecursiveMutex,
  MaxDepth <- LockCntMax,
  running <- Current,
  NoTask <- NoEvent,
  holder <- [x \in Mx |-> IF alive[x] /\ lock_cnt[x] > 0 THEN lock_task[x]
                                                        ELSE NoEvent],
  depth <- [x \in Mx |-> IF alive[x] THEN lock_cnt[x] ELSE 0]
ImplementsMutex == Exclusion!Spec

\* A free mutex does not stay free while a task waits for it: some task locks
\* it or the waiting task leaves.
FreeMutexServed ==
  \A x \in Mx :
    (alive[x] /\ lock_cnt[x] = 0 /\ recv[x] # <<>>)
      ~> (~alive[x] \/ lock_cnt[x] # 0 \/ recv[x] = <<>>)
=============================================================================
