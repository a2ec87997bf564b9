-------------------------------- MODULE EhSem --------------------------------
(***************************************************************************)
(* Semaphores (src/src/eh_sem.c) on top of events: the events of the       *)
(* application are the wakeup_event of the semaphores here.                *)
(*                                                                         *)
(* eh_sem_post runs in tasks, interrupts and other threads, under the      *)
(* lock; eh_sem_wait runs in tasks only and takes its token after the wait *)
(* has returned and the lock has been released.  A task that finds a token *)
(* takes it without queueing, so that a woken waiter may come too late.    *)
(* eh_sem_destroy runs in any context as well.                             *)
(***************************************************************************)
EXTENDS EhEvent

CONSTANTS
  Width,    \* the counters are integers modulo Width (uint32_t: 2^32)
  Dead      \* not a number of tokens

ASSUME SemAssumption ==
  /\ Width \in Nat
  /\ Width >= 2
  /\ Dead \notin Nat

Sem == UserEvent

VARIABLES
  alive,      \* between eh_sem_create and eh_sem_destroy
  sem_num_p,  \* the tokens taken
  sem_num_v   \* the tokens posted

semVars == <<alive, sem_num_p, sem_num_v>>
allVars == <<vars, semVars>>

SemInit ==
  /\ EventInit
  /\ alive = [s \in Sem |-> FALSE]
  /\ sem_num_p = [s \in Sem |-> 0]
  /\ sem_num_v = [s \in Sem |-> 0]

-----------------------------------------------------------------------------
\* The increment of a uint32_t.
Inc(x) == IF x = Width - 1 THEN 0 ELSE x + 1

\* The difference of two uint32_t.
Difference(v, p) == IF v >= p THEN v - p ELSE (v + Width) - p

Value(s) == Difference(sem_num_v[s], sem_num_p[s])

\* condition_sem
HasToken(s) == sem_num_p[s] # sem_num_v[s]

\* eh_sem_create, in any context: at an address that is not in use.
SemCreate(s, value) ==
  /\ Unlocked
  /\ ~alive[s]
  /\ alive' = [alive EXCEPT ![s] = TRUE]
  /\ sem_num_v' = [sem_num_v EXCEPT ![s] = value]
  /\ sem_num_p' = [sem_num_p EXCEPT ![s] = 0]
  /\ UNCHANGED vars

\* Mutant: the counter passes its limit.
SemPostWrapMutant(s) ==
  /\ Unlocked
  /\ alive[s]
  /\ sem_num_v' = [sem_num_v EXCEPT ![s] = Inc(@)]
  /\ IF recv[s] = <<>> THEN UNCHANGED vars ELSE NotifyAndReorder(s, 1)
  /\ UNCHANGED <<alive, sem_num_p>>

\* eh_sem_post, in any context; with the counter at its limit it returns
\* EH_RET_BUSY and changes nothing.
SemPost(s) ==
  /\ Unlocked
  /\ alive[s]
  /\ Inc(sem_num_v[s]) # sem_num_p[s]
  /\ sem_num_v' = [sem_num_v EXCEPT ![s] = Inc(@)]
  /\ IF recv[s] = <<>> THEN UNCHANGED vars ELSE NotifyAndReorder(s, 1)
  /\ UNCHANGED <<alive, sem_num_p>>

\* Mutant: the event is not cleaned.
SemDestroyMutant(s) ==
  /\ Unlocked
  /\ alive[s]
  /\ alive' = [alive EXCEPT ![s] = FALSE]
  /\ UNCHANGED <<vars, sem_num_p, sem_num_v>>

\* eh_sem_destroy, in any context.
SemDestroy(s) ==
  /\ Unlocked
  /\ alive[s]
  /\ alive' = [alive EXCEPT ![s] = FALSE]
  /\ StartWalk("clean", s, recv[s])
  /\ UNCHANGED <<schedVars, waitVars, sem_num_p, sem_num_v>>

-----------------------------------------------------------------------------
(***************************************************************************)
(* eh_sem_wait.  With timeout 0 it takes a token or changes nothing.       *)
(***************************************************************************)

\* The condition holds at once.
SemWaitAtOnce(s) ==
  /\ Running("none")
  /\ alive[s]
  /\ HasToken(s)
  /\ wpc' = [wpc EXCEPT ![Current] = "ok"]
  /\ wev' = [wev EXCEPT ![Current] = s]
  /\ UNCHANGED <<schedVars, recv, flags, timer, walk, semVars>>

SemWait(s, timed) ==
  /\ alive[s]
  /\ ~HasToken(s)
  /\ WaitBegin(s, timed)
  /\ UNCHANGED semVars

SemWaitAdd == AddReceptor /\ UNCHANGED semVars

SemWaitError ==
  /\ CheckError
  /\ WaitReturn
  /\ UNCHANGED semVars

SemWaitOk ==
  /\ CheckOk(HasToken(wev[Current]))
  /\ WaitLeave("ok")
  /\ flags' = [flags EXCEPT ![Current] = {}]
  /\ UNCHANGED <<schedVars, wev, walk, semVars>>

SemWaitTimeout ==
  /\ CheckTimeout(HasToken(wev[Current]))
  /\ WaitReturn
  /\ UNCHANGED semVars

SemWaitSleep ==
  /\ CheckSleep(HasToken(wev[Current]))
  /\ WaitSleep
  /\ UNCHANGED semVars

\* sem_num_p++, outside the lock: only tasks write sem_num_p.
SemTake ==
  LET s == wev[Current]
  IN  /\ Running("ok")
      /\ sem_num_p' = [sem_num_p EXCEPT ![s] = Inc(@)]
      /\ wpc' = [wpc EXCEPT ![Current] = "none"]
      /\ wev' = [wev EXCEPT ![Current] = NoEvent]
      /\ UNCHANGED <<schedVars, recv, flags, timer, walk, alive, sem_num_v>>

-----------------------------------------------------------------------------
\* The rest of an eh_sem_wait that has begun.
SemProceed ==
  \/ SemWaitAdd
  \/ SemWaitError
  \/ SemWaitOk
  \/ SemWaitTimeout
  \/ SemWaitSleep
  \/ SemTake
  \/ FinishNotify /\ UNCHANGED semVars

\* Tasks end and are created while others wait; joins are left to EhEvent.
SemNext ==
  \/ \E s \in Sem, value \in 0 .. Width - 1 : SemCreate(s, value)
  \/ \E s \in Sem : SemPost(s)
  \/ \E s \in Sem : SemDestroy(s)
  \/ \E s \in Sem : SemWaitAtOnce(s)
  \/ \E s \in Sem, timed \in BOOLEAN : SemWait(s, timed)
  \/ SemProceed
  \/ WalkStep /\ UNCHANGED semVars
  \/ \E t \in Task : TimerFire(t) /\ UNCHANGED semVars
  \/ \E t \in Task : Create(t) /\ UNCHANGED semVars
  \/ Yield /\ UNCHANGED semVars
  \/ Finish /\ UNCHANGED semVars
  \/ Kernel /\ UNCHANGED semVars

SemSpec == SemInit /\ [][SemNext]_allVars

(***************************************************************************)
(* A wait that has begun does not always have a receptor by which it could *)
(* be told that its semaphore has been destroyed: not between its first    *)
(* look and the linking of the receptor, and not between its last look and *)
(* the step sem_num_p++.  Only an interrupt or another thread can destroy  *)
(* the semaphore there, and the wait then goes on in freed memory.         *)
(* SemCarefulSpec is about programs that do not; nothing else is asked of  *)
(* those that destroy semaphores, in whatever context.                     *)
(***************************************************************************)
InWindow(s) == \E t \in Task : wpc[t] \in {"add", "ok"} /\ wev[t] = s

SparesWindow == \A s \in Sem : (InWindow(s) /\ alive[s]) => alive'[s]

SemCarefulSpec == SemInit /\ [][SemNext /\ SparesWindow]_allVars

-----------------------------------------------------------------------------
(***************************************************************************)
(* Properties.                                                             *)
(***************************************************************************)

\* The variables have the types of the fields they model.
SemTypeOK ==
  /\ alive \in [Sem -> BOOLEAN]
  /\ sem_num_p \in [Sem -> 0 .. Width - 1]
  /\ sem_num_v \in [Sem -> 0 .. Width - 1]

\* The semaphore a wait refers to exists until the wait has been told that it
\* has been destroyed (inside the critical section that tells the waits, until
\* it reaches this one), even if another one has been created at its address;
\* and the token a wait goes on to take is still there.  README.md:1034-1039
\* offers eh_sem_destroy to interrupts and other threads without a condition,
\* which this refutes: it holds under SemCarefulSpec, not under SemSpec.
SemInUse ==
  \A t \in Task :
    /\ wpc[t] = "add" => alive[wev[t]]
    /\ (wpc[t] = "check" /\ "error" \notin flags[t] /\ ~InWalk(t))
         => alive[wev[t]]
    /\ wpc[t] = "ok" => (t = Current /\ alive[wev[t]] /\ HasToken(wev[t]))

SemInv ==
  /\ SemTypeOK
  /\ SemInUse

\* The tokens nobody has gone on to take.
Available(s) ==
  IF \E t \in Task : wpc[t] = "ok" /\ wev[t] = s THEN Value(s) - 1
                                                 ELSE Value(s)

\* No token is stranded: with k tokens available the last k receptors of the
\* list, or all of them, belong to tasks that are awake and will look at the
\* condition, or that the running notification is about to wake up.  Timeouts,
\* late waiters and tasks that take a token without queueing do not break it.
NoStrandedToken ==
  \A s \in Sem : \A i \in 1 .. Len(recv[s]) :
    (alive[s] /\ i + Available(s) > Len(recv[s]))
      => (state[recv[s][i]] # "WAIT" \/ InWalk(recv[s][i]))

\* Whatever the interleaving of posts and waits, and across the wrap of both
\* counters, the semaphore counts: no post is lost and no token taken twice.
Counter == INSTANCE Semaphore WITH
  Limit <- Width - 1,
  count <- [s \in Sem |-> IF alive[s] THEN Value(s) ELSE Dead]
ImplementsSemaphore == Counter!Spec
=============================================================================
