------------------------------- MODULE EhEvent -------------------------------
(***************************************************************************)
(* Waiting for events (src/src/eh_event.c) on top of the scheduler, and    *)
(* joining a task (eh_task_join), which waits for the event of the task.   *)
(*                                                                         *)
(* A task that waits links a receptor, a variable on its own stack, into   *)
(* the list of the event, checks, and sleeps until a notifier marks the    *)
(* receptor and wakes the task up.  Notifiers are tasks, interrupts and    *)
(* other threads.  A notifier walks the list inside one critical section:  *)
(* "walk" is that loop, and nothing else moves before it ends.             *)
(***************************************************************************)
EXTENDS EhSched, SequencesExt

CONSTANTS
  UserEvent,    \* the events of the application
  NoEvent       \* not an event

ASSUME EventAssumption ==
  /\ UserEvent \cap Task = {}
  /\ NoEvent \notin UserEvent \cup Task

\* The event task->event is named by its task.
Event == UserEvent \cup Task

VARIABLES
  recv,         \* e->receptor_list_head: the tasks whose receptors are linked
  flags,        \* the trigger and error bits of the receptor of each task
  timer,        \* the timeout timer of a wait, with its own receptor
  wpc,          \* where the task is in _eh_event_wait(_timeout), see below
  wev,          \* the event it waits for
  walk          \* the loop of a notifier over the receptors of an event

waitVars == <<recv, flags, timer, wpc, wev>>
eventVars == <<waitVars, walk>>
vars == <<schedVars, eventVars>>

(***************************************************************************)
(* "none":  not waiting;                                                   *)
(* "add":   the condition was false, the receptor is not linked yet;       *)
(* "check": at the head of the loop, or asleep in its eh_task_next;        *)
(* "ok":    returned from the wait with EH_RET_OK, the call that waited    *)
(*          goes on (a join destroys the task).                            *)
(***************************************************************************)
WaitPoints == {"none", "add", "check", "ok"}

NoWalk == [op |-> "none", ev |-> NoEvent, rest |-> <<>>]
Unlocked == walk.op = "none"

EventInit ==
  /\ SchedInit
  /\ recv = [e \in Event |-> <<>>]
  /\ flags = [t \in Task |-> {}]
  /\ timer = [t \in Task |-> "off"]
  /\ wpc = [t \in Task |-> "none"]
  /\ wev = [t \in Task |-> NoEvent]
  /\ walk = NoWalk

-----------------------------------------------------------------------------
(***************************************************************************)
(* Notifying.                                                              *)
(***************************************************************************)

\* The rest of the walk begins with the receptors in todo.
StartWalk(op, e, todo) ==
  walk' = IF todo = <<>> THEN NoWalk
                         ELSE [op |-> op, ev |-> e, rest |-> todo]

\* A notification that finds every receptor marked and its task awake
\* changes nothing and is not a step.
Unmarked(e) ==
  \E i \in 1 .. Len(recv[e]) :
    "trigger" \notin flags[recv[e][i]] \/ state[recv[e][i]] = "WAIT"

\* eh_event_notify, in any context.
Notify(e) ==
  /\ Unlocked
  /\ Unmarked(e)
  /\ StartWalk("notify", e, recv[e])
  /\ UNCHANGED <<schedVars, waitVars>>

\* Mutant: the notified receptors keep their places.
NotifyInPlaceMutant(e, n) ==
  /\ Unlocked
  /\ recv[e] # <<>>
  /\ StartWalk("notify", e, SubSeq(recv[e], 1, n))
  /\ UNCHANGED <<schedVars, waitVars>>

\* eh_event_notify_and_reorder, in any context: the first n receptors are
\* notified and end up behind the others.
NotifyAndReorder(e, n) ==
  LET k     == IF n < Len(recv[e]) THEN n ELSE Len(recv[e])
      first == SubSeq(recv[e], 1, k)
  IN  /\ Unlocked
      /\ recv[e] # <<>>
      /\ StartWalk("notify", e, first)
      /\ recv' = [recv EXCEPT ![e] = SubSeq(@, k + 1, Len(@)) \o first]
      /\ UNCHANGED <<schedVars, flags, timer, wpc, wev>>

\* eh_event_clean, in any context.
Clean(e) ==
  /\ Unlocked
  /\ recv[e] # <<>>
  /\ StartWalk("clean", e, recv[e])
  /\ UNCHANGED <<schedVars, waitVars>>

\* One round of the loop: mark the receptor, wake its task up, and, when
\* cleaning, unlink the receptor.
WalkStep ==
  LET t == Head(walk.rest)
      e == walk.ev
      mark == IF walk.op = "clean" THEN "error" ELSE "trigger"
  IN  /\ ~Unlocked
      /\ flags' = [flags EXCEPT ![t] = @ \cup {mark}]
      /\ TaskWakeUp(t)
      /\ recv' = IF walk.op = "clean" THEN [recv EXCEPT ![e] = Tail(@)]
                                      ELSE recv
      /\ StartWalk(walk.op, e, Tail(walk.rest))
      /\ UNCHANGED <<finishList, autoList, autoPoll, fresh, tick, phase,
                     timer, wpc, wev>>

-----------------------------------------------------------------------------
(***************************************************************************)
(* Waiting.  The running task moves; a wait with timeout 0 never links a   *)
(* receptor and changes nothing.                                           *)
(***************************************************************************)

Running(point) ==
  /\ Unlocked
  /\ phase = "run"
  /\ wpc[Current] = point

\* The condition, if there is one, is false: initialise the receptor and, for
\* a finite timeout, start the timer.
WaitBegin(e, timed) ==
  /\ Running("none")
  /\ wpc' = [wpc EXCEPT ![Current] = "add"]
  /\ wev' = [wev EXCEPT ![Current] = e]
  /\ flags' = [flags EXCEPT ![Current] = {}]
  /\ timer' = [timer EXCEPT ![Current] = IF timed THEN "armed" ELSE "off"]
  /\ UNCHANGED <<schedVars, recv, walk>>

AddReceptor ==
  /\ Running("add")
  /\ recv' = [recv EXCEPT ![wev[Current]] = Append(@, Current)]
  /\ wpc' = [wpc EXCEPT ![Current] = "check"]
  /\ UNCHANGED <<schedVars, flags, timer, wev, walk>>

Unlink(q, t) ==
  IF \E i \in 1 .. Len(q) : q[i] = t
    THEN RemoveAt(q, CHOOSE i \in 1 .. Len(q) : q[i] = t)
    ELSE q

\* Mutant: the receptor stays linked.
WaitLeaveLinkedMutant(point) ==
  /\ wpc' = [wpc EXCEPT ![Current] = point]
  /\ timer' = [timer EXCEPT ![Current] = "off"]
  /\ UNCHANGED recv

\* Leave the loop: the receptor is unlinked (it may have been already), the
\* timer is stopped and its receptor unlinked.
WaitLeave(point) ==
  /\ recv' = [recv EXCEPT ![wev[Current]] = Unlink(@, Current)]
  /\ wpc' = [wpc EXCEPT ![Current] = point]
  /\ timer' = [timer EXCEPT ![Current] = "off"]

WaitReturn ==
  /\ WaitLeave("none")
  /\ wev' = [wev EXCEPT ![Current] = NoEvent]
  /\ flags' = [flags EXCEPT ![Current] = {}]
  /\ UNCHANGED <<schedVars, walk>>

\* Nothing to return for: the state is set to WAIT in the critical section
\* that has checked, then the task is swapped out.
WaitSleep ==
  /\ TaskBlock
  /\ UNCHANGED eventVars

\* Outcomes of a round of the loop with a condition, in the order of the code.
CheckError == Running("check") /\ "error" \in flags[Current]
\* Mutant: any mark of the receptor ends the wait, an error included.
CheckOkMutant(condition) ==
  Running("check") /\ (condition \/ flags[Current] # {})
CheckOk(condition) ==
  Running("check") /\ "error" \notin flags[Current] /\ condition
CheckTimeout(condition) ==
  /\ Running("check")
  /\ "error" \notin flags[Current] /\ ~condition
  /\ timer[Current] = "fired"
CheckSleep(condition) ==
  /\ Running("check")
  /\ "error" \notin flags[Current] /\ ~condition
  /\ timer[Current] # "fired"

\* Outcomes without a condition: any mark of the receptor ends the wait.
AnyMark == flags[Current] # {}

\* Mutant: the task is made ready but not linked into the ring.
TimerFireMutant(t) ==
  /\ Unlocked
  /\ Polling
  /\ ~autoPoll
  /\ timer[t] = "armed"
  /\ timer' = [timer EXCEPT ![t] = "fired"]
  /\ state' = [state EXCEPT ![t] = IF @ = "WAIT" THEN "READY" ELSE @]
  /\ UNCHANGED <<ring, waitList, finishList, autoList, autoPoll, fresh, tick,
                 phase, recv, flags, wpc, wev, walk>>

\* eh_timer_check inside eh_poll, after the poll tasks: the timer has expired
\* and notifies its event, where only this wait has a receptor.
TimerFire(t) ==
  /\ Unlocked
  /\ Polling
  /\ ~autoPoll
  /\ timer[t] = "armed"
  /\ timer' = [timer EXCEPT ![t] = "fired"]
  /\ TaskWakeUp(t)
  /\ UNCHANGED <<finishList, autoList, autoPoll, fresh, tick, phase,
                 recv, flags, wpc, wev, walk>>

-----------------------------------------------------------------------------
(***************************************************************************)
(* Waiting for an event of the application, without a condition.           *)
(***************************************************************************)

EventWait(e, timed) ==
  /\ e \in UserEvent
  /\ WaitBegin(e, timed)

OnUserEvent == wev[Current] \in UserEvent

EventWaitDone ==
  /\ Running("check") /\ OnUserEvent
  /\ AnyMark
  /\ WaitReturn

EventWaitTimeout ==
  /\ Running("check") /\ OnUserEvent
  /\ ~AnyMark /\ timer[Current] = "fired"
  /\ WaitReturn

EventWaitSleep ==
  /\ Running("check") /\ OnUserEvent
  /\ ~AnyMark /\ timer[Current] # "fired"
  /\ WaitSleep

-----------------------------------------------------------------------------
(***************************************************************************)
(* eh_task_join: wait for the task's own event until it has finished, then *)
(* clean the event and free the task.  Several tasks may join one task: it *)
(* is allocated when they call.                                            *)
(***************************************************************************)

Finished(t) == state[t] = "FINISH"

OnTaskEvent == wev[Current] \in Task

JoinWait(t, timed) ==
  /\ t \notin {Main, Current}
  /\ state[t] \notin {"NONE", "FINISH"}
  /\ WaitBegin(t, timed)

\* Finished already: eh_event_clean is the first step of _task_destroy.
JoinAtOnce(t) ==
  /\ Running("none")
  /\ Finished(t)
  /\ wpc' = [wpc EXCEPT ![Current] = "ok"]
  /\ wev' = [wev EXCEPT ![Current] = t]
  /\ StartWalk("clean", t, recv[t])
  /\ UNCHANGED <<schedVars, recv, flags, timer>>

JoinOk ==
  LET t == wev[Current]
  IN  /\ OnTaskEvent
      /\ CheckOk(Finished(t))
      /\ WaitLeave("ok")
      /\ flags' = [flags EXCEPT ![Current] = {}]
      /\ StartWalk("clean", t, Unlink(recv[t], Current))
      /\ UNCHANGED <<schedVars, wev>>

JoinError ==
  /\ OnTaskEvent
  /\ CheckError
  /\ WaitReturn

JoinTimeout ==
  /\ OnTaskEvent
  /\ CheckTimeout(Finished(wev[Current]))
  /\ WaitReturn

JoinSleep ==
  /\ OnTaskEvent
  /\ CheckSleep(Finished(wev[Current]))
  /\ WaitSleep

JoinDestroy ==
  /\ Running("ok")
  /\ TaskJoined(wev[Current])
  /\ wpc' = [wpc EXCEPT ![Current] = "none"]
  /\ wev' = [wev EXCEPT ![Current] = NoEvent]
  /\ UNCHANGED <<recv, flags, timer, walk>>

-----------------------------------------------------------------------------
(***************************************************************************)
(* The steps of the scheduler, in the presence of waits.                   *)
(***************************************************************************)

\* A step that is not in the middle of a wait or of a notifier's loop.
Undisturbed(step) == Unlocked /\ step /\ UNCHANGED eventVars

Create(t) == Undisturbed(TaskCreate(t))

Yield == Running("none") /\ TaskYield /\ UNCHANGED eventVars

Finish == Running("none") /\ TaskFinish /\ UNCHANGED eventVars

\* Mutant: the joiners are not notified.
FinishNotifyMutant == Unlocked /\ TaskFinishNext /\ UNCHANGED eventVars

\* The finished task notifies its joiners.
FinishNotify ==
  /\ Unlocked
  /\ TaskFinishNext
  /\ StartWalk("notify", Current, recv[Current])
  /\ UNCHANGED waitVars

\* _task_destroy inside _task_auto_destruct: eh_event_clean, then free.
AutoClean(t) ==
  /\ Unlocked
  /\ Polling
  /\ autoPoll
  /\ t \in autoList
  /\ recv[t] # <<>>
  /\ StartWalk("clean", t, recv[t])
  /\ UNCHANGED <<schedVars, waitVars>>

\* Mutant: the task is freed without eh_event_clean.
AutoFreeMutant(t) == Undisturbed(AutoDestruct(t))

AutoFree(t) ==
  /\ recv[t] = <<>>
  /\ Undisturbed(AutoDestruct(t))

Kernel ==
  \/ Undisturbed(NextPoll)
  \/ Undisturbed(NextNoPoll)
  \/ \E t \in Task : AutoClean(t)
  \/ \E t \in Task : AutoFree(t)
  \/ Undisturbed(AutoDestructEnd)
  \/ Undisturbed(PollReturn)
  \/ Undisturbed(EnterIdle)
  \/ Undisturbed(IdleReturn)
  \/ Undisturbed(Switch)

\* The rest of a call that has begun.
Proceed ==
  \/ AddReceptor
  \/ EventWaitDone
  \/ EventWaitTimeout
  \/ EventWaitSleep
  \/ JoinOk
  \/ JoinError
  \/ JoinTimeout
  \/ JoinSleep
  \/ JoinDestroy
  \/ FinishNotify

EventNext ==
  \/ \E e \in UserEvent : Notify(e)
  \/ \E e \in UserEvent : NotifyAndReorder(e, 1)
  \/ \E e \in UserEvent : Clean(e)
  \/ WalkStep
  \/ \E e \in UserEvent, timed \in BOOLEAN : EventWait(e, timed)
  \/ \E t \in Task, timed \in BOOLEAN : JoinWait(t, timed)
  \/ \E t \in Task : JoinAtOnce(t)
  \/ \E t \in Task : TimerFire(t)
  \/ \E t \in Task : Create(t)
  \/ Yield
  \/ Finish
  \/ Proceed
  \/ Kernel

(***************************************************************************)
(* A critical section ends, and interrupts and other threads leave the     *)
(* kernel thread time to enter its own (strong fairness: a notifier may    *)
(* hold the lock again and again, but not whenever the kernel thread wants *)
(* it).  A running task ends its own code, whatever waits it makes in      *)
(* between, with a yield or its return; no wait, no notification and no    *)
(* expiry of a timer is promised.                                          *)
(***************************************************************************)
EventFairness ==
  /\ WF_vars(WalkStep)
  /\ SF_vars(Proceed)
  /\ SF_vars(Kernel)
  /\ SF_vars(Yield \/ Finish)

EventSpec == EventInit /\ [][EventNext]_vars

EventFairSpec == EventSpec /\ EventFairness

-----------------------------------------------------------------------------
(***************************************************************************)
(* Properties.                                                             *)
(***************************************************************************)

\* The variables have the types of the fields they model.
EventTypeOK ==
  /\ recv \in [Event -> Seq(Task)]
  /\ flags \in [Task -> SUBSET {"trigger", "error"}]
  /\ timer \in [Task -> {"off", "armed", "fired"}]
  /\ wpc \in [Task -> WaitPoints]
  /\ wev \in [Task -> Event \cup {NoEvent}]
  /\ walk \in [op: {"none", "notify", "clean"}, ev: Event \cup {NoEvent},
               rest: Seq(Task)]

\* A receptor is linked exactly while the frame it lives in is in the loop of
\* a wait for that event and the event has not been cleaned: a notifier never
\* follows a list node into a stack frame that has been left, or into the
\* stack of a task that has been freed.
LinkedIn(t, e) == \E i \in 1 .. Len(recv[e]) : recv[e][i] = t

ReceptorsAreLive ==
  /\ \A t \in Task, e \in Event :
       LinkedIn(t, e) <=> (/\ wpc[t] = "check" /\ wev[t] = e
                           /\ "error" \notin flags[t])
  /\ \A e \in Event : \A i, j \in 1 .. Len(recv[e]) :
       recv[e][i] = recv[e][j] => i = j
  /\ \A t \in Task : wpc[t] # "none" => state[t] \notin {"NONE", "FINISH"}

\* A loop over receptors has receptors left, a task waits for an event exactly
\* while it is in a wait, and only a join goes on after its wait.
EventShape ==
  /\ IF Unlocked THEN walk = NoWalk
                 ELSE walk.ev \in Event /\ walk.rest # <<>>
  /\ \A t \in Task : IF wpc[t] = "none" THEN wev[t] = NoEvent
                                        ELSE wev[t] \in Event
  /\ \A t \in Task : wpc[t] = "ok" => wev[t] \in Task

\* A loop has linked receptors before it, all of them when it cleans the event:
\* its next element is never one that somebody else has unlinked.
WalkOnLinked ==
  ~Unlocked =>
    /\ walk.op = "clean" => walk.rest = recv[walk.ev]
    /\ \A i \in 1 .. Len(walk.rest) : LinkedIn(walk.rest[i], walk.ev)

\* Only a receptor in the loop of its wait can have been marked, and only the
\* running task is on its way into or out of a wait.
MarksInLoop == \A t \in Task : wpc[t] # "check" => flags[t] = {}

PointsOfCurrent ==
  \A t \in Task : wpc[t] \in {"add", "ok"} => t = Current /\ phase = "run"

\* No receptor is left in the event of a task that is about to be freed.
CleanedBeforeFree ==
  \A t \in Task : wpc[t] = "ok" =>
    recv[wev[t]] = <<>> \/ (walk.op = "clean" /\ walk.ev = wev[t])

EventInv ==
  /\ EventTypeOK
  /\ EventShape
  /\ ReceptorsAreLive
  /\ WalkOnLinked
  /\ MarksInLoop
  /\ PointsOfCurrent
  /\ CleanedBeforeFree

\* No lost wake-up.  Whatever would end a wait, a mark of the receptor, the
\* expiry of the timer, the end of the joined task, comes with a wake-up: a
\* task whose wait would return does not sleep (state WAIT), not even inside
\* eh_task_next, where the wake-up may come before the task is swapped out.
\* Only a joiner may still sleep while the joined task has set its state and
\* is on its way to, or inside, the notification.
Marked(t) ==
  IF wev[t] \in UserEvent THEN flags[t] # {} ELSE "error" \in flags[t]

InWalk(t) == \E i \in 1 .. Len(walk.rest) : walk.rest[i] = t

NoLostWakeup ==
  \A t \in Task : wpc[t] = "check" =>
    /\ (Marked(t) \/ timer[t] = "fired") => state[t] # "WAIT"
    /\ (wev[t] \in Task /\ Finished(wev[t])) =>
         \/ state[t] # "WAIT"
         \/ phase = "finish" /\ wev[t] = Current
         \/ InWalk(t)

\* A joiner looks at the state of the joined task only while that task is
\* allocated: if another joiner, or the poll task, has freed it, and even if
\* its memory holds a new task, the joiner's receptor says so.
Reaching(t) == wpc[t] \in {"add", "check", "ok"} /\ wev[t] \in Task

JoinedIsAllocated ==
  \A t \in Task :
    (Reaching(t) /\ "error" \notin flags[t]) => state[wev[t]] # "NONE"

\* A joiner that goes on to destroy the joined task is the running task, and
\* the joined task is finished, swapped out and not freed yet, whoever else
\* joins it: the task is freed once.
DestroysOnce ==
  \A t \in Task :
    wpc[t] = "ok" => (t = Current /\ wev[t] \in finishList \cup autoList)

EventIInv ==
  /\ SchedInv
  /\ EventInv
  /\ NoLostWakeup
  /\ JoinedIsAllocated
  /\ DestroysOnce

\* Events and joins use the scheduler by its own operations only: every step
\* is a step of the scheduler or leaves its state alone.
ImplementsScheduler == SchedSpec

\* A wait whose receptor has been marked, whose timer has expired, or whose
\* joined task has finished, returns.
WaitersReturn ==
  \A t \in Task :
    (/\ wpc[t] = "check"
     /\ \/ Marked(t)
        \/ timer[t] = "fired"
        \/ wev[t] \in Task /\ Finished(wev[t])) ~> (wpc[t] \in {"none", "ok"})
=============================================================================
