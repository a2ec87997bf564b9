------------------------------- MODULE EhSched -------------------------------
(***************************************************************************)
(* The cooperative scheduler of eventhub_os (src/src/eh_core.c).           *)
(*                                                                         *)
(* One kernel thread executes every task.  A task gives up the processor   *)
(* only inside eh_task_next, which polls (timers, external events, poll    *)
(* tasks) and then swaps to the next task of the ready ring.  Interrupts   *)
(* and other threads may call eh_task_wake_up between any two critical     *)
(* sections, so each action below is at most one critical section long.    *)
(*                                                                         *)
(* The ready ring is a circular list without a head, threaded through the  *)
(* tasks.  It is a sequence here that starts at the running task: what is  *)
(* inserted "before the current task" is appended to the sequence.         *)
(***************************************************************************)
EXTENDS Naturals, Sequences

CONSTANTS
  Task,         \* the tasks memory has room for, the main task among them
  Main,         \* s_main_task: statically allocated, it never finishes
  SystemTask,   \* tasks created with EH_TASK_FLAGS_SYSTEM_TASK
  DetachTask,   \* tasks created with EH_TASK_FLAGS_DETACH
  PollPeriod    \* EH_CONFIG_TASK_DISPATCH_CNT_PER_POLL

ASSUME SchedAssumption ==
  /\ Main \in Task
  /\ SystemTask \subseteq Task \ {Main}
  /\ DetachTask \subseteq Task \ {Main}
  /\ PollPeriod \in Nat \ {0}

VARIABLES
  state,        \* task->state, or "NONE" while the task is not allocated
  ring,         \* the ready ring, from the current task onwards
  waitList,     \* task_wait_list_head
  finishList,   \* task_finish_list_head
  autoList,     \* task_finish_auto_destruct_list_head
  autoPoll,     \* auto_destruct_task is linked in loop_poll_task_head
  fresh,        \* tasks whose context has not been entered yet
  tick,         \* dispatch_cnt % EH_CONFIG_TASK_DISPATCH_CNT_PER_POLL
  phase         \* where the kernel thread is, see Phases

schedVars == <<state, ring, waitList, finishList, autoList, autoPoll,
               fresh, tick, phase>>

States == {"NONE", "READY", "RUNING", "WAIT", "FINISH"}

(***************************************************************************)
(* "run":    the current task executes its own code;                       *)
(* "finish": it has set its state to FINISH and notifies its joiners;      *)
(* "next":   it has entered eh_task_next;                                  *)
(* "poll":   eh_poll called for the dispatch count;                        *)
(* "loop":   at the head of the loop of eh_task_next;                      *)
(* "idle":   eh_poll called because no other task is ready.                *)
(***************************************************************************)
Phases == {"run", "finish", "next", "poll", "loop", "idle"}

Current == Head(ring)

InRing(t) == \E i \in 1 .. Len(ring) : ring[i] = t

Polling == phase \in {"poll", "idle"}

SchedInit ==
  /\ state = [t \in Task |-> IF t = Main THEN "RUNING" ELSE "NONE"]
  /\ ring = <<Main>>
  /\ waitList = {}
  /\ finishList = {}
  /\ autoList = {}
  /\ autoPoll = FALSE
  /\ fresh = {}
  /\ tick = 0
  /\ phase = "run"

-----------------------------------------------------------------------------
(***************************************************************************)
(* Waking a task up.                                                       *)
(***************************************************************************)

\* Mutant: every woken task goes right behind the current one.
EnqueueFrontMutant(t) == <<Head(ring), t>> \o Tail(ring)

\* A system task goes right behind the current task, any other to the end.
Enqueue(t) ==
  IF t \in SystemTask
    THEN <<Head(ring), t>> \o Tail(ring)
    ELSE Append(ring, t)

\* Mutant: a current task that has not been swapped out is linked again.
TaskWakeUpTwiceMutant(t) ==
  IF state[t] # "WAIT"
    THEN UNCHANGED <<state, ring, waitList>>
    ELSE /\ state' = [state EXCEPT ![t] = "READY"]
         /\ ring' = Enqueue(t)
         /\ waitList' = waitList \ {t}

\* Mutant: the test for the current task comes before its state is set.
TaskWakeUpLateMutant(t) ==
  IF state[t] # "WAIT" \/ t = Current
    THEN UNCHANGED <<state, ring, waitList>>
    ELSE /\ state' = [state EXCEPT ![t] = "READY"]
         /\ ring' = Enqueue(t)
         /\ waitList' = waitList \ {t}

\* eh_task_wake_up: nothing happens unless the task waits; a current task
\* that has not been swapped out yet keeps its place in the ring.
TaskWakeUp(t) ==
  IF state[t] # "WAIT"
    THEN UNCHANGED <<state, ring, waitList>>
    ELSE /\ state' = [state EXCEPT ![t] = "READY"]
         /\ ring' = IF t = Current THEN ring ELSE Enqueue(t)
         /\ waitList' = waitList \ {t}

\* Mutant: waking up a ready task moves it in the ring.
WakeUpMovesMutant(t) ==
  /\ state[t] \in {"WAIT", "READY"}
  /\ t # Current
  /\ state' = [state EXCEPT ![t] = "READY"]
  /\ ring' = Append(SelectSeq(ring, LAMBDA u : u # t), t)
  /\ waitList' = waitList \ {t}
  /\ UNCHANGED <<finishList, autoList, autoPoll, fresh, tick, phase>>

\* A wake-up by an interrupt, another thread or the running task.
WakeUp(t) ==
  /\ state[t] = "WAIT"
  /\ TaskWakeUp(t)
  /\ UNCHANGED <<finishList, autoList, autoPoll, fresh, tick, phase>>

-----------------------------------------------------------------------------
(***************************************************************************)
(* What a running task does.  Poll tasks and handlers called from eh_poll  *)
(* may create tasks too, but only a running task may block.                *)
(***************************************************************************)

TaskCreate(t) ==
  /\ phase \in {"run", "poll", "idle"}
  /\ state[t] = "NONE"
  /\ state' = [state EXCEPT ![t] = "READY"]
  /\ ring' = Enqueue(t)
  /\ fresh' = fresh \cup {t}
  /\ UNCHANGED <<waitList, finishList, autoList, autoPoll, tick, phase>>

TaskYield ==
  /\ phase = "run"
  /\ phase' = "next"
  /\ UNCHANGED <<state, ring, waitList, finishList, autoList, autoPoll,
                 fresh, tick>>

\* eh_task_set_current_state(EH_TASK_STATE_WAIT), then eh_task_next.
TaskBlock ==
  /\ phase = "run"
  /\ state' = [state EXCEPT ![Current] = "WAIT"]
  /\ phase' = "next"
  /\ UNCHANGED <<ring, waitList, finishList, autoList, autoPoll, fresh, tick>>

\* The return of the task function, or eh_task_exit outside the main task
\* (in the main task eh_task_exit is a yield).
TaskFinish ==
  /\ phase = "run"
  /\ Current # Main
  /\ state' = [state EXCEPT ![Current] = "FINISH"]
  /\ phase' = "finish"
  /\ UNCHANGED <<ring, waitList, finishList, autoList, autoPoll, fresh, tick>>

TaskFinishNext ==
  /\ phase = "finish"
  /\ phase' = "next"
  /\ UNCHANGED <<state, ring, waitList, finishList, autoList, autoPoll,
                 fresh, tick>>

\* _task_destroy(t): t leaves whatever list it is in and is freed.
Free(t) ==
  /\ state' = [state EXCEPT ![t] = "NONE"]
  /\ finishList' = finishList \ {t}
  /\ autoList' = autoList \ {t}
  /\ UNCHANGED <<ring, waitList, autoPoll, fresh, tick, phase>>

\* eh_task_join has found t finished (a detached task may be joined as long
\* as it has not been freed).
TaskJoined(t) ==
  /\ phase = "run"
  /\ t \in finishList \cup autoList
  /\ Free(t)

-----------------------------------------------------------------------------
(***************************************************************************)
(* eh_task_next and the part of eh_poll that belongs to the scheduler.     *)
(***************************************************************************)

NextPoll ==
  /\ phase = "next"
  /\ tick = 0
  /\ phase' = "poll"
  /\ UNCHANGED <<state, ring, waitList, finishList, autoList, autoPoll,
                 fresh, tick>>

\* Mutant: the dispatch count does not oblige to poll.
NextNoPollMutant ==
  /\ phase = "next"
  /\ phase' = "loop"
  /\ UNCHANGED <<state, ring, waitList, finishList, autoList, autoPoll,
                 fresh, tick>>

NextNoPoll ==
  /\ phase = "next"
  /\ tick # 0
  /\ phase' = "loop"
  /\ UNCHANGED <<state, ring, waitList, finishList, autoList, autoPoll,
                 fresh, tick>>

\* Mutant: the poll task looks for finished tasks, the current one among them.
AutoDestructEagerMutant(t) ==
  /\ Polling
  /\ t \in DetachTask /\ state[t] = "FINISH"
  /\ Free(t)

\* _task_auto_destruct, the poll task: one round per task of the list (in an
\* order nothing depends on), then the poll task unlinks itself.
AutoDestruct(t) ==
  /\ Polling
  /\ autoPoll
  /\ t \in autoList
  /\ Free(t)

\* Mutant: the poll task unlinks itself with tasks left to free.
AutoDestructEndMutant ==
  /\ Polling
  /\ autoPoll
  /\ autoPoll' = FALSE
  /\ UNCHANGED <<state, ring, waitList, finishList, autoList, fresh, tick,
                 phase>>

AutoDestructEnd ==
  /\ Polling
  /\ autoPoll
  /\ autoList = {}
  /\ autoPoll' = FALSE
  /\ UNCHANGED <<state, ring, waitList, finishList, autoList, fresh, tick,
                 phase>>

\* eh_poll returns: every linked poll task has been called.
PollReturn ==
  /\ phase = "poll"
  /\ ~autoPoll
  /\ phase' = "loop"
  /\ UNCHANGED <<state, ring, waitList, finishList, autoList, autoPoll,
                 fresh, tick>>

\* No other task is in the ring: poll until there is one, or until the
\* current task itself is ready again.
EnterIdle ==
  /\ phase = "loop"
  /\ Len(ring) = 1
  /\ phase' = "idle"
  /\ UNCHANGED <<state, ring, waitList, finishList, autoList, autoPoll,
                 fresh, tick>>

IdleReturn ==
  /\ phase = "idle"
  /\ ~autoPoll
  /\ IF state[Current] \in {"RUNING", "READY"}
       THEN /\ state' = [state EXCEPT ![Current] = "RUNING"]
            /\ phase' = "run"
       ELSE /\ phase' = "loop"
            /\ UNCHANGED state
  /\ UNCHANGED <<ring, waitList, finishList, autoList, autoPoll, fresh, tick>>

\* The critical section of eh_task_next up to the end of co_context_swap.  A
\* task that has run before resumes behind co_context_swap and counts the
\* dispatch; a fresh one starts in _task_entry and does not.
Switch ==
  /\ phase = "loop"
  /\ Len(ring) > 1
  /\ LET from == Current
         to   == ring[2]
         kept == state[from] \in {"READY", "RUNING"}
         done == state[from] = "FINISH"
     IN  /\ state' = [state EXCEPT ![from] = IF kept THEN "READY" ELSE @,
                                   ![to] = "RUNING"]
         /\ ring' = IF kept THEN Append(Tail(ring), from) ELSE Tail(ring)
         /\ waitList' = IF state[from] = "WAIT" THEN waitList \cup {from}
                                                ELSE waitList
         /\ finishList' = IF done /\ from \notin DetachTask
                            THEN finishList \cup {from} ELSE finishList
         /\ autoList' = IF done /\ from \in DetachTask
                          THEN autoList \cup {from} ELSE autoList
         /\ autoPoll' = (autoPoll \/ (done /\ from \in DetachTask))
         /\ tick' = IF to \in fresh THEN tick ELSE (tick + 1) % PollPeriod
         /\ fresh' = fresh \ {to}
  /\ phase' = "run"

-----------------------------------------------------------------------------
\* The steps of eh_task_next: nothing but the scheduler decides them.
Dispatch ==
  \/ NextPoll
  \/ NextNoPoll
  \/ \E t \in Task : AutoDestruct(t)
  \/ AutoDestructEnd
  \/ PollReturn
  \/ EnterIdle
  \/ IdleReturn
  \/ Switch

SchedNext ==
  \/ \E t \in Task : WakeUp(t)
  \/ \E t \in Task : TaskCreate(t)
  \/ TaskYield
  \/ TaskBlock
  \/ TaskFinish
  \/ TaskFinishNext
  \/ \E t \in Task : TaskJoined(t)
  \/ Dispatch

(***************************************************************************)
(* The kernel thread never stops inside eh_task_next: the idle handler     *)
(* returns because it waits with a timeout and because eh_task_wake_up     *)
(* breaks it.  Cooperative tasks give the processor up eventually.  No     *)
(* wake-up, creation or join is promised.                                  *)
(***************************************************************************)
SchedFairness ==
  /\ WF_schedVars(Dispatch)
  /\ WF_schedVars(TaskYield \/ TaskBlock \/ TaskFinish)
  /\ WF_schedVars(TaskFinishNext)

SchedSpec == SchedInit /\ [][SchedNext]_schedVars

SchedFairSpec == SchedSpec /\ SchedFairness

-----------------------------------------------------------------------------
(***************************************************************************)
(* Properties.                                                             *)
(***************************************************************************)

\* The variables have the types of the fields they model.
SchedTypeOK ==
  /\ state \in [Task -> States]
  /\ ring \in Seq(Task)
  /\ Len(ring) >= 1
  /\ waitList \subseteq Task
  /\ finishList \subseteq Task
  /\ autoList \subseteq Task
  /\ autoPoll \in BOOLEAN
  /\ fresh \subseteq Task
  /\ tick \in 0 .. PollPeriod - 1
  /\ phase \in Phases

\* No task is linked twice into the ring.
RingInjective ==
  \A i, j \in 1 .. Len(ring) : ring[i] = ring[j] => i = j

\* What a task's state says about the list its only list node is linked in.
\* A wrong list node would make eh_list_move corrupt another list, or
\* eh_task_next run a task that waits.
ListOfState ==
  \A t \in Task :
    /\ state[t] \in {"READY", "RUNING"} => InRing(t)
    /\ state[t] = "WAIT" => (t \in waitList \/ t = Current)
    /\ state[t] = "FINISH" => (t \in finishList \cup autoList \/ t = Current)
    /\ t \in waitList => (state[t] = "WAIT" /\ t # Current)
    /\ t \in finishList =>
         (state[t] = "FINISH" /\ t # Current /\ t \notin DetachTask)
    /\ t \in autoList =>
         (state[t] = "FINISH" /\ t # Current /\ t \in DetachTask)

\* Behind the current task the ring holds ready tasks only, and the current
\* task is RUNING while it executes its own code.  eh_task_next relies on it:
\* it does not look at the state of the task it swaps to.
RingReady ==
  /\ \A i \in 2 .. Len(ring) : state[ring[i]] = "READY"
  /\ state[Current] # "NONE"
  /\ phase = "run" => state[Current] = "RUNING"
  /\ phase = "finish" => state[Current] = "FINISH"

\* A context that has not been entered belongs to a ready task behind the
\* current one, and the main task is always allocated and never finished.
FreshReady ==
  /\ \A t \in fresh : state[t] = "READY" /\ t # Current
  /\ state[Main] \notin {"NONE", "FINISH"}

\* As long as a detached task has not been freed, the poll task that frees it
\* is scheduled; and only the running task's code can have stopped short of
\* its poll.
AutoPollArmed == autoList # {} => autoPoll

SchedInv ==
  /\ SchedTypeOK
  /\ RingInjective
  /\ ListOfState
  /\ RingReady
  /\ FreshReady
  /\ AutoPollArmed

\* A task is freed only when it has finished and the processor has left its
\* stack for good: the running task, which may be the finished one inside
\* eh_task_next, is never freed.
FreedIsOffStack ==
  [][\A t \in Task :
       (state[t] # "NONE" /\ state'[t] = "NONE")
         => (state[t] = "FINISH" /\ ~InRing(t))]_schedVars

\* Of two tasks waiting in the ring for their turn, the one in front runs
\* first: woken system tasks enter the ring before them but never between,
\* and nothing else overtakes.
AheadIn(r, t, u) ==
  \E i, j \in 2 .. Len(r) : i < j /\ r[i] = t /\ r[j] = u

TurnsAreKept ==
  [][\A t, u \in Task :
       AheadIn(ring, t, u) => ~AheadIn(ring', u, t)]_schedVars

\* A ready task runs, whatever wake-ups, creations and joins happen; with
\* more than one system task this is not so, see the README.
ReadyRuns ==
  \A t \in Task : (state[t] = "READY") ~> (state[t] = "RUNING")

\* A detached task that has finished is freed, unless tasks are created
\* without end: a fresh task is dispatched without being counted, so that the
\* poll that would free it may never be due.
DetachedFreed ==
  \A t \in Task : (t \in autoList) ~> (state[t] = "NONE" \/ fresh # {})

\* With the same exception, timers and external events are polled again and
\* again however busy the tasks are.
PollsWhileBusy == []<>(Polling \/ fresh # {})

\* What README.md:179 says of EH_CONFIG_TASK_DISPATCH_CNT_PER_POLL, that so
\* many dispatches are followed by a poll, implies that polls never cease.
PollsForever == []<>Polling
=============================================================================
