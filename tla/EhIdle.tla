------------------------------- MODULE EhIdle -------------------------------
(***************************************************************************)
(* The idle state: how the thread that runs the tasks goes to sleep for as *)
(* long as the first timer allows, and how other threads wake it up        *)
(* (platform.c with epoll_hub.c, kqueue_hub.c or iocp_hub.c, and the loop  *)
(* of eh_task_next).  The tasks are reduced to one bit: whether one of     *)
(* them is ready.  The critical section is the mutex of the platform.      *)
(*                                                                         *)
(* The three hubs differ in what a wake-up is and in when it is cleared:   *)
(* an eventfd and a pipe stay readable until they are read, before the     *)
(* idle time is used and in the callback; a completion packet is taken by  *)
(* the wait itself, and a flag that the callback resets without the mutex  *)
(* keeps a second one from being posted.  The pipe is assumed not to be    *)
(* full.                                                                   *)
(***************************************************************************)
EXTENDS EhTimer

CONSTANTS Platforms,   \* the platforms to explore: "linux", "macos", "windows"
          Grain        \* clocks in a unit of the wait of Windows (a millisecond)

ASSUME IdleConstants == Platforms \subseteq {"linux", "macos", "windows"} /\ Grain \in Nat \ {0}

VARIABLES
    platform,   \* which of the hubs is built in
    loop,       \* where the thread is in eh_task_next, eh_poll and the handler
    ready,      \* a task is ready to run
    idleState,  \* is_idle_state
    break,      \* the eventfd or pipe is readable, or a wake-up packet is queued
    pending,    \* wakeup_pending of iocp_hub.c
    got,        \* the poll has returned a wake-up to the callback
    timeout,    \* usec_timeout, in clocks
    waited      \* time since usec_timeout was computed, up to the end of the wait

idleVars == <<platform, loop, ready, idleState, break, pending, got, timeout, waited>>
vars == <<timerVars, idleVars>>

Init ==
    /\ TimerInit
    /\ platform \in Platforms
    /\ loop = "run"
    /\ ready = TRUE
    /\ idleState = FALSE /\ break = FALSE /\ pending = FALSE /\ got = FALSE
    /\ timeout = 0 /\ waited = 0

Goto(from, to) == loop = from /\ loop' = to

(* epoll_hub_set_wait_break_event and its kin *)
HubSet ==
    /\ break' = (break \/ platform # "windows" \/ ~pending)
    /\ pending' = (platform = "windows")

(* epoll_hub_clean_wait_break_event: nothing on Windows *)
HubClean ==
    /\ break' = (break /\ platform = "windows")
    /\ UNCHANGED pending

(* platform_idle_break, called with the mutex held or not *)
IdleBreak == IF idleState THEN HubSet ELSE UNCHANGED <<break, pending>>

(* eh_task_wake_up of a task that waits, by a task, a callback or another thread. *)
WakeUp ==
    /\ LockFree
    /\ ~ready
    /\ IdleBreak
    /\ ready' = TRUE
    /\ UNCHANGED <<timerVars, platform, loop, idleState, got, timeout, waited>>

ThreadStart(t) ==
    /\ TimerStart(t)
    /\ IF FirstUpdate(t) THEN IdleBreak ELSE UNCHANGED <<break, pending>>
    /\ UNCHANGED <<platform, loop, ready, idleState, got, timeout, waited>>

ThreadRestart(t) ==
    /\ TimerRestart(t)
    /\ IF FirstUpdate(t) THEN IdleBreak ELSE UNCHANGED <<break, pending>>
    /\ UNCHANGED <<platform, loop, ready, idleState, got, timeout, waited>>

ThreadStop(t) == TimerStop(t) /\ UNCHANGED idleVars
ThreadConfig(t) == (TimerConfig(t) \/ TimerSetAttr(t)) /\ UNCHANGED idleVars

(* The tasks run until all of them wait. *)
TasksRun ==
    /\ Goto("run", "handler")
    /\ ready' = FALSE
    /\ UNCHANGED <<timerVars, platform, idleState, break, pending, got, timeout, waited>>

(* Some dispatches later a poll is due although tasks are ready. *)
TasksPoll ==
    /\ Goto("run", "handler")
    /\ UNCHANGED <<timerVars, platform, ready, idleState, break, pending, got, timeout, waited>>

(* eh_get_loop_idle_time *)
LoopIdleTime == IF ready THEN 0 ELSE FirstRemaining

(* platform_idle_or_extern_event_handler up to the unlock: one critical section. *)
HandlerEnterUnmarkedMutant ==
    /\ LockFree
    /\ Goto("handler", "arm")
    /\ idleState' = FALSE
    /\ timeout' = LoopIdleTime
    /\ waited' = 0
    /\ HubClean
    /\ UNCHANGED <<timerVars, platform, ready, got>>

HandlerEnter ==
    /\ LockFree
    /\ Goto("handler", "arm")
    /\ idleState' = TRUE
    /\ timeout' = LoopIdleTime
    /\ waited' = 0
    /\ HubClean
    /\ UNCHANGED <<timerVars, platform, ready, got>>

(* The wait is armed with the time computed before, in milliseconds on Windows. *)
HubTimeout == IF platform = "windows" THEN (timeout \div Grain) * Grain ELSE timeout

HubArm ==
    /\ Goto("arm", "wait")
    /\ timeout' = HubTimeout
    /\ waited' = 0
    /\ UNCHANGED <<timerVars, platform, ready, idleState, break, pending, got>>

(* The wait ends with a wake-up, or when the time is over. *)
HubReturn ==
    /\ break \/ waited >= timeout
    /\ Goto("wait", "callback")
    /\ got' = break
    /\ break' = (break /\ platform # "windows")
    /\ timeout' = 0
    /\ waited' = 0
    /\ UNCHANGED <<timerVars, platform, ready, idleState, pending>>

(* event_wait_break_callback and its kin, without the mutex. *)
HubCallback ==
    /\ Goto("callback", "leave")
    /\ got' = FALSE
    /\ IF ~got THEN UNCHANGED <<break, pending>>
       ELSE IF platform = "windows" THEN pending' = FALSE /\ UNCHANGED break
       ELSE HubClean
    /\ UNCHANGED <<timerVars, platform, ready, idleState, timeout, waited>>

HandlerLeave ==
    /\ Goto("leave", "check")
    /\ idleState' = FALSE
    /\ UNCHANGED <<timerVars, platform, ready, break, pending, got, timeout, waited>>

TimerCheck ==
    /\ CheckBegin
    /\ Goto("check", "checking")
    /\ UNCHANGED <<platform, ready, idleState, break, pending, got, timeout, waited>>

(* The event of the timer wakes up a task that waits for it, if there is one. *)
TimerExpires(t) ==
    /\ CheckFire(t)
    /\ \/ UNCHANGED <<ready, break, pending>>
       \/ ready' = TRUE /\ IdleBreak
    /\ UNCHANGED <<platform, loop, idleState, got, timeout, waited>>

(* The loop of eh_task_next: back to the tasks, or idle again. *)
TimerCheckEndIdleMutant ==
    /\ CheckEnd
    /\ Goto("checking", "handler")
    /\ UNCHANGED <<platform, ready, idleState, break, pending, got, timeout, waited>>

TimerCheckEnd ==
    /\ CheckEnd
    /\ loop = "checking"
    /\ loop' = IF ready THEN "run" ELSE "handler"
    /\ UNCHANGED <<platform, ready, idleState, break, pending, got, timeout, waited>>

(* Time passes.  The time between the unlock and the wait is bounded by MaxLag; the *)
(* time waited is of no interest beyond the end of the wait.                        *)
Pass ==
    /\ Tick
    /\ loop = "arm" => waited < MaxLag
    /\ waited' = IF loop = "arm" \/ (loop = "wait" /\ waited < timeout) THEN waited + 1 ELSE waited
    /\ UNCHANGED <<platform, loop, ready, idleState, break, pending, got, timeout>>

LoopStep ==
    \/ TasksRun \/ TasksPoll \/ HandlerEnter \/ HubArm \/ HubReturn \/ HubCallback
    \/ HandlerLeave \/ TimerCheck \/ TimerCheckEnd
    \/ \E t \in Timers : TimerExpires(t)

Next ==
    \/ TasksRun \/ TasksPoll \/ HandlerEnter \/ HubArm \/ HubReturn \/ HubCallback
    \/ HandlerLeave \/ TimerCheck \/ TimerCheckEnd \/ WakeUp \/ Pass
    \/ \E t \in Timers :
         TimerExpires(t) \/ ThreadStart(t) \/ ThreadRestart(t) \/ ThreadStop(t) \/ ThreadConfig(t)

(* The thread of the tasks is scheduled, and time passes. *)
Spec == Init /\ [][Next]_vars /\ WF_vars(LoopStep) /\ WF_vars(Pass)
-----------------------------------------------------------------------------
(* platform_idle_or_extern_event_handler against eh_idle_break: from the moment the *)
(* idle time has been computed, a sleep that is too long for a *)
(* ready task or for the first deadline has its wake-up on the way, whichever      *)
(* thread made the task ready or started the timer at whatever moment; and on      *)
(* Windows the flag never says that a packet is queued when there is none to come. *)
NoOversleep ==
    /\ loop \in {"arm", "wait"} /\ timeout > waited =>
         \/ break
         \/ ~ready /\ \A t \in DOMAIN left :
              timeout - waited <= left[t] + IF loop = "wait" THEN MaxLag ELSE 0
    /\ pending => break \/ got

(* What the two properties below need: from some time on no periodic timer is given *)
(* the interval 0, which eh_timer_start accepts.  Such a timer expires again in each *)
(* round and keeps eh_timer_check in its loop, under the lock, for ever.             *)
PeriodsStayPositive == <>[](\A t \in Timers : kind[t] # "once" => interval[t] # 0)

(* A task that is ready gets to run: the thread of the tasks does not sleep on in   *)
(* platform_idle_or_extern_event_handler, nor go round in eh_timer_check.           *)
ReadyTaskRuns == PeriodsStayPositive => (ready ~> loop = "run")

Overdue(t) == t \in DOMAIN left /\ left[t] <= 0

(* eh_timer_check with the idle time of eh_timer_get_first_remaining_time_on_lock:  *)
(* no timer stays overdue for ever without ringing, whatever the other timers and *)
(* threads do; one with a period too short for the system rings again and again.  *)
AlarmsRing ==
    PeriodsStayPositive =>
        \A t \in Timers : []<>(~Overdue(t)) \/ []<><<TimerExpires(t)>>_vars
=============================================================================
