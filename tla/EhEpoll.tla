------------------------------ MODULE EhEpoll ------------------------------
(***************************************************************************)
(* Epoll (the second half of eh_event.c).  An epoll keeps a receptor for   *)
(* each watched event in a tree.  A receptor is linked in the event's      *)
(* receptor list until the event is cleaned, and it is in the pending list *)
(* of the epoll from the first notification until it is read.  One task    *)
(* waits; it is woken through wakeup_task of the epoll.  Each operation is *)
(* one critical section, the wait one for each time it looks.              *)
(*                                                                         *)
(* Events are notified and cleaned from anywhere at any time.  The other   *)
(* receptors of an event are those of module EhEvent and are left out.     *)
(***************************************************************************)
EXTENDS Naturals, FiniteSets, SequencesExt

CONSTANTS
    Events,     \* the events of the program
    SlotSize    \* slots the waiting task provides

ASSUME EpollConstants == SlotSize \in Nat \ {0}

VARIABLES
    epollTree,  \* all_receptor_tree: the events that have a receptor
    linked,     \* those whose receptor is in the list of the event
    pending,    \* pending_list_head
    mask,       \* the bits EH_EVENT_RECEPTOR_TRIGGER_MASK of each receptor
    wakeupTask, \* wakeup_task is set
    asleep,     \* the task is in EH_TASK_STATE_WAIT
    wait,       \* where the task is in eh_epoll_wait: "out", "look" or "sleep"
    epollTimer, \* the timeout timer: "off", "on" or "expired"
    last        \* the slots the last wait has filled

epollVars == <<epollTree, linked, pending, mask, wakeupTask, asleep, wait, epollTimer, last>>

(* eh_epoll_new *)
EpollInit ==
    /\ epollTree = {} /\ linked = {} /\ pending = << >>
    /\ mask = [e \in Events |-> {}]
    /\ wakeupTask = FALSE /\ asleep = FALSE
    /\ wait = "out" /\ epollTimer = "off" /\ last = << >>

(* eh_epoll_add_event_advanced; with a receptor there already it returns EH_RET_EXISTS *)
(* and without memory an error, and changes nothing.                                   *)
EpollAdd(e) ==
    /\ e \notin epollTree
    /\ epollTree' = epollTree \cup {e}
    /\ linked' = linked \cup {e}
    /\ mask' = [mask EXCEPT ![e] = {}]
    /\ UNCHANGED <<pending, wakeupTask, asleep, wait, epollTimer, last>>

(* eh_list_del of a node, which points to itself when it is not linked. *)
EpollUnlink(list, e) ==
    IF e \in Range(list) THEN RemoveAt(list, CHOOSE i \in DOMAIN list : list[i] = e) ELSE list

(* eh_epoll_del_event, eh_epoll_del_event_from_handle_no_lock *)
EpollDelKeepsPendingMutant(e) ==
    /\ e \in epollTree
    /\ epollTree' = epollTree \ {e}
    /\ linked' = linked \ {e}
    /\ mask' = [mask EXCEPT ![e] = {}]
    /\ UNCHANGED <<pending, wakeupTask, asleep, wait, epollTimer, last>>

EpollDel(e) ==
    /\ e \in epollTree
    /\ epollTree' = epollTree \ {e}
    /\ linked' = linked \ {e}
    /\ pending' = EpollUnlink(pending, e)
    /\ mask' = [mask EXCEPT ![e] = {}]
    /\ UNCHANGED <<wakeupTask, asleep, wait, epollTimer, last>>

(* eh_epoll_del_advanced, while nobody waits; the epoll may be created again. *)
EpollDelete ==
    /\ wait = "out"
    /\ epollTree' = {} /\ linked' = {} /\ pending' = << >>
    /\ mask' = [e \in Events |-> {}]
    /\ UNCHANGED <<wakeupTask, asleep, wait, epollTimer, last>>

(* _eh_event_trigger_receptor_no_lock for an epoll receptor, after the bit has been set. *)
TriggerReceptor(e, bit) ==
    /\ mask' = [mask EXCEPT ![e] = @ \cup {bit}]
    /\ pending' = IF e \in Range(pending) THEN pending ELSE Append(pending, e)
    /\ asleep' = (asleep /\ ~wakeupTask)

(* eh_event_notify as far as it concerns the epoll *)
EventNotify(e) ==
    /\ IF e \in linked THEN TriggerReceptor(e, "trigger") ELSE UNCHANGED <<mask, pending, asleep>>
    /\ UNCHANGED <<epollTree, linked, wakeupTask, wait, epollTimer, last>>

(* eh_event_clean *)
EventClean(e) ==
    /\ e \in linked
    /\ TriggerReceptor(e, "error")
    /\ linked' = linked \ {e}
    /\ UNCHANGED <<epollTree, wakeupTask, wait, epollTimer, last>>

Affair(e) == IF "error" \in mask[e] THEN "error" ELSE "trigger"
Entry(e) == [event |-> e, affair |-> Affair(e)]

(* What _eh_epoll_pending_read_on_lock takes: from the front, as far as the slots go. *)
Batch == SubSeq(pending, 1, IF Len(pending) < SlotSize THEN Len(pending) ELSE SlotSize)

ReadMutant ==
    /\ last' = [i \in DOMAIN Batch |-> Entry(Batch[i])]
    /\ pending' = << >>
    /\ mask' = [e \in Events |-> IF e \in Range(Batch) THEN {} ELSE mask[e]]

Read ==
    /\ last' = [i \in DOMAIN Batch |-> Entry(Batch[i])]
    /\ pending' = SubSeq(pending, Len(Batch) + 1, Len(pending))
    /\ mask' = [e \in Events |-> IF e \in Range(Batch) THEN {} ELSE mask[e]]

(* eh_epoll_wait with EH_TIME_FOREVER, and with a timeout *)
EpollWait ==
    /\ wait = "out"
    /\ wait' = "look"
    /\ UNCHANGED <<epollTree, linked, pending, mask, wakeupTask, asleep, epollTimer, last>>

EpollWaitTimeout ==
    /\ wait = "out"
    /\ wait' = "look"
    /\ epollTimer' = "on"
    /\ UNCHANGED <<epollTree, linked, pending, mask, wakeupTask, asleep, last>>

(* With the timeout 0 the wait only looks. *)
EpollPoll ==
    /\ wait = "out"
    /\ Read
    /\ UNCHANGED <<epollTree, linked, wakeupTask, asleep, wait, epollTimer>>

EpollFound ==
    /\ wait = "look"
    /\ pending # << >>
    /\ Read
    /\ wait' = "out" /\ epollTimer' = "off" /\ wakeupTask' = FALSE
    /\ UNCHANGED <<epollTree, linked, asleep>>

EpollTimedOut ==
    /\ wait = "look"
    /\ pending = << >> /\ epollTimer = "expired"
    /\ last' = << >>
    /\ wait' = "out" /\ epollTimer' = "off" /\ wakeupTask' = FALSE
    /\ UNCHANGED <<epollTree, linked, pending, mask, asleep>>

EpollSleepForgetsMutant ==
    /\ wait = "look"
    /\ pending = << >> /\ epollTimer # "expired"
    /\ asleep' = TRUE /\ wait' = "sleep"
    /\ UNCHANGED <<epollTree, linked, pending, mask, wakeupTask, epollTimer, last>>

EpollSleep ==
    /\ wait = "look"
    /\ pending = << >> /\ epollTimer # "expired"
    /\ asleep' = TRUE /\ wakeupTask' = TRUE
    /\ wait' = "sleep"
    /\ UNCHANGED <<epollTree, linked, pending, mask, epollTimer, last>>

(* Back from eh_task_next. *)
EpollWoken ==
    /\ wait = "sleep" /\ ~asleep
    /\ wait' = "look"
    /\ UNCHANGED <<epollTree, linked, pending, mask, wakeupTask, asleep, epollTimer, last>>

(* The timer of the timeout wakes the task through a receptor of its own. *)
EpollTimerSilentMutant ==
    /\ epollTimer = "on"
    /\ epollTimer' = "expired"
    /\ UNCHANGED <<epollTree, linked, pending, mask, wakeupTask, asleep, wait, last>>

EpollTimer ==
    /\ epollTimer = "on"
    /\ epollTimer' = "expired"
    /\ asleep' = FALSE
    /\ UNCHANGED <<epollTree, linked, pending, mask, wakeupTask, wait, last>>

(* A task that uses an epoll by itself.  The receptors may be added and deleted by other tasks. *)
EpollTask == EpollFound \/ EpollTimedOut \/ EpollSleep \/ EpollWoken
EpollNext ==
    \/ EpollWait \/ EpollWaitTimeout \/ EpollPoll
    \/ EpollFound \/ EpollTimedOut \/ EpollSleep \/ EpollWoken \/ EpollTimer \/ EpollDelete
    \/ \E e \in Events : EpollAdd(e) \/ EpollDel(e) \/ EventNotify(e) \/ EventClean(e)

(* The timer is checked in time, and a task that is ready runs. *)
EpollSpec == EpollInit /\ [][EpollNext]_epollVars /\ WF_epollVars(EpollTimer) /\ WF_epollVars(EpollTask)

-----------------------------------------------------------------------------
(* eh_epoll_add_event, _del_event and _wait, notifications and the cleaning of events: *)
(* the pending list holds exactly the receptors with a bit to report, each once; a *)
(* receptor without its event is one whose error is still to be reported or has    *)
(* been; and the task sleeps only while there is nothing to report, the timeout is *)
(* not over, and the epoll knows whom to wake.                                     *)
EpollInv ==
    /\ linked \subseteq epollTree /\ epollTree \subseteq Events
    /\ IsInjective(pending) /\ Range(pending) = {e \in Events : mask[e] # {}}
    /\ Range(pending) \subseteq epollTree
    /\ \A e \in Range(pending) : "error" \in mask[e] => e \notin linked
    /\ asleep => /\ pending = << >> /\ epollTimer # "expired"
                 /\ wait = "sleep" /\ wakeupTask
    /\ wakeupTask => wait # "out"

(* _eh_epoll_wait_timeout: a wait with a timeout ends, whichever of the timer, the    *)
(* notifications and the deletions of what was notified comes first.                 *)
TimedWaitEnds == (epollTimer # "off") ~> (wait = "out")

(* Seen from the task that calls _eh_epoll_wait_timeout, the epoll is a queue of what *)
(* happened: nothing is reported twice, out of order or after its deletion, and no    *)
(* timeout is reported while an event waits to be.                                    *)
Queue == [i \in DOMAIN pending |-> Entry(pending[i])]
Promised == INSTANCE Epoll WITH Event <- Events, Slots <- SlotSize, queue <- Queue
ImplementsEpoll == Promised!EpollSpec
=============================================================================
