----------------------------- MODULE EhEventCb -----------------------------
(***************************************************************************)
(* Signals and slots (eh_event_cb.c, eh_signal.h): one task runs           *)
(* eh_event_loop, which waits on an epoll of its own and calls the slots   *)
(* connected to each event that was notified.  The userdata of an epoll    *)
(* receptor is a trigger, a list of slots with a count of connections and  *)
(* a bit that keeps it allocated while the loop uses it.                   *)
(*                                                                         *)
(* Slots are connected and disconnected by tasks: while the loop waits or  *)
(* by a slot function (or another task, when that function waits).         *)
(* Events are notified and cleaned from anywhere.  A quit is requested by  *)
(* a task or by another thread, which the loop may overtake between the    *)
(* two stores of the request.  Memory does not run out: after a failure of *)
(* trigger_weak_ref_new the receptor stays behind without a trigger.       *)
(***************************************************************************)
EXTENDS EhEpoll

CONSTANTS
    Self,         \* the event of the looping task, which nobody connects to
    Slots,        \* the slots of the program
    Connections,  \* the pairs of an event and a slot that the program connects
    NoTrigger,    \* userdata of the receptor of Self
    NoSlot        \* no slot function is running

ASSUME CbConstants ==
    /\ Self \in Events
    /\ Connections \subseteq (Events \ {Self}) \X Slots
    /\ NoSlot \notin Slots
    /\ NoTrigger \notin (Events \ {Self}) \X {1, 2}

VARIABLES
    userdata,  \* the trigger of each receptor
    allocated, \* the triggers that are allocated
    cbHead,    \* cb_head of each trigger
    connects,  \* connect_cnt
    forced,    \* forced_ref
    loop,      \* where eh_event_loop is: "out", "wait", "batch", "slots" or "check"
    used,      \* used_tmp_list
    running,   \* the slot whose function is running
    quit,      \* EH_TASK_FLAGS_INTERIOR_REQUEST_QUIT is set: "no", by a "task" or by a "thread"
    asked      \* another thread is between the notification and the flag
cbVars == <<userdata, allocated, cbHead, connects, forced, loop, used, running, quit, asked>>
triggerVars == <<userdata, allocated, cbHead, connects, forced>>
loopVars == <<epollVars, cbVars>>

(* The memory for triggers.  Beside the trigger of an event the loop may keep one that *)
(* the event had before.                                                               *)
Signals == Events \ {Self}
Triggers == Signals \X {1, 2}
FreeTrigger(e) == IF <<e, 1>> \in allocated THEN <<e, 2>> ELSE <<e, 1>>

Init ==
    /\ EpollInit
    /\ userdata = [e \in Events |-> NoTrigger]
    /\ allocated = {}
    /\ cbHead = [t \in Triggers |-> << >>]
    /\ connects = [t \in Triggers |-> 0]
    /\ forced = [t \in Triggers |-> FALSE]
    /\ loop = "out" /\ used = << >> /\ running = NoSlot
    /\ quit = "no" /\ asked = FALSE

Linked(s) == s \in Range(used) \/ \E t \in Triggers : s \in Range(cbHead[t])

(* Tasks run while the loop waits, has yielded before it looks, or calls a slot function. *)
TasksMayRun == loop \in {"out", "wait"} \/ running # NoSlot

(* The members of a list that are in S. *)
Only(list, S) ==
    LET only[i \in 0 .. Len(list)] ==
          IF i = 0 THEN << >>
          ELSE IF list[i] \in S THEN Append(only[i - 1], list[i]) ELSE only[i - 1]
    IN  only[Len(list)]

(* task_get_epoll_try_new: the epoll comes with a receptor for the event of the task. *)
HasEpoll == Self \in epollTree

(* eh_event_cb_connect for an event that has a receptor *)
ConnectExisting(e, s) ==
    LET t == userdata[e] IN
    /\ e \in epollTree
    /\ cbHead' = [cbHead EXCEPT ![t] = <<s>> \o @]
    /\ connects' = [connects EXCEPT ![t] = @ + 1]
    /\ UNCHANGED <<userdata, allocated, forced, epollVars>>

(* eh_event_cb_connect for one that gets a receptor and a trigger *)
ConnectNew(e, s) ==
    LET t == FreeTrigger(e) IN
    /\ HasEpoll
    /\ EpollAdd(e)
    /\ userdata' = [userdata EXCEPT ![e] = t]
    /\ allocated' = allocated \cup {t}
    /\ cbHead' = [cbHead EXCEPT ![t] = <<s>>]
    /\ connects' = [connects EXCEPT ![t] = 1]
    /\ forced' = [forced EXCEPT ![t] = FALSE]

CbConnect(e, s) ==
    /\ TasksMayRun /\ <<e, s>> \in Connections
    /\ ~Linked(s)
    /\ ConnectExisting(e, s) \/ ConnectNew(e, s)
    /\ UNCHANGED <<loop, used, running, quit, asked>>

(* The first call creates the epoll. *)
CbNewEpoll ==
    /\ TasksMayRun /\ ~HasEpoll
    /\ EpollAdd(Self)
    /\ UNCHANGED cbVars

(* trigger_disconnect that ignores the reference of the loop *)
FreeUnreferencedMutant(t) == IF connects'[t] = 0 THEN allocated \ {t} ELSE allocated

FreeUnreferenced(t) ==
    IF connects'[t] = 0 /\ ~forced'[t] THEN allocated \ {t} ELSE allocated

(* eh_event_cb_disconnect of a slot from the event it is connected to *)
CbDisconnect(e, s) ==
    LET t == userdata[e] IN
    /\ TasksMayRun
    /\ e \in epollTree /\ e \in Signals
    /\ s \in Range(cbHead[t]) \/ (s \in Range(used) /\ Head(last).event = e /\ Head(last).trigger = t)
    /\ cbHead' = [cbHead EXCEPT ![t] = EpollUnlink(@, s)]
    /\ used' = EpollUnlink(used, s)
    /\ connects' = [connects EXCEPT ![t] = @ - 1]
    /\ UNCHANGED forced
    /\ allocated' = FreeUnreferenced(t)
    /\ IF connects'[t] = 0
       THEN EpollDel(e) /\ userdata' = [userdata EXCEPT ![e] = NoTrigger]
       ELSE UNCHANGED <<userdata, epollVars>>
    /\ UNCHANGED <<loop, running, quit, asked>>

(* trigger_clean *)
CleanTrigger(t) ==
    /\ cbHead' = [cbHead EXCEPT ![t] = << >>]
    /\ connects' = [connects EXCEPT ![t] = 0]
    /\ UNCHANGED forced
    /\ allocated' = FreeUnreferenced(t)

(* eh_event_cb_clean_from_task.  It does not reach the slots that the loop has moved *)
(* to its own list.                                                                  *)
CbClean(e) ==
    LET t == userdata[e] IN
    /\ TasksMayRun
    /\ e \in epollTree /\ e \in Signals
    /\ CleanTrigger(t)
    /\ EpollDel(e)
    /\ userdata' = [userdata EXCEPT ![e] = NoTrigger]
    /\ UNCHANGED <<loop, used, running, quit, asked>>

(* eh_event_loop, up to its first wait *)
LoopEnter ==
    /\ loop = "out" /\ HasEpoll
    /\ quit = "no"
    /\ loop' = "wait"
    /\ EpollWait
    /\ UNCHANGED <<triggerVars, used, running, quit, asked>>

LoopWait ==
    /\ loop = "wait"
    /\ EpollSleep \/ EpollWoken
    /\ UNCHANGED cbVars

(* The wait returns a batch.  The entries keep the trigger as well. *)
LoopFound ==
    /\ loop = "wait" /\ wait = "look" /\ pending # << >>
    /\ pending' = SubSeq(pending, Len(Batch) + 1, Len(pending))
    /\ mask' = [e \in Events |-> IF e \in Range(Batch) THEN {} ELSE mask[e]]
    /\ last' = [i \in DOMAIN Batch |->
                  [event |-> Batch[i], affair |-> Affair(Batch[i]), trigger |-> userdata[Batch[i]]]]
    /\ wait' = "out" /\ wakeupTask' = FALSE
    /\ loop' = "batch"
    /\ UNCHANGED <<epollTree, linked, asleep, epollTimer, triggerVars, used, running, quit, asked>>

(* The first loop over the batch: the triggers of cleaned events go away with their *)
(* slots, the others are kept allocated.                                            *)
Gone == {i \in DOMAIN last : last[i].affair = "error"}
Live == {i \in DOMAIN last \ Gone : last[i].trigger # NoTrigger}
TriggersOf(I) == {last[i].trigger : i \in I} \ {NoTrigger}

LoopBatch ==
    /\ loop = "batch"
    /\ loop' = "slots"
    /\ cbHead' = [t \in Triggers |-> IF t \in TriggersOf(Gone) THEN << >> ELSE cbHead[t]]
    /\ connects' = [t \in Triggers |-> IF t \in TriggersOf(Gone) THEN 0 ELSE connects[t]]
    /\ allocated' = allocated \ TriggersOf(Gone)
    /\ forced' = [t \in Triggers |-> forced[t] \/ t \in TriggersOf(Live)]
    /\ epollTree' = epollTree \ {last[i].event : i \in Gone}
    /\ linked' = linked \ {last[i].event : i \in Gone}
    /\ pending' = Only(pending, Events \ {last[i].event : i \in Gone})
    /\ mask' = [e \in Events |-> IF \E i \in Gone : last[i].event = e THEN {} ELSE mask[e]]
    /\ userdata' = [e \in Events |-> IF \E i \in Gone : last[i].event = e THEN NoTrigger ELSE userdata[e]]
    /\ last' = Only(last, {last[i] : i \in Live})
    /\ UNCHANGED <<wakeupTask, asleep, wait, epollTimer, used, running, quit, asked>>

(* The second loop: the slots of the first trigger are called one by one, each moved *)
(* to a list of the loop's own before it runs.                                       *)
SlotCall ==
    /\ loop = "slots" /\ running = NoSlot /\ last # << >>
    /\ LET t == Head(last).trigger IN
       /\ cbHead[t] # << >>
       /\ running' = Head(cbHead[t])
       /\ used' = Append(used, Head(cbHead[t]))
       /\ cbHead' = [cbHead EXCEPT ![t] = Tail(@)]
    /\ UNCHANGED <<epollVars, userdata, allocated, connects, forced, loop, quit, asked>>

SlotReturn ==
    /\ running # NoSlot
    /\ running' = NoSlot
    /\ UNCHANGED <<epollVars, triggerVars, loop, used, quit, asked>>

(* The list goes back to the trigger and the reference is released. *)
SlotsDone ==
    /\ loop = "slots" /\ running = NoSlot /\ last # << >>
    /\ LET t == Head(last).trigger IN
       /\ cbHead[t] = << >>
       /\ cbHead' = [cbHead EXCEPT ![t] = used]
       /\ forced' = [forced EXCEPT ![t] = FALSE]
       /\ UNCHANGED connects
       /\ allocated' = FreeUnreferenced(t)
    /\ used' = << >>
    /\ last' = Tail(last)
    /\ UNCHANGED <<epollTree, linked, pending, mask, wakeupTask, asleep, wait, epollTimer,
                   userdata, loop, running, quit, asked>>

(* The flag is looked at after each batch; the loop may yield before it waits again. *)
LoopQuit ==
    /\ loop = "slots" /\ last = << >>
    /\ quit # "no"
    /\ loop' = "out"
    /\ UNCHANGED <<epollVars, triggerVars, used, running, quit, asked>>

LoopAgainUncheckedMutant ==
    /\ loop = "slots" /\ last = << >>
    /\ loop' = "wait"
    /\ EpollWait
    /\ UNCHANGED <<triggerVars, used, running, quit, asked>>

LoopAgain ==
    /\ loop = "slots" /\ last = << >>
    /\ quit = "no"
    /\ loop' = "wait"
    /\ EpollWait
    /\ UNCHANGED <<triggerVars, used, running, quit, asked>>

(* task_system_data_destruct_function: the task has ended; another one takes its place. *)
TaskDestruct ==
    /\ loop = "out" /\ quit # "no" /\ ~asked
    /\ EpollDelete
    /\ userdata' = [e \in Events |-> NoTrigger]
    /\ allocated' = allocated \ {userdata[e] : e \in epollTree}
    /\ cbHead' = [t \in Triggers |-> IF \E e \in epollTree : userdata[e] = t THEN << >> ELSE cbHead[t]]
    /\ connects' = [t \in Triggers |-> IF \E e \in epollTree : userdata[e] = t THEN 0 ELSE connects[t]]
    /\ quit' = "no"
    /\ UNCHANGED <<forced, loop, used, running, asked>>

CbNotify(e) == EventNotify(e) /\ UNCHANGED cbVars
EventIsCleaned(e) == e \in Signals /\ EventClean(e) /\ UNCHANGED cbVars

(* eh_event_loop_request_quit, called by a task or by a slot function *)
RequestQuit ==
    /\ TasksMayRun /\ quit = "no"
    /\ EventNotify(Self)
    /\ quit' = "task"
    /\ UNCHANGED <<triggerVars, loop, used, running, asked>>

(* The same by another thread, in two steps. *)
ThreadQuitNotify ==
    /\ ~asked /\ quit = "no"
    /\ EventNotify(Self)
    /\ asked' = TRUE
    /\ UNCHANGED <<triggerVars, loop, used, running, quit>>

ThreadQuitFlag ==
    /\ asked
    /\ asked' = FALSE
    /\ quit' = IF quit = "no" THEN "thread" ELSE quit
    /\ UNCHANGED <<epollVars, triggerVars, loop, used, running>>

Loop ==
    LoopWait \/ LoopFound \/ LoopBatch \/ SlotCall \/ SlotReturn \/ SlotsDone \/ LoopQuit \/ LoopAgain

Next ==
    \/ LoopEnter \/ LoopWait \/ LoopFound \/ LoopBatch \/ SlotCall \/ SlotReturn \/ SlotsDone
    \/ LoopQuit \/ LoopAgain \/ TaskDestruct \/ CbNewEpoll
    \/ RequestQuit \/ ThreadQuitNotify \/ ThreadQuitFlag
    \/ \E e \in Events :
         CbNotify(e) \/ EventIsCleaned(e) \/ CbClean(e)
         \/ \E s \in Slots : CbConnect(e, s) \/ CbDisconnect(e, s)

(* The task of the loop is scheduled when it is ready, and slot functions return. *)
Spec == Init /\ [][Next]_loopVars /\ WF_loopVars(Loop)

(* A slot function, or a task that runs while one waits, cleans the event whose slots *)
(* are being called, with slots on the list of the loop.  They stay there when their  *)
(* connections are gone, and go into the trigger before the loop frees it: everything *)
(* about triggers that is said below is about programs that do not do this            *)
(* (CarefulSpec); what happens if they do is the property FreedTriggersAreEmpty.      *)
Unreached(e) == used # << >> /\ userdata[e] = Head(last).trigger
CleansReach == \A e \in Signals : Unreached(e) => ~CbClean(e)

CarefulSpec == Init /\ [][Next /\ CleansReach]_loopVars /\ WF_loopVars(Loop)

-----------------------------------------------------------------------------
(* The triggers the loop holds by forced_ref, and the slots that belong to a trigger. *)
Busy == IF loop = "slots" THEN TriggersOf(DOMAIN last) ELSE {}
Owned(t) == Range(cbHead[t]) \cup IF Busy # {} /\ Head(last).trigger = t THEN Range(used) ELSE {}

(* No slot hangs in a list of memory that has been freed: trigger_disconnect warns of *)
(* it (eh_event_cb.c:58), and eh_event_cb_clean_from_task is to clean all the slots   *)
(* of the task on an event (eh_event_cb.h:56), which it does not under Spec.          *)
FreedTriggersAreEmpty == \A t \in Triggers \ allocated : cbHead[t] = << >>

(* Besides, a slot is in one list; the count of connections of a                     *)
(* trigger is the number of its slots, those on the list of the loop included; a     *)
(* trigger is allocated as long as a receptor or the loop refers to it, not longer.  *)
SlotsInv ==
    /\ FreedTriggersAreEmpty
    /\ used # << >> => Busy # {}
    /\ \A t \in Triggers : IsInjective(cbHead[t]) /\ connects[t] = Cardinality(Owned(t))
    /\ \A t, u \in Triggers : t # u => Owned(t) \cap Owned(u) = {}
    /\ allocated = {userdata[e] : e \in epollTree \cap Signals} \cup Busy
    /\ \A t \in Triggers : forced[t] <=> t \in Busy
    /\ \A e \in epollTree \cap Signals : userdata[e] # NoTrigger

(* A slot function connects a slot to the event that is being handled: a function *)
(* that disconnects and connects its slot again is called again in the same round. *)
ConnectsWhileCalled == running # NoSlot /\ \E t \in Triggers : Len(cbHead'[t]) > Len(cbHead[t])
RoundsEnd == <>[][~ConnectsWhileCalled]_loopVars

(* eh_event_loop_request_quit ends the loop when a task or a slot function calls it;   *)
(* when the loop has overtaken the notification of another thread, the next one of the *)
(* event of the task does, once the flag is set.  It does so whatever else is          *)
(* connected, cleaned and notified meanwhile, as long as slot functions do not go on   *)
(* connecting slots for ever.                                                          *)
QuitDue == quit = "task" \/ (quit = "thread" /\ Self \in Range(pending))
QuitIsHeeded == RoundsEnd => ((QuitDue /\ loop # "out") ~> loop = "out")

(* An event with something to report is reported to eh_event_loop, if that is not left, *)
(* under the same condition, however notifications, connections and cleanings           *)
(* interleave.                                                                          *)
NotificationsReachLoop ==
    RoundsEnd =>
        \A e \in Signals : (e \in Range(pending) /\ loop # "out") ~> (e \notin Range(pending) \/ loop = "out")
=============================================================================
