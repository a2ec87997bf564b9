------------------------------- MODULE Epoll -------------------------------
(***************************************************************************)
(* What an epoll promises to the task that waits on it: a queue of the     *)
(* watched events to which something has happened since they were last     *)
(* reported, each of them once, the one to which something happened first  *)
(* in front.  A wait takes from the front of the queue, and it reports a   *)
(* timeout only when there is nothing to report.                           *)
(***************************************************************************)
EXTENDS Naturals, SequencesExt

CONSTANTS Event,   \* the events
          Slots    \* how many entries a wait can take

VARIABLES queue,   \* what is to be reported, as [event, affair] records
          last     \* the entries the last wait has returned, none after a timeout

Affairs == {"trigger", "error"}

Queued(e) == \E i \in DOMAIN queue : queue[i].event = e

(* An error outweighs a trigger that has not been reported yet, not the other way round. *)
Happen(e, a) ==
    /\ queue' = IF Queued(e)
                THEN [i \in DOMAIN queue |->
                        IF queue[i].event = e /\ a = "error" THEN [queue[i] EXCEPT !.affair = a]
                        ELSE queue[i]]
                ELSE Append(queue, [event |-> e, affair |-> a])
    /\ UNCHANGED last

Forget(e) ==
    /\ \E i \in DOMAIN queue : queue[i].event = e /\ queue' = RemoveAt(queue, i)
    /\ UNCHANGED last

ForgetAll == queue' = << >> /\ UNCHANGED last

Report ==
    /\ queue # << >>
    /\ LET n == IF Len(queue) < Slots THEN Len(queue) ELSE Slots IN
       /\ last' = SubSeq(queue, 1, n)
       /\ queue' = SubSeq(queue, n + 1, Len(queue))

TimeOut == queue = << >> /\ last' = << >> /\ UNCHANGED queue

EpollSpec ==
    /\ queue = << >> /\ last = << >>
    /\ [][ Report \/ TimeOut \/ ForgetAll
           \/ \E e \in Event : Forget(e) \/ \E a \in Affairs : Happen(e, a) ]_<<queue, last>>
=============================================================================
