------------------------------- MODULE Alarms -------------------------------
(***************************************************************************)
(* What the timers of eh_timer.h promise: an alarm that is set rings when  *)
(* its time is over and not before, alarms ring in the order of their      *)
(* deadlines, and a periodic alarm keeps its phase as long as it has not   *)
(* missed a whole period.  Nothing is said of clocks that wrap, of trees   *)
(* or of when the deadlines are looked at.                                 *)
(***************************************************************************)
EXTENDS Integers, Functions

CONSTANTS Alarm,      \* the alarms
          Kinds,      \* how each of them goes on when it has rung: not at all ("once"), a
                      \*   period later ("circular"), or a period from now ("nowbase")
          Durations,  \* the durations an alarm is set to
          MaxLag      \* how old the present is allowed to be while alarms ring

VARIABLES left,   \* the alarms that are set, each with the time it has left
          kind    \* the kind of each alarm

Set(t) ==
    /\ \E d \in Durations : left' = [a \in DOMAIN left \cup {t} |-> IF a = t THEN d ELSE left[a]]
    /\ UNCHANGED kind

Cancel(t) ==
    /\ t \in DOMAIN left
    /\ left' = Restrict(left, DOMAIN left \ {t})
    /\ UNCHANGED kind

Configure(t) ==
    /\ \E k \in Kinds[t] : kind' = [kind EXCEPT ![t] = k]
    /\ UNCHANGED left

Pass == left' = [t \in DOMAIN left |-> left[t] - 1] /\ UNCHANGED kind

First(t) == \A u \in DOMAIN left : left[t] <= left[u]

(* The deadline that follows one that was left ago: by a period d in phase, or *)
(* a period from the present, seen lag ago.                                    *)
Following(t, d, lag) ==
    IF kind[t] # "nowbase" /\ left[t] + d + lag > 0 THEN left[t] + d ELSE d - lag

Ring(t) ==
    /\ t \in DOMAIN left
    /\ left[t] <= 0
    /\ First(t)
    /\ IF kind[t] # "once"
       THEN \E d \in Durations, lag \in 0 .. MaxLag : left' = [left EXCEPT ![t] = Following(t, d, lag)]
       ELSE left' = Restrict(left, DOMAIN left \ {t})
    /\ UNCHANGED kind

AlarmInit == left = << >> /\ \A t \in Alarm : kind[t] \in Kinds[t]

AlarmNext == Pass \/ \E t \in Alarm : Set(t) \/ Cancel(t) \/ Configure(t) \/ Ring(t)

AlarmSpec == AlarmInit /\ [][AlarmNext]_<<left, kind>>
=============================================================================
