------------------------------ MODULE EhTimer ------------------------------
(***************************************************************************)
(* Timers (eh_timer.c).  The running timers hang in one tree, ordered by   *)
(* the time each of them has left at the moment a timer is linked.  Every  *)
(* operation reads the clock and works on the tree inside one critical     *)
(* section; eh_timer_check holds it for as long as its loop takes, with    *)
(* the clock it has read at the start, and is modelled step by step so     *)
(* that time passes in between and its end can be asked for.               *)
(*                                                                         *)
(* The clock wraps at ClockMod (2^64 in the code), differences are signed. *)
(* The red-black tree is an ordered sequence here.  The configuration of a *)
(* timer that is not in the tree does not include its last deadline, and   *)
(* timer_now is forgotten with the loop that uses it: no operation reads   *)
(* either before it sets it.                                               *)
(***************************************************************************)
EXTENDS Integers, FiniteSets, SequencesExt

CONSTANTS
    Timers,      \* the timers
    Kinds,       \* the attributes each of them is given, see below
    Intervals,   \* values eh_timer_config_interval is called with
    ClockMod,    \* number of values of eh_clock_t
    MaxIdle,     \* FIRST_TIMER_MAX_TIME
    MaxLate,     \* bound: eh_timer_check comes round this soon after a deadline
    MaxLag       \* bound: one call of eh_timer_check takes this long

ASSUME TimerConstants ==
    /\ Kinds \in [Timers -> SUBSET {"once", "circular", "nowbase"}]
    /\ ClockMod \in Nat \ {0} /\ ClockMod % 2 = 0
    /\ MaxIdle \in Nat \ {0} /\ MaxLate \in Nat /\ MaxLag \in Nat
    /\ Intervals \subseteq 0 .. (ClockMod \div 2 - 1)
    /\ MaxLate + MaxLag < ClockMod \div 2

VARIABLES
    clock,      \* eh_get_clock_monotonic_time()
    tree,       \* timer_tree_root: the running timers in the tree's order
    expire,     \* expire of the running timers, 0 for the others
    interval,   \* interval of each timer
    kind,       \* attrribute: EH_TIMER_ATTR_AUTO_CIRCULATION with or without
                \*   EH_TIMER_ATTR_NOW_TIME_BASE, which alone means nothing
    checking,   \* eh_timer_check is in its loop and holds the lock
    timerNow,   \* timer_now as eh_timer_check has read it
    left        \* history: the time to the deadline of each running timer

timerVars == <<clock, tree, expire, interval, kind, checking, timerNow, left>>

(* eh_diff_time: the difference of two clocks as a signed number. *)
Diff(a, b) ==
    LET d == (a - b) % ClockMod IN IF d < ClockMod \div 2 THEN d ELSE d - ClockMod

Running(t) == t \in Range(tree)
LockFree == ~checking

TimerInit ==
    /\ clock \in {0, ClockMod - 2}
    /\ tree = << >>
    /\ expire = [t \in Timers |-> 0]
    /\ interval \in [Timers -> Intervals]
    /\ kind \in [Timers -> UNION Range(Kinds)] /\ \A t \in Timers : kind[t] \in Kinds[t]
    /\ checking = FALSE
    /\ timerNow = 0
    /\ left = << >>

(* eh_rb_add with _eh_timer_rbtree_cmp: behind all that have no more time left at now, *)
(* with the deadlines exp.                                                             *)
InsertMutant(s, t, exp, now) ==
    InsertAt(s, 1 + Cardinality({i \in DOMAIN s : exp[s[i]] <= exp[t]}), t)

Insert(s, t, exp, now) ==
    InsertAt(s, 1 + Cardinality({i \in DOMAIN s : Diff(exp[s[i]], now) <= Diff(exp[t], now)}), t)

(* eh_rb_del of a timer, which does nothing to one that is not in the tree. *)
TreeDel(s, t) ==
    IF t \in Range(s) THEN RemoveAt(s, CHOOSE i \in DOMAIN s : s[i] = t) ELSE s

(* _eh_timer_start_no_lock with the tree s, from base, when the clock was read as now. *)
StartNoLock(s, base, t, now) ==
    LET exp == [expire EXCEPT ![t] = (base + interval[t]) % ClockMod] IN
    /\ expire' = exp
    /\ tree' = Insert(s, t, exp, now)

(* The result FIRST_TIMER_UPDATE, on which the callers break the idle state. *)
FirstUpdate(t) == Head(tree') = t

RunsFor(t, d) == [u \in DOMAIN left \cup {t} |-> IF u = t THEN d ELSE left[u]]

TimerStart(t) ==
    /\ LockFree
    /\ ~Running(t)   \* otherwise EH_RET_BUSY, and nothing changes
    /\ StartNoLock(tree, clock, t, clock)
    /\ left' = RunsFor(t, interval[t])
    /\ UNCHANGED <<clock, interval, kind, checking, timerNow>>

(* eh_timer_stop, eh_timer_clean *)
TimerStop(t) ==
    /\ LockFree
    /\ Running(t)
    /\ tree' = TreeDel(tree, t)
    /\ expire' = [expire EXCEPT ![t] = 0]
    /\ left' = Restrict(left, DOMAIN left \ {t})
    /\ UNCHANGED <<clock, interval, kind, checking, timerNow>>

(* A restart that leaves the timer where it was in the tree. *)
TimerRestartInPlaceMutant(t) ==
    /\ LockFree
    /\ expire' = [expire EXCEPT ![t] = (clock + interval[t]) % ClockMod]
    /\ tree' = IF Running(t) THEN tree ELSE Insert(tree, t, expire', clock)
    /\ left' = RunsFor(t, interval[t])
    /\ UNCHANGED <<clock, interval, kind, checking, timerNow>>

TimerRestart(t) ==
    /\ LockFree
    /\ StartNoLock(TreeDel(tree, t), clock, t, clock)
    /\ left' = RunsFor(t, interval[t])
    /\ UNCHANGED <<clock, interval, kind, checking, timerNow>>

(* eh_timer_config_interval: a plain store, whoever holds the lock. *)
TimerConfig(t) ==
    /\ \E d \in Intervals \ {interval[t]} : interval' = [interval EXCEPT ![t] = d]
    /\ UNCHANGED <<clock, tree, expire, kind, checking, timerNow, left>>

(* eh_timer_set_attr, likewise *)
TimerSetAttr(t) ==
    /\ \E k \in Kinds[t] \ {kind[t]} : kind' = [kind EXCEPT ![t] = k]
    /\ UNCHANGED <<clock, tree, expire, interval, checking, timerNow, left>>

CheckBegin ==
    /\ LockFree
    /\ checking' = TRUE
    /\ timerNow' = clock
    /\ UNCHANGED <<clock, tree, expire, interval, kind, left>>

Expired(t) == Diff(expire[t], timerNow) <= 0

FirstExpired == tree # << >> /\ Expired(Head(tree))

(* The base from which a periodic timer goes on: its deadline, or the present when *)
(* it is asked for or a whole period has been missed.                              *)
Base(t) ==
    IF kind[t] # "nowbase" /\ Diff(expire[t] + interval[t], timerNow) > 0
    THEN expire[t] ELSE timerNow

(* One round of the loop: the first timer has expired.  Its event is notified by *)
(* the composition.                                                              *)
CheckFire(t) ==
    /\ checking
    /\ FirstExpired /\ t = Head(tree)
    /\ IF kind[t] # "once"
       THEN /\ StartNoLock(Tail(tree), Base(t), t, timerNow)
            /\ left' = [left EXCEPT ![t] =
                          IF Base(t) = expire[t]
                          THEN @ + interval[t] ELSE interval[t] - Diff(clock, timerNow)]
       ELSE /\ tree' = Tail(tree)
            /\ expire' = [expire EXCEPT ![t] = 0]
            /\ left' = Restrict(left, DOMAIN left \ {t})
    /\ UNCHANGED <<clock, interval, kind, checking, timerNow>>

CheckEnd ==
    /\ checking
    /\ ~FirstExpired
    /\ checking' = FALSE
    /\ timerNow' = 0
    /\ UNCHANGED <<clock, tree, expire, interval, kind, left>>

(* eh_timer_get_first_remaining_time_on_lock *)
FirstRemaining ==
    IF tree = << >> THEN MaxIdle
    ELSE LET r == Diff(expire[Head(tree)], clock)
         IN  IF r < 0 THEN 0 ELSE IF r > MaxIdle THEN MaxIdle ELSE r

(* Time passes.  The bounds say that the loop of the system comes round: no deadline *)
(* is older than MaxLate, and a check takes no longer than MaxLag.                   *)
Tick ==
    /\ \A t \in DOMAIN left : left[t] > -MaxLate
    /\ checking => Diff(clock, timerNow) < MaxLag
    /\ clock' = (clock + 1) % ClockMod
    /\ left' = [t \in DOMAIN left |-> left[t] - 1]
    /\ UNCHANGED <<tree, expire, interval, kind, checking, timerNow>>

-----------------------------------------------------------------------------
(* eh_timer_start, _restart, _stop and eh_timer_check: each timer rings when its time  *)
(* is over and not before, in the order of the deadlines, and a periodic one goes on   *)
(* from its deadline: the tree, which _eh_timer_rbtree_cmp orders by a clock that moves *)
(* and wraps, behaves as alarms do.                                                    *)
AlarmsOf ==
    INSTANCE Alarms WITH Alarm <- Timers, Durations <- Intervals
ImplementsAlarms == AlarmsOf!AlarmSpec
=============================================================================
