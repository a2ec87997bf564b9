-------------------------------- MODULE Mutex --------------------------------
(***************************************************************************)
(* What a mutex promises: at most one task holds it; a recursive one may   *)
(* be locked again by its holder, MaxDepth times in all.  Locking and      *)
(* unlocking are what the running task does, and only the holder unlocks.  *)
(***************************************************************************)
EXTENDS Naturals

CONSTANTS
  Task,       \* the tasks
  Mx,         \* the mutexes
  Recursive,  \* those of type EH_MUTEX_TYPE_RECURSIVE
  MaxDepth,   \* how often a mutex can be locked
  NoTask      \* not a task

VARIABLES
  running,    \* the running task
  holder,     \* the task that holds the mutex, or NoTask
  depth       \* how often it has locked it

vars == <<running, holder, depth>>

Init ==
  /\ running \in Task
  /\ holder = [x \in Mx |-> NoTask]
  /\ depth = [x \in Mx |-> 0]

Dispatch ==
  /\ running' \in Task
  /\ UNCHANGED <<holder, depth>>

Acquire(x) ==
  /\ holder[x] = NoTask \/ (holder[x] = running /\ x \in Recursive)
  /\ depth[x] < MaxDepth
  /\ holder' = [holder EXCEPT ![x] = running]
  /\ depth' = [depth EXCEPT ![x] = @ + 1]
  /\ UNCHANGED running

Release(x) ==
  /\ holder[x] = running
  /\ depth' = [depth EXCEPT ![x] = @ - 1]
  /\ holder' = [holder EXCEPT ![x] = IF depth[x] = 1 THEN NoTask ELSE @]
  /\ UNCHANGED running

\* Destroying a mutex frees it, whoever holds it.
Reset(x) ==
  /\ holder' = [holder EXCEPT ![x] = NoTask]
  /\ depth' = [depth EXCEPT ![x] = 0]
  /\ UNCHANGED running

Next ==
  \/ Dispatch
  \/ \E x \in Mx : Acquire(x) \/ Release(x) \/ Reset(x)

Spec == Init /\ [][Next]_vars
=============================================================================
