------------------------------ MODULE Semaphore ------------------------------
(***************************************************************************)
(* What a semaphore promises: a number of tokens between 0 and Limit.  A   *)
(* post adds one, unless there are Limit; a wait that succeeds takes one,  *)
(* and there must be one.  count[s] is Dead while s does not exist.        *)
(***************************************************************************)
EXTENDS Naturals

CONSTANTS
  Sem,      \* the semaphores
  Limit,    \* the largest number of tokens
  Dead      \* not a number

VARIABLE count

Init == count = [s \in Sem |-> Dead]

Create(s, n) ==
  /\ count[s] = Dead
  /\ count' = [count EXCEPT ![s] = n]

Post(s) ==
  /\ count[s] # Dead
  /\ count[s] < Limit
  /\ count' = [count EXCEPT ![s] = @ + 1]

Take(s) ==
  /\ count[s] # Dead
  /\ count[s] > 0
  /\ count' = [count EXCEPT ![s] = @ - 1]

Destroy(s) ==
  /\ count[s] # Dead
  /\ count' = [count EXCEPT ![s] = Dead]

Next ==
  \E s \in Sem :
    \/ \E n \in 0 .. Limit : Create(s, n)
    \/ Post(s)
    \/ Take(s)
    \/ Destroy(s)

Spec == Init /\ [][Next]_count
=============================================================================
