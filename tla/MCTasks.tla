------------------------------- MODULE MCTasks -------------------------------
(***************************************************************************)
(* Two instances for liveness, side by side: part says which of them the   *)
(* behaviour is about.                                                     *)
(*                                                                         *)
(* "sched": the scheduler by itself, with the main task, a joinable task   *)
(* a, a detached one d and a joinable system task s, which wait for        *)
(* something and are woken up.                                             *)
(* "waits": the main task and a, who wait for an event and join: enough    *)
(* for a wait, a join and a chain of wake-ups.  The properties of the      *)
(* scheduler are checked here as well.                                     *)
(***************************************************************************)
EXTENDS EhEvent

CONSTANTS m, a, d, s, evt

MCTask == {m, a, d, s}

VARIABLE part

MCInit == part \in {"sched", "waits"} /\ EventInit

MCNext ==
  /\ UNCHANGED part
  /\ \/ part = "sched" /\ SchedNext /\ UNCHANGED eventVars
     \/ part = "waits" /\ EventNext /\ \A t \in {d, s} : state'[t] = "NONE"

\* The fairness of SchedFairSpec and that of EventFairSpec, each for its part.
MCFairness ==
  /\ WF_schedVars(part = "sched" /\ Dispatch)
  /\ WF_schedVars(part = "sched" /\ (TaskYield \/ TaskBlock \/ TaskFinish))
  /\ WF_schedVars(part = "sched" /\ TaskFinishNext)
  /\ WF_vars(part = "waits" /\ WalkStep)
  /\ SF_vars(part = "waits" /\ Proceed)
  /\ SF_vars(part = "waits" /\ Kernel)
  /\ SF_vars(part = "waits" /\ (Yield \/ Finish))

MCSpec == MCInit /\ [][MCNext]_<<vars, part>> /\ MCFairness
=============================================================================
