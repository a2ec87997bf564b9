----------------------------- MODULE MCCallbacks -----------------------------
(***************************************************************************)
(* Events and the callbacks on them, in two instances that share nothing:  *)
(* part says which of them the behaviour is about, and the other one stays *)
(* in its first state.                                                     *)
(*                                                                         *)
(* "events": the main task, a joinable task and a detached one, who wait   *)
(* for one event of the application and join one another.                  *)
(* "slots": two signals and the event of the task, two slots, one of them  *)
(* for either signal, batches of two entries.                              *)
(***************************************************************************)
EXTENDS EhEvent, EhEventCb

CONSTANTS e1, e2, s1, s2

MCConnections == {<<e1, s1>>, <<e2, s1>>, <<e1, s2>>}

VARIABLE part

MCInit == part \in {"events", "slots"} /\ Init /\ EventInit

MCNext ==
  /\ UNCHANGED part
  /\ \/ part = "slots" /\ Next /\ CleansReach /\ UNCHANGED vars
     \/ part = "events" /\ EventNext /\ UNCHANGED loopVars

\* The fairness of CarefulSpec.
MCSpec == MCInit /\ [][MCNext]_<<vars, loopVars, part>> /\ WF_loopVars(part = "slots" /\ Loop)
=============================================================================
