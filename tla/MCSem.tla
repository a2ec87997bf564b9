-------------------------------- MODULE MCSem --------------------------------
(***************************************************************************)
(* Instances of semaphores for TLC: one semaphore, the main task and two   *)
(* others, counters of three values.  MCSemDestroy.cfg: the semaphore may  *)
(* be destroyed at any moment.                                             *)
(***************************************************************************)
EXTENDS EhSem

CONSTANTS m, a, d, sem

MCTask == {m, a, d}
=============================================================================
