------------------------------- MODULE MCMutex -------------------------------
(***************************************************************************)
(* An instance of mutexes for TLC: one recursive mutex, lockable twice,    *)
(* and the main task with two others.                                      *)
(***************************************************************************)
EXTENDS EhMutex

CONSTANTS m, a, d, mutex

MCTask == {m, a, d}
=============================================================================
