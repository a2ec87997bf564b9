------------------------------- MODULE MCSched -------------------------------
(* The smallest instance of the scheduler in which fresh tasks can follow one another *)
(* forever: the main task and two joinable ones.                                       *)
EXTENDS EhSched

CONSTANTS m, a, s

MCTaskChain == {m, a, s}
=============================================================================
