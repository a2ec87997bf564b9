------------------------------- MODULE MCIdle -------------------------------
(* Two timers, one of them periodic and one that changes its kind, a clock of 8 values, *)
(* and the hubs of Linux and Windows: that of macOS takes the steps of Linux.           *)
EXTENDS EhIdle

CONSTANTS t1, t2

MCKinds == [t \in {t1, t2} |-> IF t = t1 THEN {"circular"} ELSE {"once", "nowbase"}]
MCIntervals == {0, 2}
=============================================================================
