----------------------------- MODULE MCEventCb -----------------------------
(* Two signals and the event of the task, two slots, one of them for either signal, *)
(* batches of two entries.                                                          *)
EXTENDS EhEventCb

CONSTANTS e1, e2, s1, s2

MCConnections == {<<e1, s1>>, <<e2, s1>>, <<e1, s2>>}
=============================================================================
