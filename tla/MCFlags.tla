------------------------------- MODULE MCFlags -------------------------------
(***************************************************************************)
(* Instances of event flags for TLC: one group of two bits, the main task  *)
(* and another one; a task waits for either bit and clears one, for the    *)
(* other bit and clears nothing, or for a bit to be clear and sets one.    *)
(***************************************************************************)
EXTENDS EhFlags

CONSTANTS m, a, group, x, y

MCTask == {m, a}
MCRequests == {
  [kind |-> "set", wait |-> {x, y}, change |-> {x}],
  [kind |-> "set", wait |-> {y}, change |-> {}],
  [kind |-> "clean", wait |-> {x}, change |-> {y}]}
MCMasks == {{x}, {x, y}}
=============================================================================
