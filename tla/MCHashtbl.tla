----------------------------- MODULE MCHashtbl -----------------------------
(* A hash table by itself, with refreshes of keys at any time: two nodes and keys *)
(* that fall apart after the first growth.                                        *)
EXTENDS EhHashtbl

MCHashKeys == {[hash |-> h, name |-> "a"] : h \in {0, 1, 2}}
=============================================================================
