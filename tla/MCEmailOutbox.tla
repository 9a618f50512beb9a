--------------------------- MODULE MCEmailOutbox ---------------------------
(* Instances of EmailOutbox: every key has the same source or its own, and *)
(* the same recipient or its own.                                          *)
EXTENDS EmailOutbox

OneForAll == [k \in Key |-> CHOOSE j \in Key : TRUE]
OneEach == [k \in Key |-> k]
=============================================================================
