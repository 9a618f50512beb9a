------------------------- MODULE MCWelcomeDispatch -------------------------
(* The instance of WelcomeDispatch: its constants are given in the cfgs.   *)
EXTENDS WelcomeDispatch
=============================================================================
