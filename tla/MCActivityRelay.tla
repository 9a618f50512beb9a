-------------------------- MODULE MCActivityRelay --------------------------
(* The instance of ActivityRelay: its constants are given in the cfg. *)
EXTENDS ActivityRelay
=============================================================================
