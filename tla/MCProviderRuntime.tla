------------------------- MODULE MCProviderRuntime -------------------------
(* Instances of ProviderRuntime for TLC. *)
EXTENDS ProviderRuntime, TLC

Symmetry == Permutations(Worker) \cup Permutations(Cursor)
              \cup Permutations(RunCommand) \cup Permutations(ControlCommand)
=============================================================================
