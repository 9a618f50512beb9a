-------------------------- MODULE MCProviderImport --------------------------
(* An instance of ProviderImport for TLC: two workers, of which only one has *)
(* the adapter that the second configuration version names.                  *)
EXTENDS ProviderImport

CONSTANTS w1, w2

MCWorker == {w1, w2}
MCCapable == <<{w1, w2}, {w1}>>
=============================================================================
