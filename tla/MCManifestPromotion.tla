------------------------- MODULE MCManifestPromotion -------------------------
(* The instance of ManifestPromotion: its constants are given in the cfg.   *)
EXTENDS ManifestPromotion

CONSTANTS w1, w2, pA, pB
==============================================================================
