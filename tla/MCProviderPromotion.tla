------------------------- MODULE MCProviderPromotion -------------------------
(* The instance of ProviderPromotion: its constants are given in the cfg.   *)
EXTENDS ProviderPromotion

CONSTANTS w1, w2
==============================================================================
