--------------------------- MODULE MCRpaDelivery ---------------------------
(* One intent, one deliverer, two handlers that may run the same job.      *)
EXTENDS RpaDelivery, TLC

CONSTANTS h1, h2

SwapHandlers == Permutations({h1, h2})
=============================================================================
