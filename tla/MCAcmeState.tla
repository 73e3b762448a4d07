---------------------------- MODULE MCAcmeState ----------------------------
(* The lifecycle engine on two account keys, the code's saturation bound  *)
(* of 16 for backoff_cnt and at most one restart.                          *)
EXTENDS AcmeState

CONSTANTS k1, k2

MCAccountKeys == {k1, k2}
=============================================================================
