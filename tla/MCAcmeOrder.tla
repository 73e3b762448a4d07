---------------------------- MODULE MCAcmeOrder ----------------------------
(* Two domains, so that two authorize futures interleave and one can be   *)
(* dropped by the other's error.                                           *)
EXTENDS AcmeOrder

CONSTANTS d1, d2

MCDomains == {d1, d2}

=============================================================================
