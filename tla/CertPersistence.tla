--------------------------- MODULE CertPersistence ---------------------------
(***************************************************************************)
(* What the lifecycle engine promises about the certificate it serves and *)
(* the certificate it persists (spec 2(a), 2(d), 4.4 and 5(a)): a cached  *)
(* certificate is deployed only from a parseable cache entry and before   *)
(* anything else is served; a new certificate is deployed only when the  *)
(* cache store of the previous one has returned; the cert cache is        *)
(* written only by the store owed for the last new certificate, or left   *)
(* as it was, or torn, when the engine is cancelled in the middle of it.  *)
(***************************************************************************)
CONSTANT AtomicStore   \* TRUE iff the cache writes atomically

VARIABLES
  served,  \* "none", "cached" or "new": the live key of the resolver
  stored,  \* "none", "good" or "bad": the persisted cert slot
  owed     \* the store of the last new certificate has not returned

vars == <<served, stored, owed>>

Slots == {"none", "good", "bad"}

(* A store that fails or is cut short leaves the old entry or, when the   *)
(* cache does not write atomically, an unparseable one.                    *)
Unwritten(old) == IF AtomicStore THEN {old} ELSE {old, "bad"}

Init ==
  /\ served = "none"
  /\ stored \in Slots
  /\ owed = FALSE

DeployCached ==
  /\ served = "none"
  /\ stored = "good"
  /\ ~owed
  /\ served' = "cached"
  /\ UNCHANGED <<stored, owed>>

DeployNew ==
  /\ ~owed
  /\ served' = "new"
  /\ owed' = TRUE
  /\ UNCHANGED stored

StoreReturns ==
  /\ owed
  /\ owed' = FALSE
  /\ stored' \in {"good"} \cup Unwritten(stored)
  /\ UNCHANGED served

(* The engine is dropped and started again on the same cache.             *)
Cancel ==
  /\ served' = "none"
  /\ owed' = FALSE
  /\ stored' \in IF owed THEN {"good"} \cup Unwritten(stored) ELSE {stored}

Next == DeployCached \/ DeployNew \/ StoreReturns \/ Cancel

Spec == Init /\ [][Next]_vars

=============================================================================
