------------------------------ MODULE OrderCall ------------------------------
(***************************************************************************)
(* What a call of AcmeState::order promises the lifecycle engine, with     *)
(* the ACME server's side of it: the call runs and returns Ok or Err; the  *)
(* CA validates authorizations one domain at a time and takes none back   *)
(* during a call, though they expire between renewals; it issues a       *)
(* certificate for an order only when every domain is authorized; and a   *)
(* call returns Ok only with the certificate of an issued order.  The     *)
(* engine then starts the next call, on a new order.                       *)
(***************************************************************************)
CONSTANT Domains

VARIABLES
  call,        \* "running", "ok" or "err"
  authorized,  \* domains with a valid authorization on the server
  issued       \* the CA has issued the certificate of the current order

vars == <<call, authorized, issued>>

TypeOK ==
  /\ call \in {"running", "ok", "err"}
  /\ authorized \subseteq Domains
  /\ issued \in BOOLEAN

(* The account may already hold valid authorizations from earlier runs.  *)
Init ==
  /\ call = "running"
  /\ authorized \in SUBSET Domains
  /\ issued = FALSE

Authorize(d) ==
  /\ d \notin authorized
  /\ authorized' = authorized \cup {d}
  /\ UNCHANGED <<call, issued>>

(* An authorization expires (after 30 days at Let's Encrypt); renewals    *)
(* are months apart, so no call is running then.                          *)
Expire(d) ==
  /\ call # "running"
  /\ d \in authorized
  /\ authorized' = authorized \ {d}
  /\ UNCHANGED <<call, issued>>

Issue ==
  /\ authorized = Domains
  /\ ~issued
  /\ issued' = TRUE
  /\ UNCHANGED <<call, authorized>>

Succeed ==
  /\ call = "running"
  /\ issued
  /\ call' = "ok"
  /\ UNCHANGED <<authorized, issued>>

Fail ==
  /\ call = "running"
  /\ call' = "err"
  /\ UNCHANGED <<authorized, issued>>

Retry ==
  /\ call \in {"ok", "err"}
  /\ call' = "running"
  /\ issued' = FALSE
  /\ UNCHANGED authorized

Next ==
  \/ \E d \in Domains : Authorize(d) \/ Expire(d)
  \/ Issue \/ Succeed \/ Fail \/ Retry

Spec == Init /\ [][Next]_vars

=============================================================================
