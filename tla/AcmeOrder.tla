----------------------------- MODULE AcmeOrder -----------------------------
(***************************************************************************)
(* One order attempt of the lifecycle engine after another: the future    *)
(* AcmeState::order of src/src/state.rs with its authorize futures, run    *)
(* against an ACME server (RFC 8555) that validates TLS-ALPN-01 challenges *)
(* by a handshake that the certificate resolver answers.                   *)
(*                                                                         *)
(* order() discovers the directory and the account, places the order and  *)
(* loops on the order status.  On "pending" it joins (try_join_all) one   *)
(* authorize future per domain; the first error of one of them ends the   *)
(* join and drops the others.  authorize publishes the validation key in  *)
(* the resolver, triggers the challenge and polls the authorization a     *)
(* bounded number of times.  Every request may fail (transport error, a   *)
(* non-2xx answer, a missing header or a bad body): the error ends the    *)
(* attempt.  When an attempt has ended, the engine starts a new one.      *)
(*                                                                         *)
(* A challenge token is identified by the generation of its authorization *)
(* on the server; the resolver holds, per domain, the generation its      *)
(* validation key was built for (0: none).                                 *)
(***************************************************************************)
EXTENDS Naturals

CONSTANTS
  Domains,             \* config.domains, one authorization each
  MaxAuthPolls,        \* polls of a pending authorization (5 in the code)
  MaxProcessingPolls,  \* polls of a processing order (10 in the code)
  MaxTokens            \* authorizations the server creates per domain

ASSUME DomainsAssumption == Domains # {}
ASSUME BoundsAssumption == /\ MaxAuthPolls \in Nat \ {0}
                           /\ MaxProcessingPolls \in Nat \ {0}
                           /\ MaxTokens \in Nat \ {0}

VARIABLES
  opc,         \* where order() is: "setup", "newOrder", "loop", "authorizing",
               \* "refetch", "processing", "finalize", "download", "ok", "err"
  ostatus,     \* the status of the client's last copy of the order
  proc_polls,  \* iterations of the processing loop done
  apc,         \* per domain, where its authorize future is ("none" if absent)
  auth_polls,  \* per domain, iterations of authorize's polling loop done
  auth_keys,   \* resolver: per domain, generation of the published key
  srv_auth,    \* server: status of the current authorization of each domain
  srv_token,   \* server: generation of the current authorization
  srv_chal,    \* server: the challenge was triggered and awaits validation
  srv_phase    \* server: status of the current order ("none" if none)

client == <<opc, ostatus, proc_polls, apc, auth_polls>>
server == <<srv_auth, srv_token, srv_chal, srv_phase>>
vars == <<client, auth_keys, server>>

-----------------------------------------------------------------------------
OrderStatuses == {"pending", "ready", "processing", "valid", "invalid"}
AuthStatuses == {"none", "pending", "valid", "invalid"}
Done == {"ok", "err"}
NoAuth == [d \in Domains |-> "none"]

TypeOK ==
  /\ opc \in {"setup", "newOrder", "loop", "authorizing", "refetch",
              "processing", "finalize", "download"} \cup Done
  /\ ostatus \in OrderStatuses \cup {"none"}
  /\ proc_polls \in 0..MaxProcessingPolls
  /\ apc \in [Domains -> {"none", "fetch", "trigger", "poll", "retrigger",
                          "ok"}]
  /\ auth_polls \in [Domains -> 0..MaxAuthPolls]
  /\ auth_keys \in [Domains -> 0..MaxTokens]
  /\ srv_auth \in [Domains -> AuthStatuses]
  /\ srv_token \in [Domains -> 0..MaxTokens]
  /\ srv_chal \in [Domains -> BOOLEAN]
  /\ srv_phase \in OrderStatuses \cup {"none"}

(* The engine starts the first attempt on a fresh resolver; the server    *)
(* may already hold valid authorizations of the account.                  *)
Init ==
  /\ opc = "setup"
  /\ ostatus = "none"
  /\ proc_polls = 0
  /\ apc = NoAuth
  /\ auth_polls = [d \in Domains |-> 0]
  /\ auth_keys = [d \in Domains |-> 0]
  /\ srv_auth \in [Domains -> {"none", "valid"}]
  /\ srv_token = [d \in Domains |-> IF srv_auth[d] = "valid" THEN 1 ELSE 0]
  /\ srv_chal = [d \in Domains |-> FALSE]
  /\ srv_phase = "none"

-----------------------------------------------------------------------------
(* The resolver (spec 4.1).                                                *)

(* resolve for a ClientHello with ALPN exactly acme-tls/1 and SNI d: the  *)
(* validation key published for d, else the live key (generation 0: it   *)
(* carries no acmeIdentifier extension).                                   *)
Resolve(d) == auth_keys[d]

(* set_auth_key(d, key): replace d's validation key.                       *)
SetAuthKey(d, gen) == auth_keys' = [auth_keys EXCEPT ![d] = gen]

(* set_cert: deploy a new live key; the validation keys published before  *)
(* it are no longer served (spec, Resolver behaviour 5).                  *)
SetCert == auth_keys' = [d \in Domains |-> 0]

-----------------------------------------------------------------------------
(* The order future.                                                       *)

(* A request that fails ends the attempt with Err; try_join_all drops the *)
(* authorize futures still running.                                        *)
Fail ==
  /\ opc' = "err"
  /\ apc' = NoAuth
  /\ UNCHANGED <<ostatus, proc_polls, auth_polls, auth_keys, server>>

(* Directory::discover, Account::create_with_keypair, CertificateParams    *)
(* and the leaf KeyPair: no server state the model tracks changes.         *)
Setup ==
  /\ opc = "setup"
  /\ \/ /\ opc' = "newOrder"
        /\ UNCHANGED <<ostatus, proc_polls, apc, auth_polls, auth_keys, server>>
     \/ Fail

(* The server reuses a pending or valid authorization and creates a new   *)
(* one, with a new token, where there is none or it is invalid.            *)
NeedsAuthz(d) == srv_auth[d] \in {"none", "invalid"}

(* Account::new_order: the response's status becomes the client's order. *)
NewOrder ==
  /\ opc = "newOrder"
  /\ \/ /\ \A d \in Domains : NeedsAuthz(d) => srv_token[d] < MaxTokens
        /\ srv_auth' = [d \in Domains |->
                          IF NeedsAuthz(d) THEN "pending" ELSE srv_auth[d]]
        /\ srv_token' = [d \in Domains |->
                           IF NeedsAuthz(d) THEN srv_token[d] + 1
                                            ELSE srv_token[d]]
        /\ srv_chal' = [d \in Domains |->
                          IF NeedsAuthz(d) THEN FALSE ELSE srv_chal[d]]
        /\ srv_phase' = IF \A d \in Domains : srv_auth'[d] = "valid"
                          THEN "ready" ELSE "pending"
        /\ ostatus' = srv_phase'
        /\ opc' = "loop"
        /\ UNCHANGED <<proc_polls, apc, auth_polls, auth_keys>>
     \/ Fail

(* The match on order.status at the top of the loop.                       *)
OnPending ==
  /\ opc = "loop"
  /\ ostatus = "pending"
  /\ opc' = "authorizing"
  /\ apc' = [d \in Domains |-> "fetch"]
  /\ auth_polls' = [d \in Domains |-> 0]
  /\ UNCHANGED <<ostatus, proc_polls, auth_keys, server>>

OnProcessing ==
  /\ opc = "loop"
  /\ ostatus = "processing"
  /\ opc' = "processing"
  /\ proc_polls' = 0
  /\ UNCHANGED <<ostatus, apc, auth_polls, auth_keys, server>>

OnReady ==
  /\ opc = "loop"
  /\ ostatus = "ready"
  /\ opc' = "finalize"
  /\ UNCHANGED <<ostatus, proc_polls, apc, auth_polls, auth_keys, server>>

OnValid ==
  /\ opc = "loop"
  /\ ostatus = "valid"
  /\ opc' = "download"
  /\ UNCHANGED <<ostatus, proc_polls, apc, auth_polls, auth_keys, server>>

(* OrderStatus::Invalid: Err(BadOrder).                                    *)
OnInvalid ==
  /\ opc = "loop"
  /\ ostatus = "invalid"
  /\ opc' = "err"
  /\ UNCHANGED <<ostatus, proc_polls, apc, auth_polls, auth_keys, server>>

(* try_join_all returns Ok once every authorize returned Ok.               *)
JoinDone ==
  /\ opc = "authorizing"
  /\ \A d \in Domains : apc[d] = "ok"
  /\ opc' = "refetch"
  /\ apc' = NoAuth
  /\ UNCHANGED <<ostatus, proc_polls, auth_polls, auth_keys, server>>

(* Mutant: the re-read order is bound to a fresh name and the loop keeps  *)
(* matching on the old one.                                                *)
RefetchStale ==
  /\ opc = "refetch"
  /\ \/ /\ opc' = "loop"
        /\ UNCHANGED <<ostatus, proc_polls, apc, auth_polls, auth_keys, server>>
     \/ Fail

(* Account::order after the authorizations: back to the top of the loop,  *)
(* at once, whatever the status.                                           *)
Refetch ==
  /\ opc = "refetch"
  /\ \/ /\ ostatus' = srv_phase
        /\ opc' = "loop"
        /\ UNCHANGED <<proc_polls, apc, auth_polls, auth_keys, server>>
     \/ Fail

(* Mutant: leaving the processing loop goes straight to the download     *)
(* instead of matching on the new status.                                  *)
ProcessingPollToDownload ==
  /\ opc = "processing"
  /\ proc_polls < MaxProcessingPolls
  /\ \/ /\ ostatus' = srv_phase
        /\ proc_polls' = proc_polls + 1
        /\ opc' = IF srv_phase = "processing" THEN "processing" ELSE "download"
        /\ UNCHANGED <<apc, auth_polls, auth_keys, server>>
     \/ Fail

(* One iteration of the processing loop: sleep 2^i, fetch the order, and  *)
(* leave the loop when the status is no longer processing.                *)
ProcessingPoll ==
  /\ opc = "processing"
  /\ proc_polls < MaxProcessingPolls
  /\ \/ /\ ostatus' = srv_phase
        /\ proc_polls' = proc_polls + 1
        /\ opc' = IF srv_phase = "processing" THEN "processing" ELSE "loop"
        /\ UNCHANGED <<apc, auth_polls, auth_keys, server>>
     \/ Fail

(* Still processing after the last iteration: Err(ProcessingTimeout).     *)
ProcessingTimeout ==
  /\ opc = "processing"
  /\ proc_polls = MaxProcessingPolls
  /\ opc' = "err"
  /\ UNCHANGED <<ostatus, proc_polls, apc, auth_polls, auth_keys, server>>

(* Serialize the CSR and POST it to the finalize URL; the server accepts  *)
(* it only for a ready order and answers processing or valid.              *)
Finalize ==
  /\ opc = "finalize"
  /\ \/ /\ srv_phase = "ready"
        /\ srv_phase' \in {"processing", "valid"}
        /\ ostatus' = srv_phase'
        /\ opc' = "loop"
        /\ UNCHANGED <<proc_polls, apc, auth_polls, auth_keys, srv_auth,
                       srv_token, srv_chal>>
     \/ Fail

(* Account::certificate: download the chain and return Ok(pem).            *)
Download ==
  /\ opc = "download"
  /\ \/ /\ opc' = "ok"
        /\ UNCHANGED <<ostatus, proc_polls, apc, auth_polls, auth_keys, server>>
     \/ Fail

-----------------------------------------------------------------------------
(* The authorize future of domain d.                                       *)

Authorizing(d, at) == opc = "authorizing" /\ apc[d] = at
SetApc(d, at) == apc' = [apc EXCEPT ![d] = at]

(* Mutant: the validation certificate is built but never published.      *)
AuthFetchNoPublish(d) ==
  /\ Authorizing(d, "fetch")
  /\ \/ /\ srv_auth[d] = "pending"
        /\ SetApc(d, "trigger")
        /\ UNCHANGED <<opc, ostatus, proc_polls, auth_polls, auth_keys, server>>
     \/ /\ srv_auth[d] = "valid"
        /\ SetApc(d, "ok")
        /\ UNCHANGED <<opc, ostatus, proc_polls, auth_polls, auth_keys, server>>
     \/ Fail

(* Fetch the authorization.  Pending: build the validation certificate    *)
(* for its tls-alpn-01 challenge (tls_alpn_01 fails when there is none)   *)
(* and publish it with set_auth_key.  Valid: return Ok.  Otherwise:        *)
(* Err(BadAuth).                                                           *)
AuthFetch(d) ==
  /\ Authorizing(d, "fetch")
  /\ \/ /\ srv_auth[d] = "pending"
        /\ SetAuthKey(d, srv_token[d])
        /\ SetApc(d, "trigger")
        /\ UNCHANGED <<opc, ostatus, proc_polls, auth_polls, server>>
     \/ /\ srv_auth[d] = "valid"
        /\ SetApc(d, "ok")
        /\ UNCHANGED <<opc, ostatus, proc_polls, auth_polls, auth_keys, server>>
     \/ Fail

(* POST {} to the challenge URL: the server starts validating it.          *)
TriggerChallenge(d) ==
  srv_chal' = [srv_chal EXCEPT ![d] = srv_auth[d] = "pending"]

AuthTrigger(d) ==
  /\ Authorizing(d, "trigger")
  /\ \/ /\ TriggerChallenge(d)
        /\ SetApc(d, "poll")
        /\ UNCHANGED <<opc, ostatus, proc_polls, auth_polls, auth_keys,
                       srv_auth, srv_token, srv_phase>>
     \/ Fail

(* One iteration of authorize's loop: sleep 2^i, fetch the authorization; *)
(* pending: trigger the challenge again; valid: Ok; otherwise BadAuth.     *)
AuthPoll(d) ==
  /\ Authorizing(d, "poll")
  /\ \/ /\ srv_auth[d] = "pending"
        /\ SetApc(d, "retrigger")
        /\ auth_polls' = [auth_polls EXCEPT ![d] = @ + 1]
        /\ UNCHANGED <<opc, ostatus, proc_polls, auth_keys, server>>
     \/ /\ srv_auth[d] = "valid"
        /\ SetApc(d, "ok")
        /\ UNCHANGED <<opc, ostatus, proc_polls, auth_polls, auth_keys, server>>
     \/ Fail

(* Mutant: the polling loop runs one iteration too many (0..=5).          *)
AuthRetriggerOffByOne(d) ==
  /\ Authorizing(d, "retrigger")
  /\ \/ /\ auth_polls[d] <= MaxAuthPolls
        /\ TriggerChallenge(d)
        /\ SetApc(d, "poll")
        /\ UNCHANGED <<opc, ostatus, proc_polls, auth_polls, auth_keys,
                       srv_auth, srv_token, srv_phase>>
     \/ /\ auth_polls[d] > MaxAuthPolls
        /\ TriggerChallenge(d)
        /\ opc' = "err"
        /\ apc' = NoAuth
        /\ UNCHANGED <<ostatus, proc_polls, auth_polls, auth_keys, srv_auth,
                       srv_token, srv_phase>>
     \/ Fail

(* The challenge POST of a pending poll; after the last iteration the     *)
(* loop ends with Err(TooManyAttemptsAuth).                                *)
AuthRetrigger(d) ==
  /\ Authorizing(d, "retrigger")
  /\ \/ /\ auth_polls[d] < MaxAuthPolls
        /\ TriggerChallenge(d)
        /\ SetApc(d, "poll")
        /\ UNCHANGED <<opc, ostatus, proc_polls, auth_polls, auth_keys,
                       srv_auth, srv_token, srv_phase>>
     \/ /\ auth_polls[d] = MaxAuthPolls
        /\ TriggerChallenge(d)
        /\ opc' = "err"
        /\ apc' = NoAuth
        /\ UNCHANGED <<ostatus, proc_polls, auth_polls, auth_keys, srv_auth,
                       srv_token, srv_phase>>
     \/ Fail

(* The engine launches the next attempt (AcmeState::order) once this one  *)
(* has returned, after deploying the certificate of a successful one      *)
(* (process_cert calls set_cert); the server's old order is abandoned.    *)
NextAttempt ==
  /\ opc \in Done
  /\ IF opc = "ok" THEN SetCert ELSE UNCHANGED auth_keys
  /\ opc' = "setup"
  /\ ostatus' = "none"
  /\ proc_polls' = 0
  /\ apc' = NoAuth
  /\ auth_polls' = [d \in Domains |-> 0]
  /\ srv_phase' = "none"
  /\ UNCHANGED <<srv_auth, srv_token, srv_chal>>

-----------------------------------------------------------------------------
(* The ACME server (environment).                                          *)

(* The CA opens a TLS-ALPN-01 handshake to d: the authorization becomes   *)
(* valid iff the resolver answers with the key for its current token.     *)
CAValidate(d) ==
  /\ srv_auth[d] = "pending"
  /\ srv_chal[d]
  /\ srv_auth' = [srv_auth EXCEPT ![d] =
                    IF Resolve(d) = srv_token[d] THEN "valid" ELSE "invalid"]
  /\ srv_chal' = [srv_chal EXCEPT ![d] = FALSE]
  /\ UNCHANGED <<client, auth_keys, srv_token, srv_phase>>

(* The validation fails for a reason outside the client (unreachable).    *)
CAValidationFails(d) ==
  /\ srv_auth[d] = "pending"
  /\ srv_chal[d]
  /\ srv_auth' = [srv_auth EXCEPT ![d] = "invalid"]
  /\ srv_chal' = [srv_chal EXCEPT ![d] = FALSE]
  /\ UNCHANGED <<client, auth_keys, srv_token, srv_phase>>

(* The order follows its authorizations: ready once all are valid,        *)
(* invalid once one is invalid.                                            *)
OrderBecomesReady ==
  /\ srv_phase = "pending"
  /\ \A d \in Domains : srv_auth[d] = "valid"
  /\ srv_phase' = "ready"
  /\ UNCHANGED <<client, auth_keys, srv_auth, srv_token, srv_chal>>

OrderBecomesInvalid ==
  /\ srv_phase = "pending"
  /\ \E d \in Domains : srv_auth[d] = "invalid"
  /\ srv_phase' = "invalid"
  /\ UNCHANGED <<client, auth_keys, srv_auth, srv_token, srv_chal>>

(* The CA issues the certificate, or gives up on the order.                *)
Issue ==
  /\ srv_phase = "processing"
  /\ srv_phase' \in {"valid", "invalid"}
  /\ UNCHANGED <<client, auth_keys, srv_auth, srv_token, srv_chal>>

-----------------------------------------------------------------------------
OrderStep ==
  \/ Setup \/ NewOrder \/ Refetch \/ JoinDone
  \/ OnPending \/ OnProcessing \/ OnReady \/ OnValid \/ OnInvalid
  \/ ProcessingPoll \/ ProcessingTimeout \/ Finalize \/ Download

AuthStep ==
  \E d \in Domains :
    AuthFetch(d) \/ AuthTrigger(d) \/ AuthPoll(d) \/ AuthRetrigger(d)

ServerStep ==
  \/ \E d \in Domains : CAValidate(d) \/ CAValidationFails(d)
  \/ OrderBecomesReady \/ OrderBecomesInvalid \/ Issue

Next == OrderStep \/ AuthStep \/ NextAttempt \/ ServerStep

(* The engine polls the order future, and so every authorize future, as   *)
(* long as it is pending; the server validates a triggered challenge and  *)
(* moves an order on (environment).                                        *)
Fairness ==
  /\ WF_vars(OrderStep)
  /\ \A d \in Domains :
       /\ WF_vars(AuthFetch(d) \/ AuthTrigger(d) \/ AuthPoll(d)
                  \/ AuthRetrigger(d))
       /\ WF_vars(CAValidate(d) \/ CAValidationFails(d))
  /\ WF_vars(OrderBecomesReady \/ OrderBecomesInvalid \/ Issue)

Spec == Init /\ [][Next]_vars /\ Fairness

-----------------------------------------------------------------------------
(* Properties.                                                             *)

(* Whenever the CA holds a triggered challenge of a pending authorization, *)
(* the resolver serves the validation key built for that authorization's  *)
(* token: authorize publishes with set_auth_key before the challenge POST, *)
(* and a dropped authorize future publishes nothing afterwards.            *)
ValidationSeesKey ==
  \A d \in Domains :
    srv_chal[d] /\ srv_auth[d] = "pending" => auth_keys[d] = srv_token[d]

(* Every call of order() returns, Ok or Err: the authorization and the    *)
(* processing polls are bounded, and the pending loop re-reads the order. *)
OrderTerminates == [](opc \notin Done => <>(opc \in Done))

(* Spec invariant (b): a validation key for d is in the resolver only     *)
(* while an authorization for d is in flight (state.rs never removes one). *)
AuthKeyOnlyWhileAuthorizing ==
  \A d \in Domains :
    auth_keys[d] # 0 => apc[d] \in {"trigger", "poll", "retrigger"}

-----------------------------------------------------------------------------
(* Refinement: the attempts implement OrderCall.  A call runs until opc   *)
(* is "ok" or "err"; a domain is authorized while its authorization is    *)
(* valid on the server; the order is issued once the server's order is    *)
(* valid.                                                                  *)
callBar == IF opc \in Done THEN opc ELSE "running"
authorizedBar == {d \in Domains : srv_auth[d] = "valid"}
issuedBar == srv_phase = "valid"

Call == INSTANCE OrderCall
          WITH call <- callBar, authorized <- authorizedBar, issued <- issuedBar

(* order() returns Ok only after downloading the certificate of an order  *)
(* the CA has issued, and the CA issues only orders whose domains are all *)
(* authorized, which stay authorized: the match on order.status, the      *)
(* processing loop and the new-order reuse of valid authorizations        *)
(* implement OrderCall.                                                    *)
ImplementsOrderCall == Call!Spec

=============================================================================
