--------------------------- MODULE AcmeOrderProofs ---------------------------
(***************************************************************************)
(* Proofs about the order future AcmeOrder, for every set of domains and  *)
(* every polling and token bound.                                          *)
(***************************************************************************)
EXTENDS AcmeOrder, TLAPS

InFlight == {"trigger", "poll", "retrigger"}
IssuingPhases == {"ready", "processing", "valid"}

(* The authorize futures exist only inside the join, and a future that    *)
(* has not yet passed a pending poll has an iteration left.                *)
FutureInv ==
  /\ opc # "authorizing" => apc = NoAuth
  /\ \A d \in Domains :
       apc[d] \in {"fetch", "trigger", "poll"} => auth_polls[d] < MaxAuthPolls

(* A triggered challenge belongs to a pending authorization; a future past *)
(* its fetch of a pending authorization has published that token's key.    *)
KeyInv ==
  \A d \in Domains :
    /\ srv_chal[d] => srv_auth[d] = "pending"
    /\ apc[d] \in InFlight /\ srv_auth[d] = "pending" =>
         auth_keys[d] = srv_token[d]

(* Valid authorizations stay valid; an order past its authorizations, on   *)
(* the server or in the client's copy, has all of them valid.              *)
ValidInv ==
  /\ \A d \in Domains : apc[d] = "ok" => srv_auth[d] = "valid"
  /\ \/ opc \in {"refetch", "finalize", "download", "ok"}
     \/ srv_phase \in IssuingPhases
     \/ ostatus \in IssuingPhases
     => \A d \in Domains : srv_auth[d] = "valid"

IInv == TypeOK /\ FutureInv /\ KeyInv /\ ValidInv /\ ValidationSeesKey

-----------------------------------------------------------------------------
LEMMA InitIInv == Init => IInv
BY DomainsAssumption, BoundsAssumption
DEF Init, IInv, TypeOK, FutureInv, KeyInv, ValidInv, ValidationSeesKey,
    NoAuth, OrderStatuses, AuthStatuses, IssuingPhases, Done

(* A failed request ends the attempt and drops the authorize futures.     *)
LEMMA FailIInv == IInv /\ Fail => IInv'
BY DEF IInv, Fail, TypeOK, FutureInv, KeyInv, ValidInv, ValidationSeesKey,
       NoAuth, Done, server, InFlight, IssuingPhases

(* Every step of order() itself, the authorize futures excepted.           *)
LEMMA OrderStepIInv == IInv /\ OrderStep => IInv'
<1> SUFFICES ASSUME IInv, OrderStep PROVE IInv'
  OBVIOUS
<1> USE DomainsAssumption, BoundsAssumption
<1> USE DEF IInv, TypeOK, FutureInv, KeyInv, ValidInv, ValidationSeesKey,
            NoAuth, Done, server, OrderStatuses, AuthStatuses, IssuingPhases,
            InFlight
<1>1. CASE Setup
  BY <1>1, FailIInv DEF Setup
<1>2. CASE NewOrder
  <2>1. CASE Fail
    BY <2>1, FailIInv
  <2>2. CASE /\ \A d \in Domains : NeedsAuthz(d) => srv_token[d] < MaxTokens
             /\ srv_auth' = [d \in Domains |->
                               IF NeedsAuthz(d) THEN "pending" ELSE srv_auth[d]]
             /\ srv_token' = [d \in Domains |->
                                IF NeedsAuthz(d) THEN srv_token[d] + 1
                                                 ELSE srv_token[d]]
             /\ srv_chal' = [d \in Domains |->
                               IF NeedsAuthz(d) THEN FALSE ELSE srv_chal[d]]
             /\ srv_phase' = IF \A d \in Domains : srv_auth'[d] = "valid"
                               THEN "ready" ELSE "pending"
             /\ ostatus' = srv_phase'
             /\ opc' = "loop"
             /\ UNCHANGED <<proc_polls, apc, auth_polls, auth_keys>>
    <3>1. opc = "newOrder"
      BY <1>2 DEF NewOrder
    <3>2. TypeOK'
      <4>1. srv_token' \in [Domains -> 0..MaxTokens]
        BY <2>2 DEF NeedsAuthz
      <4>2. srv_auth' \in [Domains -> AuthStatuses]
        BY <2>2 DEF NeedsAuthz
      <4>3. srv_chal' \in [Domains -> BOOLEAN]
        BY <2>2 DEF NeedsAuthz
      <4>4. srv_phase' \in {"pending", "ready"} /\ ostatus' = srv_phase'
        BY <2>2
      <4>5. QED
        BY <2>2, <4>1, <4>2, <4>3, <4>4
    <3>3. FutureInv'
      BY <2>2, <3>1
    <3>4. KeyInv'
      BY <2>2, <3>1 DEF NeedsAuthz
    <3>5. ValidInv'
      BY <2>2, <3>1 DEF NeedsAuthz
    <3>6. ValidationSeesKey'
      BY <2>2, <3>1 DEF NeedsAuthz
    <3>7. QED
      BY <3>2, <3>3, <3>4, <3>5, <3>6
  <2>3. QED
    BY <1>2, <2>1, <2>2 DEF NewOrder
<1>3. CASE Refetch
  BY <1>3, FailIInv DEF Refetch
<1>4. CASE JoinDone
  BY <1>4 DEF JoinDone
<1>5. CASE OnPending
  BY <1>5 DEF OnPending
<1>6. CASE OnProcessing
  BY <1>6 DEF OnProcessing
<1>7. CASE OnReady
  BY <1>7 DEF OnReady
<1>8. CASE OnValid
  BY <1>8 DEF OnValid
<1>9. CASE OnInvalid
  BY <1>9 DEF OnInvalid
<1>10. CASE ProcessingPoll
  BY <1>10, FailIInv DEF ProcessingPoll
<1>11. CASE ProcessingTimeout
  BY <1>11 DEF ProcessingTimeout
<1>12. CASE Finalize
  BY <1>12, FailIInv DEF Finalize
<1>13. CASE Download
  BY <1>13, FailIInv DEF Download
<1>14. QED
  BY <1>1, <1>2, <1>3, <1>4, <1>5, <1>6, <1>7, <1>8, <1>9, <1>10, <1>11,
     <1>12, <1>13 DEF OrderStep

(* Every step of the authorize future of one domain.                       *)
LEMMA AuthStepIInv ==
  ASSUME NEW d \in Domains, IInv,
         AuthFetch(d) \/ AuthTrigger(d) \/ AuthPoll(d) \/ AuthRetrigger(d)
  PROVE  IInv'
<1> USE DomainsAssumption, BoundsAssumption
<1> USE DEF IInv, TypeOK, FutureInv, KeyInv, ValidInv, ValidationSeesKey,
            NoAuth, Done, server, OrderStatuses, AuthStatuses, IssuingPhases,
            InFlight, Authorizing, SetApc
<1>1. CASE AuthFetch(d)
  BY <1>1, FailIInv DEF AuthFetch, SetAuthKey
<1>2. CASE AuthTrigger(d)
  BY <1>2, FailIInv DEF AuthTrigger, TriggerChallenge
<1>3. CASE AuthPoll(d)
  BY <1>3, FailIInv DEF AuthPoll
<1>4. CASE AuthRetrigger(d)
  <2>1. CASE Fail
    BY <2>1, FailIInv
  <2>2. CASE /\ auth_polls[d] < MaxAuthPolls
             /\ TriggerChallenge(d)
             /\ SetApc(d, "poll")
             /\ UNCHANGED <<opc, ostatus, proc_polls, auth_polls, auth_keys,
                            srv_auth, srv_token, srv_phase>>
    BY <1>4, <2>2 DEF AuthRetrigger, TriggerChallenge
  <2>3. CASE /\ auth_polls[d] = MaxAuthPolls
             /\ TriggerChallenge(d)
             /\ opc' = "err"
             /\ apc' = NoAuth
             /\ UNCHANGED <<ostatus, proc_polls, auth_polls, auth_keys,
                            srv_auth, srv_token, srv_phase>>
    BY <1>4, <2>3 DEF AuthRetrigger, TriggerChallenge
  <2>4. QED
    BY <1>4, <2>1, <2>2, <2>3 DEF AuthRetrigger
<1>5. QED
  BY <1>1, <1>2, <1>3, <1>4

(* The server's steps and the engine's next attempt.                        *)
LEMMA EnvStepIInv == IInv /\ (ServerStep \/ NextAttempt) => IInv'
<1> SUFFICES ASSUME IInv, ServerStep \/ NextAttempt PROVE IInv'
  OBVIOUS
<1> USE DomainsAssumption, BoundsAssumption
<1> USE DEF IInv, TypeOK, FutureInv, KeyInv, ValidInv, ValidationSeesKey,
            NoAuth, Done, client, OrderStatuses, AuthStatuses, IssuingPhases,
            InFlight
<1>1. ASSUME NEW d \in Domains, CAValidate(d) PROVE IInv'
  BY <1>1 DEF CAValidate, Resolve
<1>2. ASSUME NEW d \in Domains, CAValidationFails(d) PROVE IInv'
  BY <1>2 DEF CAValidationFails
<1>3. CASE OrderBecomesReady
  BY <1>3 DEF OrderBecomesReady
<1>4. CASE OrderBecomesInvalid
  BY <1>4 DEF OrderBecomesInvalid
<1>5. CASE Issue
  BY <1>5 DEF Issue
<1>6. CASE NextAttempt
  BY <1>6 DEF NextAttempt, SetCert
<1>7. QED
  BY <1>1, <1>2, <1>3, <1>4, <1>5, <1>6 DEF ServerStep

LEMMA NextIInv == IInv /\ [Next]_vars => IInv'
<1> SUFFICES ASSUME IInv, [Next]_vars PROVE IInv'
  OBVIOUS
<1>1. CASE OrderStep
  BY <1>1, OrderStepIInv
<1>2. CASE AuthStep
  BY <1>2, AuthStepIInv DEF AuthStep
<1>3. CASE ServerStep \/ NextAttempt
  BY <1>3, EnvStepIInv
<1>4. CASE UNCHANGED vars
  BY <1>4 DEF vars, client, server, IInv, TypeOK, FutureInv, KeyInv,
              ValidInv, ValidationSeesKey
<1>5. QED
  BY <1>1, <1>2, <1>3, <1>4 DEF Next

(* Every state of the order future, the resolver and the server is well   *)
(* typed; in particular no authorize future polls more than MaxAuthPolls   *)
(* times and the processing loop stops at MaxProcessingPolls.              *)
THEOREM OrderTypeCorrect == Spec => []TypeOK
<1>1. IInv => TypeOK
  BY DEF IInv
<1>2. QED
  BY InitIInv, NextIInv, <1>1, PTL DEF Spec

(* For every set of domains and every bound: whenever the CA holds a       *)
(* triggered challenge of a pending authorization, the resolver serves the *)
(* key of that authorization's token (authorize publishes before it posts  *)
(* the challenge, and try_join_all drops the other futures on an error).   *)
THEOREM ValidationKeyServed == Spec => []ValidationSeesKey
<1>1. IInv => ValidationSeesKey
  BY DEF IInv
<1>2. QED
  BY InitIInv, NextIInv, <1>1, PTL DEF Spec

=============================================================================
