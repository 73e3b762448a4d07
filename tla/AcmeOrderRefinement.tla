------------------------- MODULE AcmeOrderRefinement -------------------------
(***************************************************************************)
(* The order attempts of AcmeOrder implement OrderCall under the mapping  *)
(* callBar, authorizedBar, issuedBar of AcmeOrder, for every set of        *)
(* domains and every bound.                                                *)
(***************************************************************************)
EXTENDS AcmeOrderProofs

(* Where order() stands tells what the server's order is: before          *)
(* new_order there is none, and past a valid status the order stays      *)
(* valid until the next attempt.                                           *)
PhaseInv ==
  /\ opc \in {"setup", "newOrder"} => srv_phase = "none"
  /\ ostatus = "valid" \/ opc \in {"download", "ok"} => srv_phase = "valid"

absvars == <<callBar, authorizedBar, issuedBar>>

LEMMA InitPhaseInv == Init => PhaseInv
BY DEF Init, PhaseInv

LEMMA NextPhaseInv == IInv /\ PhaseInv /\ [Next]_vars => PhaseInv'
<1> SUFFICES ASSUME IInv, PhaseInv, [Next]_vars PROVE PhaseInv'
  OBVIOUS
<1> USE DEF PhaseInv, IInv, TypeOK
<1>1. CASE OrderStep
  BY <1>1 DEF OrderStep, Setup, NewOrder, Refetch, JoinDone, OnPending,
              OnProcessing, OnReady, OnValid, OnInvalid, ProcessingPoll,
              ProcessingTimeout, Finalize, Download, Fail, server
<1>2. CASE AuthStep
  BY <1>2 DEF AuthStep, AuthFetch, AuthTrigger, AuthPoll, AuthRetrigger,
              Authorizing, Fail, server
<1>3. CASE ServerStep
  BY <1>3 DEF ServerStep, CAValidate, CAValidationFails, OrderBecomesReady,
              OrderBecomesInvalid, Issue, client
<1>4. CASE NextAttempt
  BY <1>4 DEF NextAttempt
<1>5. CASE UNCHANGED vars
  BY <1>5 DEF vars, client, server
<1>6. QED
  BY <1>1, <1>2, <1>3, <1>4, <1>5 DEF Next

-----------------------------------------------------------------------------
(* A failed request of a running call is OrderCall's Fail.                 *)
LEMMA FailRefines == opc \notin Done /\ Fail => Call!Fail
BY DEF Fail, Call!Fail, callBar, authorizedBar, issuedBar, server, Done

(* A step of the client that neither ends the call nor touches the server *)
(* is a stutter of OrderCall.                                              *)
LEMMA ClientStutter ==
  opc \notin Done /\ opc' \notin Done /\ UNCHANGED server
  => UNCHANGED absvars
BY DEF absvars, callBar, authorizedBar, issuedBar, server

LEMMA OrderStepRefines ==
  IInv /\ PhaseInv /\ OrderStep => [Call!Next]_absvars
<1> SUFFICES ASSUME IInv, PhaseInv, OrderStep PROVE [Call!Next]_absvars
  OBVIOUS
<1> USE DEF Done
<1>1. CASE Setup
  BY <1>1, FailRefines, ClientStutter DEF Setup, Call!Next
<1>2. CASE NewOrder
  <2>1. CASE Fail
    BY <2>1, <1>2, FailRefines DEF NewOrder, Call!Next
  <2>2. CASE /\ srv_auth' = [d \in Domains |->
                               IF NeedsAuthz(d) THEN "pending" ELSE srv_auth[d]]
             /\ srv_phase' \in {"ready", "pending"}
             /\ opc' = "loop"
    <3>1. authorizedBar' = authorizedBar
      BY <2>2 DEF authorizedBar, NeedsAuthz, IInv, TypeOK, AuthStatuses
    <3>2. issuedBar' = issuedBar /\ callBar' = callBar
      BY <1>2, <2>2 DEF NewOrder, PhaseInv, issuedBar, callBar
    <3>3. QED
      BY <3>1, <3>2 DEF absvars
  <2>3. QED
    BY <1>2, <2>1, <2>2 DEF NewOrder
<1>3. CASE Refetch \/ JoinDone \/ OnPending \/ OnProcessing \/ OnReady
           \/ OnValid
  BY <1>3, FailRefines, ClientStutter
  DEF Refetch, JoinDone, OnPending, OnProcessing, OnReady, OnValid, Call!Next
<1>4. CASE OnInvalid \/ ProcessingTimeout
  BY <1>4 DEF OnInvalid, ProcessingTimeout, Call!Next, Call!Fail, absvars,
              callBar, authorizedBar, issuedBar, server
<1>5. CASE ProcessingPoll
  BY <1>5, FailRefines, ClientStutter DEF ProcessingPoll, Call!Next
<1>6. CASE Finalize
  <2>1. CASE Fail
    BY <2>1, <1>6, FailRefines DEF Finalize, Call!Next
  <2>2. CASE /\ srv_phase = "ready"
             /\ srv_phase' \in {"processing", "valid"}
             /\ opc' = "loop"
             /\ UNCHANGED srv_auth
    <3>1. authorizedBar = Domains
      BY <1>6, <2>2 DEF IInv, ValidInv, IssuingPhases, authorizedBar
    <3>2. CASE srv_phase' = "valid"
      BY <2>2, <3>1, <3>2, <1>6
      DEF Call!Next, Call!Issue, callBar, authorizedBar, issuedBar, Finalize
    <3>3. CASE srv_phase' = "processing"
      BY <2>2, <3>3, <1>6 DEF absvars, callBar, authorizedBar, issuedBar, Finalize
    <3>4. QED
      BY <2>2, <3>2, <3>3
  <2>3. QED
    BY <1>6, <2>1, <2>2 DEF Finalize
<1>7. CASE Download
  <2>1. CASE Fail
    BY <2>1, <1>7, FailRefines DEF Download, Call!Next
  <2>2. CASE opc' = "ok" /\ UNCHANGED server
    <3>1. issuedBar
      BY <1>7 DEF Download, PhaseInv, issuedBar
    <3>2. callBar = "running" /\ callBar' = "ok"
      BY <1>7, <2>2 DEF Download, callBar
    <3>3. authorizedBar' = authorizedBar /\ issuedBar' = issuedBar
      BY <2>2 DEF authorizedBar, issuedBar, server
    <3>4. Call!Succeed
      BY <3>1, <3>2, <3>3 DEF Call!Succeed
    <3>5. QED
      BY <3>4 DEF Call!Next
  <2>3. QED
    BY <1>7, <2>1, <2>2 DEF Download
<1>8. QED
  BY <1>1, <1>2, <1>3, <1>4, <1>5, <1>6, <1>7 DEF OrderStep

(* The authorize futures touch the server only through the challenge      *)
(* trigger, which changes no authorization; the last pending poll ends    *)
(* the call.                                                                *)
LEMMA AuthStepRefines ==
  ASSUME NEW d \in Domains,
         AuthFetch(d) \/ AuthTrigger(d) \/ AuthPoll(d) \/ AuthRetrigger(d)
  PROVE  [Call!Next]_absvars
<1> USE DEF Done, Authorizing, SetApc
<1>1. CASE Fail
  BY <1>1, FailRefines DEF AuthFetch, AuthTrigger, AuthPoll, AuthRetrigger,
                           Call!Next
<1>2. CASE ~Fail /\ (AuthFetch(d) \/ AuthTrigger(d) \/ AuthPoll(d))
  BY <1>2 DEF AuthFetch, AuthTrigger, AuthPoll, SetAuthKey, TriggerChallenge,
              absvars, callBar, authorizedBar, issuedBar, server
<1>3. CASE ~Fail /\ AuthRetrigger(d)
  BY <1>3 DEF AuthRetrigger, TriggerChallenge, Call!Next, Call!Fail, absvars,
              callBar, authorizedBar, issuedBar
<1>4. QED
  BY <1>1, <1>2, <1>3

(* A successful validation authorizes its domain; the server's other      *)
(* steps issue the order of a fully authorized call or change nothing     *)
(* OrderCall sees.                                                         *)
LEMMA ServerStepRefines ==
  IInv /\ ServerStep => [Call!Next]_absvars
<1> SUFFICES ASSUME IInv, ServerStep PROVE [Call!Next]_absvars
  OBVIOUS
<1> USE DEF client, absvars, callBar, authorizedBar, issuedBar
<1>1. ASSUME NEW d \in Domains, CAValidate(d) PROVE [Call!Next]_absvars
  <2>1. CASE Resolve(d) = srv_token[d]
    BY <1>1, <2>1 DEF CAValidate, Call!Next, Call!Authorize, IInv, TypeOK
  <2>2. CASE Resolve(d) # srv_token[d]
    BY <1>1, <2>2 DEF CAValidate, IInv, TypeOK
  <2>3. QED
    BY <2>1, <2>2
<1>2. ASSUME NEW d \in Domains, CAValidationFails(d) PROVE [Call!Next]_absvars
  BY <1>2 DEF CAValidationFails, IInv, TypeOK
<1>3. CASE OrderBecomesReady \/ OrderBecomesInvalid
  BY <1>3 DEF OrderBecomesReady, OrderBecomesInvalid
<1>4. CASE Issue
  <2>1. authorizedBar = Domains
    BY <1>4 DEF Issue, IInv, ValidInv, IssuingPhases
  <2>2. QED
    BY <1>4, <2>1 DEF Issue, Call!Next, Call!Issue
<1>5. QED
  BY <1>1, <1>2, <1>3, <1>4 DEF ServerStep

(* The engine's next call is OrderCall's Retry on a fresh order.           *)
LEMMA NextAttemptRefines == NextAttempt => Call!Retry
BY DEF NextAttempt, Call!Retry, callBar, authorizedBar, issuedBar, Done

LEMMA StepRefines ==
  IInv /\ PhaseInv /\ [Next]_vars => [Call!Next]_absvars
<1> SUFFICES ASSUME IInv, PhaseInv, [Next]_vars PROVE [Call!Next]_absvars
  OBVIOUS
<1>1. CASE OrderStep
  BY <1>1, OrderStepRefines
<1>2. CASE AuthStep
  BY <1>2, AuthStepRefines DEF AuthStep
<1>3. CASE ServerStep
  BY <1>3, ServerStepRefines
<1>4. CASE NextAttempt
  BY <1>4, NextAttemptRefines DEF Call!Next
<1>5. CASE UNCHANGED vars
  BY <1>5 DEF vars, client, server, absvars, callBar, authorizedBar, issuedBar
<1>6. QED
  BY <1>1, <1>2, <1>3, <1>4, <1>5 DEF Next

(* For every set of domains and every bound, the attempts of order()      *)
(* implement OrderCall: a call returns Ok only with the certificate of an *)
(* issued order, the CA issues only when every domain is authorized, and  *)
(* a valid authorization is never lost (new_order reuses it).             *)
THEOREM RefinesOrderCall == Spec => ImplementsOrderCall
<1>1. Init => Call!Init
  BY DEF Init, Call!Init, callBar, authorizedBar, issuedBar, Done
<1>2. Spec => [](IInv /\ PhaseInv)
  BY InitIInv, NextIInv, InitPhaseInv, NextPhaseInv, PTL DEF Spec
<1>3. QED
  BY <1>1, <1>2, StepRefines, PTL
  DEF Spec, ImplementsOrderCall, Call!Spec, Call!vars, absvars

=============================================================================
