--------------------------- MODULE AcmeStateProofs ---------------------------
(***************************************************************************)
(* Proofs about the lifecycle engine AcmeState, for every set of account  *)
(* keys, every saturation bound and every number of restarts.             *)
(***************************************************************************)
EXTENDS AcmeState, TLAPS

(* The backoff exponent is the saturated count of consecutive order       *)
(* errors, and an armed backoff sleep was computed from it.                *)
BackoffInv ==
  /\ failures <= MaxBackoffCnt + 1
  /\ backoff_cnt = Min2(failures, MaxBackoffCnt)
  /\ BackoffSchedule

(* An in-flight order runs with the engine's account key, and that key was *)
(* announced (loaded or stored) unless its store is the queued action; no  *)
(* key or order exists before the account load.                            *)
AnnounceInv ==
  /\ order # NoKey => order = account_key
  /\ account_key # NoKey =>
       \/ account_key \in announced
       \/ early_action = AccountStore(account_key)
  /\ load_account => order = NoKey /\ account_key = NoKey

IInv == TypeOK /\ BackoffInv /\ AnnounceInv

-----------------------------------------------------------------------------
(* Type correctness.                                                       *)

LEMMA InitTypeOK == Init => TypeOK
BY KeysAssumption, BoundsAssumption
DEF Init, EngineInit, TypeOK, NoAction, NoTimer

LEMMA NextTypeOK == TypeOK /\ [Next]_vars => TypeOK'
<1> SUFFICES ASSUME TypeOK, [Next]_vars PROVE TypeOK'
  OBVIOUS
<1> USE KeysAssumption, BoundsAssumption
<1> USE DEF TypeOK, NoAction, CertStore, AccountStore, NoTimer, RenewTimer,
            BackoffTimer, OkEvents, ErrEvents, Pems, history
<1>1. CASE CertStoreCompletes
  BY <1>1 DEF CertStoreCompletes, Interrupted
<1>2. CASE AccountStoreCompletes
  BY <1>2 DEF AccountStoreCompletes, Interrupted
<1>3. CASE TimerFires
  BY <1>3 DEF TimerFires
<1>4. CASE CertLoadCompletes
  BY <1>4 DEF CertLoadCompletes, ProcessCert, TimerIdle
<1>5. CASE AccountLoadCompletes
  BY <1>5 DEF AccountLoadCompletes, TimerIdle
<1>6. ASSUME NEW pem \in Pems, OrderSucceeds(pem) PROVE TypeOK'
  BY <1>6 DEF OrderSucceeds, ProcessCert, LoadsDone, TimerIdle
<1>7. CASE OrderFails
  BY <1>7 DEF OrderFails, Min2
<1>8. CASE ScheduleOrder
  BY <1>8 DEF ScheduleOrder, FreshKeys
<1>9. CASE Restart
  BY <1>9 DEF Restart, Interrupted
<1>10. CASE UNCHANGED vars
  BY <1>10 DEF vars, engine, history
<1>11. QED
  BY <1>1, <1>2, <1>3, <1>4, <1>5, <1>6, <1>7, <1>8, <1>9, <1>10
  DEF Next, Poll

(* Every state of the engine is well typed.                                *)
THEOREM TypeCorrect == Spec => []TypeOK
BY InitTypeOK, NextTypeOK, PTL DEF Spec

-----------------------------------------------------------------------------
(* The backoff schedule and the account announcement.                      *)

LEMMA InitIInv == Init => IInv
BY InitTypeOK, KeysAssumption, BoundsAssumption
DEF Init, EngineInit, IInv, BackoffInv, BackoffSchedule, AnnounceInv,
    Min2, NoTimer, NoAction

(* Arithmetic of the saturating increment in OrderFails.                   *)
LEMMA SaturatingStep ==
  ASSUME NEW f \in Nat, NEW m \in Nat, f <= m + 1
  PROVE  /\ Min2(Min2(f, m) + 1, m) = Min2(Min2(f + 1, m + 1), m)
         /\ Min2(Min2(f + 1, m + 1) - 1, m) = Min2(f, m)
         /\ Min2(f + 1, m + 1) <= m + 1
         /\ Min2(f + 1, m + 1) >= 1
BY DEF Min2

LEMMA NextBackoffInv == TypeOK /\ BackoffInv /\ [Next]_vars => BackoffInv'
<1> SUFFICES ASSUME TypeOK, BackoffInv, [Next]_vars PROVE BackoffInv'
  OBVIOUS
<1> USE BoundsAssumption DEF BackoffInv, BackoffSchedule, history
<1>1. CASE CertStoreCompletes
  BY <1>1 DEF CertStoreCompletes
<1>2. CASE AccountStoreCompletes
  BY <1>2 DEF AccountStoreCompletes
<1>3. CASE TimerFires
  BY <1>3 DEF TimerFires, NoTimer
<1>4. CASE CertLoadCompletes
  BY <1>4 DEF CertLoadCompletes, ProcessCert, RenewTimer
<1>5. CASE AccountLoadCompletes
  BY <1>5 DEF AccountLoadCompletes
<1>6. ASSUME NEW pem \in Pems, OrderSucceeds(pem) PROVE BackoffInv'
  BY <1>6 DEF OrderSucceeds, ProcessCert, LoadsDone, TimerIdle, NoTimer,
              RenewTimer, Min2
<1>7. CASE OrderFails
  <2>1. failures \in Nat
    BY DEF TypeOK
  <2>2. backoff_cnt' = Min2(failures', MaxBackoffCnt)
    BY <1>7, <2>1, SaturatingStep DEF OrderFails
  <2>3. wait'.secs = 2^Min2(failures' - 1, MaxBackoffCnt)
    BY <1>7, <2>1, SaturatingStep DEF OrderFails, BackoffTimer
  <2>4. failures' >= 1 /\ failures' <= MaxBackoffCnt + 1
    BY <1>7, <2>1, SaturatingStep DEF OrderFails
  <2>5. QED
    BY <2>2, <2>3, <2>4
<1>8. CASE ScheduleOrder
  BY <1>8 DEF ScheduleOrder
<1>9. CASE Restart
  BY <1>9 DEF Restart, NoTimer, Min2
<1>10. CASE UNCHANGED vars
  BY <1>10 DEF vars, engine
<1>11. QED
  BY <1>1, <1>2, <1>3, <1>4, <1>5, <1>6, <1>7, <1>8, <1>9, <1>10
  DEF Next, Poll

LEMMA NextAnnounceInv == TypeOK /\ AnnounceInv /\ [Next]_vars => AnnounceInv'
<1> SUFFICES ASSUME TypeOK, AnnounceInv, [Next]_vars PROVE AnnounceInv'
  OBVIOUS
<1> USE KeysAssumption DEF AnnounceInv, history
<1>1. CASE CertStoreCompletes
  BY <1>1 DEF CertStoreCompletes, TypeOK, NoAction, CertStore, AccountStore
<1>2. CASE AccountStoreCompletes
  BY <1>2 DEF AccountStoreCompletes, TypeOK, NoAction, AccountStore
<1>3. CASE TimerFires
  BY <1>3 DEF TimerFires
<1>4. CASE CertLoadCompletes
  BY <1>4 DEF CertLoadCompletes, ProcessCert
<1>5. CASE AccountLoadCompletes
  BY <1>5 DEF AccountLoadCompletes
<1>6. ASSUME NEW pem \in Pems, OrderSucceeds(pem) PROVE AnnounceInv'
  BY <1>6 DEF OrderSucceeds, ProcessCert, LoadsDone, TimerIdle, NoAction,
              CertStore, AccountStore
<1>7. CASE OrderFails
  BY <1>7 DEF OrderFails, LoadsDone
<1>8. CASE ScheduleOrder
  BY <1>8 DEF ScheduleOrder, LoadsDone, FreshKeys, AccountStore
<1>9. CASE Restart
  BY <1>9 DEF Restart
<1>10. CASE UNCHANGED vars
  BY <1>10 DEF vars, engine
<1>11. QED
  BY <1>1, <1>2, <1>3, <1>4, <1>5, <1>6, <1>7, <1>8, <1>9, <1>10
  DEF Next, Poll

LEMMA NextIInv == IInv /\ [Next]_vars => IInv'
BY NextTypeOK, NextBackoffInv, NextAnnounceInv DEF IInv

(* The backoff sleep armed after the n-th consecutive order error is      *)
(* 2^min(n-1, MaxBackoffCnt) seconds, for every saturation bound: the      *)
(* exponent is read before poll_next_infinite's saturating increment.      *)
THEOREM BackoffScheduleHolds == Spec => []BackoffSchedule
<1>1. IInv => BackoffSchedule
  BY DEF IInv, BackoffInv
<1>2. QED
  BY InitIInv, NextIInv, <1>1, PTL DEF Spec

(* A DeployedNewCert is only ever returned for an order whose account key *)
(* was loaded from the cache or whose account store already returned.     *)
LEMMA DeployStep ==
  IInv /\ [Next]_vars =>
    [event' = "DeployedNewCert" => order \in announced]_vars
<1> SUFFICES ASSUME IInv, Next, event' = "DeployedNewCert"
             PROVE  order \in announced
  OBVIOUS
<1> USE DEF IInv, TypeOK
<1>1. ASSUME NEW pem \in Pems, OrderSucceeds(pem) PROVE order \in announced
  BY <1>1 DEF AnnounceInv, OrderSucceeds, LoadsDone, TimerIdle, NoAction,
              AccountStore
<1>2. CASE CertStoreCompletes
  BY <1>2 DEF CertStoreCompletes
<1>3. CASE AccountStoreCompletes
  BY <1>3 DEF AccountStoreCompletes
<1>4. CASE TimerFires
  BY <1>4 DEF TimerFires
<1>5. CASE CertLoadCompletes
  BY <1>5 DEF CertLoadCompletes, ProcessCert
<1>6. CASE AccountLoadCompletes
  BY <1>6 DEF AccountLoadCompletes
<1>7. CASE OrderFails
  BY <1>7 DEF OrderFails
<1>8. CASE ScheduleOrder
  BY <1>8 DEF ScheduleOrder
<1>9. CASE Restart
  BY <1>9 DEF Restart
<1>10. QED
  BY <1>1, <1>2, <1>3, <1>4, <1>5, <1>6, <1>7, <1>8, <1>9 DEF Next, Poll

(* Spec 5(a), for every set of keys and every number of restarts: the     *)
(* engine returns DeployedNewCert only for an order whose account key was *)
(* loaded from the cache or whose AccountCacheStore already returned.     *)
THEOREM AnnouncedBeforeDeploy == Spec => AccountAnnouncedBeforeDeploy
<1>1. Spec => []IInv
  BY InitIInv, NextIInv, PTL DEF Spec
<1>2. QED
  BY <1>1, DeployStep, PTL DEF Spec, AccountAnnouncedBeforeDeploy

=============================================================================
