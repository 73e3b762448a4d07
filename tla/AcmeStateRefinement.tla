------------------------- MODULE AcmeStateRefinement -------------------------
(***************************************************************************)
(* The lifecycle engine implements CertPersistence under the mapping of   *)
(* AcmeState (live_cert, cert_cache, owedBar), for every set of account   *)
(* keys, every number of restarts and atomic cache or not.                *)
(***************************************************************************)
EXTENDS AcmeStateProofs

(* Nothing is served before the one-shot cert cache load has run: the     *)
(* load is polled before any order.                                        *)
LoadInv == load_cert => live_cert = "none"

pvars == <<live_cert, cert_cache, owedBar>>

LEMMA InitLoadInv == Init => LoadInv
BY DEF Init, EngineInit, LoadInv

LEMMA NextLoadInv == LoadInv /\ [Next]_vars => LoadInv'
<1> SUFFICES ASSUME LoadInv, [Next]_vars PROVE LoadInv'
  OBVIOUS
<1> USE DEF LoadInv
<1>1. CASE CertLoadCompletes
  BY <1>1 DEF CertLoadCompletes
<1>2. ASSUME NEW pem \in Pems, OrderSucceeds(pem) PROVE LoadInv'
  BY <1>2 DEF OrderSucceeds, LoadsDone
<1>3. CASE Restart
  BY <1>3 DEF Restart
<1>4. CASE CertStoreCompletes \/ AccountStoreCompletes \/ TimerFires
           \/ AccountLoadCompletes \/ OrderFails \/ ScheduleOrder
  BY <1>4 DEF CertStoreCompletes, AccountStoreCompletes, TimerFires,
              AccountLoadCompletes, OrderFails, ScheduleOrder
<1>5. CASE UNCHANGED vars
  BY <1>5 DEF vars, engine
<1>6. QED
  BY <1>1, <1>2, <1>3, <1>4, <1>5 DEF Next, Poll

-----------------------------------------------------------------------------
(* A step that leaves the live cert, the cert cache and the queued cert   *)
(* store alone is a stutter of CertPersistence.                            *)
LEMMA Stutter ==
  /\ UNCHANGED <<live_cert, cert_cache>>
  /\ (early_action.op = "cert") = (early_action'.op = "cert")
  => UNCHANGED pvars
BY DEF pvars, owedBar

(* The cert cache load deploys a cached cert from a parseable entry      *)
(* before anything is served, or changes nothing CertPersistence sees.    *)
LEMMA CertLoadRefines ==
  TypeOK /\ LoadInv /\ CertLoadCompletes => [Persist!Next]_pvars
<1> SUFFICES ASSUME TypeOK, LoadInv, CertLoadCompletes PROVE [Persist!Next]_pvars
  OBVIOUS
<1>1. early_action = NoAction /\ live_cert = "none"
  BY DEF CertLoadCompletes, TimerIdle, LoadInv
<1>2. CASE cert_cache = "good" /\ ProcessCert(cert_cache, TRUE)
  BY <1>1, <1>2 DEF ProcessCert, CertLoadCompletes, Persist!Next,
                    Persist!DeployCached, owedBar, NoAction
<1>3. CASE cert_cache = "bad" /\ ProcessCert(cert_cache, TRUE)
  BY <1>3, Stutter DEF ProcessCert, CertLoadCompletes
<1>4. CASE UNCHANGED <<live_cert, wait, early_action>>
  BY <1>4, Stutter DEF CertLoadCompletes
<1>5. QED
  BY <1>2, <1>3, <1>4 DEF CertLoadCompletes, TypeOK, Pems

(* An order's parseable certificate is deployed only when no store is     *)
(* owed: the order is polled only once the early action is empty.          *)
LEMMA OrderSucceedsRefines ==
  ASSUME NEW pem \in Pems, OrderSucceeds(pem) PROVE [Persist!Next]_pvars
<1>1. early_action = NoAction
  BY DEF OrderSucceeds, LoadsDone, TimerIdle
<1>2. CASE pem = "good"
  BY <1>1, <1>2 DEF OrderSucceeds, ProcessCert, Persist!Next, Persist!DeployNew,
                    pvars, owedBar, NoAction, CertStore
<1>3. CASE pem = "bad"
  BY <1>3, Stutter DEF OrderSucceeds, ProcessCert
<1>4. QED
  BY <1>2, <1>3 DEF Pems

(* The queued cert store returns: the owed store is written or not.       *)
LEMMA CertStoreRefines == CertStoreCompletes => [Persist!Next]_pvars
BY DEF CertStoreCompletes, Persist!Next, Persist!StoreReturns,
       Persist!Unwritten, Interrupted, owedBar, NoAction

(* A restart cancels the engine: nothing is served, no store is owed, and *)
(* a store in flight is written, lost or torn.                             *)
LEMMA RestartRefines == Restart => [Persist!Next]_pvars
BY DEF Restart, Persist!Next, Persist!Cancel, Persist!Unwritten, Interrupted,
       owedBar, NoAction

LEMMA StepRefines ==
  TypeOK /\ LoadInv /\ [Next]_vars => [Persist!Next]_pvars
<1> SUFFICES ASSUME TypeOK, LoadInv, [Next]_vars PROVE [Persist!Next]_pvars
  OBVIOUS
<1>1. CASE CertStoreCompletes
  BY <1>1, CertStoreRefines
<1>2. CASE AccountStoreCompletes
  <2>1. early_action.op = "account" /\ early_action' = NoAction
    BY <1>2 DEF AccountStoreCompletes
  <2>2. QED
    BY <1>2, <2>1, Stutter DEF AccountStoreCompletes, NoAction
<1>3. CASE TimerFires \/ AccountLoadCompletes \/ OrderFails
  BY <1>3, Stutter DEF TimerFires, AccountLoadCompletes, OrderFails
<1>4. CASE CertLoadCompletes
  BY <1>4, CertLoadRefines
<1>5. ASSUME NEW pem \in Pems, OrderSucceeds(pem) PROVE [Persist!Next]_pvars
  BY <1>5, OrderSucceedsRefines
<1>6. CASE ScheduleOrder
  <2>1. early_action = NoAction
    BY <1>6 DEF ScheduleOrder, LoadsDone, TimerIdle
  <2>2. early_action' = early_action \/ early_action'.op = "account"
    BY <1>6 DEF ScheduleOrder, AccountStore
  <2>3. QED
    BY <1>6, <2>1, <2>2, Stutter DEF ScheduleOrder, NoAction
<1>7. CASE Restart
  BY <1>7, RestartRefines
<1>8. CASE UNCHANGED vars
  BY <1>8 DEF vars, engine, pvars, owedBar
<1>9. QED
  BY <1>1, <1>2, <1>3, <1>4, <1>5, <1>6, <1>7, <1>8 DEF Next, Poll

(* For every set of account keys and every number of restarts, atomic     *)
(* cache or not: a cached certificate is deployed only from a parseable   *)
(* entry before anything else is served, a new certificate only once the *)
(* store of the previous one has returned, and the cert cache is written *)
(* only by that owed store (spec 2(d), 4.4, 5(a)).                         *)
THEOREM RefinesCertPersistence == Spec => ImplementsCertPersistence
<1>1. Init => Persist!Init
  BY DEF Init, EngineInit, Persist!Init, Persist!Slots, Pems, owedBar, NoAction
<1>2. Spec => [](TypeOK /\ LoadInv)
  BY InitTypeOK, NextTypeOK, InitLoadInv, NextLoadInv, PTL DEF Spec
<1>3. QED
  BY <1>1, <1>2, StepRefines, PTL
  DEF Spec, ImplementsCertPersistence, Persist!Spec, Persist!vars, pvars

=============================================================================
