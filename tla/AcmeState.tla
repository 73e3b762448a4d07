----------------------------- MODULE AcmeState -----------------------------
(***************************************************************************)
(* The certificate lifecycle engine of tokio-rustls-acme: the polled state *)
(* machine AcmeState of src/src/state.rs.                                  *)
(*                                                                         *)
(* poll_next_infinite runs a loop over six slots in a fixed priority: the  *)
(* queued early action (a cache store), the sleep timer, the one-shot cert *)
(* cache load, the one-shot account cache load, the order in flight, and  *)
(* finally the scheduling of a new order.  A slot whose future is pending  *)
(* makes the poll return Pending; the slots below it are not polled.  Each *)
(* action below is one branch of that loop taken because its future is    *)
(* ready: its guard is "every slot above it is empty", its result is any   *)
(* of the outcomes the future can produce.  The order future itself is    *)
(* abstracted to its result here (Ok(pem) or Err).                         *)
(*                                                                         *)
(* The persistent cache (the CertCache and AccountCache traits, DirCache   *)
(* in particular) survives a restart of the engine; a write in flight at a *)
(* crash may be lost, done, or, for a cache that does not write atomically *)
(* (DirCache uses fs::write), leave a torn file.                           *)
(***************************************************************************)
EXTENDS Naturals

CONSTANTS
  AccountKeys,    \* PKCS#8 account key pairs Account::generate_key_pair may return
  NoKey,          \* model value: Option::None for a key
  TornKey,        \* model value: the bytes of a partially written account file
  MaxBackoffCnt,  \* the saturation bound of backoff_cnt (16 in the code)
  MaxRestarts,    \* bound on crashes/restarts of the engine in one behaviour
  AtomicStore     \* TRUE iff the cache writes atomically (DirCache: FALSE)

ASSUME KeysAssumption == /\ AccountKeys # {}
                         /\ NoKey \notin AccountKeys
                         /\ TornKey \notin AccountKeys
                         /\ NoKey # TornKey
ASSUME BoundsAssumption == /\ MaxBackoffCnt \in Nat
                           /\ MaxRestarts \in Nat
                           /\ AtomicStore \in BOOLEAN

VARIABLES
  early_action,   \* queued cache store: [op |-> "none" | "cert" | "account", key]
  wait,           \* the Sleep timer: [kind |-> "none" | "renew" | "backoff", secs]
  load_cert,      \* TRUE while the one-shot cert cache load is still Some
  load_account,   \* TRUE while the one-shot account cache load is still Some
  order,          \* account key the in-flight order future runs with, or NoKey
  account_key,    \* the engine's account key, or NoKey
  backoff_cnt,    \* consecutive-failure exponent of the backoff sleep
  live_cert,      \* what the resolver serves: "none", "cached" or "new" cert
  cert_cache,     \* persisted cert slot: "none", "good" or "bad" (unparseable)
  account_cache,  \* persisted account slot: NoKey, TornKey or a key
  event,          \* the item the last step returned, "none" if the loop went on
  failures,       \* history: consecutive order errors since the last Ok order
  announced,      \* history: account keys loaded from, or stored to, the cache
  restarts        \* history: number of restarts so far

engine == <<early_action, wait, load_cert, load_account, order, account_key,
            backoff_cnt, live_cert>>
history == <<failures, announced, restarts>>
vars == <<engine, cert_cache, account_cache, event, history>>

-----------------------------------------------------------------------------
(* Values of the slots.                                                    *)

NoAction == [op |-> "none", key |-> NoKey]
CertStore == [op |-> "cert", key |-> NoKey]
AccountStore(k) == [op |-> "account", key |-> k]
NoTimer == [kind |-> "none", secs |-> 0]
RenewTimer == [kind |-> "renew", secs |-> 0]
BackoffTimer(n) == [kind |-> "backoff", secs |-> 2^n]

Min2(a, b) == IF a <= b THEN a ELSE b

Pems == {"good", "bad"}
OkEvents == {"DeployedCachedCert", "DeployedNewCert", "CertCacheStore",
             "AccountCacheStore"}
ErrEvents == {"CertCacheLoad", "AccountCacheLoad", "CertCacheStoreErr",
              "AccountCacheStoreErr", "CachedCertParse", "Order",
              "NewCertParse"}

(* What a failed or interrupted write leaves in a slot: the old content,  *)
(* or, when the cache does not write atomically, a torn file.              *)
Interrupted(old, torn) == IF AtomicStore THEN {old} ELSE {old, torn}

(* Account::generate_key_pair: a fresh random key, in particular not the   *)
(* one the cache holds.                                                    *)
FreshKeys == AccountKeys \ {account_cache}

(* create_with_keypair rejects bytes that are not a PKCS#8 key (KeyRejected) *)
(* before any request, so an order can only succeed with a real key.      *)
OrderCanSucceed(k) == k \in AccountKeys

TypeOK ==
  /\ early_action \in {NoAction, CertStore} \cup
                      {AccountStore(k) : k \in AccountKeys}
  /\ wait \in {NoTimer, RenewTimer} \cup
              {BackoffTimer(n) : n \in 0..MaxBackoffCnt}
  /\ load_cert \in BOOLEAN
  /\ load_account \in BOOLEAN
  /\ order \in AccountKeys \cup {NoKey, TornKey}
  /\ account_key \in AccountKeys \cup {NoKey, TornKey}
  /\ backoff_cnt \in 0..MaxBackoffCnt
  /\ live_cert \in {"none", "cached", "new"}
  /\ cert_cache \in {"none"} \cup Pems
  /\ account_cache \in AccountKeys \cup {NoKey, TornKey}
  /\ event \in OkEvents \cup ErrEvents \cup {"none"}
  /\ failures \in 0..(MaxBackoffCnt + 1)
  /\ announced \subseteq AccountKeys \cup {TornKey}
  /\ restarts \in 0..MaxRestarts

-----------------------------------------------------------------------------
(* AcmeState::new: both cache loads queued, nothing else.  The cache holds *)
(* whatever earlier runs left in it.                                       *)
EngineInit ==
  /\ early_action = NoAction
  /\ wait = NoTimer
  /\ load_cert = TRUE
  /\ load_account = TRUE
  /\ order = NoKey
  /\ account_key = NoKey
  /\ backoff_cnt = 0
  /\ live_cert = "none"

Init ==
  /\ EngineInit
  /\ cert_cache \in {"none"} \cup Pems
  /\ account_cache \in AccountKeys \cup
                       (IF AtomicStore THEN {NoKey} ELSE {NoKey, TornKey})
  /\ event = "none"
  /\ failures = 0
  /\ announced = {}
  /\ restarts = 0

(* process_cert: parse the PEM bundle (parse_cert); on success publish it  *)
(* with set_cert, arm the renewal timer and, for a new cert, queue the     *)
(* cert cache store.  A parse error only returns the error event.          *)
ProcessCert(pem, cached) ==
  \/ /\ pem = "bad"
     /\ event' = IF cached THEN "CachedCertParse" ELSE "NewCertParse"
     /\ UNCHANGED <<live_cert, wait, early_action>>
  \/ /\ pem = "good"
     /\ live_cert' = IF cached THEN "cached" ELSE "new"
     /\ wait' = RenewTimer
     /\ early_action' = IF cached THEN early_action ELSE CertStore
     /\ event' = IF cached THEN "DeployedCachedCert" ELSE "DeployedNewCert"

(* Every slot above the cache loads is empty.                              *)
TimerIdle == early_action = NoAction /\ wait = NoTimer
(* Mutant: the order is polled ahead of the queued early action.         *)
LoadsDoneIgnoringEarly == wait = NoTimer /\ ~load_cert /\ ~load_account

(* Every slot above the order is empty.                                    *)
LoadsDone == TimerIdle /\ ~load_cert /\ ~load_account

(* Mutant: the completed store future is left in early_action (missing   *)
(* self.early_action.take()).                                              *)
CertStoreCompletesNoTake ==
  /\ early_action.op = "cert"
  /\ \/ /\ cert_cache' = "good"
        /\ event' = "CertCacheStore"
     \/ /\ cert_cache' \in Interrupted(cert_cache, "bad")
        /\ event' = "CertCacheStoreErr"
  /\ UNCHANGED <<early_action, wait, load_cert, load_account, order,
                 account_key, backoff_cnt, live_cert, account_cache, history>>

(* The queued cert cache store finishes: Ok writes the new PEM bundle.    *)
CertStoreCompletes ==
  /\ early_action.op = "cert"
  /\ early_action' = NoAction
  /\ \/ /\ cert_cache' = "good"
        /\ event' = "CertCacheStore"
     \/ /\ cert_cache' \in Interrupted(cert_cache, "bad")
        /\ event' = "CertCacheStoreErr"
  /\ UNCHANGED <<wait, load_cert, load_account, order, account_key,
                 backoff_cnt, live_cert, account_cache, history>>

(* The queued account cache store finishes.                                *)
AccountStoreCompletes ==
  /\ early_action.op = "account"
  /\ early_action' = NoAction
  /\ \/ /\ account_cache' = early_action.key
        /\ event' = "AccountCacheStore"
     \/ /\ account_cache' \in Interrupted(account_cache, TornKey)
        /\ event' = "AccountCacheStoreErr"
  /\ announced' = announced \cup {early_action.key}
  /\ UNCHANGED <<wait, load_cert, load_account, order, account_key,
                 backoff_cnt, live_cert, cert_cache, failures, restarts>>

(* The renewal or backoff sleep elapses; the loop goes on.                 *)
TimerFires ==
  /\ early_action = NoAction
  /\ wait # NoTimer
  /\ wait' = NoTimer
  /\ event' = "none"
  /\ UNCHANGED <<early_action, load_cert, load_account, order, account_key,
                 backoff_cnt, live_cert, cert_cache, account_cache, history>>

(* The one-shot cert cache load finishes: Ok(Some(pem)) is processed as a  *)
(* cached cert, Ok(None) falls through, Err is returned as an event.       *)
CertLoadCompletes ==
  /\ TimerIdle
  /\ load_cert
  /\ load_cert' = FALSE
  /\ \/ /\ cert_cache # "none"
        /\ ProcessCert(cert_cache, TRUE)
     \/ /\ cert_cache = "none"
        /\ event' = "none"
        /\ UNCHANGED <<live_cert, wait, early_action>>
     \/ /\ event' = "CertCacheLoad"
        /\ UNCHANGED <<live_cert, wait, early_action>>
  /\ UNCHANGED <<load_account, order, account_key, backoff_cnt, cert_cache,
                 account_cache, history>>

(* The one-shot account cache load finishes: Ok(Some(bytes)) adopts the    *)
(* bytes as the account key without checking them.                        *)
AccountLoadCompletes ==
  /\ TimerIdle
  /\ ~load_cert
  /\ load_account
  /\ load_account' = FALSE
  /\ \/ /\ account_cache # NoKey
        /\ account_key' = account_cache
        /\ announced' = announced \cup {account_cache}
        /\ event' = "none"
     \/ /\ account_cache = NoKey
        /\ event' = "none"
        /\ UNCHANGED <<account_key, announced>>
     \/ /\ event' = "AccountCacheLoad"
        /\ UNCHANGED <<account_key, announced>>
  /\ UNCHANGED <<early_action, wait, load_cert, order, backoff_cnt, live_cert,
                 cert_cache, account_cache, failures, restarts>>

(* Mutant: Ok(pem) does not reset backoff_cnt.                            *)
OrderSucceedsNoReset(pem) ==
  /\ LoadsDone
  /\ order # NoKey
  /\ OrderCanSucceed(order)
  /\ order' = NoKey
  /\ failures' = 0
  /\ ProcessCert(pem, FALSE)
  /\ UNCHANGED <<load_cert, load_account, account_key, backoff_cnt,
                 cert_cache, account_cache, announced, restarts>>

(* The order future returns Ok(pem): reset the backoff, process the cert.  *)
OrderSucceeds(pem) ==
  /\ LoadsDone
  /\ order # NoKey
  /\ OrderCanSucceed(order)
  /\ order' = NoKey
  /\ backoff_cnt' = 0
  /\ failures' = 0
  /\ ProcessCert(pem, FALSE)
  /\ UNCHANGED <<load_cert, load_account, account_key, cert_cache,
                 account_cache, announced, restarts>>

(* Mutant: backoff_cnt incremented without the .min(16) saturation.       *)
OrderFailsUnsaturated ==
  /\ LoadsDone
  /\ order # NoKey
  /\ order' = NoKey
  /\ wait' = BackoffTimer(backoff_cnt)
  /\ backoff_cnt' = backoff_cnt + 1
  /\ failures' = Min2(failures + 1, MaxBackoffCnt + 1)
  /\ event' = "Order"
  /\ UNCHANGED <<early_action, load_cert, load_account, account_key,
                 live_cert, cert_cache, account_cache, announced, restarts>>

(* The order future returns Err: sleep 1 << backoff_cnt seconds, then      *)
(* increase backoff_cnt, saturating at MaxBackoffCnt.                      *)
OrderFails ==
  /\ LoadsDone
  /\ order # NoKey
  /\ order' = NoKey
  /\ wait' = BackoffTimer(backoff_cnt)
  /\ backoff_cnt' = Min2(backoff_cnt + 1, MaxBackoffCnt)
  /\ failures' = Min2(failures + 1, MaxBackoffCnt + 1)
  /\ event' = "Order"
  /\ UNCHANGED <<early_action, load_cert, load_account, account_key,
                 live_cert, cert_cache, account_cache, announced, restarts>>

(* Nothing is pending: take the account key, generating a fresh one and   *)
(* queueing its store when there is none, and launch a new order with it. *)
ScheduleOrder ==
  /\ LoadsDone
  /\ order = NoKey
  /\ \/ /\ account_key = NoKey
        /\ \E k \in FreshKeys :
             /\ account_key' = k
             /\ early_action' = AccountStore(k)
             /\ order' = k
     \/ /\ account_key # NoKey
        /\ order' = account_key
        /\ UNCHANGED <<account_key, early_action>>
  /\ event' = "none"
  /\ UNCHANGED <<wait, load_cert, load_account, backoff_cnt, live_cert,
                 cert_cache, account_cache, history>>

(* The AcmeState (with its resolver) is dropped, by a crash or by dropping *)
(* the Incoming stream, and AcmeState::new starts over on the same cache.  *)
(* A store in flight is lost, done, or torn.                               *)
Restart ==
  /\ restarts < MaxRestarts
  /\ restarts' = restarts + 1
  /\ early_action' = NoAction
  /\ wait' = NoTimer
  /\ load_cert' = TRUE
  /\ load_account' = TRUE
  /\ order' = NoKey
  /\ account_key' = NoKey
  /\ backoff_cnt' = 0
  /\ live_cert' = "none"
  /\ cert_cache' \in IF early_action.op = "cert"
                       THEN {"good"} \cup Interrupted(cert_cache, "bad")
                       ELSE {cert_cache}
  /\ account_cache' \in IF early_action.op = "account"
                          THEN {early_action.key} \cup
                               Interrupted(account_cache, TornKey)
                          ELSE {account_cache}
  /\ event' = "none"
  /\ failures' = 0
  /\ announced' = {}

Poll ==
  \/ CertStoreCompletes
  \/ AccountStoreCompletes
  \/ TimerFires
  \/ CertLoadCompletes
  \/ AccountLoadCompletes
  \/ \E pem \in Pems : OrderSucceeds(pem)
  \/ OrderFails
  \/ ScheduleOrder

Next == Poll \/ Restart

(* The consumer keeps polling the stream (WF on the engine); the CA issues *)
(* a parseable certificate to a well-formed account eventually if asked   *)
(* again and again (SF): the environment's promise, not the code's.        *)
Fairness == WF_vars(Poll) /\ SF_vars(OrderSucceeds("good"))

Spec == Init /\ [][Next]_vars /\ Fairness

-----------------------------------------------------------------------------
(* Properties.                                                             *)

(* The backoff sleep armed after the n-th consecutive order error is      *)
(* 2^min(n-1, 16) seconds (state.rs poll_next_infinite: 1 << backoff_cnt   *)
(* taken before the saturating increment; backoff_cnt reset on Ok).        *)
BackoffSchedule ==
  wait.kind = "backoff" =>
    /\ failures >= 1
    /\ wait.secs = 2^Min2(failures - 1, MaxBackoffCnt)

(* Spec 8.3: after n consecutive order failures the backoff sleep is      *)
(* 2^min(n, 16) seconds.                                                   *)
SpecBackoff ==
  wait.kind = "backoff" => wait.secs = 2^Min2(failures, MaxBackoffCnt)

(* Spec 5(a): the engine returns DeployedNewCert for a certificate only   *)
(* after the account key the order ran with was loaded from the cache or  *)
(* its account cache store returned (AccountCacheStore first): the order  *)
(* is not polled while the store queued by the scheduling is pending.      *)
AccountAnnouncedBeforeDeploy ==
  [][event' = "DeployedNewCert" => order \in announced]_vars

(* Spec 7: a failed attempt (order error, or a new cert that does not     *)
(* parse) arms the backoff: no new order is launched straight after it.   *)
NoImmediateReorder ==
  [][order = NoKey /\ order' # NoKey => event \notin {"Order", "NewCertParse"}]_vars

(* Spec 3(c): an account key persisted in the account cache is never     *)
(* replaced by a regenerated one.                                          *)
PersistedAccountKept ==
  [][(account_cache \in AccountKeys) => account_cache' = account_cache]_vars

(* The stream never stops renewing: while the consumer polls and the CA   *)
(* keeps issuing, a freshly issued certificate is deployed again and again. *)
RenewsForever == []<>(event = "DeployedNewCert")

-----------------------------------------------------------------------------
(* Refinement mapping onto CertPersistence: the live cert and the cert    *)
(* cache are observed as they are; a store is owed while the cert store    *)
(* queued by process_cert is the early action.                             *)
owedBar == early_action.op = "cert"

Persist == INSTANCE CertPersistence
             WITH served <- live_cert, stored <- cert_cache, owed <- owedBar

(* The engine keeps CertPersistence's promise: the certificate it serves  *)
(* and the one it persists change only as that specification allows.      *)
ImplementsCertPersistence == Persist!Spec

=============================================================================
