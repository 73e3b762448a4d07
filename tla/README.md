# TLA+ models of tokio-rustls-acme

This directory holds TLA+ models of the ACME certificate manager in `src/src`:
modules, TLC configurations, TLAPS proofs, and `PROJECT.json`. `PROJECT.json`
lists the components, the runs, the mutants, the map from definitions to source
lines, the findings, the hazards and the theorems.

## The system

| Part | Source | What it does |
|---|---|---|
| Lifecycle engine `AcmeState` | `state.rs` | A `Stream` polled by its consumer. Every poll tries, in priority order: a queued cache write (the "early action"), the renewal or backoff timer, the certificate-cache load, the account-cache load, the running order, and otherwise it schedules a new order. Each completed branch yields one event (`EventOk` / `EventError`). |
| Order future | `state.rs` `order`, `authorize` | Runs one ACME order: discover, account, new-order, then a loop on the order status. On `pending` it joins one `authorize` future per domain with `try_join_all`. `authorize` publishes a TLS-ALPN-01 validation key in the resolver, triggers the challenge and polls the authorization up to 5 times. `processing` is polled up to 10 times. |
| ACME client | `acme.rs`, `https_helper.rs` | Signed POST requests (with a fresh nonce each), directory, account creation, and the building of the validation certificate. Any transport error or non-2xx answer is an error. |
| Caches | `cache.rs`, `caches/*.rs` | The `CertCache` / `AccountCache` traits. `DirCache` keeps one file per key in a directory, named by a SHA-256 digest of the domain or contact list and the directory URL, and writes it with `fs::write`; `NoCache`, `TestCache`, `CompositeCache` and `BoxedErrCache` are the other implementations. |
| Resolver, acceptor, incoming | not in `src/` | Modelled from the spec where needed. The resolver serves the live certificate, or the validation key for an `acme-tls/1` handshake. The acceptor routes a ClientHello that advertises `acme-tls/1` to the challenge path. |
| Config | `config.rs` | The builder of the configuration: domains, contacts, directory URL and the cache. |
| Example server | `examples/low_level.rs` | Spawns the engine in a task, accepts TCP connections and spawns one task per connection: demultiplexer, handshake, response. |

How the parts interact:
- The engine owns the order future and polls it.
- The order future writes into the resolver through `set_auth_key`. The engine writes into it through `set_cert` when a certificate is deployed.
- The CA's validation handshake reads the resolver.
- The caches persist across restarts of the process. The resolver does not.
- A cache directory may outlive the configuration that filled it, and may be shared by several engines.

## Modules

### `AcmeState`: the engine (`state.rs` 146-439)

State:
- The five slots of the engine: `early_action`, `wait`, `load_cert`, `load_account` and `order`.
- `account_key`, `backoff_cnt`, and `live_cert` (what `set_cert` last published).
- The two persistent cache slots: `cert_cache` and `account_cache`.
- `event`: the item the last poll returned.
- Three history variables: `failures` (consecutive order errors), `announced` (account keys loaded or stored), and `restarts`.

Actions:
- One action per branch of `poll_next_infinite`. Its guard is "every higher-priority slot is empty". Its effect is the whole branch, including `process_cert` with `set_cert`, the renewal timer and the queued cache store.
- `Restart`: `AcmeState::new` over the surviving caches.

Abstractions:
- The order future is reduced to its result: Ok with a parseable or unparseable PEM, or Err. `AcmeOrder` models it step by step.
- `AtomicStore` chooses between an atomic cache and `DirCache`'s `fs::write`. With `fs::write`, a crash during a store can leave a torn value.

### `CertPersistence` and the engine's refinement (`AcmeState`, `AcmeStateRefinement`)

`CertPersistence` is what the engine promises about the certificate it serves and the one it persists (spec 2(d), 4.4, 5(a)):
- A cached certificate is deployed only from a parseable cache entry, and only before anything else is served.
- A new certificate is deployed only when the store of the previous one has returned.
- The cert cache is written only by that owed store. A cancellation may leave it as it was, written, or torn.

`AcmeState` instantiates it with:
- `served <- live_cert` and `stored <- cert_cache`;
- `owed <- owedBar`, which holds while the cert store queued by `process_cert` is the early action.

### `AcmeOrder`: one order attempt after another (`state.rs` 235-341, `acme.rs` 105-179)

State:
- The order future's position `opc`, its local copy of the status `ostatus`, and the processing-poll counter.
- Per domain: the authorize future's position `apc` and its poll counter.
- The resolver's validation keys `auth_keys`. Each key is recorded as the token generation it was built for.
- The ACME server: the status, token generation and triggered challenge of each domain's current authorization, and the status of the order.

Actions:
- One per await point of `order` and `authorize`.
- Every request may `Fail`. That ends the attempt and drops every authorize future, which is what `try_join_all` does on the first error.
- The server validates a triggered challenge through `Resolve`. It may also fail the validation for outside reasons.
- The server moves the order to ready or invalid, and issues the certificate.
- `NextAttempt` is the engine starting the next call. It first calls `set_cert` if the last call succeeded.

The server reuses pending and valid authorizations. It creates new ones, with new tokens, up to `MaxTokens` per domain; after that it refuses new orders, like a rate limit.

### `OrderCall` and the refinement (`AcmeOrder`, `AcmeOrderRefinement`)

`OrderCall` is what one call of `order()` promises the engine:
- The call runs, then returns Ok or Err.
- The CA authorizes domains. An authorization is not taken back during a call; it may expire between renewals.
- The CA issues only when every domain is authorized.
- Ok comes only with an issued order.

`AcmeOrder` defines the mapping and instantiates the abstract spec:
- `callBar`: "running" until `opc` is "ok" or "err".
- `authorizedBar`: the domains whose authorization is valid on the server.
- `issuedBar`: the server's order is valid.
- `Call == INSTANCE OrderCall WITH ...`, and the property `ImplementsOrderCall == Call!Spec`.

`AcmeOrder` has no expiry, so no step of it maps to `Expire`.

### `RenewalTime`: the renewal instant (`state.rs` 213-218)

- `process_cert`'s wait `max(0, na - (na-nb)/3 - now)`, computed on chrono durations (seconds plus nanoseconds).
- The division by 3 truncates toward zero and carries the remainder of the seconds into the nanoseconds.
- `NanosPerSec` stands for 10^9. The run uses 10, which like 10^9 is 1 modulo 3, so the carry behaves the same.

### `DirCache`: cache keys over shared directories (`caches/dir.rs`, `no.rs`, `composite.rs`, `config.rs`)

State:
- `config`: per engine, the configuration it was built with: domains, contacts, directory URL, and the directory (or `NoDir`, i.e. `NoCache`) of its cert half and of its account half. `cache(DirCache)` uses one directory for both; `cache_compose` any pair.
- `files`: per directory, the files by name. A file's content records what was stored in it (a certificate or an account, for which list and URL), or `Torn`.

Definitions and actions:
- `HashInput` is the byte string fed to SHA-256: every element followed by a zero byte, then the directory URL. `CertFileName` and `AccountFileName` add the prefixes. SHA-256 and base64 are taken to be collision free, so a name is its prefix and its byte string.
- `ReadIfExist` and `Write` are `read_if_exist` and `write`: a missing file is `None`, any other read error is an error, and a write error after `fs::write` has opened the file leaves it torn.
- `LoadCert` and `LoadAccount` route as `CompositeCache` does; `NoCache` loads nothing and stores nothing.
- Actions: `StoreCert`, `StoreAccount` (the stores the engine queues) and `Reconfigure` (the program started again with an edited configuration over the same directories).

## Runs

| Run | Config | Shows |
|---|---|---|
| engine_safety | `MCAcmeState.cfg` | With a non-atomic cache and two restarts: `TypeOK`; `BackoffSchedule` (the sleep after n failures is 2^min(n-1,16) s); `AccountAnnouncedBeforeDeploy` (no `DeployedNewCert` before its account's store or load); `ImplementsCertPersistence` (the engine implements `CertPersistence`, so the cert cache is written only by the store owed for a freshly deployed certificate). |
| engine_liveness | `MCAcmeState_Live.cfg` | `RenewsForever`: with an atomic cache, certificates are deployed infinitely often. |
| order_safety_liveness | `MCAcmeOrder.cfg` | `TypeOK`; `ValidationSeesKey` (a challenge the CA validates finds its key); `OrderTerminates` (every `order()` call returns); `ImplementsOrderCall` (the attempts implement `OrderCall`). |
| spec_backoff_exponent | `MCAcmeState_SpecBackoff.cfg` | violation: spec 8.3's 2^min(n,16) is not what the code does. |
| parse_error_no_backoff | `MCAcmeState_Reorder.cfg` | violation: an unparseable new certificate triggers an immediate re-order. |
| account_regenerated_on_load_error | `MCAcmeState_AccountKept.cfg` | violation: an account-cache load error replaces the persisted account key. |
| torn_account_key_stalls_renewal | `MCAcmeState_TornAccount.cfg` | violation: with `DirCache`, a torn account file stops renewal for good. |
| validation_key_outlives_authorization | `MCAcmeOrder_AuthKey.cfg` | violation: validation keys are never removed (spec invariant (b)). |
| cache_isolation | `MCDirCache.cfg` | `CacheIsolation`: one program restarted with any configuration over one directory never loads a certificate or account stored for another configuration. |
| renewal_point | `MCRenewalTime.cfg` | `RenewalPoint`: the timer ends at na - (na-nb)/3, rounded up by less than a nanosecond, or at once when that instant has passed (spec 8.2). |

Bounds:
- `MaxBackoffCnt = 16`, `MaxAuthPolls = 5` and `MaxProcessingPolls = 10` are the code's own literals, so saturation and both timeouts are reached.
- Two account keys, so that a new key can differ from the cached one.
- Two domains, so that two authorize futures interleave and one can be dropped by the other's error.
- `MaxTokens = 2`, so that an invalid authorization is replaced once.
- One or two restarts, so that a crash can hit every pending store.
- Caches: names are strings over two letters; domain lists have one or two of `a`, `b`, `ab`, contact lists none or one, and the directory URL is empty or `b`. So `["a","b"]` and `["ab"]`, or `["a"]` with URL `b` and `["ab"]` with the empty URL, feed the same letters to the digest and differ only in the zero bytes, and a domain list can equal a contact list. The directory holds one file at a time (`MaxFiles = 1`): a collision needs only one file, stored under one configuration and read under another.
- Renewal: validity times of 0..4 s and every arming instant in between, so that spans not divisible by 3 and instants past the renewal point both occur.

Fairness:
- The consumer keeps polling the engine (`WF` of `Poll`). The engine polls the order future, and `try_join_all` polls every authorize future (`WF`).
- The environment: the CA eventually validates a triggered challenge, and eventually moves an order on (`WF`). The engine's liveness also assumes the CA issues infinitely often when asked infinitely often (`SF` of a good `OrderSucceeds`). That is an assumption about the CA, not something the code guarantees.

Every property of a passing run has a mutant: a plausible bug in a mapped definition under which TLC finds the property violated (see `PROJECT.json`).

## Proofs

`AcmeStateProofs` proves `TypeCorrect`, `BackoffScheduleHolds` and `AnnouncedBeforeDeploy` for every set of keys, every saturation bound and every number of restarts. The inductive invariant `IInv` adds two conjuncts to `TypeOK`:
- `BackoffInv`: `backoff_cnt = min(failures, MaxBackoffCnt)`. It ties the counter to the failure history.
- `AnnounceInv`: an order runs with the engine's account key, and that key was announced unless its store is the queued early action.

`BackoffSchedule` alone is not inductive: a step that arms a sleep needs the counter's relation to the history. The action property follows from `IInv` by the lemma `DeployStep` and PTL.

`AcmeStateRefinement` proves `RefinesCertPersistence`: `Spec => ImplementsCertPersistence`, with `TypeOK` and `LoadInv` (nothing is served before the one-shot cert load has run). The step mapping:
- A good cached PEM from the cert load maps to `DeployCached`.
- A good PEM from an order maps to `DeployNew`. Its guard, no store owed, comes from `LoadsDone`.
- `CertStoreCompletes` maps to `StoreReturns`, and `Restart` to `Cancel`.
- Every other step is a stutter.

`AcmeOrderProofs` proves `OrderTypeCorrect` and `ValidationKeyServed` (always `ValidationSeesKey`) for every set of domains and every bound. Its `IInv` adds:
- `FutureInv`: authorize futures exist only inside the join, and a future before its last poll has an iteration left.
- `KeyInv`: a triggered challenge belongs to a pending authorization, and a future past a pending fetch has published that token's key.
- `ValidInv`: valid authorizations stay valid, and an order past its authorizations has all of them valid. So the `set_cert` of `NextAttempt` drops no key that a pending challenge needs.

`AcmeOrderRefinement` proves `RefinesOrderCall`: `Spec => ImplementsOrderCall`. The argument:
- Init maps to `OrderCall`'s Init.
- Every step maps to an `OrderCall` step or a stutter. Fail, OnInvalid and the timeouts map to Fail; Download to Succeed; Finalize or the CA's Issue to Issue; a successful validation to Authorize; NextAttempt to Retry.
- It reuses `AcmeOrderProofs`' `IInv`, whose `ValidInv` gives "every domain is valid" for Issue.
- It adds `PhaseInv`: no server order before new_order, and a valid copy of the order (or the download) means the server's order is valid. That is what Succeed needs.

`RenewalTimeProofs` proves `RenewalAtTwoThirds` (always `RenewalPoint`). It holds for every validity period, every clock reading and every `NanosPerSec` that is 1 modulo 3; chrono's 10^9 is. The inductive invariant `Armed` says an armed timer is `armed_at + WaitDuration(nb, na, armed_at)` for the deployed certificate. The arithmetic goes through four lemmas:
- `DivModNanos` and `NanosOfDelta`: normalizing a duration loses nothing.
- `DeltaOfSecs`: a span of whole seconds has no nanoseconds. This is the one nonlinear step. `ScaleBound` settles it by bounding the quotient from both sides.
- `ThirdOfCarry` and `ThirdOfSpan`: `checked_div` by 3 with its carry gives exactly `(s*N - s mod 3)/3` nanoseconds. Here `NanosPerSec mod 3 = 1` is used.
- `TimerAtRenewal` then reduces the timer to linear arithmetic over the products `na*N` and `nb*N`.

TLC checked every `IInv` as an invariant before it was proved. Only model-checked:
- Liveness (`RenewsForever`, `OrderTerminates`), because TLAPS does not handle liveness under fairness.
- `CacheIsolation`: it rests on the zero-separated encoding being injective, which is induction over the lists, out of the provers' reach.

## Not modelled
- JOSE signing, CSR and certificate construction: pure cryptography, abstracted to success or failure.
- The TLS client configuration and the EAB key of the builder; `BoxedErrCache` (it changes error types only) and `TestCache` (it generates certificates).
- The signed-request plumbing (`Account::request`, `Directory::nonce`): every request fetches a nonce of its own, so no state is shared between requests.
- The example server `examples/low_level.rs`, the acceptor and the Incoming stream (`acceptor.rs`, `incoming.rs`, not in `src/`): the spec promises nothing of the example, and the routing of handshakes is the spec's, not code of this repository.
- A process restart under a running order: the validation keys in the resolver are lost and the CA fails a validation it was asked for before; no model restarts `AcmeOrder`.
- Expiry of authorizations inside `AcmeOrder`; only `OrderCall` has it.
- Time: timers are abstracted to "fire eventually".

## Plan for later work
1. Restarts under a running order in `AcmeOrder`, with a property that bounds what they cost: the CA's pending validation fails at most once per authorization.
2. Two engines sharing a cache directory at once, and more than one file per directory, in `DirCache` (the state space grows fast with `Reconfigure`).
