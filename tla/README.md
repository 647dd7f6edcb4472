# A TLA+ model of SRH

SRH is an HTTP proxy in front of Redis: a request carries a bearer credential
and one command, a pipeline or a transaction; the proxy authenticates it,
charges it to its identity's rate limit, checks it against the command ACL,
borrows a Redis client from the pool of its identity, runs it and answers in
JSON. This directory models the parts of it in which threads, futures that can
be dropped at any await, clocks and background tasks meet, checks them with TLC
on small instances, and proves with TLAPS what must hold on every instance.

Source paths below are relative to the repository root.

## 1. Inventory

| Component | Source | State | Operations | What makes it correct |
|---|---|---|---|---|
| Circuit breaker | `src/domain/breaker.rs` | state, failure count, opening instant, generation (one mutex) | admit, record, cancel | one probe at a time; late outcomes change nothing; half-open ends; Retry-After is honest |
| Breaker executor | `src/adapters/breaker_executor.rs` | permit, `recorded` flag | execute, pipeline, transaction, drop | every permit is redeemed once |
| Pool acquisition | `src/adapters/pool_manager.rs` (`acquire_entry`, `acquire_client`, the guards), `src/ports/mod.rs` (`ExecutorHandle`) | waiter count, semaphore, lease mutex per client, round-robin counter | acquire, use, release; drop at each await | nothing leaks on any exit path; one request per client; requests end |
| Pool manager | `src/adapters/pool_manager.rs` | map of built pools, `last_used`, connection tasks | get_or_build, evict_idle, shutdown, readiness | no request on a quitting pool, no pool lost |
| Lifecycle and maintenance | `src/main.rs` | stop flag, drain deadline, maintenance task | accept, drain, sweep, close | a stop signal leads to a clean exit |
| Rate limiter | `src/domain/rate_limit.rs` | buckets, two recency indexes, forgiveness counter (one mutex) | probe, charge, sweep_idle, eviction | the limit, bounded memory, debt is not forgotten |
| HTTP layer | `src/http/mod.rs`, `command.rs`, `pipeline.rs`, `multi_exec.rs`, `extractors.rs`, `observability.rs`, `src/error.rs` | places, in-flight gauge | three endpoints behind load shed, concurrency limit, timeout | order of the checks; what an early return has charged and run; replies in their slots |
| Redis executor | `src/adapters/fred_executor.rs` | operation lock per client, reset flag per executor | execute, pipeline, transaction; readiness PING | a pooled connection is never left inside a transaction; all or nothing |
| JWKS cache | `src/adapters/http_jwks.rs` | keys, fetch and forced-refresh instants, refresh lock | key_for, refresh | one refresh at a time; bounded forced refreshes; recent keys |
| JWT, introspection cache | `src/adapters/jwt_auth.rs`, `http_introspect.rs` | verdicts with expiry, LRU index | authenticate, get, insert, sweep | verdicts expire; bounded memory; key and algorithm fit |
| Static tokens, chain | `src/adapters/static_auth.rs`, `auth_chain.rs` | none | authenticate | first link that claims the credential decides |
| ACL | `src/domain/acl.rs`, `compat.rs` | none | check, normalize | denied commands never reach Redis, under any spelling or policy |
| Config | `src/config.rs` | none | load, validate | accepted configurations work; a token reaches its own Redis |
| Parsing | `src/http/parse.rs` | node budget | command, pipeline | exact at its limits |
| Conversion | `src/domain/convert.rs` | response budget | charge, write | what is charged is what is written |
| Outbound HTTP, clock, profiling | `src/adapters/outbound_http.rs`, `system_clock.rs`, `src/bin` | none | I/O | - |

How they interact: a handler future runs authentication, `RateLimiter::probe`,
body and parser, `RateLimiter::charge`, ACL and then `PoolManager::acquire`.
The pool entry's breaker, waiter count, semaphore and leases are shared by all
handlers of that pool and meet only in atomic operations; the handler holds
what it took in guards whose `Drop` gives it back. tower's timeout or a client
that goes away drops the future at an await. The maintenance task evicts idle
pools and sweeps the rate limiter every minute; `main` stops both.

Hard behaviours: outcomes recorded long after their admission; guards dropped
at any of several awaits, in Rust's drop order; permit and lease released in
two steps; clocks read before a lock; eviction against lookup; shutdown against
all of it. `PROJECT.json` lists the hazards with the line each one bites at and
the property that watches it.

## 2. Modules

| Module | Role |
|---|---|
| `BreakerCore` | the breaker's methods as operators on the value its mutex protects |
| `Breaker` | those operators taken as steps by freely interleaved callers; its properties; the inductive invariant |
| `CircuitBreaker` | abstract specification: what a breaker promises, with no generation, count or clock |
| `Acquire` | one pool entry under concurrent requests; uses `BreakerCore`, refines `CircuitBreaker` |
| `AcquireMetrics` | `Acquire` with the permits gauge operators watch |
| `PoolManager` | build, lookup, eviction, shutdown of the pools |
| `RateLimiter` | the token buckets and their indexes |
| `RateLedger` | `RateLimiter` held against an ideal bucket |
| `Redis` | the executors, leases and operation locks of one pool, readiness PINGs, and the connections as Redis sees them |
| `Jwks` | the key cache, its refresh lock and the issuer's rotation |
| `Introspection` | the verdict cache under overlapping introspections |
| `Gateway` | the stages of a request in the HTTP layer and everything that can end it |
| `Acl`, `Config`, `Identity`, `Parse`, `Convert` | the pure functions: command policy, configuration, credentials, bodies, replies |
| `DataPath` | policy, configuration and credentials put together, from the start of the process to the response; the conversions of bodies and replies are parameters |
| `Wire` | `DataPath` with `Parse` and `Convert` for those parameters |
| `BreakerProofs`, `AcquireProofs`, `RedisProofs`, `PoolManagerProofs`, `RateLedgerProofs`, `IntrospectionProofs`, `JwksProofs` | the theorems about the module each is named after |
| `RequestProofs` | the theorems about `DataPath` and `Gateway`, and that their handlers agree |
| `MC*` | instances for TLC |

Operators whose comment begins with "Mutant" are no part of the model: each is
a plausible mistake in the definition that follows it, and `PROJECT.json`
names, for every checked property, the mistake that the property catches.

### Breaker

`breaker` is `Inner` with `opened_at` replaced by its age in ticks, saturated
at the cooldown (the code compares nothing beyond it). `Admit` and `Refuse` are
the two results of `admit`, `Record` is `record`, `Cancel` is `cancel`; a caller
keeps its `BreakerPermit` for as long as it likes. `quiet` and `hint` are
history: the time since a failure last counted, and the Retry-After a caller is
waiting out. The generation is a natural number, not a wrapping u64.

### Acquire

`pc` follows a request through `acquire_entry`; the picture is in the module's
header. One action is one atomic step of the code. Where the future can be
dropped (`waiting`, `lease_wait`, `executing`), `LeaveQueue`, `AbandonLease` and
`Abort` begin to unwind the guards in Rust's order: the waiter slot or the
semaphore permit before the admission guard, which is why `unwinding` is a state
of its own. `ReleasePermit` and `ReleaseLease` are two steps since `PoolLease`
drops its fields in declaration order. Which of its errors count as failures is
`Complete`'s choice of `failed`.

### AcquireMetrics

The gauge follows the code line by line: up after the semaphore, down in
`PoolLease::drop`; the step that forgets it is visible in `SilentStep`.

### PoolManager

One name of the map. `entered` is the stretch from `get_or_build` to the waiter
count, which has no await; `using` is the rest, during which the waiter count or
a permit shows the request to `evict_idle`. The model assumes that the clock
does not move by whole ticks while a request is `entered`: eviction needs
fifteen minutes without a lookup, the stretch takes microseconds. `forced`
remembers that the drain deadline passed with requests in flight.

### RateLimiter and RateLedger

`Begin` reads the clock, `AccessKnown` and `AccessNew` are the critical section
of `access` for a known and for a new identity, `SweepBegin` and `Sweep` those
of `sweep_idle`. A tick refills one token; balances are whole (the code's are
floating-point). `RateLedger` adds, per identity, the balance of an ideal bucket
that charges at the instant the lock is held, the time its accesses spent
between clock and lock, and the Retry-After being waited out. An eviction starts
an identity afresh in both.

### Redis

A connection is `multi`, `queue` and `spoilt`, as Redis keeps them; `Answers`
(external) says what Redis may reply to a command and what it then ran. `raw`
is one `custom_raw` call with `map_error`: answered, timed out (with the reset,
once per executor) or lost, and in the last two cases the command may have run.
`Lock`, `Multi`, `Queue`, `Discard` and `Exec` follow `transaction`; `Execute` is
`execute` and `pipeline`. `Drop` is the handler's future going away, at the
awaits in `DropsAt`; `Reconnect` is fred replacing a connection, at any time, of
which the handler is not told. `replaced` is history: the requests this happened
to between MULTI and their last queued command. A PING takes no lease, only the operation lock, and gives up after
`READINESS_TIMEOUT`. Assumed of fred: commands of one client arrive in order,
every call ends within its timeout, a forced reconnection happens.

### Jwks

A lookup reads whether a refresh is due, queues for the lock (tokio's mutex is
FIFO: `waiting` says who queued before each lookup), checks again, fetches discovery (once) and keys, replaces the
map, releases the lock and reads the map; an unknown key leads to one forced
refresh and a second read. Key `k1` comes and goes at the issuer, `k2` never
exists. Ages are saturated at what the code compares them with, and a request
takes at most `FetchMax`. `cut` and `requested` are history.

### Introspection

`Get` is the cache's `get`, `Decide` the moment the provider makes up its mind,
`StartInsert` the answer's arrival and clock reading, `Insert` the critical
section; between any two of them others run, and tokens are revoked or revived.
A thread's clock reading may be `Lag` old when it gets the lock.

### Gateway

What runs between two awaits is one action: `Admit`, `AuthSucceeds`, `Parsed`,
`Acquired`, `Executed` and their failures; `Timeout` and `Disconnect` take a
request from any await, and `Shed` and `OverLimit` answer one before it has
any. All requests share one bucket. `Status` is the table of
`error.rs`. Stages that other modules treat (breaker, pool, Redis) are
nondeterministic outcomes here.

### Acl, Config, Identity, Parse, Convert, DataPath and Wire

Names are words with a spelling (upper case or not), so every conversion of case
the code makes or leaves out is visible. JSON objects of a configuration are
functions, visited in every order a hash map may choose: what the loop over a
legacy file builds is defined by the first entry of each pool, what the loop
over a new file builds by the last entry of each token. A JWT carries what its
claims say and the key that signed it; a signature verifies for that key and
algorithm only. JSON bodies and RESP replies are trees; the bytes of a reply's
string are counted by what JSON makes of them (plain, quote or backslash,
control, not UTF-8), since the budget is charged one number and the body written
another. `DataPath` takes one
step per stage (`Load`, `Identify`, `Enter`, `Judge`, `Send`, `Answer`, `Read`)
and forgets what later stages do not depend on. The reference definitions its
properties compare with (`Session`, `Writing`, `Nodes`, `EntriesFor`...) are
written from Redis's and JSON's side, not from the code's tables. Being lists,
they are as good as they are complete: `NothingOutlivesTheRequest` says nothing
about a command that is neither in `Session` or `Waiting` nor in a table of
`acl.rs`, such as REPLCONF or ASKING.

`DataPath` asks three things of the conversions: what a body is read as, whether
an outcome is an error, and what is left of a response's budget. They are
constant operators, which `MCDataPath.cfg` sets to `ParseBody`, `OutcomeError`
and `ChargeSlots`; `Wire` states what those compute. The k-th result of Redis
belongs to the k-th command that was sent (`NthSent`), and the i-th slot takes
the result of its rank among them (`Rank`), as the two iterators of the pipeline
handler do.

## 3. Runs

| Run | Instance | Shows |
|---|---|---|
| `breaker` | 3 callers, threshold 2, cooldown 1.5 s | the inductive invariant with its named parts, cooldown before a probe, honest Retry-After, refinement of `CircuitBreaker` |
| `circuit_breaker` | 4 callers | recovery, whatever became of earlier probes |
| `acquire` | 3 requests, 2 clients, 1 queue slot | conservation of slots, permits, leases (`NothingLeaks`); every permit and probe of the breaker has exactly one carrier (`AdmissionsAccounted`); refinement of `CircuitBreaker`; requests end |
| `pool_manager` | 3 requests, arrivals until 2 builds | no request on a pool that quits (`PoolInUseIsLive`, with what shows a request to the sweep), every entry accounted for through eviction and shutdown (`NoPoolLeftBehind`); shutdown completes |
| `rate_limiter` | 3 identities for 2 buckets, 2 threads, sweeper | map and indexes in step, bounded (`BucketsAccounted`); the limit from both sides; Retry-After; debt |
| `redis` | 2 requests of any kind, a PING, 2 clients, 2 commands each | no connection left inside MULTI; lease and operation lock exclude, and nobody's command is in another's queue (`OperationsKeptApart`); what has been queued so far is what EXEC runs, all or nothing, but for one command of a transaction whose connection was replaced while it queued (`AtomicUnlessReplaced`); everything ends |
| `jwks` | 2 lookups, refresh period as long as the slowest refresh | one refresh at a time, in queue order, and the age of what is known along the way (`KeysAccounted`); spaced forced refreshes, recent keys, honest "unknown key", lookups end |
| `introspection` | 3 requests, 2 tokens, 1 cache entry | exact index and bound, age of every verdict cached or under way (`CacheConsistent`) and served |
| `gateway` | 3 requests, 2 places, a bucket of 2 | gauge, places and charges settle (`IndInv`), only paid and allowed commands run, unpaid parses are bounded, refusals changed nothing |
| `data_path` | some 450 launches, every command of the ACL's tables, every key family, bodies and replies up to the depth limit | the pure functions against their reference definitions |

Two runs end in a violation on purpose; each is a disagreement between the code
and what the repository says of it:

- `redis_dropped`: the HTTP timeout, or a client that goes away, drops a handler
  between MULTI and EXEC. Nothing sends DISCARD or resets the connection, which
  goes back to the pool inside the transaction: the next request's command is
  queued. `validate` makes the HTTP timeout longer than one command and its
  reset, not than a transaction's commands. The `redis` run, which drops
  handlers outside transactions only, shows that all other paths are clean.
- `metrics_permits`: a request dropped while it awaits a lease has counted
  itself into the permits gauge and never counts itself out.

Smaller disagreements met while modelling, without a run of their own:

- A request may wait for a client lease outside the waiter count and without
  `acquire_timeout`, while another is between giving back its permit and its
  lease (`srh-rust-spec.md:713` bounds both).
- A cancelled probe takes the breaker from half-open to open without an
  announcement, so the gauge stays at half-open (`srh-rust-spec.md:731`).
- The access counter of the rate limiter need not order buckets as
  `last_access` does (`rate_limit.rs:35`), and the eviction of an identity whose
  debt was repaid by waiting counts as forgiven (`rate_limit.rs:222`).
- A connection that fred replaces between MULTI and a queued command lets that
  command run by itself on the new connection, after which the request is
  answered with an error. `README.md:172` calls the endpoint atomic without this
  exception; `AtomicUnlessReplaced` states it with the exception, and without it
  (`Ran(r) \in {{}, CommandsOf(r)}` alone) the `redis` run fails.
- The escapes of JSON are not charged to the response budget. `convert.rs:87`
  charges "what will actually be written", and `README.md:706` and
  `srh-rust-spec.md:586` list string escaping among what the budget bounds; it
  does so only within a factor: a reply of control bytes is written with six
  characters for each byte charged (`ReplyWithinBudget`). The slots of a batch
  that hold errors are not charged at all.
- The 503 of a transaction or a command whose Redis call timed out
  (`command.rs:148`), like the 503 of the HTTP timeout, carries a Retry-After
  although the command may have run. `RefusalsChangeNothing` is about the other
  refusals.
- A second timeout of one executor does not reset the connection again
  (`srh-rust-spec.md:744`).
- A request whose client goes away leaves no audit line (`README.md:631`).
- A token configured as text and by its digest has the policy that the hash
  order puts last.

### Bounds

`MaxGeneration` stops admissions: 9 generations are four full trips of the
breaker in `breaker`; the 3 of `acquire` let it open, probe, and reopen or
close. Callers and requests interact pairwise through the
breaker, and through counters whose limits (2 clients, 1 slot) are below the
number of requests, so every limit is hit while others hold something; three
requests are the fewest with which a scan finds every lease taken. A
cooldown of 3 half-seconds makes Retry-After round. `MaxNow` and `MaxBuilds` in
`PoolManager` allow eviction, rebuilding, and eviction of the successor.
`MaxOrder` and `MaxNow` in `RateLimiter` allow debt, repayment, eviction of
either kind and a sweep with a stale instant.

In `redis`, two requests and a PING on two clients contend for a lease and for
an operation lock; with `Length` 2 a failure has commands before and after it.
`DropsAt` is a bound too, for the reason given with the runs. In
`jwks`, two lookups suffice for a queue behind the lock, and a refresh of two
slow requests is as long as the period, so a key can be due again when it
arrives. In `introspection`, three requests are the fewest for two overlapping
introspections and a hit on what they left. In `gateway`, one request more than
places and a bucket two requests empty. `data_path` has 16-bit numbers, so that
sums of timeouts overflow, two levels of replies and four of JSON, an integer of
twenty characters and a string of twenty control bytes: the replies for which
the two factors of `ReplyWithinBudget` are the smallest that hold.

Symmetry is used where only safety is checked. Where the model stops for good (`phase =
"exited"`), deadlock is not checked: the process has ended.

### Fairness

- `CircuitBreaker`: time passes, requests keep arriving, admitted requests end
  (timeouts), and a probe is not abandoned by its client every single time
  (strong fairness of a verdict).
- `Acquire`: a request takes its next step (tokio polls woken tasks; the waits
  and commands have timeouts), and whoever keeps waiting for a lease gets it
  (tokio's mutex is FIFO). Nothing is assumed of clients that drop requests.
- `PoolManager`: the maintenance task finishes its passes, and `main` its steps.
  Strong fairness covers `select!`, which picks at random when the interval and
  the stop flag are both ready. Requests need not end: the deadline covers them.
- `Redis`: a call ends within fred's timeout (weak fairness of a request's and a
  PING's steps); strong fairness of the operation lock, since tokio's mutex
  serves waiters in order. Nothing is assumed of drops and reconnections.
- `Jwks`: outbound requests end (they have a timeout), the lock is handed on in
  order, a lookup that was answered reads the map.

## 4. Proofs

The theorems hold for every value of the constants that satisfies the module's
ASSUME; TLC checks each of their properties, and each inductive invariant that is
itself a property, on the instance of its run. Numbers of requests, callers,
lookups, identities, clients, entries, and all periods and limits, are
arbitrary. Bounds that exist for TLC (`MaxGeneration`, `MaxNow`, `MaxBuilds`,
`MaxOrder`) only restrict a guard, and are arbitrary too.

### Breaker

From `BreakerConfig` (what `Config::validate` guarantees: positive threshold and
cooldown) and `BreakerBounds`:

- `BreakerInvariant`: `IndInv` is an invariant. The properties are not inductive
  by themselves: that half-open has one probe needs that permits of the current
  generation fit the current state (`PermitsAreFenced`), that a probe follows a
  quiet cooldown needs to relate `quiet` to the opening's age
  (`QuietSinceOpened`), and that Retry-After suffices needs to relate every
  outstanding hint to it (`HintsCoverCooldown`). One lemma per action; `Record`
  splits by what `record` does (`RecordedCases`) and by whether the generation
  changes (`NewGenerationFences`, `SameGenerationFences`).
- `BreakerTypeOK`, `OneProbe`, `TrippedBreakerKnowsWhen`,
  `ClosedIsBelowThreshold`, `ProbesAwaitCooldown`, `RetryAfterIsEnough` follow
  from it.
- `BreakerImplementsPromise`: every step is a step of `CircuitBreaker` or
  stutters, under the mapping that forgets generations and keeps what each
  permit is still worth (`TokenOf`).

### Acquire

From `PoolConfig` (finitely many requests, positive sizes) and `BreakerConfig`.

- `AcquireLeaksNothing`: waiter count, semaphore and leases are what the
  requests' positions say. The count of held permits is related to sets of
  requests by position; the round-robin scan needs that whoever holds a permit
  finds a client that is free or about to be (`PermitsFindClients`, a pigeonhole
  argument on the leases).
- `AdmissionsStayAccounted`: a permit of the current generation is carried by
  one request, in a position from which it will be redeemed; a half-open breaker
  has exactly one carrier of its probe. The methods of `BreakerCore` enter
  through one fact each: either the era stays or a new one begins.
- `AcquireRespectsBreaker`: the pool, with every drop and unwinding, refines
  `CircuitBreaker`.

### Redis

- `GuardsExclude`: leases and operation locks exclude each other on every path;
  no hypothesis.
- `OperationsStayApart` and `NoTransactionStaysOpen` assume
  `DropsOutsideTransactions`: no handler is dropped between MULTI and EXEC. The
  run `redis_dropped` shows that without it the conclusion is false, so the
  theorems say that this is the only way. The invariant (`Connected`) relates a
  connection's transaction to the stage of the one request that holds its lock;
  what makes it inductive is that a MULTI whose answer is lost is its executor's
  first exchange, whose timeout always forces the reset.
- `TransactionsAtomicUnlessReplaced` has no hypothesis: handlers may be dropped
  and connections replaced anywhere. The invariant needs, besides the guards,
  that a connection outside MULTI has an empty queue (`Settled`). A connection
  that a dropped handler left inside MULTI is then harmless to atomicity: it
  refuses the next MULTI, what is queued on it is never executed, and whoever
  sends EXEC had its own MULTI accepted. One lemma (`ExchangeOutcome`) says what
  an exchange of a transaction may have run, whether its answer came or not;
  the steps and the drops of all stages use it.

### PoolManager

`PoolsInUseStayLive` and `NoPoolIsLeftBehind`, from one invariant: entries are
built in order, at most one is live and it is the one in the map
(`EntriesKept`); a request that has entered has touched its entry since
(`TouchedWhileEntered`), which keeps the sweep away until the waiter count or a
permit does; phases of the shutdown come in order. That no tick passes while a
request is `entered` is the timing assumption of the module; with a clock that
may run there the statement would be false.

### Gateway

From finitely many requests and positive limits. `GatewayInvariant` counts
requests by stage against places, gauge, tokens and unpaid parses (`IndInv`).
`PaidAndAllowed`, `FreeParsesStayBounded` and the action property
`RefusalsAreHarmless` follow from it and the lemmas on `Cost` and `Status`.

### DataPath

From `ConfigConstants` (numbers wide enough for the defaults), the types serde
and `parse_env` let through (`LaunchesAssumption`), the three things the first
part of a credential can be (`BearersAssumption`) and commands that are a name
and arguments (`CallsAssumption`). Files, credentials, keys, claims, pipelines,
the width of numbers, the collisions of digest prefixes and all three
conversions are arbitrary.

- `PathInvariant`: `PathInv` is inductive. A stage forgets what came before, so
  the properties of a late stage need facts of an early one: that a token is
  what the operator wrote about it (`TokensAsWritten`, established by `Load`) for
  what its bearer reaches and for what is blocked for him; that an identity has
  the fields of one and blocks what the credential's owner was told not to run,
  in upper case (`IdentitiesBlock`); that a judgement is the ACL's on a request
  (`JudgementsAreTheAcls`); that nothing invalid goes on to Redis
  (`SentAreValid`). `PathTypeOK`, part of `ConfigurationsWork`, closes it.
- `ConfigurationsAlwaysWork`: `validate` is taken apart for each source of a
  configuration. The overrides leave limits and pools alone, the default of
  `maxWaiters` saturates instead of reaching 0, and `TotalTimeout` is the sum or
  is too large for any timeout.
- `TokensAlwaysReachTheirPool`: one lemma per format. The first entry of a pool
  and the last entry of a token exist in every order (a non-empty set of
  positions has a least and a greatest element); the entry that defines a legacy
  pool has, by `SameLegacyPool`, the connection of every other one.
- `CredentialsAlwaysHold`: `CacheableKey` gives an algorithm only to a signing
  key (by `use` and by `key_ops`) and only one of its family, and the chain stops
  at the JWT link.
- `NothingOutlives`, `PoliciesHold`: about every command and identity, from
  lemmas on `Check`: the commands in `Stays` are denied to everybody and no
  exemption for admins covers one; `Writing` and what read-only may run are
  disjoint; normalisation and case change nothing a rule looks at; a rule that
  narrows is the only difference between two identities' checks.
- `SlotsAlwaysAnswer`: `Rank` grows by one at each command that was sent, so the
  command a slot's result answers is the slot's own.
- `HandlersAgree`: `Verdict` and `Gateway`'s `AclError` decide alike on the ACL's
  answers. `PaidAndAllowed`, which takes those answers as given, is therefore
  about the commands that `PoliciesHold` speaks of.

### RateLedger

`BucketsStayAccounted`: `entries` and the two recency indexes are in step and
bounded. An access is seen as one change of the three (some buckets go, one is
put in); eviction needs that the index has a least entry and that it is a
bucket's. With it the balance
properties are inductive, each by one lemma about the ideal bucket:
`NobodyIsOvercharged`, `TheLimitHolds`, `RetryAfterIsEnough`. `DebtIsKept` is the
action property.

### Introspection

`CacheStaysConsistent`: `CacheConsistent` is inductive with the age of what is
cached and of what is under way (`VerdictsAged`) and distinct orders in the
index (`OrdersDistinct`). `VerdictsAreRecent`, an action property, follows.

### Jwks

From `JwksConstants` and the module's timing assumption (no tick between two
awaits, nor while the refresh lock is free and wanted). `KeysStayAccounted`:
`KeysAccounted` is inductive. The argument about age follows a decision of the
issuer: a refresh under way carries it and is as old as its request
(`AnswersAged`); the cache is as old as the refresh (`CacheAged`,
`ForcedAccounted`); a lookup in the queue whose key appears meanwhile has an
allowance of two requests for every refresh that ended before its turn
(`WaitersAged`), which a failed refresh raises and the lookup's place in the
queue bounds; whoever reads finds what remains of it (`ReadersAged`).
`ServedKeysAreRecent`, `UnknownKeysAreExplained` and `ForcedRefreshesAreSpaced`
are the action properties. The bound of `ServedKeysAreRecent` grows with the
number of lookups (`QueueDelay`), which two lookups do not show.

### What the proofs found in the model

The proof of `Redis` did not go through a `CASE` whose guards overlapped: TLC takes
the first that holds, TLA+ leaves the choice open. Such expressions, there and
in `Convert`, `DataPath`, `Identity` and `Parse`, are now chains of IF.

Three definitions around `DataPath` were right on the instance and wrong beyond
it. `Stays` counted REPLY anywhere among the arguments of CLIENT, but
`CLIENT LIST REPLY` leaves nothing behind, and an admin may run it. `EntriesFor`
read the connection of a pool whose entry may leave it out. And numbers too
narrow for the default HTTP timeout refute `AcceptedTimeoutsFit`, which is why
`ConfigConstants` bounds `MaxInt`. The first two cases are inputs of `data_path`
now.

### Model-checked only

- Liveness (`RequestsEnd`, `ShutdownCompletes`, `OperationsEnd`, `LookupsEnd`,
  `RecoversWithBackend`): fairness and ENABLED are out of the prover's reach.
- `ReplyWithinBudget` and `ParseIsExact`: they say what recursive functions
  compute on trees of any depth, an induction over data, which the prover cannot
  do. `Parse`, `Convert` and `Wire`, which declare RECURSIVE operators, are
  therefore kept out of every module with a theorem.
- The two runs that end in a violation.

## 5. Plan

Done: every component that keeps state or decides something is modelled and
checked, and every safety property is proved but the two about trees. What could
follow: shorter proofs of `Redis` and `RateLedger`, whose lemmas repeat case
splits; `Gateway` and `DataPath` as one specification, in which the ACL's answers
are computed and no longer chosen (`HandlersAgree` is the first step).

### Not modelled

The text of JSON, audit lines, logs and metric labels; TLS and signature
checking, which are libraries'; the list of fred's connection tasks; the error
paths of the accept loop; a disabled rate limiter, which does nothing;
`FredExecutor::connect`, which only tests call; the profiling binary and test
support. They keep no state that two actors share; where their results matter
they are nondeterministic inputs.
