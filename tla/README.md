# TLA+ verification of the distributed rate limiter

This directory holds TLA+ models of the rate limiter in `app/`, the TLC
configurations that check them on small instances, and TLAPS proofs of the
results that hold for every rate, window, limit, lag, time to live, horizon and
number of concurrent requests. `PROJECT.json` maps every definition to the lines it models, lists the runs with their
properties, a plausible bug ("A slip: ..." in the modules) that breaks each
property, the hazards the properties are for, and the theorems.

## 1. The system

A FastAPI service decides whether a request may pass. Several instances share
one Redis (counters, cached policies, pub/sub) and one Postgres (policies).

| Component | State | Operations | Module |
|---|---|---|---|
| Fixed-window script (`redis/scripts.py`) | counter per window, TTL | evaluate | `FixedWindow` |
| Sliding-log script (`redis/scripts.py`) | sorted set, TTL | evaluate | `SlidingWindowLog` |
| Token-bucket script (`redis/scripts.py`, arguments from `services/rate_limiter.py`) | tokens, time of refill, TTL | evaluate | `TokenBucket` |
| Local fallback (`services/local_fallback_limiter.py`, `services/algorithms.py`) | per-key state in a dict, with expiry | apply, evict, clear | `LocalFallbackLimiter` |
| Rate limiter service (`services/rate_limiter.py`) | calls under way | evaluate: attempt, retry, recover | `RateLimiterService` |
| Policy cache (`services/policy_service.py`, `services/policy_cache.py`, listener in `main.py`) | cached list in Redis, snapshot per instance | read, invalidate, listen | `PolicyCache` |
| Multi-region simulation (`services/multi_region.py`) | two regions, a heap of events | one turn of the loop | `MultiRegion` |
| Policy store (`services/policy_service.py`, `models/`, `schemas/`, `api/admin.py`) | rows with versions | create, update, delete, upsert, list | `PolicyStore` |
| Policy matching, key building (`services/policy_matcher.py`, `services/key_builder.py`) | none (pure) | select_best_policy, build_rate_limit_key | `PolicyMatcher` |
| Config control sync (`services/config_control_sync.py`, `api/internal.py`) | none of its own | fetch, upsert by name | `PolicyStore` |
| Enforcement (`core/dependencies.py`, `api/internal.py`) | none | identity, response | `PolicyMatcher`, `RateLimiterService` |
| Lifespan (`main.py`) | listener task | startup checks, start, stop | `PolicyCache` |
| Scripts (`scripts/seed_demo_policies.py`, `scripts/run_benchmark.py`) | the policies they listed | list, create, update | `Provisioning` |
| Health, demo, metrics, logging, configuration, load generator | none that a decision reads | | not modelled |

How they interact: `enforce_rate_limit` resolves the policy through the policy
cache, then `RateLimiterService.evaluate` runs the policy's script in Redis. A
`RedisError` (a timeout, a lost connection) leads to a retry, and after the last
attempt to the instance's local fallback, if it is enabled, or to the policy's
failure mode. Admin calls and the config sync write policies to the database
and then invalidate: clear the own snapshot, `DEL` the cached list, `PUBLISH` a
message on which every instance's listener clears its snapshot.

What is hard here:

* time: windows, TTLs, rounding to seconds, and clocks (Redis `TIME`,
  `time.time()`) that can be set back;
* calls to Redis that fail for the caller and are executed anyway, late or twice;
* state that is lost: Redis keeps nothing on disk (`docker-compose.yml`), the
  fallback and the snapshots live in memory, pub/sub messages are not kept;
* several copies of the policies, each with its own idea of what is current;
* writes of policies that read, validate and commit without a lock or a check of
  the version, so that two of them can overlap;
* regions that decide on counts that are behind.

## 2. Modules

`Limiter` holds what the algorithms share: the clock in milliseconds, the
history of admissions, the answer given last, and the conversion of
milliseconds to the seconds of the headers (`Decision`). `peak` is the latest
time shown by the clock, `steady` says that it was never set back; both, and
`admitted`, are history that no action reads.

`Quota` is the abstract specification of a limiter: a request is admitted
exactly when the history of admissions leaves room for it, by a `Room` operator
that knows no counter, log or bucket (`FixedWindowRoom`, `TrailingRoom`,
`BucketRoom` in `Limiter`). It binds until the clock is first set back.

`FixedWindow`, `SlidingWindowLog`, `TokenBucket` are the Lua scripts. Redis runs
a script as one step on one reading of its clock, so `Eval(r)` is one action;
`Expire` is Redis reclaiming a key at any moment after its time, and a key past
its time is not seen even before that. Refusals change what the code changes:
the fixed window counts them, the log is trimmed, the bucket is refilled. Tokens
are counted in units of 1/`WindowMs`, so a refill per millisecond is `Rate`
units and the arithmetic is exact; the code uses floats, whose rounding is not
modelled.

`LocalFallbackLimiter` is the in-memory limiter of one instance with all three
Python algorithms; the policy's algorithm is chosen initially. `apply` holds a
lock and awaits nothing under it, so it is one action. `EvictExpired` is the
eviction done by another key's request. The list of a sliding log is kept as the
set of its entries with their places: trimming it keeps the order of what stays.

`RateLimiterService` is `evaluate` in several instances. An instance works with
a version of the policy, or with none (`view`), which `Refresh` changes to any
that was ever committed: what `PolicyCache` allows for a while. A script goes
onto the `wire`; it is executed (in time or long after), or lost; the caller
reads the answer or gets a `RedisError` in which case what was sent stays sent.
`Recover` is `_recover_after_redis_failure`; `Evaluated` and `Response` are what
the internal endpoint and `enforce_rate_limit` make of a decision. Time is the
number of the current window, and both limiters are counts per version and
window, which is what `FixedWindow` and `LocalFallbackLimiter` show them to be.
A version stands for one limit here. `PolicyStore` shows when that fails:
overlapping updates can give one version to two contents, and then the requests
under both share a counter. `setup` is a scenario: settings of the service and
bounds, chosen initially and never changed.

`PolicyMatcher` has the pure functions: the identity of a request, the policies
that match it, their scores, the best of them, and the key it is counted under.
A key is the record of its segments; each segment of the string names what it
stands for, and the separator is not modelled.

`PolicyStore` is the table and the requests that change it. A request is a
database session that reads (`GetForUpdate`, `upsert_policy_by_name`), commits
(`Insert`, `Update`, `Delete`), reads its row back (`Refresh`) and invalidates
(`Invalidate`, the steps of which are in `PolicyCache`). Postgres runs at READ
COMMITTED and nothing is locked between the read and the commit. SQLAlchemy's
part is modelled by what it does: an `UPDATE` sets the columns that differ from
what was read and the version, an `UPDATE` that matches no row raises, a
`DELETE` that matches none only warns. `Crash` cuts a request off anywhere.
`dirty`, `lost`, `overlap` and `seen` are history. A payload is what pydantic has
parsed (`Parsed`), `PolicyCreate` adds the schema's defaults, and `Valid` is what the
schema's validators check.

`Provisioning` adds the two scripts that write policies: the seed, which uses
`PolicyService` in one session, and the benchmark's preparation, which goes
through the admin API. Each lists the policies once and stops at the first
failure. `plan` says which of them run.

`PolicyCache` follows the list of active policies, known by its version, through
database, Redis cache and snapshots, while instances start (`run_startup_checks`
decides whether they get a listener, or with strict checks whether they start at
all) and stop. `settings` are `enable_policy_pubsub` and
`strict_startup_checks`, chosen initially. Every `await` that another task can get in
between is a step. Ages are kept in place of times, so that behaviours are
infinite and liveness can be checked. A command whose caller gave up (`FillFails`,
`InvalidateFails`) or went down (`Stop`) is never executed, or goes on the `wire`
and is executed at any later moment (`FillLate`, `DeleteLate`, `PublishLate`), as
scripts are in `RateLimiterService`: a SETEX may come after another's DEL, or
after its instance is gone. `Late` bounds how long a command outlives its caller;
a crash of Redis breaks the connections and ends it. Since any number of callers
may leave equal commands behind, executing one may leave one like it. A snapshot
that is too old counts as none: `get_fresh`, which alone reads it, returns none.
`missed` is history: part of an invalidation was lost, or one came before a read
with an old list, or its SETEX, was done.

`MultiRegion` is the loop of `simulate_multi_region_limit`, for all arguments that
it does not reject, negative numbers of requests and negative spacings included.

`MC*` modules only add the symmetry sets, scenarios and payloads that the
configurations use.

## 3. Runs

| Run | Checks |
|---|---|
| `fixed_window` | `WindowQuota`: no window admits more than `Rate`, although the clock is set back by up to the second of grace that the key's TTL has, and keys expire. `BoundaryBurst`: any stretch of a window's length holds at most twice `Rate`. `HeadersExact`, `ImplementsQuota`. |
| `sliding_window` | `LogRemembers`: trimming and the TTL, which only admissions renew, never drop an entry too early. `TrailingQuota`: any stretch of a window's length, less the clock's skew, holds at most `Rate`. `HeadersExact`, `ImplementsQuota`. |
| `token_bucket` | `RateBound`: no stretch admits more than a full bucket and its refill, also when the clock is set back. `HeadersExact`, `ImplementsQuota`. |
| `local_fallback` | For each algorithm: `MemoryDecides` (what is kept decides as all admissions since the last `clear()` would: evictions never open or close a place), `RetryAfterExact`, `LocalImplementsQuota`. |
| `local_sliding_eviction` | Violation of `EnforcesRate`, see findings. |
| `service` | `RedisQuota`: what Redis admits per version of the policy. `OverallQuota`: what Redis and the fallbacks of all instances admit together in a window, with restarts. `PlacesAccounted` (quota is wasted only by attempts that failed), `RefusalEarned`, `FailClosed`. |
| `service_answers` | `Answered`: every evaluation ends even if Redis never answers. |
| `service_failure_mode` | Violation of `FailureModeDecides`, see findings. |
| `policy_store` | `ChangesAnnounced`: no commit is left without an invalidation. `DeletedStaysDeleted`. Names are unique (in `TypeOK`). `RowsValid`, `AcknowledgedWasWritten`, `KeyTells`: what holds while writes do not overlap, and what holds even then (they delimit the damage of an overlap, they do not exclude it). `MostSpecificWins`: the precedence of policies, in every table reached. `ProvisioningHolds`: a script that ends well has done its work. |
| `policy_cache` | `StalenessBounded`: whatever is lost or executed late, no list is used that has been out of date for longer than the two TTLs, the reads that passed it on and the time a SETEX outlives its read. `InvalidationWorks`: an old list outlives an invalidation only if part of it was lost, or if a read with an old list, or a SETEX such a read left behind, was under way. `Converges`. |
| `multi_region` | `NoFalseBlock`, `OversubscriptionIsStale`, `NoLagNoOversubscription`, `StalenessBounded`, `Converges`. |
| `multi_region_lag` | Violation of `ReplicationLags`, see findings. |

`HeadersExact` and `RetryAfterExact` say that a refused request is let through
after the seconds it was told, and would not have been a whole second earlier.
They, `ImplementsQuota` and `LocalImplementsQuota` speak of the time until the clock is first set back.

What overlapping updates break, as the properties of `policy_store` delimit it:
two updates that each pass the validation can leave a row with a burst capacity
and an algorithm that has none, after which `list_policies` raises for every
request until the row is repaired (`RowsValid`: nothing else can be wrong with a
row); an update is acknowledged although another has overwritten, or it has not
written, a column it asked for (`AcknowledgedWasWritten` holds without
`overlap`); and a version is used twice or falls, so that two contents share a
key (`KeyTells`: always of one policy and one algorithm).

### Bounds

* Scripts: five requests with a rate of 2 (a bucket of 3), so a quota can be
  spent twice and a half; a window of 4 ms (two "seconds" of 2 ms), or 3 ms for
  the bucket so that a token takes a broken number of milliseconds; horizons of
  10 to 12 ms, past three windows and past every TTL; the clock set back by up
  to 2 ms, the full second of grace (half a window of the bucket, rounded up).
  `MaxCount` stops counting refusals
  one past the rate: the comparison cannot tell further counts apart.
* Local fallback: the same scale with a rate of 3; the state TTL equals the
  window in the passing run and is half of it in the violation.
* Service: a limit of 1, so every further request competes. Four scenarios:
  `Fallback` (four requests on two instances, one of which restarts), `Retries`
  (three requests with a retry each, a crash of Redis and of the instance, two
  windows, so a script can be executed in the window after it was sent),
  `Versions` (two versions, two instances that change between them at any time)
  and `Open` (`fail_open`, two requests, everything that can fail).
* Policy store: two requests at a time and three in all, which is one more than
  any overlap needs, from two bodies and five patches that turn the algorithm,
  the burst capacity, the name and the active flag around; one policy for a
  route and one for a route and a user. With the seed one other write, with the
  benchmark two (one to put a policy in its way, one to take it away), and each
  of the benchmark's scenarios.
* Policy cache: two instances, one read and one write at a time, one second each
  for the cached list, the longest read and the longest delay of a command whose
  caller is gone; a snapshot lasts until the next second; one such command at a
  time. A stale list needs one read, one write and one failure; two instances
  are needed for messages to others. With these bounds every term of
  `StalenessBounded` is reached. Messages on with lenient startup checks, which
  allow all that strict ones do, and messages off with strict ones.
* Multi-region: limits up to 4, lags up to 5 ms, up to 4 requests per region
  (and -1), spacings of -1 to 2 ms. The violation has a limit of 4, a lag of
  2 ms, a spacing of 1 ms and 4 requests, for which a decision changes.

Requests, instances and admin sessions are symmetric in the safety runs; liveness is checked
without symmetry. Deadlock checking is off only where the system stops: when all
requests are decided and the horizon is reached, or the simulation is over.

### Fairness

* `RateLimiterService`: a call that waits is ended by its answer or by the
  socket timeout of the Redis client, and a backoff is a finite sleep, so each
  call's next step is weakly fair. Nothing is assumed of Redis or the network.
* `PolicyCache`: time passes, and a read that has begun goes on. Nothing is
  assumed of Redis, the listener, or the writer's invalidation.
* `MultiRegion`: the loop runs on.

## 4. Findings

* `local_sliding_eviction`: when `window_seconds` is larger than
  `local_fallback_state_ttl_seconds`, the fallback evicts a sliding log that
  still holds admissions of the current window, and admits more than `rate`.
* `service_failure_mode`: with the local fallback enabled, the failure mode is
  never asked: a `fail_closed` policy lets requests through during an outage,
  which is not what `app/api/demo.py` tells callers. It is meant to be so:
  `tests/integration/test_failure_scenarios.py:62-90` asserts it of a
  `fail_closed` policy.
* `multi_region_lag`: a replication event carries no count; its handler reads
  the source's count on delivery, so with requests closer together than the lag
  the simulated lag is shorter than the configured one. In the trace a region
  blocks a request that it would accept if the lag were kept.

## 5. Proofs

TLAPS checks these theorems for all values of the constants that satisfy the
named assumptions. An invariant that a run checks is seldom inductive; below is
what each proof had to add, and why. Every inductive invariant was checked by
TLC before it was proved.

`LimiterProofs`: lemmas on windows, rounding, the flow of tokens, decisions, the
clock and finite sets of admissions.

`FixedWindowAndFallbackProofs`, first part (assuming that the clock is never set back by more than a
second, `FixedWindowAssumption`): `TypeCorrect`, `WindowQuotaHolds`,
`BoundaryBurstHolds`, `Refinement`, `HeadersExactHolds`. `WindowQuota` is not
inductive: after a counter has expired nothing in it says that its window is not
used again. The inductive invariant adds `CounterAgrees`: a counter that is
there agrees with the admissions up to the rate and lives for a second beyond
its window; if it is gone with admissions to its name, `peak` is past that
second, so the clock cannot come back. `BoundaryBurst` follows because a stretch
of a window's length touches two windows at most.

Its second part is about the local fallback, whose count of a window rests on
the same lemmas: `MemoryHolds`, `RetryAfterHolds`, `LocalRefinement`, for every
rate, window, capacity and time to live, until the clock is first set back. The
entry in memory is not what `MemoryDecides` speaks of, so the invariant
(`LocalInv`) says, for each algorithm, what an entry tells of the history and
what may be said when there is none. `FixedKept`: the entry counts the window of
the last request and lives to its end; without one, every used window is over.
`SlidingKept`: for every moment from a window ago on, as many entries as
admissions are later (`Lists`), and in the same order. `BucketKept`: what is held
is what the history leaves of a full bucket, no more and no less (`Ledger`), and
the entry lives until the bucket would be full. `Ledger` and `Lists` are about a
history and a value, not about variables, so what trimming, appending, pouring
and taking do to them are lemmas of their own. For a sliding log the theorems
have the hypothesis that the finding `local_sliding_eviction` shows to be needed:
a time to live of a window at least (`KeepsLongEnough`). `RetryAfterExact`
follows because the invariant `ReplyKept` speaks of the history only: at every
later moment it has room exactly when the wait is over (`WaitIsExact`).

`SlidingWindowLogProofs` (same assumption on the clock): `TypeCorrect`,
`LogRemembersHolds`, `TrailingQuotaHolds`, `Refinement`, `HeadersExactHolds`.
The quota speaks of admissions only; the step that admits is safe because
`LogRemembers` says that everything that could share a stretch with the new
admission is still in the log.

`TokenBucketProofs` (assuming that the clock is never set back by more than half
a window, `TokenBucketAssumption`): `RateBoundHolds`, `Refinement`,
`HeadersExactHolds`. `RateBound` bounds every stretch of time; what is inductive
is `Paid`, which bounds what was taken since a moment together with what is held
by a full bucket and what flowed in until the last refill. `KeyLives` says that
a key expires only when its bucket would be full, so that starting over is a
refill like any other (`RefillEffect`). The proof found the assumption: the time
of the last refill can be ahead of the clock that sets the key's time to live,
and the clock that finds the key gone can be behind the one that let it expire,
each by `MaxSkew`, and the time to live allows one window for both. With a skew
of a whole window TLC finds a stretch with one admission too many. For the
refinement `Exact` adds the converse of `Paid`, from the admission that last
found the bucket full.

`Refinement`, in all three: every step of the script until the clock is first
set back is a step of `Quota` or a stutter. The key fact is that what the script
finds (`Incr`, `Active`, `Refilled`) decides as the full history does.

`HeadersExactHolds`, in all three: the headers of an answer are a promise about
states to come, so the invariant (`ReplyInv`) says what the last answer tells of
the state it left, and that only an evaluation changes that state in a way that
matters. `CeilBounds`, and `WholeSeconds` from it, turn the rounded seconds back into milliseconds.

`RateLimiterServiceProofs`, for any number of instances, requests, attempts,
windows, versions and crashes: `ServiceInvariant`, and from it
`RedisQuotaHolds`, `OverallQuotaHolds`, `PlacesAccountedHolds`,
`RefusalEarnedHolds`, `FailClosedHolds`. None of these is inductive: a script may
be executed long after its caller has given it up. `ScriptInv`, `AnswerInv` and
`DecisionInv` follow a script from the wire to its execution, its answer and the
decision, each at most once. `GrantInv` ties the places given away to the
counter, with `Limit` more for every counter that was lost; `LocalInv` does it
for the count of a fallback. For `OverallQuota` the requests let through by
fallbacks have to be counted across instances and restarts, without a sum:
`SeatInv` gives each of them a seat of its own, in a life of a fallback, and
there are `Limit` seats to a life.

`PolicyCacheProofs`, for any number of instances, readers, writers and versions
and any times to live and delays: `CacheInvariant`, `TypeCorrect`,
`StalenessHolds`, `InvalidationHolds`. `StalenessBounded` is about the list that is used; `StaleInv`
bounds how far a list is out of date at every place on its way, in a read that
fills the cache, in the cache, in a read that takes it from there and in the
snapshot. `OldInv` says the same as `InvalidationWorks` of the lists that reads
hold, because that is what they put into the caches later. `WireInv` says both of
a SETEX whose read is gone.

`MultiRegionProofs`: `TypeCorrect`, `NoFalseBlockHolds`,
`OversubscriptionHolds`, `NoLagHolds`, `StalenessHolds`. For `NoLagHolds` the
invariant says that, without lag, a region is behind the other only while a
replication is due that goes before every request in the heap. For
`StalenessHolds`, `DeliveredCounts` says that a region has observed at least as
many acceptances of the other as are not under way any more.

`PolicyStoreProofs`, for any sessions, payloads and number of policies:
`TypeCorrect`, `RowsValidHolds`, `AcknowledgedHolds`, `KeyTellsHolds`,
`ChangesAnnouncedHolds`, `OneRowPerNameHolds`, `DeletedStaysDeletedHolds`.
`ChangesAnnounced` says that some request is still between its commit and its
answer, which is not inductive: that request may fail to read its row back, and
then invalidates nothing. The invariant `AnnouncedInv` asks for a request that is
sure to invalidate (`Owes`): one that has read its row back, or whose row is
there. When a row is deleted, the requests that had written it owe nothing any
more, but the delete does, from the same step on. `TableInv` and `SessionInv`
say that rows know their ids, that ids are given out in order, and that a
request under way is about an id of the table. `DataInv` is about contents: every
column of a row is valid by itself, whatever overlaps (`RowsInv`); what a request
is about to write was validated against the row it read (`AskedInv`); and without
overlap a policy's version has only grown (`SeenInv`), which is what keeps two
contents from sharing a key. The payloads are assumed to be parsed
(`PolicyStoreAssumption`): they give values of the right kind to columns only.
`ScriptsAnnounce`, `ScriptsReviveNothing` and `ScriptsKeepTheTable` say all this
with the scripts of `Provisioning` beside the admin API; the invariant adds that
what a script listed has ids of the table.

`MostSpecificHolds` and `ScriptsKeepResolving` (`MostSpecificWins` without and
with the scripts) rest on three facts. `list_policies` gives every active row a
place, because its order ranks any two rows (`PlacesTaken`). It ranks any two
rows because no two have the same `updated_at`: a row is stamped with the time
at which its transaction began, and a transaction writes one row (`StampInv`,
`ScriptStampInv`; the seed uses one session, so the time of the transaction it
has open is set aside, `SeedStamps`). And of finitely many scores one is exceeded
by none (`FirstExists`). The theorems assume that `None` is not a policy
(`"id" \notin DOMAIN Null`).

`ProvisioningDone`: `ProvisioningHolds` speaks of a script that has ended.
`ProgressInv` says, of one that has been alone so far, that what it listed is
still there (`Kept`), that everything it has turned to is done (`Done`) except for
the one policy that is being written, and what is known of that one at each stage
of its request (`Writing`).

Model-checked only:

* liveness (`Answered`, both `Converges`) needs fairness, which is out of the
  prover's reach.

Every other property of a passing run is stated by a theorem.

## 6. Not modelled

* The rounding of floating-point tokens.
* Metrics, logging, formatting of headers, the comparison of the admin token,
  health pings, demo routes: no decision reads what they keep.
* The load generator (`loadtests/`) and the benchmark's measurement and reports:
  they send requests and print; `run_multi_region_simulation.py` is a command
  line for the loop that `MultiRegion` models.
* Migrations beyond the table they create and its unique name.
* The columns `description`, `window_seconds` and `failure_mode` in
  `PolicyStore`: they are written like `rate` and no property tells them apart.
* Two requests that insert at the same time and wait for each other's
  transaction: the constraint is checked in the order of the commits.
* On a clock that is set back the local fallback's algorithms do admit more (the
  bucket refills an interval twice); no document promises otherwise and the
  properties end where the clock is first set back.

## 7. Plan

1. Done: the three scripts with `Quota`, the local fallback, the service with
   versions of the policy, the policy store with matching, keys, sync and the
   provisioning scripts, the policy cache with the lifespan, the simulation;
   proofs for all of them: every safety property that a passing run checks is
   stated by a theorem.
2. What would come next: the rounding of floating-point tokens, and liveness,
   once there is a prover for it.
