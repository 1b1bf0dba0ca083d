----------------------- MODULE LocalFallbackLimiter -----------------------
(***************************************************************************)
(* The in-memory limiter of one instance, for one policy and key: the      *)
(* three algorithms of algorithms.py, the state each leaves behind, when   *)
(* that state is evicted, and clear().  apply holds an asyncio lock and    *)
(* awaits nothing inside it, so it is one step.                            *)
(*                                                                         *)
(* Tokens are counted in units, as in TokenBucket: WindowMs to a token.    *)
(***************************************************************************)
EXTENDS Limiter, FiniteSetsExt

CONSTANTS Capacity,         \* policy.burst_capacity or policy.rate
          StateTtlSeconds   \* settings.local_fallback_state_ttl_seconds

ASSUME LocalFallbackAssumption ==
  /\ Capacity \in Nat \ {0}
  /\ StateTtlSeconds \in Int

VARIABLES algorithm,  \* policy.algorithm: it stays the same
          stored,     \* the key's entry in the dict of its algorithm
          cleared     \* history: whether clear() was called

localVars == <<clock, admitted, reply, algorithm, stored, cleared>>

Algorithm == {"fixed_window", "sliding_window_log", "token_bucket"}

\* No entry: its time has always passed.
NoState == [expires_at_ms |-> 0]

LocalInit ==
  /\ LimiterInit
  /\ algorithm \in Algorithm
  /\ stored = NoState
  /\ cleared = FALSE

StateTtlMs == Max({1, StateTtlSeconds}) * Second

\* _evict_expired runs before every lookup: it leaves the entry, or not.
Found == stored.expires_at_ms > now

-----------------------------------------------------------------------------
(* apply_fixed_window: a refused request is not counted. *)
\* A slip: the count of the last window is carried over.
FixedWindowCarriedOver ==
  IF Found THEN stored.value ELSE [window_start_ms |-> WindowStart(now), count |-> 0]

FixedWindowState ==
  IF Found /\ stored.value.window_start_ms = WindowStart(now)
  THEN stored.value
  ELSE [window_start_ms |-> WindowStart(now), count |-> 0]

FixedWindowAllowed == FixedWindowState.count + 1 <= Rate

FixedWindowNext ==
  IF FixedWindowAllowed THEN [FixedWindowState EXCEPT !.count = @ + 1] ELSE FixedWindowState

FixedWindowExpiry == Max({WindowStart(now) + WindowMs, now + StateTtlMs})

ApplyFixedWindow(r) ==
  LET reset == WindowStart(now) + WindowMs
  IN  /\ algorithm = "fixed_window"
      /\ stored' = [value |-> FixedWindowNext, expires_at_ms |-> FixedWindowExpiry]
      /\ Answer(r, Decision(FixedWindowAllowed,
                            Max({0, Rate - (FixedWindowState.count + 1)}),
                            reset, reset - now))
-----------------------------------------------------------------------------
(* apply_sliding_window_log: a list of times in the order they were added. *)
(* It is kept as the set of its entries, each with its place: leaving some *)
(* out changes the order of none.                                          *)
ActiveEvents ==
  IF Found THEN {e \in stored.value : e.at > now - WindowMs} ELSE {}

SlidingAllowed == Cardinality(ActiveEvents) < Rate

Appended(events) ==
  events \cup {[place |-> Max({0} \cup {e.place : e \in events}) + 1, at |-> now]}

First(events) == CHOOSE e \in events : \A f \in events : e.place <= f.place

SlidingReset(events) == (IF events = {} THEN now ELSE First(events).at) + WindowMs

\* A slip: the list goes when its oldest entry does.
SlidingExpiryOfOldest(events) == SlidingReset(events)

SlidingExpiry(events) == Max({SlidingReset(events), now + StateTtlMs})

ApplySlidingWindow(r) ==
  LET events == IF SlidingAllowed THEN Appended(ActiveEvents) ELSE ActiveEvents
      reset == SlidingReset(events)
  IN  /\ algorithm = "sliding_window_log"
      /\ stored' = [value |-> events, expires_at_ms |-> SlidingExpiry(events)]
      /\ Answer(r, Decision(SlidingAllowed, Max({0, Rate - Cardinality(events)}),
                            reset, Max({0, reset - now})))
-----------------------------------------------------------------------------
(* apply_token_bucket: the time of the refill is the clock's, even when    *)
(* that went back.                                                         *)
Token == WindowMs

Full == Capacity * Token

Available ==
  IF Found
  THEN Min({Full, stored.value.tokens + Max({0, now - stored.value.last_refill_ms}) * Rate})
  ELSE Full

TokenAllowed == Available >= Token

TokensLeft == IF TokenAllowed THEN Available - Token ELSE Available

\* A slip: the wait is rounded down.
TokenRetryRoundedDown == IF TokenAllowed THEN 0 ELSE (Token - Available) \div Rate

TokenRetryMs == IF TokenAllowed THEN 0 ELSE Ceil(Token - Available, Rate)

TokenExpiry == Max({now + Ceil(Full - TokensLeft, Rate) + StateTtlMs, now + Second})

ApplyTokenBucket(r) ==
  /\ algorithm = "token_bucket"
  /\ stored' = [value |-> [tokens |-> TokensLeft, last_refill_ms |-> now],
                expires_at_ms |-> TokenExpiry]
  /\ Answer(r, Decision(TokenAllowed, TokensLeft \div Token,
                        now + Ceil(Full - TokensLeft, Rate),
                        TokenRetryMs))
-----------------------------------------------------------------------------
Apply(r) ==
  /\ Fresh(r)
  /\ ApplyFixedWindow(r) \/ ApplySlidingWindow(r) \/ ApplyTokenBucket(r)
  /\ UNCHANGED <<clock, algorithm, cleared>>

\* A request for another key evicts this one's entry.
EvictExpired ==
  /\ stored # NoState
  /\ ~Found
  /\ stored' = NoState
  /\ UNCHANGED <<clock, admitted, reply, algorithm, cleared>>

\* clear() forgets everything; admitted counts from there.
Clear ==
  /\ stored # NoState
  /\ stored' = NoState
  /\ admitted' = {}
  /\ cleared' = TRUE
  /\ UNCHANGED <<clock, reply, algorithm>>

LocalClock ==
  /\ Tick \/ StepBack
  /\ UNCHANGED <<admitted, reply, algorithm, stored, cleared>>

LocalNext == LocalClock \/ EvictExpired \/ Clear \/ \E r \in Request : Apply(r)

LocalSpec == LocalInit /\ [][LocalNext]_localVars
-----------------------------------------------------------------------------
Room(h, t) ==
  CASE algorithm = "fixed_window" -> FixedWindowRoom(h, t)
    [] algorithm = "sliding_window_log" -> TrailingRoom(h, t)
    [] algorithm = "token_bucket" -> BucketRoom(Capacity, h, t)

LocalAllowed ==
  CASE algorithm = "fixed_window" -> FixedWindowAllowed
    [] algorithm = "sliding_window_log" -> SlidingAllowed
    [] algorithm = "token_bucket" -> TokenAllowed

(***************************************************************************)
(* Until the clock is first set back, what is kept in memory decides at    *)
(* every moment as the admissions since the limiter was last cleared       *)
(* would: eviction by another key's request and the passing of time never  *)
(* open or close a place.                                                  *)
(***************************************************************************)
MemoryDecides == steady => (LocalAllowed <=> Room(admitted, now))

(***************************************************************************)
(* Retry-After is the truth for the instance, until it is cleared or its   *)
(* clock set back: after that many seconds a request is let through, a     *)
(* whole second sooner none is.                                            *)
(***************************************************************************)
RetryAfterExact ==
  steady /\ ~cleared /\ ~reply.allowed =>
    LET retryAt == reply.at + reply.retry_after * Second
    IN  /\ now >= retryAt => LocalAllowed
        /\ now <= retryAt - Second => ~LocalAllowed

(***************************************************************************)
(* The policy's rate is "Number of requests or tokens added per window",   *)
(* and the fallback is there to enforce it: a request is let through only  *)
(* when the admissions in the window before it leave room.                 *)
(***************************************************************************)
EnforcesRate == LocalAllowed => Room(admitted, now)

(***************************************************************************)
(* The instance's limiter, used alone and until it is cleared or its clock *)
(* set back, is a limiter that remembers every admission.                  *)
(***************************************************************************)
FixedWindowPromise == INSTANCE Quota WITH
  Room <- FixedWindowRoom,
  binding <- steady /\ ~cleared /\ algorithm = "fixed_window",
  verdict <- [allowed |-> reply.allowed, at |-> reply.at]

SlidingWindowPromise == INSTANCE Quota WITH
  Room <- TrailingRoom,
  binding <- steady /\ ~cleared /\ algorithm = "sliding_window_log",
  verdict <- [allowed |-> reply.allowed, at |-> reply.at]

CapacityRoom(h, t) == BucketRoom(Capacity, h, t)

TokenBucketPromise == INSTANCE Quota WITH
  Room <- CapacityRoom,
  binding <- steady /\ ~cleared /\ algorithm = "token_bucket",
  verdict <- [allowed |-> reply.allowed, at |-> reply.at]

LocalImplementsQuota ==
  /\ FixedWindowPromise!Spec
  /\ SlidingWindowPromise!Spec
  /\ TokenBucketPromise!Spec
=============================================================================
