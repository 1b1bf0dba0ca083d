---------------------------- MODULE TokenBucket ----------------------------
(***************************************************************************)
(* TOKEN_BUCKET_LUA, called with the capacity, the refill rate and the     *)
(* time to live that RateLimiterService._run_policy computes.  The code    *)
(* counts tokens in floating point; here a token is WindowMs units, and    *)
(* Rate units flow in per millisecond, so the arithmetic is exact.         *)
(***************************************************************************)
EXTENDS Limiter

CONSTANT Capacity  \* policy.burst_capacity or policy.rate

\* Twice: the clock can be set back before it sets the time to live of a key
\* that it has refilled, and again before it finds that this key is gone.
ASSUME TokenBucketAssumption ==
  /\ Capacity \in Nat \ {0}
  /\ 2 * MaxSkew <= WindowMs + 1

VARIABLES tokens,          \* the fields of the hash, in units
          last_refill_ms,
          expireAt         \* when the key expires; -1 when there is no key

bucket == <<tokens, last_refill_ms, expireAt>>

vars == <<clock, admitted, reply, bucket>>

Token == WindowMs

Full == Capacity * Token

Init ==
  /\ LimiterInit
  /\ tokens = Full
  /\ last_refill_ms = 0
  /\ expireAt = -1

\* A slip: PEXPIRE is given the window in seconds.
TtlInSeconds == WindowSeconds

\* max(window_ms, ceil(capacity / refill_per_ms + window_ms)) is the latter.
TtlMs == Ceil(Full, Rate) + WindowMs

\* HMGET finds the two fields, or neither once the key has expired.
Found == now <= expireAt

LastRefill == IF Found THEN last_refill_ms ELSE now

\* The tokens after the refill.  A clock that went back refills nothing.
Refilled ==
  LET held == IF Found THEN tokens ELSE Full
      due == held + (now - LastRefill) * Rate
  IN  IF now > LastRefill THEN (IF due < Full THEN due ELSE Full) ELSE held

Allowed == Refilled >= Token

Left == IF Allowed THEN Refilled - Token ELSE Refilled

\* A slip: the wait is rounded down.
VerdictRoundedDown ==
  Decision(Allowed, Left \div Token, now + Ceil(Full - Left, Rate),
           IF Allowed THEN 0 ELSE (Token - Refilled) \div Rate)

Verdict ==
  Decision(Allowed, Left \div Token, now + Ceil(Full - Left, Rate),
           IF Allowed THEN 0 ELSE Ceil(Token - Refilled, Rate))

\* A slip: the time of the refill follows the clock back.
StampNow == now

Stamp == IF now > LastRefill THEN now ELSE LastRefill

Eval(r) ==
  /\ Fresh(r)
  /\ tokens' = Left
  /\ last_refill_ms' = Stamp
  /\ expireAt' = now + TtlMs
  /\ Answer(r, Verdict)
  /\ UNCHANGED clock

\* Redis reclaims the key when its time has passed.
Expire ==
  /\ expireAt # -1
  /\ now > expireAt
  /\ expireAt' = -1
  /\ UNCHANGED <<clock, admitted, reply, tokens, last_refill_ms>>

AdvanceClock ==
  /\ Tick \/ StepBack
  /\ UNCHANGED <<admitted, reply, bucket>>

Next == AdvanceClock \/ Expire \/ \E r \in Request : Eval(r)

Spec == Init /\ [][Next]_vars
-----------------------------------------------------------------------------
(***************************************************************************)
(* No stretch of time holds more admissions than a full bucket and what    *)
(* flowed in during it allow.  A clock set back by MaxSkew and set right   *)
(* again must not be paid for twice: the stretch counts as MaxSkew longer, *)
(* once, however often that happens and whenever the key expires.          *)
(***************************************************************************)
RateBound ==
  \A s, t \in Time : s <= t =>
    Token * Cardinality({e \in admitted : s <= e.at /\ e.at <= t})
      <= Full + Rate * (t - s + MaxSkew)

(***************************************************************************)
(* Until the clock is first set back the headers tell the truth: how many  *)
(* whole tokens are left, when the bucket is full again if nothing more is *)
(* taken, and after how many seconds a refused request is let through, no  *)
(* whole second too late.                                                  *)
(***************************************************************************)
HeadersExact ==
  steady /\ admitted # {} =>
    /\ now = reply.at => reply.remaining = Refilled \div Token
    /\ now >= reply.reset_at * Second => Refilled = Full
    /\ ~reply.allowed =>
         LET retryAt == reply.at + reply.retry_after * Second
         IN  /\ now >= retryAt => Allowed
             /\ now <= retryAt - Second => ~Allowed

(***************************************************************************)
(* Until the clock is first set back the bucket, refilled only when it is  *)
(* used and forgotten when its key expires, decides exactly as the history *)
(* of admissions would.                                                    *)
(***************************************************************************)
TokenRoom(h, t) == BucketRoom(Capacity, h, t)

Promise == INSTANCE Quota WITH
  Room <- TokenRoom,
  binding <- steady,
  verdict <- [allowed |-> reply.allowed, at |-> reply.at]

ImplementsQuota == Promise!Spec
=============================================================================
