------------------------------ MODULE Limiter ------------------------------
(***************************************************************************)
(* What the three algorithms share, for one policy and one rate-limit key: *)
(* the clock in milliseconds that the algorithm reads, the requests it has *)
(* admitted so far, and the answer it gave last.                           *)
(*                                                                         *)
(* The clock is a wall clock (Redis TIME, or time.time() in the fallback), *)
(* so it can be set back: peak is the latest time it has shown, and        *)
(* MaxSkew bounds how far behind peak it can fall.  Times are counted from *)
(* a window boundary.                                                      *)
(*                                                                         *)
(* peak, steady and admitted are history: no code reads them, only         *)
(* properties do.                                                          *)
(***************************************************************************)
EXTENDS Integers, FiniteSets

CONSTANTS Request,        \* the requests that can be admitted (a bound)
          Rate,           \* policy.rate
          WindowSeconds,  \* policy.window_seconds
          Second,         \* milliseconds in a second: 1000 in the code
          MaxTime,        \* the time the clock stops at (a bound)
          MaxSkew         \* how far the clock can fall behind peak (a bound)

ASSUME LimiterAssumption ==
  /\ Rate \in Nat \ {0}
  /\ WindowSeconds \in Nat \ {0}
  /\ Second \in Nat \ {0}
  /\ MaxTime \in Nat
  /\ MaxSkew \in Nat

VARIABLES now, peak,
          steady,    \* whether the clock has never been set back
          admitted, reply

clock == <<now, peak, steady>>

Time == 0..MaxTime

WindowMs == WindowSeconds * Second

\* math.ceil(a / b) for a >= 0 and b > 0
Ceil(a, b) == (a + b - 1) \div b

Event(r) == [id |-> r, at |-> now]

(***************************************************************************)
(* RateLimiterService._parse_common_decision, and _to_decision in the      *)
(* fallback: milliseconds become whole seconds, rounded up, and a request  *)
(* that was allowed is told to retry after 0 seconds.  at records when.    *)
(***************************************************************************)
Decision(allowed, remaining, reset_at_ms, retry_ms) ==
  [allowed     |-> allowed,
   remaining   |-> remaining,
   reset_at    |-> Ceil(reset_at_ms, Second),
   retry_after |-> IF allowed THEN 0 ELSE Ceil(retry_ms, Second),
   at          |-> now]

DecisionType ==
  [allowed : BOOLEAN, remaining : Nat, reset_at : Nat, retry_after : Nat, at : Time]

EventType == [id : Request, at : Time]

LimiterTypeOK ==
  /\ now \in Time
  /\ peak \in Time
  /\ steady \in BOOLEAN
  /\ admitted \in SUBSET EventType
  /\ reply \in DecisionType

LimiterInit ==
  /\ now = 0
  /\ peak = 0
  /\ steady = TRUE
  /\ admitted = {}
  /\ reply = [allowed |-> TRUE, remaining |-> Rate, reset_at |-> 0,
              retry_after |-> 0, at |-> 0]

\* What the history of the clock says.
ClockInv == now <= peak /\ peak <= now + MaxSkew /\ (steady => now = peak)

\* r has not been admitted yet: a request is evaluated under its own uuid.
Fresh(r) == \A e \in admitted : e.id # r

\* Request r gets the answer d.
Answer(r, d) ==
  /\ reply' = d
  /\ admitted' = IF d.allowed THEN admitted \cup {Event(r)} ELSE admitted

\* One millisecond passes.
Tick ==
  /\ now < MaxTime
  /\ now' = now + 1
  /\ peak' = IF now + 1 > peak THEN now + 1 ELSE peak
  /\ steady' = steady

\* The clock is set back.
StepBack ==
  /\ \E t \in Time : t < now /\ t + MaxSkew >= peak /\ now' = t
  /\ peak' = peak
  /\ steady' = FALSE

-----------------------------------------------------------------------------
(***************************************************************************)
(* When a history of admissions leaves room for one more at time t, said   *)
(* without reference to any counter, log or bucket.                        *)
(***************************************************************************)
WindowStart(t) == t - (t % WindowMs)

InWindow(h, w) == {e \in h : WindowStart(e.at) = w}

\* fixed_window: fewer than Rate in the window of t.
FixedWindowRoom(h, t) == Cardinality(InWindow(h, WindowStart(t))) < Rate

\* sliding_window_log: fewer than Rate in the WindowMs before t.
TrailingRoom(h, t) == Cardinality({e \in h : e.at > t - WindowMs}) < Rate

(***************************************************************************)
(* token_bucket, for a bucket of cap tokens.  A token is WindowMs units and *)
(* Rate units flow in per millisecond.  There is a token at t iff from no  *)
(* earlier moment on have more been taken, this one included, than a full  *)
(* bucket and what flowed in since could give.                             *)
(***************************************************************************)
BucketRoom(cap, h, t) ==
  \A s \in {e.at : e \in h} \cup {t} :
    WindowMs * (Cardinality({e \in h : e.at >= s}) + 1) <= cap * WindowMs + Rate * (t - s)
=============================================================================
