---------------------------- MODULE FixedWindow ----------------------------
(***************************************************************************)
(* FIXED_WINDOW_LUA: one counter per window, under a key that ends in the  *)
(* start of the window.  Every evaluation increments the counter, refused  *)
(* ones too, and the first one gives the key its time to live.  Redis runs *)
(* a script as one step, on one reading of its clock.                      *)
(***************************************************************************)
EXTENDS Limiter

CONSTANT MaxCount  \* evaluations counted per window (a bound)

ASSUME FixedWindowAssumption ==
  /\ MaxCount \in Nat
  /\ MaxSkew <= Second

VARIABLES counter,   \* counter[w]: the value under the key of window w, 0 if none
          expireAt   \* expireAt[w]: when that key expires

vars == <<clock, admitted, reply, counter, expireAt>>

Starts == {w \in Time : w % WindowMs = 0}

Init ==
  /\ LimiterInit
  /\ counter = [w \in Starts |-> 0]
  /\ expireAt = [w \in Starts |-> 0]

\* A slip: the key lives just as long as a window.
TtlWithoutGrace == WindowMs

\* A slip: the key lives for the grace only.
TtlOfGrace == Second

TtlMs == WindowMs + Second

\* What INCR returns for window w: a key past its time counts from nothing.
Incr(w) == (IF now <= expireAt[w] THEN counter[w] ELSE 0) + 1

\* A slip: the count before this request is compared.
AllowedOneMore(count) == count - 1 <= Rate

Allowed(count) == count <= Rate

\* A slip: the places left go below zero.
VerdictUnclamped(w, count) ==
  Decision(Allowed(count), Rate - count, w + WindowMs, w + WindowMs - now)

\* A slip: every refused request is sent away for a whole window.
VerdictWholeWindow(w, count) ==
  Decision(Allowed(count), IF Allowed(count) THEN Rate - count ELSE 0, w + WindowMs, WindowMs)

Verdict(w, count) ==
  Decision(Allowed(count),
           IF Allowed(count) THEN Rate - count ELSE 0,
           w + WindowMs, w + WindowMs - now)

Eval(r) ==
  LET w == WindowStart(now)
      count == Incr(w)
  IN  /\ Fresh(r)
      /\ count <= MaxCount
      /\ counter' = [counter EXCEPT ![w] = count]
      /\ expireAt' = IF count = 1 THEN [expireAt EXCEPT ![w] = now + TtlMs] ELSE expireAt
      /\ Answer(r, Verdict(w, count))
      /\ UNCHANGED clock

\* Redis reclaims a key whose time has passed.
Expire(w) ==
  /\ counter[w] # 0
  /\ now > expireAt[w]
  /\ counter' = [counter EXCEPT ![w] = 0]
  /\ UNCHANGED <<clock, admitted, reply, expireAt>>

AdvanceClock ==
  /\ Tick \/ StepBack
  /\ UNCHANGED <<admitted, reply, counter, expireAt>>

Next ==
  \/ AdvanceClock
  \/ \E r \in Request : Eval(r)
  \/ \E w \in Starts : Expire(w)

Spec == Init /\ [][Next]_vars
-----------------------------------------------------------------------------
TypeOK ==
  /\ LimiterTypeOK
  /\ counter \in [Starts -> 0..MaxCount]
  /\ expireAt \in [Starts -> Nat]

(***************************************************************************)
(* However late the counter is reclaimed and however the clock is set back *)
(* (by no more than the second of grace in PEXPIRE window_ms + 1000), no   *)
(* window admits more than Rate requests.                                  *)
(***************************************************************************)
WindowQuota == \A w \in Starts : Cardinality(InWindow(admitted, w)) <= Rate

(***************************************************************************)
(* What a caller can do at a window's edge: any stretch of WindowMs holds  *)
(* at most twice Rate admissions, whatever the clock did in between.       *)
(***************************************************************************)
BoundaryBurst ==
  \A s \in Time :
    Cardinality({e \in admitted : e.at >= s /\ e.at < s + WindowMs}) <= 2 * Rate

(***************************************************************************)
(* Until the clock is first set back the headers tell the truth.  A        *)
(* request that was let through is told how many more fit in its window;   *)
(* one refused is told a number of seconds after which a request is let    *)
(* through, and a whole second sooner none is.                             *)
(***************************************************************************)
HeadersExact ==
  steady =>
    /\ reply.allowed =>
         reply.remaining = Rate - Cardinality(InWindow(admitted, WindowStart(reply.at)))
    /\ ~reply.allowed =>
         LET retryAt == reply.at + reply.retry_after * Second
         IN  /\ now >= retryAt => Allowed(Incr(WindowStart(now)))
             /\ now <= retryAt - Second => ~Allowed(Incr(WindowStart(now)))

(***************************************************************************)
(* Until the clock is first set back the counter, with its refused         *)
(* requests counted and its keys expiring, decides exactly as the history  *)
(* of admissions would.                                                    *)
(***************************************************************************)
Promise == INSTANCE Quota WITH
  Room <- FixedWindowRoom,
  binding <- steady,
  verdict <- [allowed |-> reply.allowed, at |-> reply.at]

ImplementsQuota == Promise!Spec
=============================================================================
