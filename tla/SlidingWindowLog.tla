-------------------------- MODULE SlidingWindowLog --------------------------
(***************************************************************************)
(* SLIDING_WINDOW_LOG_LUA: a sorted set of the requests admitted in the    *)
(* last WindowMs, scored by time.  Each evaluation drops what has left the *)
(* window; an admission adds to the set and renews its time to live, a     *)
(* refusal does neither.                                                   *)
(***************************************************************************)
EXTENDS Limiter, FiniteSetsExt

ASSUME SlidingWindowAssumption == MaxSkew <= Second

VARIABLES log,      \* the members and scores of the sorted set
          expireAt  \* when its key expires

vars == <<clock, admitted, reply, log, expireAt>>

Init ==
  /\ LimiterInit
  /\ log = {}
  /\ expireAt = 0

\* A slip: the key lives just as long as a window.
TtlWithoutGrace == WindowMs

TtlMs == WindowMs + Second

\* The set as the script sees it: a key past its time is not there.
Live == IF now <= expireAt THEN log ELSE {}

\* A slip: the cutoff is the start of the fixed window.
ActiveInFixedWindow == {e \in Live : e.at >= WindowStart(now)}

\* A slip: the cutoff itself is kept.
ActiveWithCutoff == {e \in Live : e.at >= now - WindowMs}

\* What ZREMRANGEBYSCORE 0 cutoff leaves.
Active == {e \in Live : e.at > now - WindowMs}

Allowed(active) == Cardinality(active) < Rate

\* A slip: the newest entry is looked up.
ResetAtNewest(kept) ==
  IF kept = {} THEN now + WindowMs ELSE Max({e.at : e \in kept}) + WindowMs

ResetAt(kept) == IF kept = {} THEN now + WindowMs ELSE Min({e.at : e \in kept}) + WindowMs

RetryMs(kept) == IF ResetAt(kept) > now THEN ResetAt(kept) - now ELSE 0

\* A slip: the places left go below zero.
VerdictUnclamped(active, kept) ==
  Decision(Allowed(active), Rate - (Cardinality(active) + 1), ResetAt(kept), RetryMs(kept))

Verdict(active, kept) ==
  Decision(Allowed(active),
           IF Allowed(active) THEN Rate - (Cardinality(active) + 1) ELSE 0,
           ResetAt(kept), RetryMs(kept))

Eval(r) ==
  /\ Fresh(r)
  /\ log' = IF Allowed(Active) THEN Active \cup {Event(r)} ELSE Active
  /\ expireAt' = IF Allowed(Active) THEN now + TtlMs ELSE expireAt
  /\ Answer(r, Verdict(Active, log'))
  /\ UNCHANGED clock

\* Redis reclaims the key when its time has passed.
Expire ==
  /\ log # {}
  /\ now > expireAt
  /\ log' = {}
  /\ UNCHANGED <<clock, admitted, reply, expireAt>>

AdvanceClock ==
  /\ Tick \/ StepBack
  /\ UNCHANGED <<admitted, reply, log, expireAt>>

Next == AdvanceClock \/ Expire \/ \E r \in Request : Eval(r)

Spec == Init /\ [][Next]_vars
-----------------------------------------------------------------------------
TypeOK ==
  /\ LimiterTypeOK
  /\ log \in SUBSET EventType
  /\ expireAt \in Nat

(***************************************************************************)
(* The sorted set forgets an admission, by trimming or by expiring, only   *)
(* when the clock has been WindowMs past it: what it holds it holds long   *)
(* enough (PEXPIRE is renewed by every admission, and its extra second     *)
(* makes up for a clock set back before that), and never beyond Rate.      *)
(***************************************************************************)
LogRemembers ==
  /\ log \subseteq admitted
  /\ Cardinality(log) <= Rate
  /\ \A e \in admitted \ log : e.at + WindowMs <= peak
  /\ \A e \in log : e.at + WindowMs + Second <= expireAt + MaxSkew

(***************************************************************************)
(* Every stretch of time, not only those that start at a window boundary,  *)
(* holds at most Rate admissions.  A clock that is set back makes the log  *)
(* forget up to MaxSkew early, and the stretch is that much shorter.       *)
(***************************************************************************)
TrailingQuota ==
  \A s \in Time :
    Cardinality({e \in admitted : e.at >= s /\ e.at < s + WindowMs - MaxSkew}) <= Rate

(***************************************************************************)
(* Until the clock is first set back the headers tell the truth: how many  *)
(* more fit now, when the first place is given back, and after how many    *)
(* seconds a refused request is let through, no whole second too late.     *)
(***************************************************************************)
HeadersExact ==
  steady /\ admitted # {} =>
    /\ reply.allowed /\ now = reply.at => reply.remaining = Rate - Cardinality(Active)
    /\ now >= reply.reset_at * Second => Cardinality(Active) < Rate - reply.remaining
    /\ ~reply.allowed =>
         LET retryAt == reply.at + reply.retry_after * Second
         IN  /\ now >= retryAt => Allowed(Active)
             /\ now <= retryAt - Second => ~Allowed(Active)

(***************************************************************************)
(* Until the clock is first set back the trimmed and expiring log decides  *)
(* exactly as the full history of admissions would.                        *)
(***************************************************************************)
Promise == INSTANCE Quota WITH
  Room <- TrailingRoom,
  binding <- steady,
  verdict <- [allowed |-> reply.allowed, at |-> reply.at]

ImplementsQuota == Promise!Spec
=============================================================================
