------------------------ MODULE RateLimiterService ------------------------
(***************************************************************************)
(* RateLimiterService.evaluate in several instances that share one Redis,  *)
(* for one fixed_window policy: the policy as the instance knows it, an    *)
(* attempt to run the script, its failure by timeout or lost connection,   *)
(* the retry, the recovery into the local fallback or the failure mode,    *)
(* and the crashes of Redis (which keeps nothing on disk) and of           *)
(* instances.  enforce_rate_limit turns the decision into a response.      *)
(*                                                                         *)
(* What makes it hard: an attempt that failed may still be executed, late, *)
(* and what it took from the quota is not given back; and the counter's    *)
(* key carries the version of the policy, on which instances may disagree  *)
(* for as long as PolicyCache lets them.                                   *)
(*                                                                         *)
(* Time is the number of the current window.  FixedWindow and              *)
(* LocalFallbackLimiter show that within a window their state is a count.  *)
(***************************************************************************)
EXTENDS Integers, FiniteSets

CONSTANTS Request, Instance,
          Limit,     \* policy.rate
          Scenario   \* the settings and bounds to choose from

(***************************************************************************)
(* A scenario is                                                           *)
(*   retries       settings.redis_retry_attempts                           *)
(*   fallback      settings.enable_local_fallback_limiter                  *)
(*   failure_mode  policy.failure_mode                                     *)
(* and the bounds: the instances that run, how many requests come, the     *)
(* last window and the last version of the policy, and how often Redis and *)
(* instances crash.                                                        *)
(***************************************************************************)
ASSUME ServiceAssumption ==
  /\ Limit \in Nat \ {0}
  /\ \A c \in Scenario :
       /\ c.retries \in Int
       /\ c.fallback \in BOOLEAN
       /\ c.failure_mode \in {"fail_open", "fail_closed"}
       /\ c.instances \subseteq Instance
       /\ c.requests \in Nat
       /\ c.windows \in Nat
       /\ c.versions \in Nat \ {0}
       /\ c.outages \in Nat
       /\ c.restarts \in Nat

VARIABLES
  setup,     \* the scenario, which never changes
  window,    \* the current window
  policy,    \* the version of the policy in the database
  view,      \* view[i]: the version instance i finds; 0 when it finds none
  redisUp,   \* whether Redis is running
  counter,   \* counter[v, w]: its counter of version v and window w
  wire,      \* scripts sent and not yet executed
  answers,   \* results not yet read
  call,      \* call[r]: how far the evaluation of r has come
  decision,  \* decision[r]: what evaluate returned
  local,     \* local[i][v]: the FixedWindowState in instance i's fallback
  outages, restarts,
  grants,    \* history: the scripts that took a place, and in which window
  failed     \* history: the attempts that ended without an answer

policies == <<policy, view>>

vars == <<setup, window, policies, redisUp, counter, wire, answers, call, decision,
          local, outages, restarts, grants, failed>>

Window == 0..setup.windows

Version == 1..setup.versions

MaxAttempts == IF setup.retries + 1 > 1 THEN setup.retries + 1 ELSE 1

NoCall == [state |-> "idle", attempt |-> 0, version |-> 0]

NoDecision == [by |-> "nobody", allowed |-> FALSE, window |-> 0]

EmptyState == [window |-> 0, count |-> 0]

Init ==
  /\ setup \in Scenario
  /\ window = 0
  /\ policy = 1
  /\ view = [i \in Instance |-> 1]
  /\ redisUp = TRUE
  /\ counter = [k \in Version \X Window |-> 0]
  /\ wire = {}
  /\ answers = {}
  /\ call = [r \in Request |-> NoCall]
  /\ decision = [r \in Request |-> NoDecision]
  /\ local = [i \in Instance |-> [v \in Version |-> EmptyState]]
  /\ outages = 0
  /\ restarts = 0
  /\ grants = {}
  /\ failed = {}

\* The script that call[r] is waiting for.
Script(r) == [req |-> r, attempt |-> call[r].attempt, version |-> call[r].version]
-----------------------------------------------------------------------------
\* An update of the policy is committed, and its version rises.
UpdatePolicy ==
  /\ policy < setup.versions
  /\ policy' = policy + 1
  /\ UNCHANGED <<setup, window, view, redisUp, counter, wire, answers, call, decision,
                 local, outages, restarts, grants, failed>>

\* Instance i comes to work with another list: a newer one, an older one
\* that was cached again, or one from before the policy was created.  (A
\* bound: lists change only where there are versions to disagree on.)
Refresh(i) ==
  /\ setup.versions > 1
  /\ i \in setup.instances
  /\ \E v \in 0..policy : v # view[i] /\ view' = [view EXCEPT ![i] = v]
  /\ UNCHANGED <<setup, window, policy, redisUp, counter, wire, answers, call, decision,
                 local, outages, restarts, grants, failed>>
-----------------------------------------------------------------------------
\* _run_policy: an attempt goes out to Redis and is waited for.
Send(r, i, version, attempt) ==
  /\ call' = [call EXCEPT ![r] =
                [state |-> "waiting", attempt |-> attempt, at |-> i, version |-> version]]
  /\ wire' = wire \cup {[req |-> r, attempt |-> attempt, version |-> version]}
  /\ UNCHANGED <<setup, window, policies, redisUp, counter, answers, decision, local,
                 outages, restarts, grants, failed>>

Arrives(r, i) ==
  /\ call[r].state = "idle"
  /\ i \in setup.instances
  /\ Cardinality({q \in Request : call[q].state # "idle"}) < setup.requests

\* A request reaches evaluate on instance i, which finds its policy.
Submit(r, i) ==
  /\ Arrives(r, i)
  /\ view[i] # 0
  /\ Send(r, i, view[i], 1)

\* Without a policy the request is let through.
SubmitUnlimited(r, i) ==
  /\ Arrives(r, i)
  /\ view[i] = 0
  /\ call' = [call EXCEPT ![r] = [state |-> "done", attempt |-> 0, at |-> i, version |-> 0]]
  /\ decision' = [decision EXCEPT ![r] = [by |-> "no_policy", allowed |-> TRUE, window |-> window]]
  /\ UNCHANGED <<setup, window, policies, redisUp, counter, wire, answers, local,
                 outages, restarts, grants, failed>>

\* A slip: a retry waits until Redis is back.
RetryWhenUp(r) ==
  /\ call[r].state = "backoff"
  /\ redisUp
  /\ Send(r, call[r].at, call[r].version, call[r].attempt + 1)

\* After the backoff: with the policy found at first.
Retry(r) ==
  /\ call[r].state = "backoff"
  /\ Send(r, call[r].at, call[r].version, call[r].attempt + 1)

\* A slip: the count before this request is compared.
GrantedOneMore(count) == count - 1 <= Limit

\* A slip: the last place is never given.
GrantedOneLess(count) == count < Limit

Granted(count) == count <= Limit

\* A connection that failed is closed: a result nobody waits for is dropped.
Awaited(s) == call[s.req].state = "waiting" /\ Script(s.req) = s

\* Redis runs a script: in time, or long after its caller gave up.
Execute(s) ==
  LET key == <<s.version, window>>
      count == counter[key] + 1
  IN  /\ redisUp
      /\ counter' = [counter EXCEPT ![key] = count]
      /\ wire' = wire \ {s}
      /\ answers' = IF Awaited(s)
                    THEN answers \cup {[script |-> s, allowed |-> Granted(count), window |-> window]}
                    ELSE answers
      /\ grants' = IF Granted(count)
                   THEN grants \cup {[script |-> s, window |-> window]}
                   ELSE grants
      /\ UNCHANGED <<setup, window, policies, redisUp, call, decision, local,
                     outages, restarts, failed>>

\* A script is lost with the connection that carried it.
Lose(s) ==
  /\ wire' = wire \ {s}
  /\ UNCHANGED <<setup, window, policies, redisUp, counter, answers, call, decision, local,
                 outages, restarts, grants, failed>>

Decide(r, d) ==
  /\ call' = [call EXCEPT ![r].state = "done"]
  /\ decision' = [decision EXCEPT ![r] = d]

\* The answer a call is waiting for arrives.
Reads(r, a) == a.script = Script(r)

\* A slip: an answer from an earlier window is read as a refusal.
ParsedLate(a) == [by |-> "redis", allowed |-> a.allowed /\ a.window = window, window |-> a.window]

Parsed(a) == [by |-> "redis", allowed |-> a.allowed, window |-> a.window]

Receive(r, a) ==
  /\ call[r].state = "waiting"
  /\ Reads(r, a)
  /\ answers' = answers \ {a}
  /\ Decide(r, Parsed(a))
  /\ UNCHANGED <<setup, window, policies, redisUp, counter, wire, local,
                 outages, restarts, grants, failed>>

\* A slip: the fallback starts afresh at each failure.
LocalStateAfresh(i, v) == [window |-> window, count |-> 0]

\* apply_fixed_window in the fallback of instance i, under its own key.
LocalState(i, v) ==
  IF local[i][v].window = window THEN local[i][v] ELSE [window |-> window, count |-> 0]

LocalAllowed(i, v) == LocalState(i, v).count + 1 <= Limit

\* A slip: the failure modes are mixed up.
DegradedInverted == setup.failure_mode = "fail_closed"

\* _build_degraded_decision
Degraded == setup.failure_mode = "fail_open"

\* _recover_after_redis_failure: the fallback if it is enabled, whatever the
\* policy's failure mode; else the failure mode.
Recover(r) ==
  LET i == call[r].at
      v == call[r].version
  IN  \/ /\ setup.fallback
         /\ local' = [local EXCEPT ![i][v] =
                        [LocalState(i, v) EXCEPT !.count = IF LocalAllowed(i, v) THEN @ + 1 ELSE @]]
         /\ Decide(r, [by |-> "local", allowed |-> LocalAllowed(i, v), window |-> window])
      \/ /\ ~setup.fallback
         /\ Decide(r, [by |-> "failure_mode", allowed |-> Degraded, window |-> window])
         /\ UNCHANGED local

\* What /internal/evaluate answers.
Evaluated(d) ==
  [allowed |-> d.allowed, applied |-> d.by # "no_policy",
   degraded |-> d.by \in {"local", "failure_mode"}, local_fallback |-> d.by = "local"]

\* What enforce_rate_limit makes of it.
Response(d) ==
  LET e == Evaluated(d)
  IN  IF e.allowed THEN "ok"
      ELSE IF e.degraded /\ ~e.local_fallback THEN "unavailable" ELSE "exceeded"

\* A RedisError: the socket timed out, or the connection failed.  What was
\* sent stays sent.
RedisFailure(r) ==
  /\ call[r].state = "waiting"
  /\ failed' = failed \cup {Script(r)}
  /\ answers' = {a \in answers : ~Reads(r, a)}
  /\ \/ /\ call[r].attempt < MaxAttempts
        /\ call' = [call EXCEPT ![r].state = "backoff"]
        /\ UNCHANGED <<decision, local>>
     \/ /\ call[r].attempt >= MaxAttempts
        /\ Recover(r)
  /\ UNCHANGED <<setup, window, policies, redisUp, counter, wire, outages, restarts, grants>>
-----------------------------------------------------------------------------
NextWindow ==
  /\ window < setup.windows
  /\ window' = window + 1
  /\ UNCHANGED <<setup, policies, redisUp, counter, wire, answers, call, decision, local,
                 outages, restarts, grants, failed>>

\* Redis runs with no snapshot and no append-only file.
RedisCrash ==
  /\ redisUp
  /\ outages < setup.outages
  /\ redisUp' = FALSE
  /\ counter' = [k \in Version \X Window |-> 0]
  /\ wire' = {}
  /\ answers' = {}
  /\ outages' = outages + 1
  /\ UNCHANGED <<setup, window, policies, call, decision, local, restarts, grants, failed>>

RedisStart ==
  /\ ~redisUp
  /\ redisUp' = TRUE
  /\ UNCHANGED <<setup, window, policies, counter, wire, answers, call, decision, local,
                 outages, restarts, grants, failed>>

\* The requests an instance is working on.
Working(i) == {r \in Request : call[r].state \in {"waiting", "backoff"} /\ call[r].at = i}

InstanceCrash(i) ==
  /\ i \in setup.instances
  /\ restarts < setup.restarts
  /\ restarts' = restarts + 1
  /\ local' = [local EXCEPT ![i] = [v \in Version |-> EmptyState]]
  /\ call' = [r \in Request |->
                IF r \in Working(i) THEN [call[r] EXCEPT !.state = "died"] ELSE call[r]]
  /\ failed' = failed \cup {Script(r) : r \in Working(i)}
  /\ answers' = {a \in answers : \A r \in Working(i) : ~Reads(r, a)}
  /\ UNCHANGED <<setup, window, policies, redisUp, counter, wire, decision, outages, grants>>

Next ==
  \/ UpdatePolicy \/ \E i \in Instance : Refresh(i)
  \/ \E r \in Request, i \in Instance : Submit(r, i) \/ SubmitUnlimited(r, i)
  \/ \E r \in Request : Retry(r) \/ RedisFailure(r) \/ \E a \in answers : Receive(r, a)
  \/ \E s \in wire : Execute(s) \/ Lose(s)
  \/ NextWindow \/ RedisCrash \/ RedisStart
  \/ \E i \in Instance : InstanceCrash(i)

(***************************************************************************)
(* An instance keeps running its coroutines: a call that waits is ended by *)
(* its answer or by the socket timeout, and a backoff is a finite sleep.   *)
(* Nothing is assumed of Redis, the network or the callers.                *)
(***************************************************************************)
Fairness ==
  \A r \in Request :
    /\ WF_vars(RedisFailure(r) \/ \E a \in answers : Receive(r, a))
    /\ WF_vars(Retry(r))

Spec == Init /\ [][Next]_vars /\ Fairness
-----------------------------------------------------------------------------
\* The requests let through in window w under version v of the policy.
Admitted(v, w) ==
  {r \in Request : call[r].version = v /\ decision[r].allowed /\ decision[r].window = w}

By(d, R) == {r \in R : decision[r].by = d}

(***************************************************************************)
(* Retries, late executions and recoveries never stretch the shared quota: *)
(* in a window Redis admits Limit requests per version of the policy that  *)
(* instances work with, and Limit more each time it loses its counters.    *)
(* While they work with different versions the quotas add up; no request   *)
(* is ever counted under two of them.                                      *)
(***************************************************************************)
RedisQuota ==
  \A v \in Version, w \in Window :
    Cardinality(By("redis", Admitted(v, w))) <= Limit * (1 + outages)

(***************************************************************************)
(* What enabling the local fallback costs in the worst case: each instance *)
(* that had to fall back admits up to Limit of its own, again after a      *)
(* restart, on top of what Redis admits.                                   *)
(***************************************************************************)
OverallQuota ==
  setup.fallback =>
    \A v \in Version, w \in Window :
      LET fellBack == {call[r].at : r \in By("local", Admitted(v, w))}
      IN  Cardinality(Admitted(v, w)) <= Limit * (1 + outages + Cardinality(fellBack) + restarts)

(***************************************************************************)
(* A place Redis gave away is used by the request that took it, or is      *)
(* still on its way to it, or was lost to a RedisError or a crash that     *)
(* ended the attempt.  Nothing else wastes quota.                          *)
(***************************************************************************)
PlacesAccounted ==
  \A g \in grants :
    LET r == g.script.req
    IN  \/ g.script \in failed
        \/ /\ g.script = Script(r)
           /\ \/ call[r].state = "waiting"
              \/ decision[r] = [by |-> "redis", allowed |-> TRUE, window |-> g.window]

(***************************************************************************)
(* A client that is told "Rate limit exceeded." was refused because Limit  *)
(* places of that version and window had been given away, by Redis or by   *)
(* the fallback of the instance that answers: a late or repeated script    *)
(* can use up a place, but no request is refused while there are some      *)
(* left.                                                                   *)
(***************************************************************************)
RefusalEarned ==
  \A r \in Request :
    LET v == call[r].version
        w == decision[r].window
        places == IF decision[r].by = "redis"
                  THEN {g \in grants : g.script.version = v /\ g.window = w}
                  ELSE {q \in By("local", Admitted(v, w)) : call[q].at = call[r].at}
    IN  decision[r].by # "nobody" /\ Response(decision[r]) = "exceeded" =>
          Cardinality(places) >= Limit

(***************************************************************************)
(* A fail_closed policy without the fallback lets a request through only   *)
(* on a place Redis gave to the very attempt that was answered, whatever   *)
(* fails, restarts or arrives late.                                        *)
(***************************************************************************)
FailClosed ==
  ~setup.fallback /\ setup.failure_mode = "fail_closed" =>
    \A r \in Request :
      decision[r].allowed /\ Evaluated(decision[r]).applied =>
        [script |-> Script(r), window |-> decision[r].window] \in grants

(***************************************************************************)
(* Every evaluation ends, whether or not Redis ever answers, unless the    *)
(* instance goes down with it.                                             *)
(***************************************************************************)
Answered ==
  \A r \in Request : call[r].state = "waiting" ~> call[r].state \in {"done", "died"}

(***************************************************************************)
(* "In fail-closed mode the limiter blocks when Redis is unavailable", and *)
(* "If Redis is unavailable and the policy is fail-open, requests          *)
(* continue": a decision made without Redis is the failure mode's.         *)
(***************************************************************************)
FailureModeDecides ==
  \A r \in Request :
    decision[r].by \in {"local", "failure_mode"} =>
      decision[r].allowed = (setup.failure_mode = "fail_open")
=============================================================================
