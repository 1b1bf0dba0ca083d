----------------------- MODULE MCRateLimiterService -----------------------
EXTENDS RateLimiterService, TLC

Symmetry == Permutations(Request) \cup Permutations(Instance)

\* Some of the instances, as few as n.  (Which ones makes no difference.)
Some(n) == {I \in SUBSET Instance : Cardinality(I) = n}

Base == [retries |-> 0, fallback |-> FALSE, failure_mode |-> "fail_closed",
         requests |-> 3, windows |-> 0, versions |-> 1, outages |-> 0, restarts |-> 0]

On(n, c) == {[instances |-> I] @@ c : I \in Some(n)}

\* Timeouts handled by the fallbacks, one of which may forget its counts.
Fallback == On(2, [Base EXCEPT !.fallback = TRUE, !.requests = 4, !.restarts = 1])

\* Retries around a crash of Redis, of the instance and a change of the window.
Retries == On(1, [Base EXCEPT !.retries = 1, !.windows = 1, !.outages = 1, !.restarts = 1])

\* Instances that disagree on the policy.
Versions == On(2, [Base EXCEPT !.versions = 2])

\* A fail_open policy, without a fallback.
Open == On(2, [Base EXCEPT !.failure_mode = "fail_open", !.retries = 1, !.requests = 2,
                           !.windows = 1, !.outages = 1, !.restarts = 1])

Scenarios == Fallback \cup Retries \cup Versions \cup Open

\* Two requests under each way to recover.
Answering ==
  UNION {On(2, [Base EXCEPT !.retries = 1, !.requests = 2, !.windows = 1, !.outages = 1,
                            !.restarts = 1, !.fallback = f]) : f \in BOOLEAN}

OneFallback == On(1, [Base EXCEPT !.fallback = TRUE])
=============================================================================
