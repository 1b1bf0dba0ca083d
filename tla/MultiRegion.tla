---------------------------- MODULE MultiRegion ----------------------------
(***************************************************************************)
(* simulate_multi_region_limit: two regions share a limit, each decides on *)
(* what it knows, and tells the other of what it accepted with a lag.  One *)
(* step is one turn of the loop: the least event of the heap is taken off  *)
(* and handled.                                                            *)
(*                                                                         *)
(* The heap may hold equal events; index tells them apart here.            *)
(***************************************************************************)
EXTENDS Integers, FiniteSets, Sequences

CONSTANTS Limits, Lags, Counts, Spacings  \* what the caller may pass (bounds)

ASSUME MultiRegionAssumption ==
  /\ Limits \subseteq Nat \ {0}
  /\ Lags \subseteq Nat
  /\ Counts \subseteq Int
  /\ Spacings \subseteq Int

VARIABLES config,           \* the arguments: they stay the same
          regions,          \* the RegionSnapshot of each region
          queue,            \* the heap
          decisions,        \* the list of RegionalDecision
          stale_allowed,
          max_queue_depth

vars == <<config, regions, queue, decisions, stale_allowed, max_queue_depth>>

Region == {"india", "us"}

Other(r) == IF r = "india" THEN "us" ELSE "india"

Request(r, k) ==
  [time_ms |-> k * config.request_spacing_ms, kind |-> "request", region |-> r, index |-> k]

\* The arguments that are not rejected with a ValueError: a negative number of
\* requests is none, and a negative spacing a time before that of the first.
Config ==
  [configured_limit : Limits, replication_lag_ms : Lags,
   requests : [Region -> Counts], request_spacing_ms : Spacings]

NewRegion ==
  [local_accepted |-> 0, remote_observed |-> 0, allowed_requests |-> 0, blocked_requests |-> 0]

Init ==
  /\ config \in Config
  /\ regions = [r \in Region |-> NewRegion]
  /\ queue = UNION {{Request(r, k) : k \in 0..(config.requests[r] - 1)} : r \in Region}
  /\ decisions = <<>>
  /\ stale_allowed = 0
  /\ max_queue_depth = Cardinality(queue)

Priority(e) == IF e.kind = "replication" THEN 0 ELSE 1

\* A slip: requests come before replications of the same time.
BeforeByArrival(e, f) ==
  \/ e.time_ms < f.time_ms
  \/ e.time_ms = f.time_ms /\ Priority(e) > Priority(f)
  \/ e.time_ms = f.time_ms /\ Priority(e) = Priority(f) /\ (e.region = "india" \/ f.region = "us")

\* The order of _Event: the heap gives e when nothing in it comes before.
Before(e, f) ==
  \/ e.time_ms < f.time_ms
  \/ e.time_ms = f.time_ms /\ Priority(e) < Priority(f)
  \/ e.time_ms = f.time_ms /\ Priority(e) = Priority(f) /\ (e.region = "india" \/ f.region = "us")

Least(e) == \A f \in queue : Before(e, f)

\* heapq.heappop, after the depth has been noted.
Pop(e) ==
  /\ e \in queue
  /\ Least(e)
  /\ max_queue_depth' =
       IF Cardinality(queue) > max_queue_depth THEN Cardinality(queue) ELSE max_queue_depth

\* A slip: what was observed is added up.
ObservedSum(mine, theirs) == mine.remote_observed + theirs.local_accepted

\* A slip: only the first report is taken.
ObservedOnce(mine, theirs) ==
  IF mine.remote_observed = 0 THEN theirs.local_accepted ELSE mine.remote_observed

\* max(target.remote_observed, source.local_accepted)
Observed(mine, theirs) ==
  IF theirs.local_accepted > mine.remote_observed
  THEN theirs.local_accepted ELSE mine.remote_observed

\* The count of the source as it is now, not as it was when this was sent.
Replicate(e) ==
  LET target == Other(e.region)
  IN  /\ e.kind = "replication"
      /\ Pop(e)
      /\ regions' = [regions EXCEPT ![target].remote_observed =
                       Observed(regions[target], regions[e.region])]
      /\ queue' = queue \ {e}
      /\ UNCHANGED <<config, decisions, stale_allowed>>

ActualGlobal == regions["india"].local_accepted + regions["us"].local_accepted

KnownGlobal(r) == regions[r].local_accepted + regions[r].remote_observed

\* A slip: the limit itself passes.
AcceptsLimit(r) == KnownGlobal(r) <= config.configured_limit

Accepts(r) == KnownGlobal(r) < config.configured_limit

Stale(actual) == actual >= config.configured_limit

\* A slip: the lag is that of a round trip.
ReplicationRoundTrip(e) ==
  [time_ms |-> e.time_ms + 2 * config.replication_lag_ms, kind |-> "replication",
   region |-> e.region, index |-> regions[e.region].local_accepted]

Replication(e) ==
  [time_ms |-> e.time_ms + config.replication_lag_ms, kind |-> "replication",
   region |-> e.region, index |-> regions[e.region].local_accepted]

\* A slip: the request itself is taken off what was known before it.
RegionalDecisionLess(e) ==
  [region |-> e.region, time_ms |-> e.time_ms, accepted |-> Accepts(e.region),
   known |-> KnownGlobal(e.region) - 1, actual |-> ActualGlobal]

RegionalDecision(e) ==
  [region |-> e.region, time_ms |-> e.time_ms, accepted |-> Accepts(e.region),
   known |-> KnownGlobal(e.region), actual |-> ActualGlobal]

Accept(e) ==
  /\ e.kind = "request"
  /\ Pop(e)
  /\ Accepts(e.region)
  /\ stale_allowed' = IF Stale(ActualGlobal) THEN stale_allowed + 1 ELSE stale_allowed
  /\ regions' = [regions EXCEPT ![e.region].local_accepted = @ + 1,
                                ![e.region].allowed_requests = @ + 1]
  /\ queue' = (queue \ {e}) \cup {Replication(e)}
  /\ decisions' = Append(decisions, RegionalDecision(e))
  /\ UNCHANGED config

Block(e) ==
  /\ e.kind = "request"
  /\ Pop(e)
  /\ ~Accepts(e.region)
  /\ regions' = [regions EXCEPT ![e.region].blocked_requests = @ + 1]
  /\ queue' = queue \ {e}
  /\ decisions' = Append(decisions, RegionalDecision(e))
  /\ UNCHANGED <<config, stale_allowed>>

Next == \E e \in queue : Replicate(e) \/ Accept(e) \/ Block(e)

\* The loop runs on until the heap is empty.
Spec == Init /\ [][Next]_vars /\ WF_vars(Next)
-----------------------------------------------------------------------------
TotalAllowed == regions["india"].allowed_requests + regions["us"].allowed_requests

Oversubscription ==
  IF TotalAllowed > config.configured_limit THEN TotalAllowed - config.configured_limit ELSE 0

EventType ==
  [time_ms : Int, kind : {"request", "replication"}, region : Region, index : Nat]

DecisionType ==
  [region : Region, time_ms : Int, accepted : BOOLEAN, known : Nat, actual : Nat]

RegionType ==
  [local_accepted : Nat, remote_observed : Nat, allowed_requests : Nat, blocked_requests : Nat]

TypeOK ==
  /\ config \in Config
  /\ regions \in [Region -> RegionType]
  /\ queue \in SUBSET EventType
  /\ decisions \in Seq(DecisionType)
  /\ stale_allowed \in Nat
  /\ max_queue_depth \in Nat

(***************************************************************************)
(* A region never believes the other has accepted more than it has, so no  *)
(* request is blocked while the global limit has room.                     *)
(***************************************************************************)
NoFalseBlock ==
  /\ \A r \in Region : regions[r].remote_observed <= regions[Other(r)].local_accepted
  /\ \A i \in DOMAIN decisions :
       ~decisions[i].accepted => decisions[i].actual >= config.configured_limit

(***************************************************************************)
(* What the lag can cost: no region accepts more than the limit on its     *)
(* own, and the summary's oversubscription is the number of decisions that *)
(* it counted as stale, at every moment of the run.                        *)
(***************************************************************************)
OversubscriptionIsStale ==
  /\ \A r \in Region : regions[r].local_accepted <= config.configured_limit
  /\ Oversubscription = stale_allowed

(***************************************************************************)
(* "no oversubscription without replication lag": with a lag of zero the   *)
(* two regions act as one limiter, also for requests of the same moment,   *)
(* because a replication goes before a request of its time.                *)
(***************************************************************************)
NoLagNoOversubscription == config.replication_lag_ms = 0 => Oversubscription = 0

\* What the other region had accepted before decision i and within the lag.
Unseen(i) ==
  {j \in 1..(i - 1) :
     /\ decisions[j].accepted
     /\ decisions[j].region # decisions[i].region
     /\ decisions[j].time_ms + config.replication_lag_ms > decisions[i].time_ms}

(***************************************************************************)
(* A region can only be behind on what the other accepted within the last  *)
(* replication_lag_ms: nothing older is missing from what it decides on.   *)
(***************************************************************************)
StalenessBounded ==
  \A i \in DOMAIN decisions :
    decisions[i].actual - decisions[i].known <= Cardinality(Unseen(i))

(***************************************************************************)
(* "One-way replication lag between India and US regions": what the other  *)
(* region accepted within the last replication_lag_ms is not known yet.    *)
(***************************************************************************)
ReplicationLags ==
  \A i \in DOMAIN decisions :
    decisions[i].actual - decisions[i].known = Cardinality(Unseen(i))

(***************************************************************************)
(* The simulation ends, and then each region knows what the other accepted *)
(* and every request was decided.                                          *)
(***************************************************************************)
Converges ==
  <>[](\A r \in Region :
         /\ regions[r].remote_observed = regions[Other(r)].local_accepted
         /\ regions[r].allowed_requests + regions[r].blocked_requests =
              Cardinality(0..(config.requests[r] - 1)))
=============================================================================
