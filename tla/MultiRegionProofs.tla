------------------------- MODULE MultiRegionProofs -------------------------
(***************************************************************************)
(* Proofs about MultiRegion, for every limit, lag, spacing and number of   *)
(* requests.  What is not obvious is the case of no lag: NoLagAgreement    *)
(* says that a region may be behind the other only while a replication is  *)
(* due that goes before every request.                                     *)
(***************************************************************************)
EXTENDS MultiRegion, FiniteSetTheorems, TLAPS

\* A region accepts within what it knows, and counts what it accepts twice.
CountsAgree ==
  /\ \A r \in Region : regions[r].allowed_requests = regions[r].local_accepted
  /\ OversubscriptionIsStale

\* Region r's last acceptances are reported before any request is decided.
Due(r) ==
  \E e \in queue :
    /\ e.kind = "replication"
    /\ e.region = r
    /\ \A f \in queue : e.time_ms <= f.time_ms

NoLagAgreement ==
  config.replication_lag_ms = 0 =>
    /\ \A r \in Region :
         regions[Other(r)].remote_observed = regions[r].local_accepted \/ Due(r)
    /\ Oversubscription = 0

Inv ==
  /\ TypeOK
  /\ IsFiniteSet(queue)
  /\ NoFalseBlock
  /\ CountsAgree
  /\ NoLagAgreement

\* Regions and the other of each.
LEMMA OtherRegion ==
  ASSUME NEW r \in Region
  PROVE  Other(r) \in Region /\ Other(r) # r /\ Other(Other(r)) = r
  BY DEF Region, Other

\* The arguments are the numbers the code does not reject.
LEMMA ConfigType ==
  ASSUME config \in Config
  PROVE  /\ config.configured_limit \in Nat \ {0}
         /\ config.replication_lag_ms \in Nat
         /\ config.request_spacing_ms \in Int
         /\ \A r \in Region : config.requests[r] \in Int
  BY MultiRegionAssumption DEF Config

\* The counts of both regions, from their types.
LEMMA RegionTypes ==
  ASSUME TypeOK
  PROVE  /\ \A r \in Region : /\ regions[r].local_accepted \in Nat
                              /\ regions[r].remote_observed \in Nat
                              /\ regions[r].allowed_requests \in Nat
                              /\ regions[r].blocked_requests \in Nat
                              /\ KnownGlobal(r) \in Nat
         /\ ActualGlobal \in Nat
         /\ TotalAllowed \in Nat
  BY DEF TypeOK, RegionType, KnownGlobal, ActualGlobal, TotalAllowed, Region

\* The heap starts with finitely many requests.
LEMMA RequestsFinite ==
  ASSUME config \in Config,
         NEW Q, Q = UNION {{Request(r, k) : k \in 0..(config.requests[r] - 1)} : r \in Region}
  PROVE  IsFiniteSet(Q) /\ Q \in SUBSET EventType
<1> DEFINE S(r) == {Request(r, k) : k \in 0..(config.requests[r] - 1)}
<1>1. \A r \in Region : IsFiniteSet(S(r))
  <2> SUFFICES ASSUME NEW r \in Region PROVE IsFiniteSet(S(r))
    OBVIOUS
  <2>0. 0 \in Int /\ config.requests[r] - 1 \in Int
    BY ConfigType
  <2>1. IsFiniteSet(0..(config.requests[r] - 1))
    BY <2>0, FS_Interval
  <2> DEFINE f == [k \in 0..(config.requests[r] - 1) |-> Request(r, k)]
  <2>2. S(r) = {f[k] : k \in 0..(config.requests[r] - 1)}
    OBVIOUS
  <2>3. f \in Surjection(0..(config.requests[r] - 1), S(r))
    BY DEF Surjection
  <2> QED
    BY <2>1, <2>3, FS_Surjection
<1>2. Q = S("india") \cup S("us")
  BY DEF Region
<1>3. IsFiniteSet(Q)
  <2> DEFINE A == S("india")
             B == S("us")
  <2>1. IsFiniteSet(A) /\ IsFiniteSet(B) /\ Q = A \cup B
    BY <1>1, <1>2 DEF Region
  <2> HIDE DEF A, B
  <2>2. IsFiniteSet(A \cup B)
    BY <2>1, FS_Union
  <2> QED
    BY <2>1, <2>2
<1>4. ASSUME NEW r \in Region, NEW k \in 0..(config.requests[r] - 1)
      PROVE  Request(r, k) \in EventType
  <2>1. k \in Nat /\ config.request_spacing_ms \in Int
    BY ConfigType
  <2>2. k * config.request_spacing_ms \in Int
    BY <2>1
  <2> QED
    BY <2>1, <2>2 DEF Request, EventType
<1> QED
  BY <1>3, <1>4

\* The invariant holds before the first turn of the loop.
LEMMA InitInv == Init => Inv
<1> SUFFICES ASSUME Init PROVE Inv
  OBVIOUS
<1>1. config \in Config /\ config.configured_limit \in Nat \ {0}
  BY ConfigType DEF Init
<1>2. IsFiniteSet(queue) /\ queue \in SUBSET EventType
  BY <1>1, RequestsFinite DEF Init
<1>3. \A r \in Region : regions[r] = NewRegion
  BY DEF Init
<1>4. TypeOK
  BY <1>1, <1>2, FS_CardinalityType DEF Init, TypeOK, NewRegion, RegionType
<1>5. NoFalseBlock
  BY <1>3, OtherRegion DEF Init, NoFalseBlock, NewRegion
<1>6. CountsAgree /\ Oversubscription = 0
  BY <1>1, <1>3
  DEF Init, CountsAgree, OversubscriptionIsStale, Oversubscription, TotalAllowed, NewRegion, Region
<1>7. NoLagAgreement
  BY <1>3, <1>6, OtherRegion DEF NoLagAgreement, NewRegion
<1> QED
  BY <1>2, <1>4, <1>5, <1>6, <1>7 DEF Inv

\* Taking an event off the heap.
LEMMA PopType ==
  ASSUME TypeOK, IsFiniteSet(queue), NEW e, Pop(e)
  PROVE  /\ e \in queue
         /\ e \in EventType
         /\ e.time_ms \in Int
         /\ e.region \in Region
         /\ IsFiniteSet(queue \ {e})
         /\ max_queue_depth' \in Nat
<1>1. e \in queue /\ e \in EventType
  BY DEF Pop, TypeOK
<1>2. IsFiniteSet(queue \ {e}) /\ Cardinality(queue) \in Nat
  BY FS_RemoveElement, FS_CardinalityType
<1> QED
  BY <1>1, <1>2 DEF Pop, TypeOK, EventType

\* A decision is recorded as it was taken.
LEMMA DecisionFields ==
  ASSUME TypeOK, NEW e \in EventType
  PROVE  /\ RegionalDecision(e) \in DecisionType
         /\ RegionalDecision(e).accepted = Accepts(e.region)
         /\ RegionalDecision(e).actual = ActualGlobal
<1>1. e.region \in Region /\ e.time_ms \in Int
  BY DEF EventType
<1>2. KnownGlobal(e.region) \in Nat /\ ActualGlobal \in Nat
  BY <1>1, RegionTypes
<1>3. Accepts(e.region) \in BOOLEAN
  BY DEF Accepts
<1> QED
  BY <1>1, <1>2, <1>3, Zenon DEF RegionalDecision, DecisionType

\* A replication brings its target up to date.
LEMMA ReplicateStep == ASSUME Inv, NEW e, Replicate(e) PROVE Inv'
<1> DEFINE t == Other(e.region)
<1> USE DEF Inv
<1>1. e \in queue /\ e.region \in Region /\ IsFiniteSet(queue') /\ max_queue_depth' \in Nat
  BY PopType DEF Replicate
<1>2. t \in Region /\ t # e.region /\ Other(t) = e.region
  BY <1>1, OtherRegion
<1>3. \A r \in Region : /\ regions'[r].local_accepted = regions[r].local_accepted
                        /\ regions'[r].allowed_requests = regions[r].allowed_requests
                        /\ regions'[r].blocked_requests = regions[r].blocked_requests
  BY <1>2 DEF Replicate, TypeOK, RegionType
<1>4. \A r \in Region : regions'[r].remote_observed =
        IF r = t THEN regions[e.region].local_accepted ELSE regions[r].remote_observed
  BY <1>1, <1>2, RegionTypes DEF Replicate, TypeOK, RegionType, Observed, NoFalseBlock
<1>5. TypeOK'
  <2>1. Observed(regions[t], regions[e.region]) \in Nat
    BY <1>1, <1>2, RegionTypes DEF Observed
  <2>2. regions' \in [Region -> RegionType]
    BY <1>2, <2>1 DEF Replicate, TypeOK, RegionType
  <2> QED
    BY <1>1, <2>2 DEF Replicate, TypeOK
<1>6. NoFalseBlock'
  BY <1>2, <1>3, <1>4, OtherRegion, RegionTypes DEF Replicate, NoFalseBlock
<1>7. TotalAllowed' = TotalAllowed /\ Oversubscription' = Oversubscription
  BY <1>3 DEF Replicate, TotalAllowed, Oversubscription, Region
<1>8. CountsAgree'
  BY <1>3, <1>7 DEF Replicate, CountsAgree, OversubscriptionIsStale
<1>9. NoLagAgreement'
  <2> SUFFICES ASSUME config.replication_lag_ms = 0, NEW r \in Region
               PROVE  regions'[Other(r)].remote_observed = regions'[r].local_accepted \/ Due(r)'
    BY <1>7 DEF Replicate, NoLagAgreement
  <2>1. CASE r = e.region
    BY <1>2, <1>3, <1>4, <2>1
  <2>2. CASE r # e.region
    <3>1. Other(r) \in Region /\ Other(r) # t
      BY <1>2, <2>2, OtherRegion
    <3>2. CASE Due(r)
      BY <2>2, <3>2 DEF Due, Replicate
    <3>3. CASE ~Due(r)
      BY <1>3, <1>4, <3>1, <3>3 DEF NoLagAgreement
    <3> QED
      BY <3>2, <3>3
  <2> QED
    BY <2>1, <2>2
<1> QED
  BY <1>1, <1>5, <1>6, <1>8, <1>9

\* With no lag, a region that decides is up to date.
LEMMA NoLagKnows ==
  ASSUME Inv, config.replication_lag_ms = 0, NEW e, Pop(e), e.kind = "request"
  PROVE  /\ \A r \in Region : regions[Other(r)].remote_observed = regions[r].local_accepted
         /\ KnownGlobal(e.region) = ActualGlobal
<1> USE DEF Inv
<1>1. ASSUME NEW r \in Region PROVE ~Due(r)
  <2> SUFFICES ASSUME NEW f \in queue, f.kind = "replication", f.time_ms <= e.time_ms PROVE FALSE
    BY PopType DEF Due
  <2>1. Before(e, f) /\ e.time_ms \in Int /\ f.time_ms \in Int
    BY PopType DEF Pop, Least, TypeOK, EventType
  <2> QED
    BY <2>1 DEF Before, Priority
<1>2. \A r \in Region : regions[Other(r)].remote_observed = regions[r].local_accepted
  BY <1>1 DEF NoLagAgreement
<1>3. e.region \in Region
  BY PopType
<1>4. KnownGlobal(e.region) = ActualGlobal
  BY <1>2, <1>3, RegionTypes DEF KnownGlobal, ActualGlobal, Region, Other
<1> QED
  BY <1>2, <1>4

\* A longer list of decisions, the last of which blocks only at the limit.
LEMMA AppendDecision ==
  ASSUME TypeOK, NoFalseBlock, NEW e \in EventType,
         decisions' = Append(decisions, RegionalDecision(e)), config' = config
  PROVE  /\ decisions' \in Seq(DecisionType)
         /\ \A i \in DOMAIN decisions' :
              ~decisions'[i].accepted => decisions'[i].actual >= config.configured_limit
<1>1. decisions' \in Seq(DecisionType)
  BY DecisionFields DEF TypeOK
<1>2. ~Accepts(e.region) => ActualGlobal >= config.configured_limit
  <2>1. e.region \in Region
    BY DEF EventType
  <2>2. KnownGlobal(e.region) <= ActualGlobal
    <3>1. regions[e.region].remote_observed <= regions[Other(e.region)].local_accepted
      BY <2>1 DEF NoFalseBlock
    <3>2. "india" \in Region /\ "us" \in Region /\ e.region \in {"india", "us"}
      BY <2>1 DEF Region
    <3>3. /\ regions["india"].local_accepted \in Nat
          /\ regions["us"].local_accepted \in Nat
          /\ regions[e.region].remote_observed \in Nat
      BY <2>1, <3>2, RegionTypes
    <3> QED
      BY <3>1, <3>2, <3>3 DEF KnownGlobal, ActualGlobal, Other
  <2>3. KnownGlobal(e.region) \in Nat /\ ActualGlobal \in Nat
        /\ config.configured_limit \in Nat
    BY <2>1, RegionTypes, ConfigType DEF TypeOK
  <2> QED
    BY <2>2, <2>3 DEF Accepts
<1>3. ~RegionalDecision(e).accepted => RegionalDecision(e).actual >= config.configured_limit
  BY <1>2, DecisionFields, Zenon
<1>4. \A i \in DOMAIN decisions' :
        decisions'[i] = RegionalDecision(e) \/ (i \in DOMAIN decisions /\ decisions'[i] = decisions[i])
  BY DecisionFields DEF TypeOK
<1> QED
  BY <1>1, <1>3, <1>4 DEF NoFalseBlock

\* A blocked request changes nothing that is shared.
LEMMA BlockStep == ASSUME Inv, NEW e, Block(e) PROVE Inv'
<1> USE DEF Inv
<1>1. /\ e \in queue /\ e \in EventType /\ e.region \in Region
      /\ IsFiniteSet(queue') /\ max_queue_depth' \in Nat
  BY PopType DEF Block
<1>2. \A r \in Region : /\ regions'[r].local_accepted = regions[r].local_accepted
                        /\ regions'[r].remote_observed = regions[r].remote_observed
                        /\ regions'[r].allowed_requests = regions[r].allowed_requests
  BY <1>1 DEF Block, TypeOK, RegionType
<1>3. /\ decisions' \in Seq(DecisionType)
      /\ \A i \in DOMAIN decisions' :
           ~decisions'[i].accepted => decisions'[i].actual >= config.configured_limit
  BY <1>1, AppendDecision DEF Block
<1>4. TypeOK'
  <2>0. regions[e.region].blocked_requests + 1 \in Nat
    BY <1>1, RegionTypes
  <2>1. regions' \in [Region -> RegionType]
    BY <1>1, <2>0 DEF Block, TypeOK, RegionType
  <2> QED
    BY <1>1, <1>3, <2>1 DEF Block, TypeOK
<1>5. NoFalseBlock'
  BY <1>2, <1>3, OtherRegion DEF Block, NoFalseBlock
<1>6. Oversubscription' = Oversubscription
  BY <1>2 DEF Block, TotalAllowed, Oversubscription, Region
<1>7. CountsAgree'
  BY <1>2, <1>6 DEF Block, CountsAgree, OversubscriptionIsStale
<1>8. NoLagAgreement'
  BY <1>2, <1>6, NoLagKnows, OtherRegion DEF Block, NoLagAgreement
<1> QED
  BY <1>1, <1>4, <1>5, <1>7, <1>8

\* An accepted request goes over the limit only if it is counted as stale.
LEMMA AcceptStep == ASSUME Inv, NEW e, Accept(e) PROVE Inv'
<1> DEFINE limit == config.configured_limit
<1> USE DEF Inv
<1>1. /\ e \in queue /\ e \in EventType /\ e.region \in Region /\ e.time_ms \in Int
      /\ IsFiniteSet(queue \ {e}) /\ max_queue_depth' \in Nat
      /\ config' = config /\ limit \in Nat \ {0}
  BY PopType, ConfigType DEF Accept, TypeOK
<1>2. Replication(e) \in EventType
  BY <1>1, RegionTypes, ConfigType DEF Replication, EventType, TypeOK
<1>3. IsFiniteSet(queue') /\ queue' \in SUBSET EventType
  BY <1>1, <1>2, FS_AddElement DEF Accept, TypeOK
<1>4. \A r \in Region :
        /\ regions'[r].local_accepted =
             IF r = e.region THEN regions[r].local_accepted + 1 ELSE regions[r].local_accepted
        /\ regions'[r].allowed_requests =
             IF r = e.region THEN regions[r].allowed_requests + 1 ELSE regions[r].allowed_requests
        /\ regions'[r].remote_observed = regions[r].remote_observed
  BY <1>1 DEF Accept, TypeOK, RegionType
<1>5. /\ decisions' \in Seq(DecisionType)
      /\ \A i \in DOMAIN decisions' :
           ~decisions'[i].accepted => decisions'[i].actual >= limit
  BY <1>1, AppendDecision DEF Accept
<1>6. TypeOK'
  <2>0. /\ regions[e.region].local_accepted + 1 \in Nat
        /\ regions[e.region].allowed_requests + 1 \in Nat
    BY <1>1, RegionTypes
  <2>1. regions' \in [Region -> RegionType]
    BY <1>1, <2>0 DEF Accept, TypeOK, RegionType
  <2>2. stale_allowed' \in Nat
    BY DEF Accept, TypeOK
  <2> QED
    BY <1>1, <1>3, <1>5, <2>1, <2>2 DEF TypeOK
<1>7. NoFalseBlock'
  <2>1. \A r \in Region : regions'[r].local_accepted >= regions[r].local_accepted
    BY <1>4, RegionTypes
  <2>2. \A r \in Region : regions'[r].local_accepted \in Nat
    BY <1>4, RegionTypes
  <2>3. \A r \in Region : regions'[r].remote_observed <= regions'[Other(r)].local_accepted
    <3> SUFFICES ASSUME NEW r \in Region
                 PROVE  regions'[r].remote_observed <= regions'[Other(r)].local_accepted
      OBVIOUS
    <3>1. Other(r) \in Region
      BY OtherRegion
    <3>2. regions[r].remote_observed <= regions[Other(r)].local_accepted
      BY DEF NoFalseBlock
    <3>3. regions'[r].remote_observed = regions[r].remote_observed
      BY <1>4
    <3> QED
      BY <2>1, <2>2, <3>1, <3>2, <3>3, RegionTypes
  <2> QED
    BY <1>1, <1>5, <2>3 DEF NoFalseBlock
<1>8. TotalAllowed = ActualGlobal /\ TotalAllowed' = TotalAllowed + 1
  BY <1>1, <1>4, RegionTypes DEF TotalAllowed, ActualGlobal, CountsAgree, Region
<1>9. CountsAgree'
  <2>1. \A r \in Region : regions'[r].allowed_requests = regions'[r].local_accepted
    BY <1>4 DEF CountsAgree
  <2>2. \A r \in Region : regions'[r].local_accepted <= limit
    <3>1. regions[e.region].local_accepted < limit
      BY <1>1, RegionTypes DEF Accept, Accepts, KnownGlobal
    <3>2. \A r \in Region : regions[r].local_accepted <= limit
      BY DEF CountsAgree, OversubscriptionIsStale
    <3> HIDE DEF limit
    <3> QED
      BY <1>1, <1>4, <3>1, <3>2, RegionTypes
  <2>3. Oversubscription' = stale_allowed'
    BY <1>1, <1>8, RegionTypes
    DEF Accept, Stale, Oversubscription, CountsAgree, OversubscriptionIsStale
  <2> QED
    BY <1>1, <2>1, <2>2, <2>3 DEF CountsAgree, OversubscriptionIsStale
<1>10. NoLagAgreement'
  <2> SUFFICES ASSUME config.replication_lag_ms = 0
               PROVE  /\ \A r \in Region :
                           regions'[Other(r)].remote_observed = regions'[r].local_accepted \/ Due(r)'
                      /\ Oversubscription' = 0
    BY <1>1 DEF NoLagAgreement
  <2>1. /\ \A r \in Region : regions[Other(r)].remote_observed = regions[r].local_accepted
        /\ KnownGlobal(e.region) = ActualGlobal
    BY NoLagKnows DEF Accept
  <2>2. Oversubscription' = 0
    BY <1>1, <1>8, <2>1, RegionTypes DEF Accept, Accepts, Oversubscription
  <2>3. Due(e.region)'
    <3>1. /\ Replication(e).time_ms = e.time_ms
          /\ Replication(e).kind = "replication"
          /\ Replication(e).region = e.region
      BY <1>1 DEF Replication
    <3>2. \A f \in queue : e.time_ms <= f.time_ms
      BY <1>1 DEF Accept, Pop, Least, Before, TypeOK, EventType
    <3> QED
      BY <1>1, <3>1, <3>2 DEF Due, Accept
  <2>4. \A r \in Region : r # e.region =>
          regions'[Other(r)].remote_observed = regions'[r].local_accepted
    BY <1>4, <2>1, OtherRegion
  <2> QED
    BY <2>2, <2>3, <2>4
<1> QED
  BY <1>3, <1>6, <1>7, <1>9, <1>10

\* Every step keeps the invariant.
LEMMA NextInv == Inv /\ [Next]_vars => Inv'
<1> SUFFICES ASSUME Inv, [Next]_vars PROVE Inv'
  OBVIOUS
<1>1. CASE \E e \in queue : Replicate(e)
  BY <1>1, ReplicateStep
<1>2. CASE \E e \in queue : Accept(e)
  BY <1>2, AcceptStep
<1>3. CASE \E e \in queue : Block(e)
  BY <1>3, BlockStep
<1>4. CASE UNCHANGED vars
  BY <1>4
  DEF vars, Inv, TypeOK, NoFalseBlock, CountsAgree, OversubscriptionIsStale, Oversubscription,
      TotalAllowed, NoLagAgreement, Due
<1> QED
  BY <1>1, <1>2, <1>3, <1>4 DEF Next

\* Inv holds in every reachable state.
LEMMA Invariance == Spec => []Inv
  BY InitInv, NextInv, PTL DEF Spec

\* The regions' counts, the heap and the decisions keep their types.
THEOREM TypeCorrect == Spec => []TypeOK
<1>1. Inv => TypeOK
  BY DEF Inv
<1> QED
  BY <1>1, Invariance, PTL

\* No request is blocked while the global limit has room.
THEOREM NoFalseBlockHolds == Spec => []NoFalseBlock
<1>1. Inv => NoFalseBlock
  BY DEF Inv
<1> QED
  BY <1>1, Invariance, PTL

(***************************************************************************)
(* The oversubscription of the summary is its number of stale decisions,   *)
(* and neither region goes over the limit by itself.                       *)
(***************************************************************************)
THEOREM OversubscriptionHolds == Spec => []OversubscriptionIsStale
<1>1. Inv => OversubscriptionIsStale
  BY DEF Inv, CountsAgree
<1> QED
  BY <1>1, Invariance, PTL

\* Without replication lag the regions never oversubscribe.
THEOREM NoLagHolds == Spec => []NoLagNoOversubscription
<1>1. Inv => NoLagNoOversubscription
  BY DEF Inv, NoLagAgreement, NoLagNoOversubscription
<1> QED
  BY <1>1, Invariance, PTL
-----------------------------------------------------------------------------
\* The decisions by which region r accepted a request.
Accepted(r) == {j \in DOMAIN decisions : decisions[j].accepted /\ decisions[j].region = r}

\* A replication that was sent with decision j, or at its time, is under way.
UnderWay(j) ==
  \E e \in queue :
    /\ e.kind = "replication"
    /\ e.region = decisions[j].region
    /\ e.time_ms = decisions[j].time_ms + config.replication_lag_ms

Delivered(r) == {j \in Accepted(r) : ~UnderWay(j)}

(***************************************************************************)
(* What the other region has observed covers every acceptance that is not  *)
(* on its way any more.  A replication carries the count of its source at  *)
(* the time it arrives, so it never matters which of them arrived.         *)
(***************************************************************************)
DeliveredCounts ==
  \A r \in Region :
    /\ Cardinality(Accepted(r)) = regions[r].local_accepted
    /\ Cardinality(Delivered(r)) <= regions[Other(r)].remote_observed

\* These are finite sets of positions in the list of decisions.
LEMMA AcceptedFinite ==
  ASSUME TypeOK, NEW r
  PROVE  /\ IsFiniteSet(Accepted(r)) /\ Cardinality(Accepted(r)) \in Nat
         /\ Delivered(r) \in SUBSET Accepted(r)
         /\ IsFiniteSet(Delivered(r)) /\ Cardinality(Delivered(r)) \in Nat
         /\ Cardinality(Delivered(r)) <= Cardinality(Accepted(r))
<1>1. Len(decisions) \in Nat /\ DOMAIN decisions = 1..Len(decisions)
  BY DEF TypeOK
<1>2. IsFiniteSet(DOMAIN decisions)
  BY <1>1, FS_Interval
<1>3. Accepted(r) \in SUBSET DOMAIN decisions /\ Delivered(r) \in SUBSET Accepted(r)
  BY DEF Accepted, Delivered
<1>4. IsFiniteSet(Accepted(r))
  BY <1>2, <1>3, FS_Subset
<1>5. IsFiniteSet(Delivered(r)) /\ Cardinality(Delivered(r)) <= Cardinality(Accepted(r))
  BY <1>3, <1>4, FS_Subset
<1> QED
  BY <1>3, <1>4, <1>5, FS_CardinalityType

\* Before the first turn nothing has been accepted.
LEMMA InitDelivered == Init => DeliveredCounts /\ StalenessBounded
<1> SUFFICES ASSUME Init PROVE DeliveredCounts /\ StalenessBounded
  OBVIOUS
<1>1. DOMAIN decisions = {}
  BY DEF Init
<1>2. \A r \in Region : Accepted(r) = {} /\ Delivered(r) = {}
  BY <1>1 DEF Accepted, Delivered
<1>3. \A r \in Region : regions[r] = NewRegion
  BY DEF Init
<1>4. DeliveredCounts
  <2>1. Cardinality({}) = 0
    BY FS_EmptySet
  <2>2. \A r \in Region : regions[r].local_accepted = 0 /\ regions[r].remote_observed = 0
    BY <1>3 DEF NewRegion
  <2> QED
    BY <1>2, <2>1, <2>2, OtherRegion DEF DeliveredCounts
<1> QED
  BY <1>1, <1>4 DEF StalenessBounded

\* A replication that arrives brings all that was accepted so far.
LEMMA ReplicateDelivers ==
  ASSUME Inv, DeliveredCounts, NEW e, Replicate(e)
  PROVE  DeliveredCounts'
<1>1. e.region \in Region /\ TypeOK /\ TypeOK'
  BY PopType, ReplicateStep DEF Replicate, Inv
<1> SUFFICES ASSUME NEW r \in Region
             PROVE  /\ Cardinality(Accepted(r)') = regions'[r].local_accepted
                    /\ Cardinality(Delivered(r)') <= regions'[Other(r)].remote_observed
  BY DEF DeliveredCounts
<1>2. Accepted(r)' = Accepted(r)
  BY DEF Accepted, Replicate
<1>3. Other(r) \in Region /\ Other(r) # r /\ Other(e.region) \in Region
  BY <1>1, OtherRegion
<1>4. /\ regions'[r].local_accepted = regions[r].local_accepted
      /\ regions'[Other(r)].remote_observed =
           IF Other(r) = Other(e.region)
           THEN Observed(regions[Other(r)], regions[e.region])
           ELSE regions[Other(r)].remote_observed
  BY <1>1, <1>3 DEF Replicate, TypeOK, RegionType
<1>5. Cardinality(Delivered(r)') \in Nat /\ Cardinality(Delivered(r)') <= Cardinality(Accepted(r))
  <2>1. Delivered(r)' \in SUBSET Accepted(r)
    BY <1>2 DEF Delivered
  <2>2. IsFiniteSet(Accepted(r))
    BY <1>1, AcceptedFinite
  <2> QED
    BY <2>1, <2>2, FS_Subset, FS_CardinalityType
<1>6. CASE r = e.region
  <2>1. regions[r].local_accepted <= Observed(regions[Other(r)], regions[r])
    BY <1>1, <1>3, RegionTypes DEF Observed
  <2>2. Observed(regions[Other(r)], regions[r]) \in Nat
    BY <1>1, <1>3, RegionTypes DEF Observed
  <2> QED
    BY <1>1, <1>2, <1>4, <1>5, <1>6, <2>1, <2>2, RegionTypes DEF DeliveredCounts
<1>7. CASE r # e.region
  <2>1. Delivered(r)' = Delivered(r)
    <3>1. ASSUME NEW j \in Accepted(r) PROVE UnderWay(j)' <=> UnderWay(j)
      BY <1>7, <3>1 DEF UnderWay, Accepted, Replicate
    <3> QED
      BY <1>2, <3>1 DEF Delivered
  <2>2. Other(r) # Other(e.region)
    BY <1>1, <1>7, OtherRegion
  <2> QED
    BY <1>2, <1>4, <2>1, <2>2 DEF DeliveredCounts
<1> QED
  BY <1>6, <1>7

\* A decision is added: an acceptance is under way at first.
LEMMA DecideDelivers ==
  ASSUME Inv, DeliveredCounts, NEW e, Accept(e) \/ Block(e)
  PROVE  DeliveredCounts'
<1>0. PICK d, i : d = RegionalDecision(e) /\ i = Len(decisions) + 1
  OBVIOUS
<1>1. e.region \in Region /\ e \in EventType /\ TypeOK /\ TypeOK' /\ e.kind = "request"
  BY PopType, AcceptStep, BlockStep DEF Accept, Block, Inv
<1>2. /\ d \in DecisionType /\ d.accepted = Accepts(e.region)
      /\ d.region = e.region /\ d.time_ms = e.time_ms
  BY <1>0, <1>1, DecisionFields DEF RegionalDecision
<1>3. decisions' = Append(decisions, d) /\ config' = config
  BY <1>0 DEF Accept, Block
<1>4. /\ DOMAIN decisions' = DOMAIN decisions \cup {i} /\ i \notin DOMAIN decisions
      /\ decisions'[i] = d
      /\ \A j \in DOMAIN decisions : decisions'[j] = decisions[j]
  BY <1>0, <1>1, <1>2, <1>3 DEF TypeOK
<1> SUFFICES ASSUME NEW r \in Region
             PROVE  /\ Cardinality(Accepted(r)') = regions'[r].local_accepted
                    /\ Cardinality(Delivered(r)') <= regions'[Other(r)].remote_observed
  BY DEF DeliveredCounts
<1>5. Accepted(r)' = IF d.accepted /\ d.region = r THEN Accepted(r) \cup {i} ELSE Accepted(r)
  BY <1>4 DEF Accepted
<1>6. i \notin Accepted(r)
  BY <1>4 DEF Accepted
<1>7. Other(r) \in Region
  BY OtherRegion
<1>8. regions'[Other(r)].remote_observed = regions[Other(r)].remote_observed
  <2>1. CASE Accept(e)
    BY <1>1, <1>7, <2>1 DEF Accept, TypeOK, RegionType
  <2>2. CASE Block(e)
    BY <1>1, <1>7, <2>2 DEF Block, TypeOK, RegionType
  <2> QED
    BY <2>1, <2>2
<1>9. /\ \A f \in queue : f.kind = "replication" => f \in queue'
      /\ Accept(e) => Replication(e) \in queue'
  BY <1>1 DEF Accept, Block
<1>10. \A j \in DOMAIN decisions : UnderWay(j) => UnderWay(j)'
  BY <1>3, <1>4, <1>9 DEF UnderWay
<1>11. CASE Accept(e)
  <2>1. d.accepted
    BY <1>2, <1>11, Zenon DEF Accept
  <2>2. regions'[r].local_accepted =
          IF r = e.region THEN regions[r].local_accepted + 1 ELSE regions[r].local_accepted
    BY <1>1, <1>11 DEF Accept, TypeOK, RegionType
  <2>3. Cardinality(Accepted(r) \cup {i}) = Cardinality(Accepted(r)) + 1
    BY <1>1, <1>6, AcceptedFinite, FS_AddElement
  <2>4. UnderWay(i)'
    <3>1. /\ Replication(e).kind = "replication"
          /\ Replication(e).region = e.region
          /\ Replication(e).time_ms = e.time_ms + config.replication_lag_ms
      BY DEF Replication
    <3> QED
      BY <1>2, <1>3, <1>4, <1>9, <1>11, <3>1 DEF UnderWay
  <2>5. Delivered(r)' \in SUBSET Delivered(r)
    BY <1>4, <1>5, <1>10, <2>4 DEF Delivered, Accepted
  <2>6. /\ Cardinality(Delivered(r)') <= Cardinality(Delivered(r))
        /\ Cardinality(Delivered(r)') \in Nat /\ Cardinality(Delivered(r)) \in Nat
    BY <1>1, <2>5, AcceptedFinite, FS_Subset, FS_CardinalityType
  <2>7. Cardinality(Accepted(r)') = regions'[r].local_accepted
    BY <1>2, <1>5, <2>1, <2>2, <2>3 DEF DeliveredCounts
  <2> QED
    BY <1>1, <1>7, <1>8, <2>6, <2>7, RegionTypes DEF DeliveredCounts
<1>12. CASE Block(e)
  <2>1. ~d.accepted
    BY <1>2, <1>12, Zenon DEF Block
  <2>2. regions'[r].local_accepted = regions[r].local_accepted
    BY <1>1, <1>12 DEF Block, TypeOK, RegionType
  <2>3. Accepted(r)' = Accepted(r)
    BY <1>5, <2>1
  <2>4. Delivered(r)' \in SUBSET Delivered(r)
    BY <1>10, <2>3 DEF Delivered, Accepted
  <2>5. /\ Cardinality(Delivered(r)') <= Cardinality(Delivered(r))
        /\ Cardinality(Delivered(r)') \in Nat /\ Cardinality(Delivered(r)) \in Nat
    BY <1>1, <2>4, AcceptedFinite, FS_Subset, FS_CardinalityType
  <2> QED
    BY <1>1, <1>7, <1>8, <2>2, <2>3, <2>5, RegionTypes DEF DeliveredCounts
<1> QED
  BY <1>11, <1>12

(***************************************************************************)
(* When a request is decided no replication is in the heap that was due    *)
(* before it: what the deciding region has not observed is under way.      *)
(***************************************************************************)
LEMMA DecideKnows ==
  ASSUME Inv, DeliveredCounts, NEW e, Pop(e), e.kind = "request", NEW unseen,
         unseen = {j \in Accepted(Other(e.region)) :
                     decisions[j].time_ms + config.replication_lag_ms > e.time_ms}
  PROVE  ActualGlobal - KnownGlobal(e.region) <= Cardinality(unseen)
<1> DEFINE o == Other(e.region)
<1>1. TypeOK /\ e.region \in Region /\ e.time_ms \in Int /\ o \in Region /\ Other(o) = e.region
  BY PopType, OtherRegion DEF Inv
<1>2. config.replication_lag_ms \in Nat /\ \A j \in DOMAIN decisions : decisions[j].time_ms \in Int
  <2>1. config.replication_lag_ms \in Nat
    BY <1>1, ConfigType DEF TypeOK
  <2>2. \A j \in DOMAIN decisions : decisions[j] \in DecisionType
    BY <1>1 DEF TypeOK
  <2> QED
    BY <2>1, <2>2 DEF DecisionType
<1>3. ASSUME NEW j \in Accepted(o), decisions[j].time_ms + config.replication_lag_ms <= e.time_ms
      PROVE  j \in Delivered(o)
  <2> SUFFICES ASSUME NEW f \in queue, f.kind = "replication",
                      f.time_ms = decisions[j].time_ms + config.replication_lag_ms
               PROVE  FALSE
    BY DEF Delivered, UnderWay
  <2>1. Before(e, f) /\ f.time_ms \in Int
    BY <1>1 DEF Pop, Least, TypeOK, EventType
  <2> QED
    BY <1>1, <1>3, <2>1 DEF Before, Priority
<1>4. unseen \in SUBSET Accepted(o) /\ Accepted(o) \in SUBSET (unseen \cup Delivered(o))
  BY <1>1, <1>2, <1>3 DEF Accepted
<1>5. PICK A : A = Accepted(o)
  OBVIOUS
<1>6. PICK D : D = Delivered(o)
  OBVIOUS
<1>7. /\ IsFiniteSet(A) /\ IsFiniteSet(D) /\ Cardinality(A) \in Nat /\ Cardinality(D) \in Nat
      /\ Cardinality(A) = regions[o].local_accepted
      /\ Cardinality(D) <= regions[e.region].remote_observed
  BY <1>1, <1>5, <1>6, AcceptedFinite DEF DeliveredCounts
<1>8. unseen \in SUBSET A /\ A \in SUBSET (unseen \cup D)
  BY <1>4, <1>5, <1>6
<1>9. IsFiniteSet(unseen) /\ Cardinality(unseen) \in Nat
  BY <1>7, <1>8, FS_Subset, FS_CardinalityType
<1>10. /\ IsFiniteSet(unseen \cup D) /\ Cardinality(unseen \cup D) \in Nat
       /\ Cardinality(unseen \cup D) <= Cardinality(unseen) + Cardinality(D)
  <2>1. /\ IsFiniteSet(unseen \cup D)
        /\ Cardinality(unseen \cup D) =
             Cardinality(unseen) + Cardinality(D) - Cardinality(unseen \cap D)
    BY <1>7, <1>9, FS_Union
  <2>2. Cardinality(unseen \cap D) \in Nat
    BY <1>7, <1>9, FS_Intersection, FS_CardinalityType
  <2> QED
    BY <1>7, <1>9, <2>1, <2>2, FS_CardinalityType
<1>11. Cardinality(A) <= Cardinality(unseen \cup D)
  BY <1>8, <1>10, FS_Subset
<1>12. ActualGlobal - KnownGlobal(e.region) =
         regions[o].local_accepted - regions[e.region].remote_observed
  BY <1>1, RegionTypes DEF ActualGlobal, KnownGlobal, Region, Other
<1> QED
  BY <1>1, <1>7, <1>9, <1>10, <1>11, <1>12, RegionTypes

\* A new decision knows all but what is unseen; the others stay as they are.
LEMMA DecideStaleness ==
  ASSUME Inv, DeliveredCounts, StalenessBounded, NEW e, Accept(e) \/ Block(e)
  PROVE  StalenessBounded'
<1> DEFINE d == RegionalDecision(e)
           n == Len(decisions) + 1
<1>1. TypeOK /\ e.region \in Region /\ e \in EventType /\ e.kind = "request" /\ Pop(e)
  BY PopType DEF Accept, Block, Inv
<1>2. /\ d \in DecisionType /\ d.region = e.region /\ d.time_ms = e.time_ms
      /\ d.known = KnownGlobal(e.region) /\ d.actual = ActualGlobal
  BY <1>1, DecisionFields DEF RegionalDecision
<1>3. decisions' = Append(decisions, d) /\ config' = config
  BY DEF Accept, Block
<1> HIDE DEF d
<1>4. /\ Len(decisions) \in Nat /\ DOMAIN decisions = 1..Len(decisions)
      /\ DOMAIN decisions' = 1..n /\ decisions'[n] = d
      /\ \A j \in DOMAIN decisions : decisions'[j] = decisions[j]
      /\ \A j \in DOMAIN decisions : decisions[j].region \in Region
  <2>1. \A j \in DOMAIN decisions : decisions[j] \in DecisionType
    BY <1>1 DEF TypeOK
  <2>2. \A j \in DOMAIN decisions : decisions[j].region \in Region
    BY <2>1 DEF DecisionType
  <2> QED
    BY <1>1, <1>2, <1>3, <2>2 DEF TypeOK
<1> SUFFICES ASSUME NEW i \in 1..n
             PROVE  decisions'[i].actual - decisions'[i].known <= Cardinality(Unseen(i)')
  BY <1>4 DEF StalenessBounded
<1>5. CASE i \in DOMAIN decisions
  <2>1. \A j \in 1..(i - 1) : j \in DOMAIN decisions
    BY <1>4, <1>5
  <2>2. Unseen(i)' = Unseen(i)
    BY <1>3, <1>4, <1>5, <2>1 DEF Unseen
  <2> QED
    BY <1>4, <1>5, <2>2 DEF StalenessBounded
<1>6. CASE i = n
  <2>1. n - 1 = Len(decisions)
    BY <1>4
  <2>2. \A j \in DOMAIN decisions :
          decisions[j].region # e.region <=> decisions[j].region = Other(e.region)
    BY <1>1, <1>4 DEF Region, Other
  <2>3. Unseen(i)' = {j \in Accepted(Other(e.region)) :
                        decisions[j].time_ms + config.replication_lag_ms > e.time_ms}
    BY <1>2, <1>3, <1>4, <1>6, <2>1, <2>2 DEF Unseen, Accepted
  <2>4. ActualGlobal - KnownGlobal(e.region) <= Cardinality(Unseen(i)')
    BY <1>1, <2>3, DecideKnows
  <2> QED
    BY <1>2, <1>4, <1>6, <2>4
<1> QED
  BY <1>4, <1>5, <1>6

(***************************************************************************)
(* A region decides on everything the other had accepted, except what was  *)
(* accepted within the last replication_lag_ms.                            *)
(***************************************************************************)
THEOREM StalenessHolds == Spec => []StalenessBounded
<1>1. Inv /\ DeliveredCounts /\ StalenessBounded /\ [Next]_vars
        => DeliveredCounts' /\ StalenessBounded'
  <2> SUFFICES ASSUME Inv, DeliveredCounts, StalenessBounded, [Next]_vars
               PROVE  DeliveredCounts' /\ StalenessBounded'
    OBVIOUS
  <2>1. ASSUME NEW e \in queue, Replicate(e) PROVE DeliveredCounts' /\ StalenessBounded'
    <3>1. StalenessBounded'
      BY <2>1 DEF Replicate, StalenessBounded, Unseen
    <3> QED
      BY <2>1, <3>1, ReplicateDelivers
  <2>2. ASSUME NEW e \in queue, Accept(e) \/ Block(e)
        PROVE  DeliveredCounts' /\ StalenessBounded'
    BY <2>2, DecideDelivers, DecideStaleness
  <2>3. CASE UNCHANGED vars
    BY <2>3 DEF vars, DeliveredCounts, Delivered, Accepted, UnderWay, StalenessBounded, Unseen
  <2> QED
    BY <2>1, <2>2, <2>3 DEF Next
<1> QED
  BY <1>1, InitDelivered, Invariance, PTL DEF Spec
=============================================================================
