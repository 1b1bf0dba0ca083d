--------------------------- MODULE PolicyMatcher ---------------------------
(***************************************************************************)
(* Which policy applies to a request, and under which key it is counted.   *)
(*                                                                         *)
(* A policy is a record with its columns, id and version; one that leaves  *)
(* a selector Null applies whatever the request says there.  An identity   *)
(* gives each selector its value in the request, or Null.                  *)
(***************************************************************************)
EXTENDS Integers, FiniteSets, Sequences

CONSTANT Null

Selector == {"route", "user_id", "ip_address", "tenant_id", "api_key"}

\* The first address of X-Forwarded-For, else the peer's.
extract_client_ip(request) ==
  IF request.forwarded # <<>> THEN Head(request.forwarded) ELSE request.client

\* The user in the path counts before the one in the header.
build_request_identity(request) ==
  [route |-> request.route,
   user_id |-> IF request.path_user # Null THEN request.path_user ELSE request.header_user,
   ip_address |-> extract_client_ip(request),
   tenant_id |-> request.tenant,
   api_key |-> request.api_key]

\* The selectors a policy is restricted by (describe_policy_scope).
Named(p) == {s \in Selector : p[s] # Null}

policy_matches(p, identity) == \A s \in Named(p) : p[s] = identity[s]

weight == [user_id |-> 20, api_key |-> 18, tenant_id |-> 16, ip_address |-> 14, route |-> 12]

\* The weight of a selector if p names it.
WeightIn(p, s) == IF p[s] # Null THEN weight[s] ELSE 0

selector_weight(p) ==
  WeightIn(p, "user_id") + WeightIn(p, "api_key") + WeightIn(p, "tenant_id")
    + WeightIn(p, "ip_address") + WeightIn(p, "route")

\* A slip: the priority decides first.
score_by_priority(p) == <<p.priority, Cardinality(Named(p)), selector_weight(p), p.version>>

policy_score(p) == <<Cardinality(Named(p)), selector_weight(p), p.priority, p.version>>

\* Tuples are compared by the first place in which they differ.
Exceeds(a, b) ==
  \E k \in DOMAIN a : a[k] > b[k] /\ \A j \in 1..(k - 1) : a[j] = b[j]

\* max() keeps the first of several that are best.
select_best_policy(policies, identity) ==
  LET matching == {k \in DOMAIN policies :
                     policies[k].active /\ policy_matches(policies[k], identity)}
      best == {k \in matching : \A j \in matching :
                 ~Exceeds(policy_score(policies[j]), policy_score(policies[k]))}
  IN  IF matching = {}
      THEN Null
      ELSE policies[CHOOSE k \in best : \A j \in best : k <= j]

\* A slip: the key says nothing of the algorithm.
key_without_algorithm(p, identity) ==
  [id |-> p.id, version |-> p.version, segments |-> [s \in Named(p) |-> identity[s]]]

\* The segments of the key, each of which says what it stands for.  The
\* identity matches, so it has a value where the policy has one.
build_rate_limit_key(p, identity) ==
  [algorithm |-> p.algorithm, id |-> p.id, version |-> p.version,
   segments |-> [s \in Named(p) |-> identity[s]]]
=============================================================================
