---------------------------- MODULE Provisioning ----------------------------
(***************************************************************************)
(* The scripts that set up policies, while others work on the same table:  *)
(* seed_demo_policies.py uses PolicyService itself and creates what is not *)
(* there; run_benchmark.py goes through the admin API and creates or       *)
(* updates.  Both list the policies once, at the start, and stop at the    *)
(* first thing that fails.                                                 *)
(***************************************************************************)
EXTENDS PolicyStore

CONSTANT Plan  \* what may be run

Script == {"seed", "benchmark"}

(***************************************************************************)
(* A plan is the scripts that run, the scenario of the benchmark, and how  *)
(* many writes others begin meanwhile (a bound).                           *)
(***************************************************************************)
ASSUME ProvisioningAssumption ==
  /\ Script \subseteq Session
  /\ \A p \in Plan : p.scripts \subseteq Script /\ p.writes \in 0..MaxWrites

VARIABLES
  plan,    \* the plan, which never changes
  script,  \* script[k]: how far script k has come
  alone    \* history: the scripts since whose start nobody else changed the table

provisioningVars == <<vars, plan, script, alone>>

\* As far as selectors, algorithm and burst capacity go.
seed_policies ==
  <<[name |-> "demo-public-route", rate |-> 30, burst_capacity |-> 60, route |-> "public"],
    [name |-> "demo-protected-route", rate |-> 10, burst_capacity |-> 15, route |-> "protected"],
    [name |-> "vip-user-route", algorithm |-> "sliding_window_log", rate |-> 20,
     route |-> "user", user_id |-> "vip"],
    [name |-> "platform-auth-service", rate |-> 25, burst_capacity |-> 25, route |-> "auth"],
    [name |-> "platform-payments-service", algorithm |-> "sliding_window_log", rate |-> 12,
     route |-> "payments"],
    [name |-> "platform-search-service", algorithm |-> "fixed_window", rate |-> 40,
     route |-> "search"]>>

benchmark_policy_payloads ==
  CASE plan.scenario \in {"protected-burst", "shared-protected"} ->
         <<[name |-> "benchmark-shared-protected", algorithm |-> "token_bucket", rate |-> 120,
            burst_capacity |-> 120, route |-> "protected"]>>
    [] plan.scenario = "user-hotspot" ->
         <<[name |-> "benchmark-user-hotspot", algorithm |-> "token_bucket", rate |-> 90,
            burst_capacity |-> 90, route |-> "user", user_id |-> "vip"]>>
    [] plan.scenario = "ip-hotspot" ->
         <<[name |-> "benchmark-ip-hotspot", algorithm |-> "fixed_window", rate |-> 60,
            route |-> "protected", ip_address |-> "10"]>>
    [] plan.scenario = "platform-services" ->
         <<[name |-> "benchmark-auth-service", algorithm |-> "token_bucket", rate |-> 80,
            burst_capacity |-> 80, route |-> "auth"],
           [name |-> "benchmark-payments-service", algorithm |-> "sliding_window_log",
            rate |-> 45, route |-> "payments"],
           [name |-> "benchmark-search-service", algorithm |-> "fixed_window", rate |-> 120,
            route |-> "search"]>>
    [] OTHER ->
         <<[name |-> "benchmark-public-mixed", algorithm |-> "token_bucket", rate |-> 120,
            burst_capacity |-> 120, route |-> "protected"],
           [name |-> "benchmark-user-mixed", algorithm |-> "sliding_window_log", rate |-> 90,
            route |-> "user", user_id |-> "vip"]>>

Payloads(k) == IF k = "seed" THEN seed_policies ELSE benchmark_policy_payloads

ProvisioningInit ==
  /\ Init
  /\ plan \in Plan
  /\ script = [k \in Script |-> [step |-> IF k \in plan.scripts THEN "start" ELSE "off"]]
  /\ alone = {}

\* A step of s, as the scripts other than s see it.
Disturbs(s) == alone' = IF rows' = rows THEN alone ELSE alone \cap {s}
-----------------------------------------------------------------------------
\* A slip: the benchmark looks at inactive policies too.
ListsInactive(k) == FALSE

\* The seed looks at all policies; GET without a parameter gives active ones.
ActiveOnly(k) == k = "benchmark"

\* What policies there are; the script ends if the list fails.
List(k) ==
  /\ script[k].step = "start"
  /\ script' = [script EXCEPT ![k] =
       IF ListFails(ActiveOnly(k))
       THEN [step |-> "failed"]
       ELSE [step |-> "running", next |-> 1, begun |-> clock, existing |-> Listed(ActiveOnly(k))]]
  /\ BeginTransaction
  /\ alone' = alone \cup {k}
  /\ UNCHANGED <<rows, created, session, writes, history, plan>>

\* Script k turns to its next policy, which it found in existing or not.
Turns(k) ==
  /\ script[k].step = "running"
  /\ session[k] = Ended
  /\ script[k].next <= Len(Payloads(k))
  /\ script' = [script EXCEPT ![k].next = @ + 1]
  /\ UNCHANGED <<writes, plan>>

Wanted(k) == Payloads(k)[script[k].next]

Known(k) == {row \in script[k].existing : row.name = Wanted(k).name}

\* main of seed_demo_policies: a name that was there is left alone.
SeedSkips ==
  /\ Turns("seed")
  /\ Known("seed") # {}
  /\ UNCHANGED <<rows, created, session, clock, history, alone>>

\* create_policy in the session that listed the policies, or that has just
\* read the last one back.
SeedCreates ==
  LET p == PolicyCreate(Wanted("seed"))
  IN  /\ Turns("seed")
      /\ Known("seed") = {}
      /\ Valid(p)
      /\ Insert("seed", p, script["seed"].begun) \/ InsertFails("seed", p)
      /\ Disturbs("seed")
      /\ UNCHANGED clock

\* prepare_benchmark_policies: POST
BenchmarkPosts ==
  LET p == PolicyCreate(Wanted("benchmark"))
  IN  /\ Turns("benchmark")
      /\ Known("benchmark") = {}
      /\ Valid(p)
      /\ BeginTransaction
      /\ Insert("benchmark", p, clock) \/ InsertFails("benchmark", p)
      /\ Disturbs("benchmark")

\* PUT: it fails if the row is gone, or would not be valid with the change.
BenchmarkPuts ==
  /\ Turns("benchmark")
  /\ \E row \in Known("benchmark") :
       \/ GetForUpdate("benchmark", row.id, Wanted("benchmark"))
       \/ /\ ~(Exists(row.id) /\ Valid(Merged(rows[row.id], Wanted("benchmark"))))
          /\ Goes("benchmark", Failed)
          /\ BeginTransaction
          /\ UNCHANGED <<rows, created, history>>
  /\ UNCHANGED alone

\* The rest of what it has begun.  (The seed goes on in the transaction in
\* which it read its row back.)
ScriptProceeds(k) ==
  /\ Proceed(k)
  /\ script' = IF session[k].step = "committed" THEN [script EXCEPT ![k].begun = clock] ELSE script
  /\ Disturbs(k)
  /\ UNCHANGED plan

Ends(k) ==
  /\ script[k].step = "running"
  /\ \/ /\ session[k] = Failed
        /\ script' = [script EXCEPT ![k] = [step |-> "failed"]]
     \/ /\ session[k] = Ended
        /\ script[k].next > Len(Payloads(k))
        /\ script' = [script EXCEPT ![k] = [step |-> "ok"]]
  /\ UNCHANGED <<vars, plan, alone>>

OthersStep(s) ==
  /\ Handle(s)
  /\ writes' <= plan.writes
  /\ Disturbs(s)
  /\ UNCHANGED <<plan, script>>

ScriptStep(k) == List(k) \/ ScriptProceeds(k) \/ Ends(k)

ProvisioningNext ==
  \/ \E s \in Session \ Script : OthersStep(s)
  \/ \E k \in Script : ScriptStep(k)
  \/ SeedSkips \/ SeedCreates \/ BenchmarkPosts \/ BenchmarkPuts

ProvisioningSpec == ProvisioningInit /\ [][ProvisioningNext]_provisioningVars
-----------------------------------------------------------------------------
(***************************************************************************)
(* A script that ended well and was not interfered with has done its work: *)
(* there is a policy of every name; for the benchmark an active one with   *)
(* everything its payload says, whatever the table held before.            *)
(***************************************************************************)
ProvisioningHolds ==
  \A k \in alone : script[k].step = "ok" =>
    \A n \in DOMAIN Payloads(k) :
      \E row \in Listed(k = "benchmark") :
        /\ row.name = Payloads(k)[n].name
        /\ k = "benchmark" => \A c \in DOMAIN Payloads(k)[n] : row[c] = Payloads(k)[n][c]
=============================================================================
