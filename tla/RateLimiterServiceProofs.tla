---------------------- MODULE RateLimiterServiceProofs ----------------------
(***************************************************************************)
(* What holds of RateLimiterService for any number of requests, instances, *)
(* attempts, windows, versions and crashes.                                *)
(*                                                                         *)
(* The heart of it is the life of a script: it is sent once, and is on the *)
(* wire, then executed once or lost.  A grant, an answer and a decision    *)
(* that carry the same script therefore speak of the same execution.       *)
(***************************************************************************)
EXTENDS RateLimiterService, FiniteSetTheorems, TLAPS

ScriptType == [req : Request, attempt : Nat \ {0}, version : Version]

CallType ==
  {NoCall} \cup
  [state : {"waiting", "backoff", "done", "died"}, attempt : Nat, at : Instance,
   version : 0..setup.versions]

DecisionType ==
  [by : {"nobody", "no_policy", "redis", "local", "failure_mode"}, allowed : BOOLEAN,
   window : Window]

TypeOK ==
  /\ setup \in Scenario
  /\ window \in Window
  /\ policy \in Version
  /\ view \in [Instance -> 0..setup.versions]
  /\ redisUp \in BOOLEAN
  /\ counter \in [Version \X Window -> Nat]
  /\ wire \in SUBSET ScriptType
  /\ answers \in SUBSET [script : ScriptType, allowed : BOOLEAN, window : Window]
  /\ call \in [Request -> CallType]
  /\ decision \in [Request -> DecisionType]
  /\ local \in [Instance -> [Version -> [window : Window, count : 0..Limit]]]
  /\ outages \in Nat
  /\ restarts \in Nat
  /\ grants \in SUBSET [script : ScriptType, window : Window]
  /\ failed \in SUBSET ScriptType

\* A call that is under way knows its attempt and its version; one that is
\* decided is done; and only calls without a policy have no version then.
CallInv ==
  \A r \in Request :
    /\ call[r].state \in {"waiting", "backoff"} => Script(r) \in ScriptType
    /\ decision[r].by # "nobody" => call[r].state = "done"
    /\ decision[r].by = "nobody" => ~decision[r].allowed
    /\ decision[r].by = "no_policy" => call[r].version = 0 /\ decision[r].allowed

\* s is a script of the call for its request, as it stands.
Sent(s) ==
  /\ call[s.req].state # "idle"
  /\ s.attempt <= call[s.req].attempt
  /\ s.version = call[s.req].version

(***************************************************************************)
(* What was executed has been sent and is not on the wire any more, and    *)
(* what is on the wire is waited for or given up.                          *)
(***************************************************************************)
ScriptInv ==
  /\ \A s \in wire : Sent(s) /\ (s \in failed \/ Awaited(s))
  /\ \A g \in grants : Sent(g.script) /\ g.script \notin wire
  /\ \A a \in answers : Awaited(a.script) /\ a.script \notin wire

\* A script has one answer, which says what the execution did.
AnswerInv ==
  /\ \A a, b \in answers : a.script = b.script => a = b
  /\ \A a \in answers : a.allowed => [script |-> a.script, window |-> a.window] \in grants
  /\ \A a \in answers, g \in grants : a.script = g.script => a.allowed /\ a.window = g.window

\* A decision of Redis is that of the attempt that was answered.
DecisionInv ==
  \A r \in Request : decision[r].by = "redis" =>
    /\ Script(r) \in ScriptType
    /\ decision[r].allowed => [script |-> Script(r), window |-> decision[r].window] \in grants

GrantsOf(v, w) == {g \in grants : g.script.version = v /\ g.window = w}

\* The places a counter stands for.
Taken(count) == IF count <= Limit THEN count ELSE Limit

(***************************************************************************)
(* The places given away in a window are those of the present counter, and *)
(* no more than Limit for each counter that was lost.                      *)
(***************************************************************************)
GrantInv ==
  /\ IsFiniteSet(grants)
  /\ \A v \in Version, w \in Window :
       /\ Cardinality(GrantsOf(v, w)) >= Taken(counter[<<v, w>>])
       /\ Cardinality(GrantsOf(v, w)) <= Limit * outages + Taken(counter[<<v, w>>])

Refused(v, w) == Cardinality(GrantsOf(v, w)) >= Limit

\* Redis refuses only when the places are gone.
RefusalInv ==
  /\ \A a \in answers : ~a.allowed => Refused(a.script.version, a.window)
  /\ \A r \in Request : decision[r].by = "redis" /\ ~decision[r].allowed =>
       Refused(call[r].version, decision[r].window)

\* What the fallback of instance i let through.
LocalPlaces(i, v, w) == {r \in By("local", Admitted(v, w)) : call[r].at = i}

BusyInv == IsFiniteSet({r \in Request : call[r].state # "idle"})

\* The count of a fallback stands for requests it let through.
LocalInv ==
  /\ \A i \in Instance, v \in Version :
       /\ local[i][v].window <= window
       /\ local[i][v].count <= Cardinality(LocalPlaces(i, v, local[i][v].window))
  /\ \A r \in Request : decision[r].by = "local" =>
       /\ setup.fallback
       /\ call[r].version \in Version
       /\ ~decision[r].allowed =>
            Cardinality(LocalPlaces(call[r].at, call[r].version, decision[r].window)) >= Limit
  /\ \A r \in Request : decision[r].by = "failure_mode" =>
      ~setup.fallback /\ decision[r].allowed = (setup.failure_mode = "fail_open")

(***************************************************************************)
(* Those let through by fallbacks have seats: a seat is a life of a        *)
(* fallback and a number up to Limit.  The present life of an instance is  *)
(* 0, and a crash gives the life it ends a number of its own.  In the      *)
(* present life no seat beyond the count is taken.                         *)
(***************************************************************************)
Seated(v, w, life, seat) ==
  /\ \A p, q \in By("local", Admitted(v, w)) :
       life[p] = life[q] /\ seat[p] = seat[q] /\ (life[p] = 0 => call[p].at = call[q].at) => p = q
  /\ \A q \in By("local", Admitted(v, w)) : life[q] = 0 =>
       LET state == local[call[q].at][v]
       IN  state.window > w \/ (state.window = w /\ seat[q] <= state.count)

SeatInv ==
  \A v \in Version, w \in Window :
    \E life \in [Request -> 0..restarts], seat \in [Request -> 1..Limit] : Seated(v, w, life, seat)

Inv ==
  /\ TypeOK /\ CallInv /\ ScriptInv /\ AnswerInv /\ DecisionInv /\ PlacesAccounted
  /\ GrantInv /\ RefusalInv /\ BusyInv /\ LocalInv /\ SeatInv
\* PlacesAccounted, of one place.
Accounted(g) ==
  LET r == g.script.req
  IN  \/ g.script \in failed
      \/ /\ g.script = Script(r)
         /\ \/ call[r].state = "waiting"
            \/ decision[r] = [by |-> "redis", allowed |-> TRUE, window |-> g.window]
-----------------------------------------------------------------------------
\* The settings never change, and with them no bound.
Rigid ==
  /\ setup' = setup
  /\ Version' = Version /\ Window' = Window /\ MaxAttempts' = MaxAttempts
  /\ ScriptType' = ScriptType /\ CallType' = CallType /\ DecisionType' = DecisionType

\* No step changes the scenario, nor what is defined by it.
LEMMA SetupStays ==
  ASSUME [Next]_vars
  PROVE  Rigid
<1>1. setup' = setup
  BY DEF Next, vars, UpdatePolicy, Refresh, Submit, SubmitUnlimited, Retry, Send, RedisFailure,
         Receive, Execute, Lose, NextWindow, RedisCrash, RedisStart, InstanceCrash
<1>2. Version' = Version /\ Window' = Window /\ MaxAttempts' = MaxAttempts
  BY <1>1 DEF Version, Window, MaxAttempts
<1> QED
  BY <1>1, <1>2 DEF Rigid, ScriptType, CallType, DecisionType

\* What the settings are.
LEMMA SetupType ==
  ASSUME setup \in Scenario
  PROVE  /\ setup.versions \in Nat \ {0} /\ setup.windows \in Nat
         /\ 0 \in Window /\ 1 \in Version
         /\ MaxAttempts \in Nat \ {0}
         /\ setup.fallback \in BOOLEAN /\ Limit \in Nat \ {0}
  BY ServiceAssumption DEF Version, Window, MaxAttempts

(***************************************************************************)
(* Of the calls only undecided ones move, and none is decided by a local   *)
(* fallback.                                                               *)
(***************************************************************************)
NoFallback ==
  \A r \in Request :
    \/ call'[r] = call[r] /\ decision'[r] = decision[r]
    \/ /\ decision[r].by = "nobody"
       /\ decision'[r].by # "local"
       /\ decision'[r].by = "failure_mode" =>
            ~setup.fallback /\ decision'[r].allowed = (setup.failure_mode = "fail_open")

\* Then the fallbacks have let through whom they had let through before.
LEMMA SameLocals ==
  ASSUME NoFallback
  PROVE  /\ \A v, w : By("local", Admitted(v, w))' = By("local", Admitted(v, w))
         /\ \A v, w : \A q \in By("local", Admitted(v, w)) : q \in Request /\ call'[q] = call[q]
         /\ \A i, v, w : LocalPlaces(i, v, w)' = LocalPlaces(i, v, w)
<1>1. \A v, w : By("local", Admitted(v, w))' = By("local", Admitted(v, w))
  BY DEF NoFallback, By, Admitted
<1>2. \A v, w : \A q \in By("local", Admitted(v, w)) : q \in Request /\ call'[q] = call[q]
  BY DEF NoFallback, By, Admitted
<1> QED
  BY <1>1, <1>2 DEF LocalPlaces

\* And what is kept of them stays right.
LEMMA FallbacksIdle ==
  ASSUME Inv, Rigid, NoFallback, local' = local, restarts' = restarts,
         window' \in Nat, window <= window'
  PROVE  LocalInv' /\ SeatInv'
<1>1. /\ \A v, w : By("local", Admitted(v, w))' = By("local", Admitted(v, w))
      /\ \A v, w : \A q \in By("local", Admitted(v, w)) : q \in Request /\ call'[q] = call[q]
      /\ \A i, v, w : LocalPlaces(i, v, w)' = LocalPlaces(i, v, w)
  BY SameLocals
<1>2. \A i \in Instance, v \in Version : local[i][v].window <= window'
  <2>1. \A i \in Instance, v \in Version : local[i][v].window \in Nat /\ local[i][v].window <= window
    BY DEF Inv, LocalInv, TypeOK, Window
  <2>2. window \in Nat
    BY DEF Inv, TypeOK, Window
  <2> QED
    BY <2>1, <2>2
<1>3. LocalInv'
  <2>1. \A i \in Instance, v \in Version :
          /\ local[i][v].window <= window'
          /\ local[i][v].count <= Cardinality(LocalPlaces(i, v, local[i][v].window))'
    BY <1>1, <1>2 DEF Inv, LocalInv
  <2>2. \A r \in Request : decision'[r].by = "local" =>
          call'[r] = call[r] /\ decision'[r] = decision[r]
    BY DEF NoFallback
  <2>3. \A r \in Request : decision'[r].by = "failure_mode" =>
          ~setup.fallback /\ decision'[r].allowed = (setup.failure_mode = "fail_open")
    BY DEF NoFallback, Inv, LocalInv
  <2> QED
    BY <2>1, <2>2, <2>3, <1>1 DEF Inv, LocalInv, Rigid
<1>4. ASSUME NEW v \in Version, NEW w \in Window, NEW life, NEW seat, Seated(v, w, life, seat)
      PROVE  Seated(v, w, life, seat)'
  BY <1>1, <1>4 DEF Seated
<1>5. SeatInv'
  BY <1>4 DEF Inv, SeatInv, Rigid
<1> QED
  BY <1>3, <1>5

\* The same holds of what Redis gave away.
LEMMA GrantsIdle ==
  ASSUME Inv, Rigid, grants' = grants, counter' = counter, outages' = outages
  PROVE  GrantInv' /\ \A v, w : Refused(v, w)' = Refused(v, w)
<1>1. \A v, w : GrantsOf(v, w)' = GrantsOf(v, w)
  BY DEF GrantsOf
<1>2. GrantInv'
  BY <1>1 DEF Inv, GrantInv, Rigid, Taken
<1> QED
  BY <1>1, <1>2 DEF Refused
-----------------------------------------------------------------------------
(***************************************************************************)
(* A step that touches neither calls, scripts nor counts: the policy or an *)
(* instance's list changes, a window ends, Redis starts.                   *)
(***************************************************************************)
LEMMA QuietInv ==
  ASSUME Inv, Rigid,
         UNCHANGED <<counter, wire, answers, call, decision, local, outages, restarts, grants, failed>>,
         window' \in Window, window <= window', policy' \in Version,
         view' \in [Instance -> 0..setup.versions], redisUp' \in BOOLEAN
  PROVE  Inv'
<1>1. TypeOK'
  BY DEF Inv, TypeOK, Rigid
<1>2. \A r : Script(r)' = Script(r)
  BY DEF Script
<1>3. CallInv' /\ DecisionInv' /\ PlacesAccounted' /\ BusyInv'
  BY <1>2 DEF Inv, CallInv, DecisionInv, PlacesAccounted, BusyInv, Rigid
<1>4. ScriptInv' /\ AnswerInv'
  BY <1>2 DEF Inv, ScriptInv, AnswerInv, Sent, Awaited
<1>5. GrantInv' /\ \A v, w : Refused(v, w)' = Refused(v, w)
  BY GrantsIdle
<1>6. RefusalInv'
  BY <1>5 DEF Inv, RefusalInv
<1>7. LocalInv' /\ SeatInv'
  <2>1. window' \in Nat
    BY DEF Window
  <2> QED
    BY <2>1, FallbacksIdle DEF NoFallback
<1> QED
  BY <1>1, <1>3, <1>4, <1>5, <1>6, <1>7 DEF Inv

\* The policy is updated.
LEMMA UpdatePolicyInv ==
  ASSUME Inv, Rigid, UpdatePolicy
  PROVE  Inv'
<1>1. policy' \in Version
  BY SetupType DEF Inv, TypeOK, Version, UpdatePolicy
<1> QED
  BY <1>1, QuietInv DEF UpdatePolicy, Inv, TypeOK, Rigid, Window

\* An instance comes to work with another list.
LEMMA RefreshInv ==
  ASSUME Inv, Rigid, NEW i \in Instance, Refresh(i)
  PROVE  Inv'
<1>1. view' \in [Instance -> 0..setup.versions]
  BY SetupType DEF Inv, TypeOK, Version, Refresh
<1> QED
  BY <1>1, QuietInv DEF Refresh, Inv, TypeOK, Rigid, Window

\* A window ends.
LEMMA NextWindowInv ==
  ASSUME Inv, Rigid, NextWindow
  PROVE  Inv'
<1>1. window' \in Window /\ window <= window'
  BY SetupType DEF Inv, TypeOK, Window, NextWindow
<1> QED
  BY <1>1, QuietInv DEF NextWindow, Inv, TypeOK, Rigid, policies

\* Redis starts.
LEMMA RedisStartInv ==
  ASSUME Inv, Rigid, RedisStart
  PROVE  Inv'
  BY QuietInv DEF RedisStart, Inv, TypeOK, Rigid, policies, Window

\* Nothing happens.
LEMMA StutterInv ==
  ASSUME Inv, Rigid, UNCHANGED vars
  PROVE  Inv'
  BY QuietInv DEF vars, policies, Inv, TypeOK, Rigid, Window
-----------------------------------------------------------------------------
(***************************************************************************)
(* An attempt is sent, the first or a later one: its script is new, and    *)
(* what the request has sent before has failed.                            *)
(***************************************************************************)
LEMMA SendInv ==
  ASSUME Inv, Rigid, NEW r \in Request, NEW i \in Instance, NEW v \in Version,
         NEW n \in Nat \ {0}, call[r].state \in {"idle", "backoff"}, n > call[r].attempt,
         call[r].state = "backoff" => v = call[r].version,
         Send(r, i, v, n)
  PROVE  Inv'
<1> DEFINE new == [req |-> r, attempt |-> n, version |-> v]
<1> USE DEF Rigid
<1>1. /\ call'[r] = [state |-> "waiting", attempt |-> n, at |-> i, version |-> v]
      /\ \A q \in Request : q # r => call'[q] = call[q]
      /\ call' \in [Request -> CallType]
  BY SetupType DEF Inv, TypeOK, Send, CallType, Version
<1>2. /\ UNCHANGED <<window, policy, view, redisUp, counter, answers, decision, local,
                     outages, restarts, grants, failed>>
      /\ wire' = wire \cup {new}
  BY DEF Send, policies
<1>3. new \in ScriptType /\ Script(r)' = new /\ \A q \in Request : q # r => Script(q)' = Script(q)
  BY <1>1 DEF Script, ScriptType
<1>4. call[r].state # "done" /\ decision[r].by = "nobody"
  BY DEF Inv, CallInv
<1>5. call[r].attempt \in Nat
  BY DEF Inv, TypeOK, CallType, NoCall
<1>6. TypeOK'
  BY <1>1, <1>2, <1>3 DEF Inv, TypeOK
<1>7. CallInv'
  BY <1>1, <1>2, <1>3, <1>4 DEF Inv, CallInv
<1>8. \A s \in ScriptType : Sent(s) => Sent(s)' /\ s # new
  <2> SUFFICES ASSUME NEW s \in ScriptType, Sent(s) PROVE Sent(s)' /\ s # new
    OBVIOUS
  <2>1. CASE s.req = r
    <3>1. call[r].state = "backoff" /\ s.attempt <= call[r].attempt /\ s.version = v
      BY <2>1 DEF Sent
    <3>2. s.attempt \in Nat /\ s.attempt < n
      BY <3>1, <1>5 DEF ScriptType
    <3> QED
      BY <3>1, <3>2, <2>1, <1>1 DEF Sent
  <2>2. CASE s.req # r
    BY <2>2, <1>1 DEF Sent, ScriptType
  <2> QED
    BY <2>1, <2>2
<1>9. \A s \in ScriptType : Awaited(s) => Awaited(s)' /\ s.req # r
  BY <1>1, <1>3 DEF Awaited, ScriptType
<1>10. ScriptInv'
  <2>1. \A s \in wire : s \in ScriptType
    BY DEF Inv, TypeOK
  <2>2. \A s \in wire' : Sent(s)' /\ (s \in failed' \/ Awaited(s)')
    <3>1. Sent(new)' /\ Awaited(new)'
      BY <1>1, <1>3 DEF Sent, Awaited
    <3> QED
      BY <3>1, <2>1, <1>2, <1>8, <1>9 DEF Inv, ScriptInv
  <2>3. \A g \in grants : g.script \in ScriptType
    BY DEF Inv, TypeOK
  <2>4. \A g \in grants' : Sent(g.script)' /\ g.script \notin wire'
    BY <2>3, <1>2, <1>8 DEF Inv, ScriptInv
  <2>5. \A a \in answers : a.script \in ScriptType
    BY DEF Inv, TypeOK
  <2>6. \A a \in answers' : Awaited(a.script)' /\ a.script \notin wire'
    BY <2>5, <1>2, <1>9 DEF Inv, ScriptInv
  <2> QED
    BY <2>2, <2>4, <2>6 DEF ScriptInv
<1>11. AnswerInv'
  BY <1>2 DEF Inv, AnswerInv
<1>12. DecisionInv'
  BY <1>2, <1>3, <1>4 DEF Inv, DecisionInv
<1>13. PlacesAccounted'
  <2> SUFFICES ASSUME NEW g \in grants PROVE Accounted(g)'
    BY <1>2 DEF PlacesAccounted, Accounted
  <2>1. g.script.req \in Request /\ Accounted(g)
    BY DEF Inv, TypeOK, ScriptType, PlacesAccounted, Accounted
  <2>2. CASE g.script.req = r
    BY <2>1, <2>2, <1>2, <1>4 DEF Accounted
  <2>3. CASE g.script.req # r
    BY <2>1, <2>3, <1>1, <1>2, <1>3 DEF Accounted
  <2> QED
    BY <2>2, <2>3
<1>14. GrantInv' /\ \A x, y : Refused(x, y)' = Refused(x, y)
  BY <1>2, GrantsIdle
<1>15. RefusalInv'
  BY <1>1, <1>2, <1>4, <1>14 DEF Inv, RefusalInv
<1>16. BusyInv'
  <2>1. {q \in Request : call'[q].state # "idle"} = {q \in Request : call[q].state # "idle"} \cup {r}
    BY <1>1
  <2>2. IsFiniteSet({q \in Request : call[q].state # "idle"} \cup {r})
    <3>1. IsFiniteSet({q \in Request : call[q].state # "idle"})
      BY DEF Inv, BusyInv
    <3> QED
      BY <3>1, FS_AddElement
  <2> QED
    BY <2>1, <2>2 DEF BusyInv
<1>17. LocalInv' /\ SeatInv'
  <2>1. window' \in Nat /\ window <= window'
    BY <1>2 DEF Inv, TypeOK, Window
  <2>2. NoFallback
    BY <1>1, <1>2, <1>4 DEF NoFallback
  <2> QED
    BY <2>1, <2>2, <1>2, FallbacksIdle
<1> QED
  BY <1>6, <1>7, <1>10, <1>11, <1>12, <1>13, <1>14, <1>15, <1>16, <1>17 DEF Inv

\* The first attempt of a request.
LEMMA SubmitInv ==
  ASSUME Inv, Rigid, NEW r \in Request, NEW i \in Instance, Submit(r, i)
  PROVE  Inv'
<1>1. view[i] \in Version
  BY SetupType DEF Inv, TypeOK, Version, Submit
<1>2. call[r].attempt = 0 /\ call[r].state = "idle"
  <2>1. call[r].state = "idle"
    BY DEF Submit, Arrives
  <2>2. call[r] \in CallType
    BY DEF Inv, TypeOK
  <2> QED
    BY <2>1, <2>2 DEF CallType, NoCall
<1> QED
  BY <1>1, <1>2, SendInv DEF Submit

\* A later attempt, after the backoff.
LEMMA RetryInv ==
  ASSUME Inv, Rigid, NEW r \in Request, Retry(r)
  PROVE  Inv'
<1>1. call[r].state = "backoff" /\ Script(r) \in ScriptType
  BY DEF Inv, CallInv, Retry
<1>2. call[r].at \in Instance
  BY <1>1 DEF Inv, TypeOK, CallType, NoCall
<1>3. call[r].version \in Version /\ call[r].attempt \in Nat
  BY <1>1 DEF Script, ScriptType
<1>4. call[r].attempt + 1 \in Nat \ {0} /\ call[r].attempt + 1 > call[r].attempt
  BY <1>3
<1> QED
  BY <1>1, <1>2, <1>3, <1>4, SendInv DEF Retry

\* Without a policy nothing is asked of Redis.
LEMMA SubmitUnlimitedInv ==
  ASSUME Inv, Rigid, NEW r \in Request, NEW i \in Instance, SubmitUnlimited(r, i)
  PROVE  Inv'
<1> USE DEF Rigid
<1>1. /\ call'[r] = [state |-> "done", attempt |-> 0, at |-> i, version |-> 0]
      /\ \A q \in Request : q # r => call'[q] = call[q]
      /\ call' \in [Request -> CallType]
  BY SetupType DEF Inv, TypeOK, SubmitUnlimited, CallType
<1>2. /\ decision'[r] = [by |-> "no_policy", allowed |-> TRUE, window |-> window]
      /\ \A q \in Request : q # r => decision'[q] = decision[q]
      /\ decision' \in [Request -> DecisionType]
  BY DEF Inv, TypeOK, SubmitUnlimited, DecisionType
<1>3. UNCHANGED <<window, policy, view, redisUp, counter, wire, answers, local,
                  outages, restarts, grants, failed>>
  BY DEF SubmitUnlimited, policies
<1>4. call[r].state = "idle" /\ decision[r].by = "nobody"
  BY DEF Inv, CallInv, SubmitUnlimited, Arrives
<1>5. \A q \in Request : q # r => Script(q)' = Script(q)
  BY <1>1 DEF Script
<1>6. TypeOK'
  BY <1>1, <1>2, <1>3 DEF Inv, TypeOK
<1>7. CallInv'
  BY <1>1, <1>2, <1>5 DEF Inv, CallInv
<1>8. \A s \in ScriptType : Sent(s) \/ Awaited(s) =>
        s.req \in Request /\ s.req # r /\ Sent(s)' = Sent(s) /\ Awaited(s)' = Awaited(s)
  BY <1>1, <1>4, <1>5 DEF Sent, Awaited, ScriptType
<1>9. ScriptInv'
  <2>1. wire \subseteq ScriptType /\ \A g \in grants : g.script \in ScriptType
    BY DEF Inv, TypeOK
  <2>2. \A a \in answers : a.script \in ScriptType
    BY DEF Inv, TypeOK
  <2> QED
    BY <2>1, <2>2, <1>3, <1>8 DEF Inv, ScriptInv
<1>10. AnswerInv'
  BY <1>3 DEF Inv, AnswerInv
<1>11. DecisionInv'
  BY <1>2, <1>3, <1>5 DEF Inv, DecisionInv
<1>12. PlacesAccounted'
  <2> SUFFICES ASSUME NEW g \in grants PROVE Accounted(g)'
    BY <1>3 DEF PlacesAccounted, Accounted
  <2>1. g.script.req \in Request /\ g.script.req # r
    BY <1>8 DEF Inv, TypeOK, ScriptInv
  <2>2. Accounted(g)
    BY DEF Inv, PlacesAccounted, Accounted
  <2> QED
    BY <2>1, <2>2, <1>1, <1>2, <1>3, <1>5 DEF Accounted
<1>13. GrantInv' /\ \A x, y : Refused(x, y)' = Refused(x, y)
  BY <1>3, GrantsIdle
<1>14. RefusalInv'
  BY <1>1, <1>2, <1>3, <1>13 DEF Inv, RefusalInv
<1>15. BusyInv'
  <2>1. {q \in Request : call'[q].state # "idle"} = {q \in Request : call[q].state # "idle"} \cup {r}
    BY <1>1
  <2>2. IsFiniteSet({q \in Request : call[q].state # "idle"} \cup {r})
    <3>1. IsFiniteSet({q \in Request : call[q].state # "idle"})
      BY DEF Inv, BusyInv
    <3> QED
      BY <3>1, FS_AddElement
  <2> QED
    BY <2>1, <2>2 DEF BusyInv
<1>16. LocalInv' /\ SeatInv'
  <2>1. window' \in Nat /\ window <= window'
    BY <1>3 DEF Inv, TypeOK, Window
  <2>2. NoFallback
    BY <1>1, <1>2, <1>4 DEF NoFallback
  <2> QED
    BY <2>1, <2>2, <1>3, FallbacksIdle
<1> QED
  BY <1>6, <1>7, <1>9, <1>10, <1>11, <1>12, <1>13, <1>14, <1>15, <1>16 DEF Inv
-----------------------------------------------------------------------------
\* Places are never taken back.
LEMMA RefusedStays ==
  ASSUME GrantInv', grants \subseteq grants', NEW v \in Nat, NEW w \in Nat, Refused(v, w)
  PROVE  Refused(v, w)'
<1>1. IsFiniteSet(GrantsOf(v, w)') /\ GrantsOf(v, w) \subseteq GrantsOf(v, w)'
  <2>1. GrantsOf(v, w)' \subseteq grants' /\ IsFiniteSet(grants')
    BY DEF GrantsOf, GrantInv
  <2>2. GrantsOf(v, w) \subseteq GrantsOf(v, w)'
    BY DEF GrantsOf
  <2> QED
    BY <2>1, <2>2, FS_Subset
<1>2. IsFiniteSet(GrantsOf(v, w)) /\ Cardinality(GrantsOf(v, w)) <= Cardinality(GrantsOf(v, w)')
  BY <1>1, FS_Subset
<1>3. Cardinality(GrantsOf(v, w)) \in Nat /\ Cardinality(GrantsOf(v, w)') \in Nat
  BY <1>1, <1>2, FS_CardinalityType
<1> QED
  BY <1>2, <1>3, ServiceAssumption DEF Refused

(***************************************************************************)
(* The counter goes up by one, and a place is given away exactly if the    *)
(* counter stands for one more place than before.                          *)
(***************************************************************************)
LEMMA ExecuteGrants ==
  ASSUME Inv, Rigid, NEW s \in wire, Execute(s)
  PROVE  GrantInv'
<1> USE DEF Rigid
<1> DEFINE key == <<s.version, window>>
           new == [script |-> s, window |-> window]
<1>1. s \in ScriptType /\ s.version \in Version /\ window \in Window
  BY DEF Inv, TypeOK, ScriptType
<1>2. counter[key] \in Nat /\ \A v \in Version, w \in Window : counter[<<v, w>>] \in Nat
  BY <1>1 DEF Inv, TypeOK
<1>3. counter' = [counter EXCEPT ![key] = counter[key] + 1]
  BY DEF Execute
<1>4. /\ counter'[key] = counter[key] + 1
      /\ \A v \in Version, w \in Window : <<v, w>> # key => counter'[<<v, w>>] = counter[<<v, w>>]
  BY <1>1, <1>3 DEF Inv, TypeOK
<1>5. \A g \in grants : g.script # s
  BY DEF Inv, ScriptInv
<1>6. /\ Granted(counter[key] + 1) => grants' = grants \cup {new}
      /\ ~Granted(counter[key] + 1) => grants' = grants
  BY DEF Execute
<1>7. IsFiniteSet(grants) /\ Limit \in Nat \ {0} /\ outages' = outages /\ outages \in Nat
  BY ServiceAssumption DEF Inv, GrantInv, Execute, TypeOK
<1>8. IsFiniteSet(grants')
  BY <1>6, <1>7, FS_AddElement
<1>9. ASSUME NEW v \in Version, NEW w \in Window
      PROVE  /\ Cardinality(GrantsOf(v, w)') >= Taken(counter'[<<v, w>>])
             /\ Cardinality(GrantsOf(v, w)') <= Limit * outages + Taken(counter'[<<v, w>>])
  <2>1. /\ Cardinality(GrantsOf(v, w)) >= Taken(counter[<<v, w>>])
        /\ Cardinality(GrantsOf(v, w)) <= Limit * outages + Taken(counter[<<v, w>>])
    BY DEF Inv, GrantInv
  <2>2. CASE v = s.version /\ w = window /\ Granted(counter[key] + 1)
    <3>1. GrantsOf(v, w)' = GrantsOf(v, w) \cup {new} /\ new \notin GrantsOf(v, w)
      BY <2>2, <1>5, <1>6 DEF GrantsOf
    <3>2. IsFiniteSet(GrantsOf(v, w))
      BY <1>7, FS_Subset DEF GrantsOf
    <3>3. Cardinality(GrantsOf(v, w)') = Cardinality(GrantsOf(v, w)) + 1
      BY <3>1, <3>2, FS_AddElement
    <3>4. Cardinality(GrantsOf(v, w)) \in Nat
      BY <3>2, FS_CardinalityType
    <3>5. Taken(counter'[<<v, w>>]) = Taken(counter[<<v, w>>]) + 1 /\ Taken(counter[<<v, w>>]) \in Nat
      BY <2>2, <1>2, <1>4, <1>7 DEF Taken, Granted
    <3>6. Limit * outages \in Nat
      BY <1>7
    <3> QED
      BY <2>1, <3>3, <3>4, <3>5, <3>6
  <2>3. CASE v = s.version /\ w = window /\ ~Granted(counter[key] + 1)
    <3>1. GrantsOf(v, w)' = GrantsOf(v, w)
      BY <2>3, <1>6 DEF GrantsOf
    <3>2. Taken(counter'[<<v, w>>]) = Taken(counter[<<v, w>>])
      BY <2>3, <1>2, <1>4, <1>7 DEF Taken, Granted
    <3> QED
      BY <2>1, <3>1, <3>2
  <2>4. CASE v # s.version \/ w # window
    <3>1. GrantsOf(v, w)' = GrantsOf(v, w)
      BY <2>4, <1>6 DEF GrantsOf
    <3>2. counter'[<<v, w>>] = counter[<<v, w>>]
      BY <2>4, <1>4
    <3> QED
      BY <2>1, <3>1, <3>2
  <2> QED
    BY <2>2, <2>3, <2>4
<1> QED
  BY <1>7, <1>8, <1>9 DEF GrantInv, Taken

\* Redis executes a script, awaited or not.
LEMMA ExecuteInv ==
  ASSUME Inv, Rigid, NEW s \in wire, Execute(s)
  PROVE  Inv'
<1> USE DEF Rigid
<1> DEFINE key == <<s.version, window>>
           count == counter[key] + 1
           grant == [script |-> s, window |-> window]
           answer == [script |-> s, allowed |-> Granted(count), window |-> window]
<1>1. s \in ScriptType /\ s.version \in Version /\ window \in Window /\ counter[key] \in Nat
  BY DEF Inv, TypeOK, ScriptType
<1>2. /\ UNCHANGED <<window, policy, view, redisUp, call, decision, local, outages, restarts, failed>>
      /\ wire' = wire \ {s}
      /\ counter' = [counter EXCEPT ![key] = count]
  BY DEF Execute, policies
<1>3. /\ grants \subseteq grants' /\ grants' \subseteq grants \cup {grant}
      /\ grant \in grants' \ grants => Granted(count)
      /\ Granted(count) => grant \in grants'
  BY DEF Execute
<1>4. /\ answers' \subseteq answers \cup {answer}
      /\ answer \in answers' => answer \in answers \/ Awaited(s)
  BY DEF Execute
<1>5. /\ \A g \in grants : g.script # s /\ Sent(g.script)
      /\ \A a \in answers : a.script # s /\ Awaited(a.script)
      /\ Sent(s) /\ (s \in failed \/ Awaited(s))
  BY DEF Inv, ScriptInv
<1>6. \A x : Script(x)' = Script(x) /\ Sent(x)' = Sent(x) /\ Awaited(x)' = Awaited(x)
  BY <1>2 DEF Script, Sent, Awaited
<1>7. TypeOK'
  <2>1. counter' \in [Version \X Window -> Nat]
    BY <1>1, <1>2 DEF Inv, TypeOK
  <2>2. Granted(count) \in BOOLEAN
    BY DEF Granted
  <2>3. answer \in [script : ScriptType, allowed : BOOLEAN, window : Window]
    BY <1>1, <2>2
  <2>4. answers' \in SUBSET [script : ScriptType, allowed : BOOLEAN, window : Window]
    BY <2>3, <1>4 DEF Inv, TypeOK
  <2>5. grants' \in SUBSET [script : ScriptType, window : Window]
    BY <1>1, <1>3 DEF Inv, TypeOK
  <2> QED
    BY <2>1, <2>4, <2>5, <1>2 DEF Inv, TypeOK
<1>8. CallInv'
  BY <1>2, <1>6 DEF Inv, CallInv
<1>9. ScriptInv'
  <2>1. \A x \in wire' : Sent(x)' /\ (x \in failed' \/ Awaited(x)')
    BY <1>2, <1>6 DEF Inv, ScriptInv
  <2>2. \A g \in grants' : Sent(g.script)' /\ g.script \notin wire'
    BY <1>2, <1>3, <1>5, <1>6 DEF Inv, ScriptInv
  <2>3. \A a \in answers' : Awaited(a.script)' /\ a.script \notin wire'
    BY <1>2, <1>4, <1>5, <1>6 DEF Inv, ScriptInv
  <2> QED
    BY <2>1, <2>2, <2>3 DEF ScriptInv
<1>10. AnswerInv'
  <2>1. \A a \in answers' : a.allowed => [script |-> a.script, window |-> a.window] \in grants'
    BY <1>3, <1>4 DEF Inv, AnswerInv
  <2>2. \A a \in answers', g \in grants' : a.script = g.script => a.allowed /\ a.window = g.window
    BY <1>3, <1>4, <1>5 DEF Inv, AnswerInv
  <2>3. \A a, b \in answers' : a.script = b.script => a = b
    BY <1>4, <1>5 DEF Inv, AnswerInv
  <2> QED
    BY <2>1, <2>2, <2>3 DEF AnswerInv
<1>11. DecisionInv'
  BY <1>2, <1>3, <1>6 DEF Inv, DecisionInv
<1>12. PlacesAccounted'
  <2> SUFFICES ASSUME NEW g \in grants' PROVE Accounted(g)'
    BY DEF PlacesAccounted, Accounted
  <2>1. Accounted(g)' = Accounted(g)
    BY <1>2, <1>6 DEF Accounted
  <2>2. CASE g \in grants
    BY <2>1, <2>2 DEF Inv, PlacesAccounted, Accounted
  <2>3. CASE g = grant
    BY <2>1, <2>3, <1>5 DEF Accounted, Awaited
  <2> QED
    BY <2>2, <2>3, <1>3
<1>13. GrantInv'
  BY ExecuteGrants
<1>14. RefusalInv'
  <2>1. \A v \in Version, w \in Window : Refused(v, w) => Refused(v, w)'
    BY <1>3, <1>13, RefusedStays DEF Version, Window
  <2>2. ASSUME NEW w \in Window, w = window, ~Granted(count)
        PROVE  Refused(s.version, w)'
    <3>1. counter'[<<s.version, w>>] = count
      BY <2>2, <1>1, <1>2 DEF Inv, TypeOK
    <3>2. Cardinality(GrantsOf(s.version, w)') >= Taken(counter'[<<s.version, w>>])
      BY <1>1, <1>13 DEF GrantInv, Taken
    <3>3. Taken(counter'[<<s.version, w>>]) = Limit
      BY <2>2, <3>1, <1>1, ServiceAssumption DEF Granted, Taken
    <3> QED
      BY <3>2, <3>3 DEF Refused
  <2>3. ASSUME NEW a \in answers', ~a.allowed
        PROVE  Refused(a.script.version, a.window)'
    <3>1. CASE a \in answers
      <4>1. a.script.version \in Version /\ a.window \in Window
        BY <3>1 DEF Inv, TypeOK, ScriptType
      <4> QED
        BY <4>1, <3>1, <2>1, <2>3 DEF Inv, RefusalInv
    <3>2. CASE a = answer
      <4>1. a.script = s /\ a.window = window /\ a.window \in Window /\ ~Granted(count)
        BY <3>2, <2>3, <1>1
      <4> HIDE DEF count
      <4> QED
        BY <4>1, <2>2
    <3> QED
      BY <3>1, <3>2, <1>4
  <2>4. \A r \in Request : decision[r].by = "redis" =>
          call[r].version \in Version /\ decision[r].window \in Window
    BY DEF Inv, DecisionInv, TypeOK, DecisionType, Script, ScriptType
  <2> QED
    BY <2>1, <2>3, <2>4, <1>2 DEF Inv, RefusalInv
<1>15. BusyInv'
  BY <1>2 DEF Inv, BusyInv
<1>16. LocalInv' /\ SeatInv'
  <2>1. window' \in Nat /\ window <= window'
    BY <1>2 DEF Inv, TypeOK, Window
  <2>2. NoFallback
    BY <1>2 DEF NoFallback
  <2> QED
    BY <2>1, <2>2, <1>2, FallbacksIdle
<1> QED
  BY <1>7, <1>8, <1>9, <1>10, <1>11, <1>12, <1>13, <1>14, <1>15, <1>16 DEF Inv

\* A script is lost.
LEMMA LoseInv ==
  ASSUME Inv, Rigid, NEW s \in wire, Lose(s)
  PROVE  Inv'
<1> USE DEF Rigid
<1>1. /\ UNCHANGED <<window, policy, view, redisUp, counter, answers, call, decision, local,
                     outages, restarts, grants, failed>>
      /\ wire' \subseteq wire
  BY DEF Lose, policies
<1>2. TypeOK'
  BY <1>1 DEF Inv, TypeOK
<1>3. \A x : Script(x)' = Script(x) /\ Sent(x)' = Sent(x) /\ Awaited(x)' = Awaited(x)
  BY <1>1 DEF Script, Sent, Awaited
<1>4. CallInv' /\ DecisionInv' /\ PlacesAccounted' /\ BusyInv'
  BY <1>1, <1>3 DEF Inv, CallInv, DecisionInv, PlacesAccounted, BusyInv
<1>5. ScriptInv' /\ AnswerInv'
  BY <1>1, <1>3 DEF Inv, ScriptInv, AnswerInv
<1>6. GrantInv' /\ \A v, w : Refused(v, w)' = Refused(v, w)
  BY <1>1, GrantsIdle
<1>7. RefusalInv'
  BY <1>1, <1>6 DEF Inv, RefusalInv
<1>8. LocalInv' /\ SeatInv'
  <2>1. window' \in Nat /\ window <= window'
    BY <1>1 DEF Inv, TypeOK, Window
  <2> QED
    BY <2>1, <1>1, FallbacksIdle DEF NoFallback
<1> QED
  BY <1>2, <1>4, <1>5, <1>6, <1>7, <1>8 DEF Inv
-----------------------------------------------------------------------------
\* A call that is under way comes into another state.
LEMMA CallMoves ==
  ASSUME Inv, NEW r \in Request, call[r].state \in {"waiting", "backoff"},
         NEW state \in {"backoff", "done", "died"}, NEW c, c = [call[r] EXCEPT !.state = state]
  PROVE  /\ c \in CallType
         /\ c.state = state
         /\ c.attempt = call[r].attempt /\ c.version = call[r].version /\ c.at = call[r].at
         /\ decision[r].by = "nobody"
         /\ Script(r) \in ScriptType
<1>1. call[r] \in CallType /\ call[r].state # "idle"
  BY DEF Inv, TypeOK
<1>2. call[r] \in [state : {"waiting", "backoff", "done", "died"}, attempt : Nat, at : Instance,
                   version : 0..setup.versions]
  BY <1>1 DEF CallType, NoCall
<1>3. /\ c \in CallType
      /\ c.state = state
      /\ c.attempt = call[r].attempt /\ c.version = call[r].version /\ c.at = call[r].at
  BY <1>2 DEF CallType
<1> QED
  BY <1>3 DEF Inv, CallInv

\* The call that was waiting takes its answer.
LEMMA ReceiveInv ==
  ASSUME Inv, Rigid, NEW r \in Request, NEW a \in answers, Receive(r, a)
  PROVE  Inv'
<1> USE DEF Rigid
<1>1. call[r].state = "waiting" /\ a.script = Script(r)
  BY DEF Receive, Reads
<1>2. /\ UNCHANGED <<window, policy, view, redisUp, counter, wire, local,
                     outages, restarts, grants, failed>>
      /\ answers' = answers \ {a}
  BY DEF Receive, policies
<1>3. /\ call' = [call EXCEPT ![r] = [call[r] EXCEPT !.state = "done"]]
      /\ decision' = [decision EXCEPT ![r] = Parsed(a)]
  BY DEF Receive, Decide
<1>4. /\ call'[r] \in CallType /\ call'[r].state = "done"
      /\ call'[r].attempt = call[r].attempt /\ call'[r].version = call[r].version
      /\ decision[r].by = "nobody" /\ Script(r) \in ScriptType
      /\ \A q \in Request : q # r => call'[q] = call[q]
      /\ call' \in [Request -> CallType]
  <2>1. call'[r] = [call[r] EXCEPT !.state = "done"]
    BY <1>3 DEF Inv, TypeOK
  <2>2. /\ call'[r] \in CallType /\ call'[r].state = "done"
        /\ call'[r].attempt = call[r].attempt /\ call'[r].version = call[r].version
        /\ decision[r].by = "nobody" /\ Script(r) \in ScriptType
    BY <2>1, <1>1, CallMoves
  <2> QED
    BY <2>1, <2>2, <1>3 DEF Inv, TypeOK
<1>5. /\ decision'[r] = [by |-> "redis", allowed |-> a.allowed, window |-> a.window]
      /\ \A q \in Request : q # r => decision'[q] = decision[q]
      /\ decision' \in [Request -> DecisionType]
  <2>1. a.allowed \in BOOLEAN /\ a.window \in Window
    BY DEF Inv, TypeOK
  <2> QED
    BY <2>1, <1>3 DEF Inv, TypeOK, Parsed, DecisionType
<1>6. \A q \in Request : Script(q)' = Script(q)
  BY <1>4 DEF Script
<1>7. TypeOK'
  BY <1>2, <1>4, <1>5 DEF Inv, TypeOK
<1>8. CallInv'
  BY <1>4, <1>5, <1>6 DEF Inv, CallInv
<1>9. \A s \in ScriptType : Sent(s) => Sent(s)'
  BY <1>1, <1>4 DEF Sent, ScriptType
<1>10. \A s \in ScriptType : Awaited(s) => Awaited(s)' \/ s = a.script
  BY <1>1, <1>4, <1>6 DEF Awaited, ScriptType
<1>11. ScriptInv'
  <2>1. wire \subseteq ScriptType /\ \A g \in grants : g.script \in ScriptType
    BY DEF Inv, TypeOK
  <2>2. \A b \in answers : b.script \in ScriptType
    BY DEF Inv, TypeOK
  <2>3. a.script \notin wire /\ \A b \in answers' : b.script # a.script
    BY <1>2 DEF Inv, ScriptInv, AnswerInv
  <2> QED
    BY <2>1, <2>2, <2>3, <1>2, <1>9, <1>10 DEF Inv, ScriptInv
<1>12. AnswerInv'
  BY <1>2 DEF Inv, AnswerInv
<1>13. DecisionInv'
  <2>1. a.allowed => [script |-> a.script, window |-> a.window] \in grants
    BY DEF Inv, AnswerInv
  <2> QED
    BY <2>1, <1>1, <1>2, <1>4, <1>5, <1>6 DEF Inv, DecisionInv
<1>14. PlacesAccounted'
  <2> SUFFICES ASSUME NEW g \in grants PROVE Accounted(g)'
    BY <1>2 DEF PlacesAccounted, Accounted
  <2>1. g.script.req \in Request /\ Accounted(g)
    BY DEF Inv, TypeOK, ScriptType, PlacesAccounted, Accounted
  <2>2. CASE g.script.req # r
    BY <2>1, <2>2, <1>2, <1>4, <1>5, <1>6 DEF Accounted
  <2>3. CASE g.script.req = r /\ g.script = a.script
    <3>1. a.allowed /\ a.window = g.window
      BY <2>3 DEF Inv, AnswerInv
    <3>2. a.allowed = TRUE
      BY <3>1 DEF Inv, TypeOK
    <3> QED
      BY <3>1, <3>2, <2>3, <1>1, <1>5, <1>6 DEF Accounted
  <2>4. CASE g.script.req = r /\ g.script # a.script
    BY <2>1, <2>4, <1>1, <1>2 DEF Accounted
  <2> QED
    BY <2>2, <2>3, <2>4
<1>15. GrantInv' /\ \A v, w : Refused(v, w)' = Refused(v, w)
  BY <1>2, GrantsIdle
<1>16. RefusalInv'
  <2>1. ~a.allowed => Refused(call[r].version, a.window)
    BY <1>1 DEF Inv, RefusalInv, Script
  <2> QED
    BY <2>1, <1>2, <1>4, <1>5, <1>15 DEF Inv, RefusalInv
<1>17. BusyInv'
  <2>1. {q \in Request : call'[q].state # "idle"} = {q \in Request : call[q].state # "idle"}
    BY <1>1, <1>4
  <2> QED
    BY <2>1 DEF Inv, BusyInv
<1>18. LocalInv' /\ SeatInv'
  <2>1. window' \in Nat /\ window <= window'
    BY <1>2 DEF Inv, TypeOK, Window
  <2>2. NoFallback
    BY <1>4, <1>5 DEF NoFallback
  <2> QED
    BY <2>1, <2>2, <1>2, FallbacksIdle
<1> QED
  BY <1>7, <1>8, <1>11, <1>12, <1>13, <1>14, <1>15, <1>16, <1>17, <1>18 DEF Inv
-----------------------------------------------------------------------------
(***************************************************************************)
(* The calls in R give their attempt up: it counts as failed, and its      *)
(* answer will not be read.                                                *)
(***************************************************************************)
GivenUp(R) ==
  /\ R \subseteq {q \in Request : call[q].state \in {"waiting", "backoff"}}
  /\ failed' = failed \cup {Script(q) : q \in R}
  /\ answers' = {a \in answers : \A q \in R : ~Reads(q, a)}
  /\ \A q \in Request \ R : call'[q] = call[q] /\ decision'[q] = decision[q]
  /\ \A q \in R :
       /\ call'[q].state \in {"backoff", "done", "died"}
       /\ call'[q].attempt = call[q].attempt /\ call'[q].version = call[q].version
       /\ call'[q].at = call[q].at
       /\ \/ decision'[q] = decision[q]
          \/ decision'[q].by \in {"local", "failure_mode"} /\ call'[q].state = "done"
  /\ call' \in [Request -> CallType]
  /\ decision' \in [Request -> DecisionType]
  /\ UNCHANGED <<window, policy, view, redisUp, counter, wire, outages, grants>>

\* This keeps everything but what is said of the fallbacks.
LEMMA GivenUpInv ==
  ASSUME Inv, Rigid, NEW R, GivenUp(R),
         local' \in [Instance -> [Version -> [window : Window, count : 0..Limit]]],
         restarts' \in Nat
  PROVE  /\ TypeOK' /\ CallInv' /\ ScriptInv' /\ AnswerInv' /\ DecisionInv' /\ PlacesAccounted'
         /\ GrantInv' /\ RefusalInv' /\ BusyInv'
<1> USE DEF Rigid
<1>1. /\ UNCHANGED <<window, policy, view, redisUp, counter, wire, outages, grants>>
      /\ failed \subseteq failed'
      /\ answers' \subseteq answers
      /\ R \subseteq Request
  BY DEF GivenUp
<1>2. \A q \in R : /\ call[q].state \in {"waiting", "backoff"}
                   /\ decision[q].by = "nobody"
                   /\ Script(q) \in ScriptType
  BY DEF GivenUp, Inv, CallInv
<1>3. \A q \in Request : Script(q)' = Script(q)
  BY DEF GivenUp, Script
<1>4. \A q \in R : Script(q) \in failed'
  BY DEF GivenUp
<1>5. TypeOK'
  <2>1. failed' \in SUBSET ScriptType
    BY <1>2 DEF GivenUp, Inv, TypeOK
  <2> QED
    BY <2>1, <1>1 DEF GivenUp, Inv, TypeOK
<1>6. CallInv'
  <2> SUFFICES ASSUME NEW q \in Request
               PROVE  /\ call'[q].state \in {"waiting", "backoff"} => Script(q)' \in ScriptType
                      /\ decision'[q].by # "nobody" => call'[q].state = "done"
                      /\ decision'[q].by = "nobody" => ~decision'[q].allowed
                      /\ decision'[q].by = "no_policy" => call'[q].version = 0 /\ decision'[q].allowed
    BY DEF CallInv
  <2>1. CASE q \in R
    BY <2>1, <1>2, <1>3 DEF GivenUp, Inv, CallInv
  <2>2. CASE q \notin R
    BY <2>2, <1>3 DEF GivenUp, Inv, CallInv
  <2> QED
    BY <2>1, <2>2
<1>7. \A s \in ScriptType : Sent(s) => Sent(s)'
  BY DEF Sent, ScriptType, GivenUp
<1>8. \A s \in ScriptType : Awaited(s) => Awaited(s)' \/ (s.req \in R /\ s = Script(s.req))
  BY <1>3 DEF Awaited, ScriptType, GivenUp
<1>9. ScriptInv'
  <2>1. wire \subseteq ScriptType /\ \A g \in grants : g.script \in ScriptType
    BY DEF Inv, TypeOK
  <2>2. \A b \in answers : b.script \in ScriptType
    BY DEF Inv, TypeOK
  <2>3. \A s \in wire : Sent(s)' /\ (s \in failed' \/ Awaited(s)')
    BY <2>1, <1>1, <1>4, <1>7, <1>8 DEF Inv, ScriptInv
  <2>4. \A g \in grants : Sent(g.script)' /\ g.script \notin wire
    BY <2>1, <1>7 DEF Inv, ScriptInv
  <2>5. \A b \in answers' : Awaited(b.script)' /\ b.script \notin wire
    BY <2>2, <1>1, <1>8 DEF Inv, ScriptInv, GivenUp, Reads
  <2> QED
    BY <2>3, <2>4, <2>5, <1>1 DEF ScriptInv
<1>10. AnswerInv'
  BY <1>1 DEF Inv, AnswerInv
<1>11. \A q \in Request : decision'[q].by = "redis" =>
         decision'[q] = decision[q] /\ call'[q] = call[q]
  BY <1>2 DEF GivenUp
<1>12. DecisionInv'
  BY <1>1, <1>3, <1>11 DEF Inv, DecisionInv
<1>13. PlacesAccounted'
  <2> SUFFICES ASSUME NEW g \in grants PROVE Accounted(g)'
    BY <1>1 DEF PlacesAccounted, Accounted
  <2>1. g.script.req \in Request /\ Accounted(g)
    BY DEF Inv, TypeOK, ScriptType, PlacesAccounted, Accounted
  <2>2. CASE g.script.req \in R
    BY <2>1, <2>2, <1>1, <1>4 DEF Accounted
  <2>3. CASE g.script.req \notin R
    <3>1. call'[g.script.req] = call[g.script.req] /\ decision'[g.script.req] = decision[g.script.req]
      BY <2>1, <2>3 DEF GivenUp
    <3> QED
      BY <3>1, <2>1, <1>1, <1>3 DEF Accounted
  <2> QED
    BY <2>2, <2>3
<1>14. GrantInv' /\ \A v, w : Refused(v, w)' = Refused(v, w)
  BY <1>1, GrantsIdle
<1>15. RefusalInv'
  BY <1>1, <1>11, <1>14 DEF Inv, RefusalInv
<1>16. BusyInv'
  <2>1. {q \in Request : call'[q].state # "idle"} = {q \in Request : call[q].state # "idle"}
    BY <1>2 DEF GivenUp
  <2> QED
    BY <2>1 DEF Inv, BusyInv
<1> QED
  BY <1>5, <1>6, <1>9, <1>10, <1>12, <1>13, <1>14, <1>15, <1>16

\* Those let through by fallbacks are among the calls that came.
LEMMA LocalsFinite ==
  ASSUME Inv
  PROVE  /\ \A v, w : IsFiniteSet(Admitted(v, w)) /\ IsFiniteSet(By("local", Admitted(v, w)))
         /\ \A i, v, w : IsFiniteSet(LocalPlaces(i, v, w)) /\ Cardinality(LocalPlaces(i, v, w)) \in Nat
<1>1. IsFiniteSet({r \in Request : call[r].state # "idle"})
  BY DEF Inv, BusyInv
<1>2. \A v, w : Admitted(v, w) \subseteq {r \in Request : call[r].state # "idle"}
  BY DEF Inv, CallInv, Admitted
<1>3. \A v, w : IsFiniteSet(Admitted(v, w)) /\ IsFiniteSet(By("local", Admitted(v, w)))
  <2>1. \A v, w : By("local", Admitted(v, w)) \subseteq Admitted(v, w)
    BY DEF By
  <2> QED
    BY <2>1, <1>1, <1>2, FS_Subset
<1>4. \A i, v, w : IsFiniteSet(LocalPlaces(i, v, w))
  <2>1. \A i, v, w : LocalPlaces(i, v, w) \subseteq By("local", Admitted(v, w))
    BY DEF LocalPlaces
  <2> QED
    BY <2>1, <1>3, FS_Subset
<1> QED
  BY <1>3, <1>4, FS_CardinalityType

(***************************************************************************)
(* The fallback of instance i decides on r in window t, having let n       *)
(* through there: r takes the seat n + 1 of its present life, if there is  *)
(* one.                                                                    *)
(***************************************************************************)
LEMMA FallbackDecides ==
  ASSUME Inv, Rigid, setup.fallback,
         NEW r \in Request, NEW i \in Instance, NEW v \in Version, NEW t \in Window,
         NEW n \in 0..Limit, NEW yes \in BOOLEAN, yes <=> n < Limit,
         t = window, window' = window, restarts' = restarts,
         local[i][v].window = t => local[i][v].count = n,
         local[i][v].window # t => n = 0,
         local'[i][v].window = t, local'[i][v].count = (IF yes THEN n + 1 ELSE n),
         \A j \in Instance, u \in Version : j # i \/ u # v => local'[j][u] = local[j][u],
         call[r].at = i, call[r].version = v, decision[r].by = "nobody",
         call'[r].at = i, call'[r].version = v,
         decision'[r] = [by |-> "local", allowed |-> yes, window |-> t],
         \A q \in Request : q # r => call'[q] = call[q] /\ decision'[q] = decision[q]
  PROVE  LocalInv' /\ SeatInv'
<1> USE DEF Rigid
<1>1. /\ Limit \in Nat \ {0} /\ t \in Nat /\ n \in Nat /\ n <= Limit
      /\ \A j \in Instance, u \in Version :
           local[j][u].window \in Nat /\ local[j][u].count \in Nat /\ local[j][u].window <= t
  BY ServiceAssumption DEF Inv, TypeOK, LocalInv, Window
<1>2. /\ \A u, w : u # v \/ w # t \/ ~yes =>
                   By("local", Admitted(u, w))' = By("local", Admitted(u, w))
      /\ yes => By("local", Admitted(v, t))' = By("local", Admitted(v, t)) \cup {r}
      /\ \A u, w : r \notin By("local", Admitted(u, w))
      /\ \A u, w : \A q \in By("local", Admitted(u, w)) : q \in Request /\ q # r /\ call'[q] = call[q]
  <2>1. \A u, w : r \notin By("local", Admitted(u, w))
    BY DEF By
  <2>2. \A u, w : \A q \in By("local", Admitted(u, w)) : q \in Request /\ q # r /\ call'[q] = call[q]
    BY <2>1 DEF By, Admitted
  <2>3. \A u, w : u # v \/ w # t \/ ~yes =>
                  By("local", Admitted(u, w))' = By("local", Admitted(u, w))
    BY DEF By, Admitted
  <2>4. yes => By("local", Admitted(v, t))' = By("local", Admitted(v, t)) \cup {r}
    BY DEF By, Admitted
  <2> QED
    BY <2>1, <2>2, <2>3, <2>4
<1>3. /\ \A j, u, w : j # i \/ u # v \/ w # t \/ ~yes => LocalPlaces(j, u, w)' = LocalPlaces(j, u, w)
      /\ yes => LocalPlaces(i, v, t)' = LocalPlaces(i, v, t) \cup {r}
      /\ r \notin LocalPlaces(i, v, t)
  <2>1. \A j, u, w : u # v \/ w # t \/ ~yes => LocalPlaces(j, u, w)' = LocalPlaces(j, u, w)
    BY <1>2 DEF LocalPlaces
  <2>2. \A j : j # i /\ yes => LocalPlaces(j, v, t)' = LocalPlaces(j, v, t)
    BY <1>2 DEF LocalPlaces
  <2>3. yes => LocalPlaces(i, v, t)' = LocalPlaces(i, v, t) \cup {r}
    BY <1>2 DEF LocalPlaces
  <2>4. r \notin LocalPlaces(i, v, t)
    BY <1>2 DEF LocalPlaces
  <2> QED
    BY <2>1, <2>2, <2>3, <2>4
<1>4. /\ \A j, u, w : /\ Cardinality(LocalPlaces(j, u, w)) \in Nat
                      /\ Cardinality(LocalPlaces(j, u, w)') \in Nat
                      /\ Cardinality(LocalPlaces(j, u, w)') >= Cardinality(LocalPlaces(j, u, w))
      /\ yes => Cardinality(LocalPlaces(i, v, t)') = Cardinality(LocalPlaces(i, v, t)) + 1
  <2>1. \A j, u, w : IsFiniteSet(LocalPlaces(j, u, w)) /\ Cardinality(LocalPlaces(j, u, w)) \in Nat
    BY LocalsFinite
  <2>2. yes => Cardinality(LocalPlaces(i, v, t)') = Cardinality(LocalPlaces(i, v, t)) + 1
    BY <2>1, <1>3, FS_AddElement
  <2>3. ASSUME NEW j, NEW u, NEW w
        PROVE  /\ Cardinality(LocalPlaces(j, u, w)') \in Nat
               /\ Cardinality(LocalPlaces(j, u, w)') >= Cardinality(LocalPlaces(j, u, w))
    <3>1. CASE j = i /\ u = v /\ w = t /\ yes
      BY <3>1, <2>1, <2>2
    <3>2. CASE j # i \/ u # v \/ w # t \/ ~yes
      BY <3>2, <2>1, <1>3
    <3> QED
      BY <3>1, <3>2
  <2> QED
    BY <2>1, <2>2, <2>3
<1>5. n <= Cardinality(LocalPlaces(i, v, t))
  BY <1>1, <1>4 DEF Inv, LocalInv
<1>6. ASSUME NEW j \in Instance, NEW u \in Version, NEW w, w = local'[j][u].window
      PROVE  w <= window' /\ local'[j][u].count <= Cardinality(LocalPlaces(j, u, w)')
  <2>1. CASE j = i /\ u = v /\ yes
    <3>1. w = t /\ local'[j][u].count = n + 1
      BY <2>1, <1>6
    <3> QED
      BY <2>1, <3>1, <1>1, <1>4, <1>5
  <2>2. CASE j = i /\ u = v /\ ~yes
    <3>1. w = t /\ local'[j][u].count = n
      BY <2>2, <1>6
    <3> QED
      BY <2>2, <3>1, <1>1, <1>3, <1>5
  <2>3. CASE j # i \/ u # v
    <3>1. local'[j][u] = local[j][u] /\ w = local[j][u].window /\ w <= t
      BY <2>3, <1>1, <1>6
    <3>2. local[j][u].count <= Cardinality(LocalPlaces(j, u, w))
      BY <3>1 DEF Inv, LocalInv
    <3>3. LocalPlaces(j, u, w)' = LocalPlaces(j, u, w)
      BY <2>3, <1>3
    <3> QED
      BY <3>1, <3>2, <3>3
  <2> QED
    BY <2>1, <2>2, <2>3
<1>7. LocalInv'
  <2>1. ASSUME NEW q \in Request, decision'[q].by = "local",
               NEW j, NEW u, NEW w, j = call'[q].at, u = call'[q].version, w = decision'[q].window
        PROVE  u \in Version /\ (~decision'[q].allowed => Cardinality(LocalPlaces(j, u, w)') >= Limit)
    <3>1. CASE q = r
      <4>1. ~yes => Cardinality(LocalPlaces(i, v, t)') >= Limit
        BY <1>1, <1>4, <1>5
      <4>2. j = i /\ u = v /\ w = t /\ decision'[q].allowed = yes
        BY <3>1, <2>1
      <4> QED
        BY <4>1, <4>2
    <3>2. CASE q # r
      <4>1. call'[q] = call[q] /\ decision'[q] = decision[q]
        BY <3>2
      <4>2. u \in Version /\ (~decision[q].allowed => Cardinality(LocalPlaces(j, u, w)) >= Limit)
        BY <4>1, <2>1 DEF Inv, LocalInv
      <4> QED
        BY <4>1, <4>2, <1>1, <1>4
    <3> QED
      BY <3>1, <3>2
  <2>2. \A q \in Request : decision'[q].by = "failure_mode" =>
          ~setup.fallback /\ decision'[q].allowed = (setup.failure_mode = "fail_open")
    BY DEF Inv, LocalInv
  <2> QED
    BY <2>1, <2>2, <1>6 DEF LocalInv
<1>8. SeatInv'
  <2> SUFFICES ASSUME NEW u \in Version, NEW w \in Window
               PROVE  \E life \in [Request -> 0..restarts], seat \in [Request -> 1..Limit] :
                        Seated(u, w, life, seat)'
    BY DEF SeatInv
  <2>1. PICK life \in [Request -> 0..restarts], seat \in [Request -> 1..Limit] :
          Seated(u, w, life, seat)
    BY DEF Inv, SeatInv
  <2>2. \A q \in By("local", Admitted(u, w)) : call[q].at \in Instance /\ q \in Request /\ q # r
    BY <1>2 DEF Inv, TypeOK, CallInv, CallType, NoCall, By, Admitted
  <2>3. /\ w \in Nat
        /\ \A q \in Request : seat[q] \in Nat
    BY <2>1, <1>1 DEF Window
  <2>4. CASE u # v \/ w # t \/ ~yes
    <3>1. ASSUME NEW q \in By("local", Admitted(u, w)), life[q] = 0
          PROVE  \/ local'[call[q].at][u].window > w
                 \/ local'[call[q].at][u].window = w /\ seat[q] <= local'[call[q].at][u].count
      <4>1. \/ local[call[q].at][u].window > w
            \/ local[call[q].at][u].window = w /\ seat[q] <= local[call[q].at][u].count
        BY <3>1, <2>1 DEF Seated
      <4>2. CASE call[q].at # i \/ u # v
        BY <4>1, <4>2, <2>2
      <4>3. CASE call[q].at = i /\ u = v /\ ~yes
        BY <4>1, <4>3, <1>1, <2>3
      <4>4. CASE call[q].at = i /\ u = v /\ w # t
        BY <4>1, <4>4, <1>1, <2>3
      <4> QED
        BY <4>2, <4>3, <4>4, <2>4
    <3>2. Seated(u, w, life, seat)'
      BY <3>1, <2>1, <2>4, <1>2 DEF Seated
    <3> QED
      BY <3>2, <2>1
  <2>5. CASE u = v /\ w = t /\ yes
    <3> DEFINE lives == [life EXCEPT ![r] = 0]
               seats == [seat EXCEPT ![r] = n + 1]
    <3>1. /\ lives \in [Request -> 0..restarts] /\ lives[r] = 0
          /\ \A q \in Request : q # r => lives[q] = life[q]
      <4>1. restarts \in Nat
        BY DEF Inv, TypeOK
      <4> QED
        BY <4>1, <2>1
    <3>2. /\ seats \in [Request -> 1..Limit] /\ seats[r] = n + 1
          /\ \A q \in Request : q # r => seats[q] = seat[q]
      BY <2>1, <2>5, <1>1
    <3> HIDE DEF lives, seats
    <3>3. \A q \in By("local", Admitted(v, t)) : life[q] = 0 /\ call[q].at = i =>
            local[i][v].window = t /\ seat[q] <= n
      <4> SUFFICES ASSUME NEW q \in By("local", Admitted(v, t)), life[q] = 0, call[q].at = i
                   PROVE  local[i][v].window = t /\ seat[q] <= n
        OBVIOUS
      <4>1. \/ local[i][v].window > t
            \/ local[i][v].window = t /\ seat[q] <= local[i][v].count
        BY <2>1, <2>5 DEF Seated
      <4> QED
        BY <4>1, <1>1
    <3>4. ASSUME NEW p \in By("local", Admitted(v, t)) \cup {r},
                 NEW q \in By("local", Admitted(v, t)) \cup {r},
                 lives[p] = lives[q], seats[p] = seats[q],
                 lives[p] = 0 => call'[p].at = call'[q].at
          PROVE  p = q
      <4>1. CASE p # r /\ q # r
        BY <4>1, <3>1, <3>2, <3>4, <2>1, <2>2, <2>5, <1>2 DEF Seated
      <4>2. CASE p = r /\ q # r
        <5>1. life[q] = 0 /\ call[q].at = i /\ seat[q] = n + 1
          BY <4>2, <3>1, <3>2, <3>4, <2>2, <2>5, <1>2
        <5> QED
          BY <5>1, <4>2, <3>3, <1>1
      <4>3. CASE p # r /\ q = r
        <5>1. life[p] = 0 /\ call[p].at = i /\ seat[p] = n + 1
          BY <4>3, <3>1, <3>2, <3>4, <2>2, <2>5, <1>2
        <5> QED
          BY <5>1, <4>3, <3>3, <1>1
      <4> QED
        BY <4>1, <4>2, <4>3
    <3>5. ASSUME NEW q \in By("local", Admitted(v, t)) \cup {r}, lives[q] = 0
          PROVE  \/ local'[call'[q].at][v].window > t
                 \/ local'[call'[q].at][v].window = t /\ seats[q] <= local'[call'[q].at][v].count
      <4>1. CASE q = r
        BY <4>1, <3>2, <2>5, <1>1
      <4>2. CASE q # r /\ call[q].at = i
        <5>1. call'[q].at = i /\ seats[q] = seat[q] /\ seat[q] <= n /\ seat[q] \in Nat
          BY <4>2, <3>1, <3>2, <3>3, <3>5, <2>2, <2>3, <2>5, <1>2
        <5> QED
          BY <5>1, <2>5, <1>1
      <4>3. CASE q # r /\ call[q].at # i
        <5>1. /\ call'[q].at = call[q].at /\ call[q].at \in Instance
              /\ seats[q] = seat[q] /\ life[q] = 0 /\ q \in By("local", Admitted(v, t))
          BY <4>3, <3>1, <3>2, <3>5, <2>2, <2>5, <1>2
        <5>2. local'[call[q].at][v] = local[call[q].at][v]
          BY <4>3, <5>1
        <5> QED
          BY <5>1, <5>2, <2>1, <2>5 DEF Seated
      <4> QED
        BY <4>1, <4>2, <4>3
    <3>6. Seated(v, t, lives, seats)'
      BY <3>4, <3>5, <2>5, <1>2 DEF Seated
    <3> QED
      BY <3>1, <3>2, <3>6, <2>5
  <2> QED
    BY <2>4, <2>5
<1> QED
  BY <1>7, <1>8

(***************************************************************************)
(* The attempt of r fails: r retries later, or the fallback decides, or    *)
(* the failure mode does.                                                  *)
(***************************************************************************)
LEMMA RedisFailureInv ==
  ASSUME Inv, Rigid, NEW r \in Request, RedisFailure(r)
  PROVE  Inv'
<1> USE DEF Rigid
<1>1. /\ call[r].state = "waiting"
      /\ failed' = failed \cup {Script(q) : q \in {r}}
      /\ answers' = {a \in answers : \A q \in {r} : ~Reads(q, a)}
      /\ UNCHANGED <<window, policy, view, redisUp, counter, wire, outages, restarts, grants>>
  BY DEF RedisFailure, policies
<1>2. /\ call[r].at \in Instance /\ call[r].version \in Version /\ window \in Window
      /\ decision[r].by = "nobody"
  <2>1. call[r] \in CallType /\ Script(r) \in ScriptType /\ decision[r].by = "nobody"
    BY <1>1 DEF Inv, TypeOK, CallInv
  <2> QED
    BY <2>1, <1>1 DEF Inv, TypeOK, CallType, NoCall, Script, ScriptType
<1>3. ASSUME NEW state \in {"backoff", "done"},
             call' = [call EXCEPT ![r] = [call[r] EXCEPT !.state = state]]
      PROVE  /\ call' \in [Request -> CallType]
             /\ call'[r].state = state
             /\ call'[r].attempt = call[r].attempt /\ call'[r].version = call[r].version
             /\ call'[r].at = call[r].at
             /\ \A q \in Request : q # r => call'[q] = call[q]
  <2>1. call'[r] = [call[r] EXCEPT !.state = state]
    BY <1>3 DEF Inv, TypeOK
  <2>2. /\ call'[r] \in CallType /\ call'[r].state = state
        /\ call'[r].attempt = call[r].attempt /\ call'[r].version = call[r].version
        /\ call'[r].at = call[r].at
    BY <2>1, <1>1, CallMoves
  <2> QED
    BY <2>1, <2>2, <1>3 DEF Inv, TypeOK
<1>4. CASE /\ call' = [call EXCEPT ![r] = [call[r] EXCEPT !.state = "backoff"]]
           /\ UNCHANGED <<decision, local>>
  <2>1. GivenUp({r})
    BY <1>1, <1>3, <1>4 DEF GivenUp, Inv, TypeOK
  <2>2. NoFallback
    BY <1>2, <1>3, <1>4 DEF NoFallback
  <2>3. LocalInv' /\ SeatInv'
    BY <2>2, <1>1, <1>4, FallbacksIdle DEF Inv, TypeOK, Window
  <2>4. local' \in [Instance -> [Version -> [window : Window, count : 0..Limit]]] /\ restarts' \in Nat
    BY <1>1, <1>4 DEF Inv, TypeOK
  <2> QED
    BY <2>1, <2>3, <2>4, GivenUpInv DEF Inv
<1>5. CASE /\ ~setup.fallback
           /\ Decide(r, [by |-> "failure_mode", allowed |-> Degraded, window |-> window])
           /\ UNCHANGED local
  <2>1. call' = [call EXCEPT ![r] = [call[r] EXCEPT !.state = "done"]]
    BY <1>5 DEF Decide
  <2>2. /\ decision' \in [Request -> DecisionType]
        /\ decision'[r].by = "failure_mode" /\ decision'[r].allowed = (setup.failure_mode = "fail_open")
        /\ \A q \in Request : q # r => decision'[q] = decision[q]
    BY <1>2, <1>5 DEF Decide, Degraded, Inv, TypeOK, DecisionType
  <2>3. GivenUp({r})
    BY <2>1, <2>2, <1>1, <1>3 DEF GivenUp
  <2>4. NoFallback
    BY <2>1, <2>2, <1>2, <1>3, <1>5 DEF NoFallback
  <2>5. LocalInv' /\ SeatInv'
    BY <2>4, <1>1, <1>5, FallbacksIdle DEF Inv, TypeOK, Window
  <2>6. local' \in [Instance -> [Version -> [window : Window, count : 0..Limit]]] /\ restarts' \in Nat
    BY <1>1, <1>5 DEF Inv, TypeOK
  <2> QED
    BY <2>3, <2>5, <2>6, GivenUpInv DEF Inv
<1>6. CASE /\ setup.fallback
           /\ Recover(r)
  <2>1. PICK i \in Instance : i = call[r].at
    BY <1>2
  <2>2. PICK v \in Version : v = call[r].version
    BY <1>2
  <2>3. PICK t \in Window : t = window
    BY <1>2
  <2>4. local[i][v] \in [window : Window, count : 0..Limit] /\ Limit \in Nat \ {0}
    BY ServiceAssumption DEF Inv, TypeOK
  <2>5. PICK n \in 0..Limit : LocalState(i, v) = [window |-> t, count |-> n]
    BY <2>3, <2>4 DEF LocalState
  <2>6. LocalAllowed(i, v) = (n < Limit)
    BY <2>4, <2>5 DEF LocalAllowed
  <2>7. PICK yes \in BOOLEAN : yes = (n < Limit)
    <3>1. (n < Limit) \in BOOLEAN
      OBVIOUS
    <3> QED
      BY <3>1, Zenon
  <2>8. /\ local[i][v].window = t => local[i][v].count = n
        /\ local[i][v].window # t => n = 0
    BY <2>3, <2>5 DEF LocalState
  <2>9. /\ local' = [local EXCEPT ![i][v] = [LocalState(i, v) EXCEPT !.count = IF yes THEN @ + 1 ELSE @]]
        /\ Decide(r, [by |-> "local", allowed |-> yes, window |-> t])
    BY <2>1, <2>2, <2>3, <2>6, <2>7, <1>6 DEF Recover
  <2>10. local' = [local EXCEPT ![i][v] = [window |-> t, count |-> IF yes THEN n + 1 ELSE n]]
    <3>1. [LocalState(i, v) EXCEPT !.count = IF yes THEN @ + 1 ELSE @]
            = [window |-> t, count |-> IF yes THEN n + 1 ELSE n]
      BY <2>5
    <3> QED
      BY <3>1, <2>9
  <2>11. /\ local' \in [Instance -> [Version -> [window : Window, count : 0..Limit]]]
         /\ local'[i][v] = [window |-> t, count |-> IF yes THEN n + 1 ELSE n]
         /\ \A j \in Instance, u \in Version : j # i \/ u # v => local'[j][u] = local[j][u]
    <3>1. [window |-> t, count |-> IF yes THEN n + 1 ELSE n] \in [window : Window, count : 0..Limit]
      <4>1. (IF yes THEN n + 1 ELSE n) \in 0..Limit
        <5>1. yes => n < Limit
          BY <2>7
        <5> QED
          BY <5>1, <2>4
      <4> QED
        BY <4>1
    <3> QED
      BY <3>1, <2>10 DEF Inv, TypeOK
  <2>12. call' = [call EXCEPT ![r] = [call[r] EXCEPT !.state = "done"]]
    BY <2>9 DEF Decide
  <2>13. /\ decision' \in [Request -> DecisionType]
         /\ decision'[r] = [by |-> "local", allowed |-> yes, window |-> t]
         /\ \A q \in Request : q # r => decision'[q] = decision[q]
    BY <2>9 DEF Decide, Inv, TypeOK, DecisionType
  <2>14. GivenUp({r})
    BY <2>12, <2>13, <1>1, <1>3 DEF GivenUp
  <2>15. /\ call'[r].at = i /\ call'[r].version = v
         /\ \A q \in Request : q # r => call'[q] = call[q]
    BY <2>1, <2>2, <2>12, <1>3
  <2>16. LocalInv' /\ SeatInv'
    <3>1. local'[i][v].window = t /\ local'[i][v].count = (IF yes THEN n + 1 ELSE n)
      BY <2>11
    <3>2. \A q \in Request : q # r => call'[q] = call[q] /\ decision'[q] = decision[q]
      BY <2>13, <2>15
    <3>3. yes <=> n < Limit
      BY <2>7
    <3>4. setup.fallback /\ window' = window /\ restarts' = restarts
      BY <1>1, <1>6
    <3> QED
      BY <3>1, <3>2, <3>3, <3>4, <2>1, <2>2, <2>3, <2>8, <2>11, <2>13, <2>15, <1>2, FallbackDecides
  <2>17. restarts' \in Nat
    BY <1>1 DEF Inv, TypeOK
  <2> QED
    BY <2>11, <2>14, <2>16, <2>17, GivenUpInv DEF Inv
<1> QED
  <2>1. CASE call[r].attempt < MaxAttempts /\ call' = [call EXCEPT ![r].state = "backoff"]
             /\ UNCHANGED <<decision, local>>
    BY <2>1, <1>4
  <2>2. CASE Recover(r)
    BY <2>2, <1>5, <1>6 DEF Recover
  <2> QED
    BY <2>1, <2>2 DEF RedisFailure
-----------------------------------------------------------------------------
\* Redis loses its counters, and each stands for at most Limit places.
LEMMA RedisCrashInv ==
  ASSUME Inv, Rigid, RedisCrash
  PROVE  Inv'
<1> USE DEF Rigid
<1>1. /\ UNCHANGED <<window, policy, view, call, decision, local, restarts, grants, failed>>
      /\ redisUp' = FALSE /\ wire' = {} /\ answers' = {} /\ outages' = outages + 1
      /\ counter' = [k \in Version \X Window |-> 0]
  BY DEF RedisCrash, policies
<1>2. outages \in Nat /\ Limit \in Nat \ {0}
  BY ServiceAssumption DEF Inv, TypeOK
<1>3. TypeOK'
  <2>1. counter' \in [Version \X Window -> Nat]
    BY <1>1
  <2>2. outages' \in Nat
    BY <1>1, <1>2
  <2>3. redisUp' \in BOOLEAN
    BY <1>1
  <2> QED
    BY <2>1, <2>2, <2>3, <1>1 DEF Inv, TypeOK
<1>4. \A x : Script(x)' = Script(x) /\ Sent(x)' = Sent(x)
  BY <1>1 DEF Script, Sent
<1>5. CallInv' /\ DecisionInv' /\ PlacesAccounted' /\ BusyInv'
  BY <1>1, <1>4 DEF Inv, CallInv, DecisionInv, PlacesAccounted, BusyInv
<1>6. ScriptInv' /\ AnswerInv'
  BY <1>1, <1>4 DEF Inv, ScriptInv, AnswerInv
<1>7. \A v, w : GrantsOf(v, w)' = GrantsOf(v, w) /\ Refused(v, w)' = Refused(v, w)
  BY <1>1 DEF GrantsOf, Refused
<1>8. GrantInv'
  <2>1. ASSUME NEW v \in Version, NEW w \in Window
        PROVE  /\ Cardinality(GrantsOf(v, w)) >= 0
               /\ Cardinality(GrantsOf(v, w)) <= Limit * (outages + 1)
    <3>1. Cardinality(GrantsOf(v, w)) \in Nat
      <4>1. IsFiniteSet(GrantsOf(v, w))
        BY FS_Subset DEF Inv, GrantInv, GrantsOf
      <4> QED
        BY <4>1, FS_CardinalityType
    <3>2. Cardinality(GrantsOf(v, w)) <= Limit * outages + Taken(counter[<<v, w>>])
      BY DEF Inv, GrantInv
    <3>3. Taken(counter[<<v, w>>]) \in Nat /\ Taken(counter[<<v, w>>]) <= Limit
      BY <1>2 DEF Inv, TypeOK, Taken
    <3>4. Limit * (outages + 1) = Limit * outages + Limit /\ Limit * outages \in Nat
      BY <1>2
    <3>5. Cardinality(GrantsOf(v, w)) <= Limit * outages + Limit
      BY <3>1, <3>2, <3>3, <3>4, <1>2
    <3> QED
      BY <3>1, <3>4, <3>5
  <2>2. \A v \in Version, w \in Window : counter'[<<v, w>>] = 0
    BY <1>1
  <2>3. Taken(0) = 0
    BY <1>2 DEF Taken
  <2>4. ASSUME NEW v \in Version, NEW w \in Window
        PROVE  /\ Cardinality(GrantsOf(v, w)') >= Taken(counter'[<<v, w>>])
               /\ Cardinality(GrantsOf(v, w)') <= Limit * outages' + Taken(counter'[<<v, w>>])
    <3>1. Limit * outages' + Taken(counter'[<<v, w>>]) = Limit * (outages + 1)
      BY <2>2, <2>3, <1>1, <1>2
    <3> QED
      BY <3>1, <2>1, <2>2, <2>3, <1>7
  <2>5. IsFiniteSet(grants')
    BY <1>1 DEF Inv, GrantInv
  <2> QED
    BY <2>4, <2>5 DEF GrantInv, Taken
<1>9. RefusalInv'
  BY <1>1, <1>7 DEF Inv, RefusalInv
<1>10. LocalInv' /\ SeatInv'
  <2>1. window' \in Nat /\ window <= window'
    BY <1>1 DEF Inv, TypeOK, Window
  <2> QED
    BY <2>1, <1>1, FallbacksIdle DEF NoFallback
<1> QED
  BY <1>3, <1>5, <1>6, <1>8, <1>9, <1>10 DEF Inv

(***************************************************************************)
(* An instance goes down with the calls it works on.  The seats of its     *)
(* fallback become those of a life that is over.                           *)
(***************************************************************************)
LEMMA InstanceCrashInv ==
  ASSUME Inv, Rigid, NEW i \in Instance, InstanceCrash(i)
  PROVE  Inv'
<1> USE DEF Rigid
<1>1. /\ UNCHANGED <<window, policy, view, redisUp, counter, wire, decision, outages, grants>>
      /\ restarts' = restarts + 1
      /\ local' = [local EXCEPT ![i] = [v \in Version |-> EmptyState]]
      /\ failed' = failed \cup {Script(r) : r \in Working(i)}
      /\ answers' = {a \in answers : \A r \in Working(i) : ~Reads(r, a)}
  BY DEF InstanceCrash, policies
<1>2. restarts \in Nat /\ restarts' \in Nat /\ Limit \in Nat \ {0} /\ window \in Nat /\ 0 \in Window
  BY <1>1, ServiceAssumption DEF Inv, TypeOK, Window
<1>3. /\ \A v \in Version : local'[i][v] = [window |-> 0, count |-> 0]
      /\ \A j \in Instance : j # i => local'[j] = local[j]
      /\ local' \in [Instance -> [Version -> [window : Window, count : 0..Limit]]]
  <2>1. [v \in Version |-> EmptyState] \in [Version -> [window : Window, count : 0..Limit]]
    BY <1>2 DEF EmptyState
  <2> QED
    BY <2>1, <1>1 DEF Inv, TypeOK, EmptyState
<1>4. Working(i) \subseteq {q \in Request : call[q].state \in {"waiting", "backoff"}}
  BY DEF Working
<1>5. call' = [r \in Request |-> IF r \in Working(i) THEN [call[r] EXCEPT !.state = "died"] ELSE call[r]]
  BY DEF InstanceCrash
<1>6. \A q \in Request \ Working(i) : call'[q] = call[q] /\ call'[q] \in CallType
  BY <1>5 DEF Inv, TypeOK
<1>7. ASSUME NEW q \in Working(i)
      PROVE  /\ call'[q] \in CallType /\ call'[q].state = "died"
             /\ call'[q].attempt = call[q].attempt /\ call'[q].version = call[q].version
             /\ call'[q].at = call[q].at /\ decision[q].by = "nobody"
  <2>1. q \in Request /\ call'[q] = [call[q] EXCEPT !.state = "died"]
    BY <1>4, <1>5
  <2> QED
    BY <2>1, <1>4, CallMoves
<1>8. GivenUp(Working(i))
  <2>1. call' \in [Request -> CallType]
    BY <1>5, <1>6, <1>7
  <2> QED
    BY <2>1, <1>1, <1>4, <1>6, <1>7 DEF GivenUp, Inv, TypeOK
<1>9. NoFallback
  BY <1>1, <1>6, <1>7 DEF NoFallback
<1>10. /\ \A v, w : By("local", Admitted(v, w))' = By("local", Admitted(v, w))
       /\ \A v, w : \A q \in By("local", Admitted(v, w)) : q \in Request /\ call'[q] = call[q]
       /\ \A j, v, w : LocalPlaces(j, v, w)' = LocalPlaces(j, v, w)
  BY <1>9, SameLocals
<1>11. LocalInv'
  <2>1. ASSUME NEW j \in Instance, NEW v \in Version, NEW w, w = local'[j][v].window
        PROVE  w <= window' /\ local'[j][v].count <= Cardinality(LocalPlaces(j, v, w)')
    <3>1. CASE j = i
      <4>1. Cardinality(LocalPlaces(j, v, w)) \in Nat
        BY LocalsFinite
      <4>2. w = 0 /\ local'[j][v].count = 0
        BY <3>1, <2>1, <1>3
      <4> QED
        BY <4>1, <4>2, <1>1, <1>2, <1>10
    <3>2. CASE j # i
      BY <3>2, <2>1, <1>1, <1>3, <1>10 DEF Inv, LocalInv
    <3> QED
      BY <3>1, <3>2
  <2>2. ASSUME NEW q \in Request, decision'[q].by = "local",
               NEW j, NEW u, NEW w, j = call'[q].at, u = call'[q].version, w = decision'[q].window
        PROVE  /\ setup.fallback /\ u \in Version
               /\ ~decision'[q].allowed => Cardinality(LocalPlaces(j, u, w)') >= Limit
    <3>1. call'[q] = call[q] /\ decision'[q] = decision[q]
      BY <2>2, <1>1, <1>6, <1>7
    <3> QED
      BY <3>1, <2>2, <1>10 DEF Inv, LocalInv
  <2>3. \A q \in Request : decision'[q].by = "failure_mode" =>
          ~setup.fallback /\ decision'[q].allowed = (setup.failure_mode = "fail_open")
    BY <1>1 DEF Inv, LocalInv
  <2> QED
    BY <2>1, <2>2, <2>3 DEF LocalInv
<1>12. SeatInv'
  <2> SUFFICES ASSUME NEW v \in Version, NEW w \in Window
               PROVE  \E life \in [Request -> 0..(restarts + 1)], seat \in [Request -> 1..Limit] :
                        Seated(v, w, life, seat)'
    BY <1>1 DEF SeatInv
  <2>1. PICK life \in [Request -> 0..restarts], seat \in [Request -> 1..Limit] :
          Seated(v, w, life, seat)
    BY DEF Inv, SeatInv
  <2> DEFINE ends(q) == call[q].at = i /\ life[q] = 0
  <2>2. PICK lives \in [Request -> 0..(restarts + 1)] :
          lives = [q \in Request |-> IF ends(q) THEN restarts + 1 ELSE life[q]]
    <3> DEFINE f == [q \in Request |-> IF ends(q) THEN restarts + 1 ELSE life[q]]
    <3>1. \A q \in Request : life[q] \in 0..(restarts + 1) /\ restarts + 1 \in 0..(restarts + 1)
      BY <2>1, <1>2
    <3>2. f \in [Request -> 0..(restarts + 1)]
      BY <3>1
    <3> QED
      BY <3>2
  <2>3. \A q \in Request : /\ life[q] \in 0..restarts
                           /\ ends(q) => lives[q] = restarts + 1
                           /\ ~ends(q) => lives[q] = life[q]
    BY <2>1, <2>2
  <2>4. \A q \in By("local", Admitted(v, w)) : call[q].at \in Instance
    BY DEF Inv, TypeOK, CallInv, CallType, NoCall, By, Admitted
  <2>5. ASSUME NEW p \in By("local", Admitted(v, w)), NEW q \in By("local", Admitted(v, w)),
               lives[p] = lives[q], seat[p] = seat[q], lives[p] = 0 => call[p].at = call[q].at
        PROVE  p = q
    <3>1. p \in Request /\ q \in Request
      BY <1>10
    <3>2. life[p] = life[q] /\ (life[p] = 0 => call[p].at = call[q].at)
      BY <3>1, <2>3, <2>5, <1>2
    <3> QED
      BY <3>2, <2>1, <2>5 DEF Seated
  <2>6. ASSUME NEW q \in By("local", Admitted(v, w)), lives[q] = 0
        PROVE  \/ local'[call[q].at][v].window > w
               \/ local'[call[q].at][v].window = w /\ seat[q] <= local'[call[q].at][v].count
    <3>1. life[q] = 0 /\ call[q].at # i
      BY <2>3, <2>6, <1>2, <1>10
    <3>2. local'[call[q].at] = local[call[q].at]
      BY <3>1, <2>4, <1>3
    <3> QED
      BY <3>1, <3>2, <2>1 DEF Seated
  <2>7. Seated(v, w, lives, seat)'
    BY <2>5, <2>6, <1>10 DEF Seated
  <2> QED
    BY <2>1, <2>2, <2>7
<1> QED
  BY <1>2, <1>3, <1>8, <1>11, <1>12, GivenUpInv DEF Inv
-----------------------------------------------------------------------------
\* It holds at first.
LEMMA InitInv ==
  ASSUME Init
  PROVE  Inv
<1>1. /\ setup \in Scenario /\ setup.versions \in Nat \ {0} /\ setup.windows \in Nat
      /\ 0 \in Window /\ 1 \in Version /\ Limit \in Nat \ {0}
  BY SetupType DEF Init
<1>2. /\ \A r \in Request : call[r] = NoCall /\ decision[r] = NoDecision
      /\ \A i \in Instance, v \in Version : local[i][v] = EmptyState
      /\ wire = {} /\ answers = {} /\ grants = {} /\ failed = {}
      /\ window = 0 /\ outages = 0 /\ restarts = 0
      /\ \A v \in Version, w \in Window : counter[<<v, w>>] = 0
  BY DEF Init
<1>3. TypeOK
  <2>1. NoCall \in CallType /\ NoDecision \in DecisionType
    BY <1>1 DEF CallType, NoDecision, DecisionType
  <2>2. EmptyState \in [window : Window, count : 0..Limit]
    BY <1>1 DEF EmptyState
  <2> QED
    BY <2>1, <2>2, <1>1 DEF Init, TypeOK
<1>4. CallInv /\ ScriptInv /\ AnswerInv /\ DecisionInv /\ PlacesAccounted
  BY <1>2 DEF CallInv, ScriptInv, AnswerInv, DecisionInv, PlacesAccounted, NoCall, NoDecision
<1>5. GrantInv
  <2>1. \A v \in Version, w \in Window : GrantsOf(v, w) = {}
    BY <1>2 DEF GrantsOf
  <2>2. IsFiniteSet({}) /\ Cardinality({}) = 0
    BY FS_EmptySet
  <2>3. Taken(0) = 0 /\ Limit * 0 + 0 = 0
    BY <1>1 DEF Taken
  <2>4. \A v \in Version, w \in Window :
          /\ Cardinality(GrantsOf(v, w)) = 0
          /\ Taken(counter[<<v, w>>]) = 0
          /\ Limit * outages + Taken(counter[<<v, w>>]) = 0
    BY <2>1, <2>2, <2>3, <1>2
  <2> QED
    BY <2>2, <2>4, <1>2 DEF GrantInv
<1>6. RefusalInv
  BY <1>2 DEF RefusalInv, NoDecision
<1>7. BusyInv
  <2>1. {r \in Request : call[r].state # "idle"} = {}
    BY <1>2 DEF NoCall
  <2> QED
    BY <2>1, FS_EmptySet DEF BusyInv
<1>8. \A v, w : By("local", Admitted(v, w)) = {} /\ \A i : LocalPlaces(i, v, w) = {}
  BY <1>2 DEF By, Admitted, LocalPlaces, NoDecision
<1>9. LocalInv
  BY <1>2, <1>8, FS_EmptySet DEF LocalInv, EmptyState, NoDecision
<1>10. SeatInv
  <2>1. [r \in Request |-> 0] \in [Request -> 0..restarts] /\ [r \in Request |-> 1] \in [Request -> 1..Limit]
    BY <1>1, <1>2
  <2>2. \A v, w : Seated(v, w, [r \in Request |-> 0], [r \in Request |-> 1])
    BY <1>8 DEF Seated
  <2> QED
    BY <2>1, <2>2 DEF SeatInv
<1> QED
  BY <1>3, <1>4, <1>5, <1>6, <1>7, <1>9, <1>10 DEF Inv

\* No step breaks it.
LEMMA NextInv ==
  ASSUME Inv, [Next]_vars
  PROVE  Inv'
<1>1. Rigid
  BY SetupStays
<1>2. CASE UpdatePolicy
  BY <1>1, <1>2, UpdatePolicyInv
<1>3. CASE \E i \in Instance : Refresh(i)
  BY <1>1, <1>3, RefreshInv
<1>4. CASE \E r \in Request, i \in Instance : Submit(r, i)
  BY <1>1, <1>4, SubmitInv
<1>5. CASE \E r \in Request, i \in Instance : SubmitUnlimited(r, i)
  BY <1>1, <1>5, SubmitUnlimitedInv
<1>6. CASE \E r \in Request : Retry(r)
  BY <1>1, <1>6, RetryInv
<1>7. CASE \E r \in Request : RedisFailure(r)
  BY <1>1, <1>7, RedisFailureInv
<1>8. CASE \E r \in Request : \E a \in answers : Receive(r, a)
  BY <1>1, <1>8, ReceiveInv
<1>9. CASE \E s \in wire : Execute(s)
  BY <1>1, <1>9, ExecuteInv
<1>10. CASE \E s \in wire : Lose(s)
  BY <1>1, <1>10, LoseInv
<1>11. CASE NextWindow
  BY <1>1, <1>11, NextWindowInv
<1>12. CASE RedisCrash
  BY <1>1, <1>12, RedisCrashInv
<1>13. CASE RedisStart
  BY <1>1, <1>13, RedisStartInv
<1>14. CASE \E i \in Instance : InstanceCrash(i)
  BY <1>1, <1>14, InstanceCrashInv
<1>15. CASE UNCHANGED vars
  BY <1>1, <1>15, StutterInv
<1> QED
  BY <1>2, <1>3, <1>4, <1>5, <1>6, <1>7, <1>8, <1>9, <1>10, <1>11, <1>12, <1>13, <1>14, <1>15
  DEF Next

\* All of this holds in every state of every behaviour.
THEOREM ServiceInvariant == Spec => []Inv
<1>1. Init => Inv
  BY InitInv
<1>2. Inv /\ [Next]_vars => Inv'
  BY NextInv
<1> QED
  BY <1>1, <1>2, PTL DEF Spec
-----------------------------------------------------------------------------
\* A set that maps one to one into a finite set is no larger.
LEMMA InjectionBound ==
  ASSUME NEW S, NEW T, IsFiniteSet(T), NEW f \in [S -> T],
         \A a, b \in S : f[a] = f[b] => a = b
  PROVE  IsFiniteSet(S) /\ Cardinality(S) <= Cardinality(T)
<1>1. f \in Injection(S, T)
  BY DEF Injection, IsInjective
<1> QED
  BY <1>1, FS_Injection

\* Each request that Redis admitted has a place of its own.
LEMMA RedisAdmits ==
  ASSUME Inv, NEW v \in Version, NEW w \in Window
  PROVE  /\ IsFiniteSet(By("redis", Admitted(v, w)))
         /\ Cardinality(By("redis", Admitted(v, w))) <= Limit * (1 + outages)
<1> DEFINE R == By("redis", Admitted(v, w))
           f == [r \in R |-> [script |-> Script(r), window |-> w]]
<1>1. \A r \in R : [script |-> Script(r), window |-> w] \in GrantsOf(v, w)
  <2> SUFFICES ASSUME NEW r \in R PROVE [script |-> Script(r), window |-> w] \in GrantsOf(v, w)
    OBVIOUS
  <2>1. /\ r \in Request /\ decision[r].by = "redis" /\ decision[r].allowed
        /\ decision[r].window = w /\ call[r].version = v
    BY DEF By, Admitted
  <2>2. [script |-> Script(r), window |-> w] \in grants
    BY <2>1 DEF Inv, DecisionInv
  <2> QED
    BY <2>1, <2>2 DEF GrantsOf, Script
<1>2. f \in [R -> GrantsOf(v, w)]
  BY <1>1
<1>3. \A p, q \in R : f[p] = f[q] => p = q
  BY DEF Script
<1>4. IsFiniteSet(GrantsOf(v, w)) /\ Cardinality(GrantsOf(v, w)) \in Nat
  <2>1. IsFiniteSet(GrantsOf(v, w))
    BY FS_Subset DEF Inv, GrantInv, GrantsOf
  <2> QED
    BY <2>1, FS_CardinalityType
<1>5. IsFiniteSet(R) /\ Cardinality(R) <= Cardinality(GrantsOf(v, w))
  <2> HIDE DEF f, R
  <2> QED
    BY <1>2, <1>3, <1>4, InjectionBound
<1>6. Cardinality(GrantsOf(v, w)) <= Limit * outages + Limit
  <2>1. Cardinality(GrantsOf(v, w)) <= Limit * outages + Taken(counter[<<v, w>>])
    BY DEF Inv, GrantInv
  <2>2. /\ Taken(counter[<<v, w>>]) \in Nat /\ Taken(counter[<<v, w>>]) <= Limit
        /\ Limit \in Nat /\ Limit * outages \in Nat
    BY ServiceAssumption DEF Inv, TypeOK, Taken
  <2> QED
    BY <2>1, <2>2, <1>4
<1>7. Limit * outages + Limit = Limit * (1 + outages) /\ Limit * (1 + outages) \in Nat
  BY ServiceAssumption DEF Inv, TypeOK
<1>8. Cardinality(R) \in Nat
  BY <1>5, FS_CardinalityType
<1>9. Cardinality(R) <= Limit * (1 + outages)
  BY <1>4, <1>5, <1>6, <1>7, <1>8
<1> QED
  BY <1>5, <1>9

(***************************************************************************)
(* Each request a fallback let through has a seat of its own: Limit for    *)
(* each instance that fell back, and Limit for each life that is over.     *)
(***************************************************************************)
LEMMA LocalAdmits ==
  ASSUME Inv, NEW v \in Version, NEW w \in Window
  PROVE  LET L == By("local", Admitted(v, w))
             F == {call[r].at : r \in L}
         IN  /\ IsFiniteSet(F)
             /\ Cardinality(L) <= Limit * (Cardinality(F) + restarts)
<1> DEFINE L == By("local", Admitted(v, w))
           F == {call[r].at : r \in L}
           lives == (F \X {0}) \cup ({0} \X (1..restarts))
<1>1. PICK life \in [Request -> 0..restarts], seat \in [Request -> 1..Limit] :
        Seated(v, w, life, seat)
  BY DEF Inv, SeatInv
<1>2. IsFiniteSet(L) /\ L \subseteq Request
  <2>1. IsFiniteSet(L)
    BY LocalsFinite
  <2>2. L \subseteq Request
    BY DEF By, Admitted
  <2> QED
    BY <2>1, <2>2
<1>3. IsFiniteSet(F) /\ Cardinality(F) \in Nat
  <2> DEFINE at == [r \in L |-> call[r].at]
  <2>1. at \in Surjection(L, F)
    BY DEF Surjection
  <2> HIDE DEF L, F, at
  <2> QED
    BY <2>1, <1>2, FS_Surjection, FS_CardinalityType
<1>4. restarts \in Nat /\ Limit \in Nat
  BY ServiceAssumption DEF Inv, TypeOK
<1>5. IsFiniteSet(lives) /\ Cardinality(lives) \in Nat /\ Cardinality(lives) <= Cardinality(F) + restarts
  <2> HIDE DEF F, L
  <2>1. IsFiniteSet({0}) /\ Cardinality({0}) = 1
    BY FS_Singleton
  <2>2. IsFiniteSet(1..restarts) /\ Cardinality(1..restarts) = restarts
    BY <1>4, FS_Interval
  <2>3. IsFiniteSet(F \X {0}) /\ Cardinality(F \X {0}) = Cardinality(F)
    <3>1. IsFiniteSet(F \X {0}) /\ Cardinality(F \X {0}) = Cardinality(F) * Cardinality({0})
      BY <2>1, <1>3, FS_Product
    <3> QED
      BY <3>1, <2>1, <1>3
  <2>4. IsFiniteSet({0} \X (1..restarts)) /\ Cardinality({0} \X (1..restarts)) = restarts
    <3>1. /\ IsFiniteSet({0} \X (1..restarts))
          /\ Cardinality({0} \X (1..restarts)) = Cardinality({0}) * Cardinality(1..restarts)
      BY <2>1, <2>2, FS_Product
    <3> QED
      BY <3>1, <2>1, <2>2, <1>4
  <2>5. /\ IsFiniteSet(lives)
        /\ Cardinality(lives) = Cardinality(F) + restarts - Cardinality((F \X {0}) \cap ({0} \X (1..restarts)))
    BY <2>3, <2>4, FS_Union
  <2>6. Cardinality((F \X {0}) \cap ({0} \X (1..restarts))) \in Nat
    <3>1. IsFiniteSet((F \X {0}) \cap ({0} \X (1..restarts)))
      BY <2>3, FS_Intersection
    <3> QED
      BY <3>1, FS_CardinalityType
  <2>7. Cardinality(lives) \in Nat
    BY <2>5, FS_CardinalityType
  <2> QED
    BY <2>5, <2>6, <2>7, <1>3, <1>4
<1>6. /\ IsFiniteSet(lives \X (1..Limit))
      /\ Cardinality(lives \X (1..Limit)) = Cardinality(lives) * Limit
  <2>1. IsFiniteSet(1..Limit) /\ Cardinality(1..Limit) = Limit
    BY <1>4, FS_Interval
  <2> HIDE DEF lives
  <2> QED
    BY <2>1, <1>5, FS_Product
<1> DEFINE seated(q) == IF life[q] = 0 THEN <<call[q].at, 0>> ELSE <<0, life[q]>>
           f == [q \in L |-> <<seated(q), seat[q]>>]
<1>7. f \in [L -> lives \X (1..Limit)]
  <2>1. ASSUME NEW q \in L
        PROVE  seated(q) \in lives /\ seat[q] \in 1..Limit
    <3>1. q \in Request /\ life[q] \in 0..restarts /\ seat[q] \in 1..Limit
      BY <1>1, <1>2
    <3>2. life[q] # 0 => life[q] \in 1..restarts
      BY <3>1, <1>4
    <3> QED
      BY <3>1, <3>2
  <2> QED
    BY <2>1
<1>8. \A p, q \in L : f[p] = f[q] => p = q
  <2> SUFFICES ASSUME NEW p \in L, NEW q \in L, f[p] = f[q] PROVE p = q
    OBVIOUS
  <2>1. seated(p) = seated(q) /\ seat[p] = seat[q]
    OBVIOUS
  <2>2. life[p] = life[q] /\ (life[p] = 0 => call[p].at = call[q].at)
    BY <2>1
  <2> QED
    BY <2>1, <2>2, <1>1 DEF Seated
<1>9. Cardinality(L) <= Cardinality(lives) * Limit
  <2> HIDE DEF f, L, lives
  <2> QED
    BY <1>6, <1>7, <1>8, InjectionBound
<1>10. Cardinality(lives) * Limit <= Limit * (Cardinality(F) + restarts)
  <2>1. \A a, b, c \in Nat : a <= b => a * c <= c * b
    OBVIOUS
  <2>2. Cardinality(F) + restarts \in Nat
    BY <1>3, <1>4
  <2> HIDE DEF F, lives
  <2> QED
    BY <2>1, <2>2, <1>4, <1>5
<1>11. Cardinality(L) \in Nat /\ Cardinality(lives) * Limit \in Nat /\ Limit * (Cardinality(F) + restarts) \in Nat
  <2>1. Cardinality(L) \in Nat
    BY <1>2, FS_CardinalityType
  <2> QED
    BY <2>1, <1>3, <1>4, <1>5
<1>12. Cardinality(L) <= Limit * (Cardinality(F) + restarts)
  <2> HIDE DEF F, lives, L
  <2> QED
    BY <1>9, <1>10, <1>11
<1> QED
  BY <1>3, <1>12
-----------------------------------------------------------------------------
(***************************************************************************)
(* In a window Redis admits Limit requests per version of the policy, and  *)
(* Limit more for each loss of its counters, whatever attempts are         *)
(* retried, executed late or given up.                                     *)
(***************************************************************************)
THEOREM RedisQuotaHolds == Spec => []RedisQuota
<1>1. Inv => RedisQuota
  BY RedisAdmits DEF RedisQuota
<1> QED
  BY <1>1, ServiceInvariant, PTL

(***************************************************************************)
(* What the local fallbacks add to it in a window is bounded: Limit for    *)
(* each instance that fell back and Limit for each restart.                *)
(***************************************************************************)
THEOREM OverallQuotaHolds == Spec => []OverallQuota
<1>1. ASSUME Inv, setup.fallback, NEW v \in Version, NEW w \in Window
      PROVE  LET fellBack == {call[r].at : r \in By("local", Admitted(v, w))}
             IN  Cardinality(Admitted(v, w)) <= Limit * (1 + outages + Cardinality(fellBack) + restarts)
  <2> DEFINE R == By("redis", Admitted(v, w))
             L == By("local", Admitted(v, w))
             F == {call[r].at : r \in L}
  <2>1. Admitted(v, w) = R \cup L /\ R \cap L = {}
    <3>1. ASSUME NEW r \in Admitted(v, w)
          PROVE  decision[r].by \in {"redis", "local"}
      <4>1. r \in Request /\ decision[r].allowed /\ call[r].version \in Nat \ {0}
        BY <3>1 DEF Admitted, Version
      <4>2. decision[r].by \in {"nobody", "no_policy", "redis", "local", "failure_mode"}
        BY <4>1, <1>1 DEF Inv, TypeOK, DecisionType
      <4>3. decision[r].by \notin {"nobody", "no_policy"}
        BY <4>1, <1>1 DEF Inv, CallInv
      <4>4. decision[r].by # "failure_mode"
        BY <4>1, <1>1 DEF Inv, LocalInv
      <4> QED
        BY <4>2, <4>3, <4>4
    <3> QED
      BY <3>1 DEF By
  <2>2. IsFiniteSet(R) /\ Cardinality(R) <= Limit * (1 + outages)
    BY <1>1, RedisAdmits
  <2>3. IsFiniteSet(L) /\ IsFiniteSet(F) /\ Cardinality(L) <= Limit * (Cardinality(F) + restarts)
    <3>1. IsFiniteSet(L)
      BY <1>1, LocalsFinite
    <3>2. IsFiniteSet(F) /\ Cardinality(L) <= Limit * (Cardinality(F) + restarts)
      BY <1>1, LocalAdmits
    <3> QED
      BY <3>1, <3>2
  <2> HIDE DEF R, L, F
  <2>4. Cardinality(R) \in Nat /\ Cardinality(L) \in Nat /\ Cardinality(F) \in Nat
    BY <2>2, <2>3, FS_CardinalityType
  <2>5. Cardinality(R \cap L) = 0
    BY <2>1, FS_EmptySet
  <2>6. Cardinality(Admitted(v, w)) = Cardinality(R) + Cardinality(L)
    <3>1. Cardinality(R \cup L) = Cardinality(R) + Cardinality(L) - Cardinality(R \cap L)
      BY <2>2, <2>3, FS_Union
    <3> QED
      BY <3>1, <2>1, <2>4, <2>5
  <2>7. outages \in Nat /\ restarts \in Nat /\ Limit \in Nat
    BY <1>1, ServiceAssumption DEF Inv, TypeOK
  <2>8. Limit * (1 + outages + Cardinality(F) + restarts)
          = Limit * (1 + outages) + Limit * (Cardinality(F) + restarts)
    BY <2>4, <2>7
  <2>9. Limit * (1 + outages) \in Nat /\ Limit * (Cardinality(F) + restarts) \in Nat
    BY <2>4, <2>7
  <2>10. Cardinality(Admitted(v, w)) <= Limit * (1 + outages) + Limit * (Cardinality(F) + restarts)
    BY <2>2, <2>3, <2>4, <2>6, <2>9
  <2>11. Cardinality(Admitted(v, w)) <= Limit * (1 + outages + Cardinality(F) + restarts)
    BY <2>8, <2>10
  <2> USE DEF F, L
  <2> QED
    BY <2>11
<1>2. Inv => OverallQuota
  BY <1>1 DEF OverallQuota
<1> QED
  BY <1>2, ServiceInvariant, PTL

(***************************************************************************)
(* A place that Redis gave away is used, on its way, or lost to an attempt *)
(* that failed.                                                            *)
(***************************************************************************)
THEOREM PlacesAccountedHolds == Spec => []PlacesAccounted
<1>1. Inv => PlacesAccounted
  BY DEF Inv
<1> QED
  BY <1>1, ServiceInvariant, PTL

\* No request is told that the limit is exceeded while places are left.
THEOREM RefusalEarnedHolds == Spec => []RefusalEarned
<1>1. ASSUME Inv, NEW r \in Request, decision[r].by # "nobody",
             Response(decision[r]) = "exceeded"
      PROVE  IF decision[r].by = "redis"
             THEN Cardinality(GrantsOf(call[r].version, decision[r].window)) >= Limit
             ELSE Cardinality(LocalPlaces(call[r].at, call[r].version, decision[r].window)) >= Limit
  <2>1. /\ ~decision[r].allowed /\ decision[r].by # "failure_mode"
    BY <1>1 DEF Response, Evaluated
  <2>2. decision[r].by \in {"redis", "local"}
    BY <2>1, <1>1 DEF Inv, CallInv, TypeOK, DecisionType
  <2>3. CASE decision[r].by = "redis"
    BY <2>1, <2>3, <1>1 DEF Inv, RefusalInv, Refused
  <2>4. CASE decision[r].by = "local"
    BY <2>1, <2>4, <1>1 DEF Inv, LocalInv
  <2> QED
    BY <2>2, <2>3, <2>4
<1>2. Inv => RefusalEarned
  BY <1>1 DEF RefusalEarned, GrantsOf, LocalPlaces
<1> QED
  BY <1>2, ServiceInvariant, PTL

(***************************************************************************)
(* Under fail_closed, without the fallback, whoever is let through has a   *)
(* place that Redis gave to the attempt that was answered.                 *)
(***************************************************************************)
THEOREM FailClosedHolds == Spec => []FailClosed
<1>1. ASSUME Inv, ~setup.fallback, setup.failure_mode = "fail_closed",
             NEW r \in Request, decision[r].allowed, Evaluated(decision[r]).applied
      PROVE  [script |-> Script(r), window |-> decision[r].window] \in grants
  <2>1. decision[r].by # "no_policy"
    BY <1>1 DEF Evaluated
  <2>2. decision[r].by \notin {"nobody", "local", "failure_mode"}
    BY <1>1 DEF Inv, CallInv, LocalInv
  <2>3. decision[r].by = "redis"
    BY <2>1, <2>2, <1>1 DEF Inv, TypeOK, DecisionType
  <2> QED
    BY <2>3, <1>1 DEF Inv, DecisionInv
<1>2. Inv => FailClosed
  BY <1>1 DEF FailClosed
<1> QED
  BY <1>2, ServiceInvariant, PTL
=============================================================================
