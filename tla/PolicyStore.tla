---------------------------- MODULE PolicyStore ----------------------------
(***************************************************************************)
(* The table of policies, and the requests that change it: create, update  *)
(* and delete of the admin API, and the sync that takes a policy from      *)
(* ConfigControl and creates or updates the row of its name.               *)
(*                                                                         *)
(* Each request has a database session of its own.  A write first reads    *)
(* the row and then commits; nothing is locked in between, and Postgres    *)
(* runs at READ COMMITTED.  The ORM's UPDATE sets the columns that differ  *)
(* from what was read, and a version one higher than the one read.  After  *)
(* the commit the row is read again and the caches are invalidated, which  *)
(* is the business of PolicyCache; here it is one step.                    *)
(*                                                                         *)
(* A request that is refused with nothing done (401, 404, 422, a fetch     *)
(* from ConfigControl that failed) is no step.  The columns description,   *)
(* window_seconds and failure_mode are written like rate, and left out.    *)
(* Time counts the transactions begun: now() is when one began, whenever   *)
(* it commits.                                                             *)
(***************************************************************************)
EXTENDS PolicyMatcher

CONSTANTS Session,     \* requests handled at the same time
          Body,        \* what create requests and ConfigControl say
          Patch,       \* what update requests say
          Traffic,     \* requests to find a policy for
          MaxPolicies, \* how many policies are ever created (a bound)
          MaxWrites    \* how many writes there are (a bound)

VARIABLES
  rows,     \* rows[id]: the row with this id
  created,  \* the ids given out: 1..created
  session,  \* session[s]: how far a request has come
  clock,    \* the transactions begun
  writes,   \* the writes begun
  dirty,    \* history: whether caches may hold what a commit has changed
  lost,     \* history: whether an invalidation never began
  overlap,  \* history: whether a row was written over that had changed since it was read
  seen      \* history: every row that was ever committed

history == <<dirty, lost, overlap, seen>>

vars == <<rows, created, session, clock, writes, history>>

Column == Selector \cup {"name", "algorithm", "rate", "burst_capacity", "active", "priority"}

Id == 1..MaxPolicies

NoRow == [id |-> 0]

Exists(id) == rows[id] # NoRow

Algorithm == {"token_bucket", "fixed_window", "sliding_window_log"}

\* What PolicyCreate and PolicyUpdate parse: values of the columns' types,
\* or null.
Parsed(b) ==
  /\ DOMAIN b \subseteq Column
  /\ "algorithm" \in DOMAIN b => b.algorithm \in Algorithm \cup {Null}
  /\ "rate" \in DOMAIN b => b.rate \in Int \cup {Null}
  /\ "priority" \in DOMAIN b => b.priority \in Int \cup {Null}

ASSUME PolicyStoreAssumption ==
  /\ MaxPolicies \in Nat
  /\ MaxWrites \in Nat
  /\ \A b \in Body \cup Patch : Parsed(b)

\* A request is over: its answer is a success or an error.
Ended == [step |-> "ok"]

Failed == [step |-> "failed"]

Idle(s) == session[s] \in {Ended, Failed}

Init ==
  /\ rows = [id \in Id |-> NoRow]
  /\ created = 0
  /\ session = [s \in Session |-> Ended]
  /\ clock = 0
  /\ writes = 0
  /\ dirty = FALSE
  /\ lost = FALSE
  /\ overlap = FALSE
  /\ seen = {}

\* The defaults of PolicyBase; any other column that is left out is null.
defaults == [algorithm |-> "token_bucket", active |-> TRUE, priority |-> 0]

PolicyCreate(body) ==
  [c \in Column |->
     IF c \in DOMAIN body THEN body[c]
     ELSE IF c \in DOMAIN defaults THEN defaults[c] ELSE Null]

\* PolicyBase and validate_algorithm_specifics.  (An update may say null for
\* a column that cannot be null.)
Valid(p) ==
  /\ p.name # Null /\ p.algorithm # Null /\ p.active # Null /\ p.priority # Null
  /\ p.rate # Null /\ p.rate > 0
  /\ p.burst_capacity # Null => p.burst_capacity > 0 /\ p.algorithm = "token_bucket"

to_policy_payload(row) == [c \in Column |-> row[c]]

\* A slip: the two are merged the other way round.
MergedSwapped(row, update_data) == to_policy_payload(row)

\* _to_policy_payload(policy) | update_data
Merged(row, update_data) ==
  [c \in Column |-> IF c \in DOMAIN update_data THEN update_data[c] ELSE row[c]]

\* A slip: the table has no such constraint.
NameNeverTaken(name, id) == FALSE

\* The unique constraint on the name.
NameTaken(name, id) == \E other \in Id \ {id} : Exists(other) /\ rows[other].name = name

Goes(s, state) == session' = [session EXCEPT ![s] = state]

BeginTransaction == clock' = clock + 1

\* A transaction commits, and row is the row with this id.
Commits(id, row) ==
  /\ rows' = [rows EXCEPT ![id] = row]
  /\ dirty' = (dirty \/ row # rows[id])
  /\ seen' = IF row = NoRow THEN seen ELSE seen \cup {row}
-----------------------------------------------------------------------------
\* session.add and commit: a new row, of version 1.
Insert(s, p, now) ==
  LET id == created + 1
      row == [c \in Column \cup {"id", "version", "updated_at"} |->
                IF c \in Column THEN p[c]
                ELSE IF c = "id" THEN id ELSE IF c = "version" THEN 1 ELSE now]
  IN  /\ id \in Id
      /\ ~NameTaken(p.name, id)
      /\ created' = id
      /\ Commits(id, row)
      /\ Goes(s, [step |-> "committed", id |-> id, asked |-> p])
      /\ UNCHANGED <<lost, overlap>>

\* The name is taken, and the transaction is rolled back.
InsertFails(s, p) ==
  /\ NameTaken(p.name, 0)
  /\ Goes(s, Failed)
  /\ UNCHANGED <<rows, created, history>>

Begins(s) ==
  /\ Idle(s)
  /\ writes < MaxWrites
  /\ writes' = writes + 1

\* POST: the payload is valid, or it does not get here.
create_policy(s, body) ==
  /\ Begins(s)
  /\ BeginTransaction
  /\ Valid(PolicyCreate(body))
  /\ Insert(s, PolicyCreate(body), clock)

\* session.get, and the change is found to be valid.
GetForUpdate(s, id, update_data) ==
  /\ BeginTransaction
  /\ Exists(id)
  /\ DOMAIN update_data # {}
  /\ Valid(Merged(rows[id], update_data))
  /\ Goes(s, [step |-> "read", row |-> rows[id], asked |-> update_data, begun |-> clock])
  /\ UNCHANGED <<rows, created, history>>

\* PUT
update_policy(s, id, update_data) == Begins(s) /\ GetForUpdate(s, id, update_data)

\* DELETE: the row is found.
delete_policy(s, id) ==
  /\ Begins(s)
  /\ Exists(id)
  /\ Goes(s, [step |-> "delete", id |-> id])
  /\ UNCHANGED <<rows, created, clock, history>>

\* ConfigControl is configured and answers with a policy that is valid; else
\* the request is answered 503.
sync_policy(s, body) ==
  /\ Valid(PolicyCreate(body))
  /\ Goes(s, [step |-> "fetched", asked |-> PolicyCreate(body)])
  /\ UNCHANGED <<rows, created, clock, history>>

\* POST /internal/sync/config-control
sync_policy_from_config_control(s, body) == Begins(s) /\ sync_policy(s, body)

\* upsert_policy_by_name: SELECT finds the row of that name, or none.
upsert_policy_by_name(s) ==
  LET p == session[s].asked
      found == {id \in Id : Exists(id) /\ rows[id].name = p.name}
  IN  /\ session[s].step = "fetched"
      /\ BeginTransaction
      /\ \/ /\ found = {}
            /\ Goes(s, [step |-> "absent", asked |-> p, begun |-> clock])
         \/ \E id \in found :
              Goes(s, IF to_policy_payload(rows[id]) = p
                      THEN Ended
                      ELSE [step |-> "read", row |-> rows[id], asked |-> p, begun |-> clock])
      /\ UNCHANGED <<rows, created, writes, history>>

\* When there was none, it is created.
upsert_creates(s) ==
  /\ session[s].step = "absent"
  /\ \/ Insert(s, session[s].asked, session[s].begun)
     \/ InsertFails(s, session[s].asked)
  /\ UNCHANGED <<clock, writes>>
-----------------------------------------------------------------------------
\* A slip: a column is never set to null.
UpdatedNotNull(now, read, asked, begun) ==
  [c \in DOMAIN now |->
     IF c = "version" THEN read.version + 1
     ELSE IF c = "updated_at" THEN begun
     ELSE IF c \in DOMAIN asked /\ asked[c] \notin {read[c], Null} THEN asked[c] ELSE now[c]]

\* What UPDATE makes of the row: it sets the columns that differ from what
\* was read, and the version.
Updated(now, read, asked, begun) ==
  [c \in DOMAIN now |->
     IF c = "version" THEN read.version + 1
     ELSE IF c = "updated_at" THEN begun
     ELSE IF c \in DOMAIN asked /\ asked[c] # read[c] THEN asked[c] ELSE now[c]]

\* A slip: a row that is gone is written again.
StillThereAlways(id) == TRUE

\* An UPDATE that matches no row raises StaleDataError.
StillThere(id) == Exists(id)

\* Flush and commit of an update.
Update(s) ==
  LET read == session[s].row
      id == read.id
      now == IF Exists(id) THEN rows[id] ELSE read
      row == Updated(now, read, session[s].asked, session[s].begun)
  IN  /\ session[s].step = "read"
      /\ \/ /\ StillThere(id)
            /\ ~NameTaken(row.name, id)
            /\ Commits(id, row)
            /\ overlap' = (overlap \/ now # read)
            /\ Goes(s, [step |-> "committed", id |-> id, asked |-> session[s].asked])
            /\ UNCHANGED <<created, lost>>
         \/ /\ ~StillThere(id) \/ NameTaken(row.name, id)
            /\ Goes(s, Failed)
            /\ UNCHANGED <<rows, created, history>>
      /\ UNCHANGED <<clock, writes>>

\* A slip: nothing is invalidated after a delete.
AfterDeleteNothing == Ended

AfterDelete == [step |-> "refreshed"]

\* Flush and commit of a delete: if the row is gone already, that is only
\* warned of.
Delete(s) ==
  /\ session[s].step = "delete"
  /\ Commits(session[s].id, NoRow)
  /\ Goes(s, AfterDelete)
  /\ UNCHANGED <<created, clock, writes, lost, overlap>>

\* session.refresh: it fails if the row was deleted since the commit.
Refresh(s) ==
  /\ session[s].step = "committed"
  /\ BeginTransaction
  /\ Goes(s, IF Exists(session[s].id) THEN [step |-> "refreshed"] ELSE Failed)
  /\ UNCHANGED <<rows, created, writes, history>>

\* invalidate_policy_cache, and the answer.
Invalidate(s) ==
  /\ session[s].step = "refreshed"
  /\ dirty' = FALSE
  /\ Goes(s, Ended)
  /\ UNCHANGED <<rows, created, clock, writes, lost, overlap, seen>>

\* The instance or its connection to the database goes down: what is not
\* committed is rolled back, and what is left to do is not done.
Crash(s) ==
  /\ ~Idle(s)
  /\ lost' = (lost \/ session[s].step \in {"committed", "refreshed"})
  /\ Goes(s, Failed)
  /\ UNCHANGED <<rows, created, clock, writes, dirty, overlap, seen>>

\* The rest of a request that has begun.
Proceed(s) ==
  \/ upsert_policy_by_name(s) \/ upsert_creates(s)
  \/ Update(s) \/ Delete(s) \/ Refresh(s) \/ Invalidate(s) \/ Crash(s)

Handle(s) ==
  \/ \E b \in Body : create_policy(s, b) \/ sync_policy_from_config_control(s, b)
  \/ \E id \in Id : delete_policy(s, id) \/ \E u \in Patch : update_policy(s, id, u)
  \/ Proceed(s)

Next == \E s \in Session : Handle(s)

Spec == Init /\ [][Next]_vars
-----------------------------------------------------------------------------
\* The rows list_policies selects.
Listed(active_only) == {rows[id] : id \in {n \in Id : Exists(n) /\ (active_only => rows[n].active)}}

\* It raises if one of them is not valid: a PolicyRead is a PolicyBase.
ListFails(active_only) == \E row \in Listed(active_only) : ~Valid(row)

\* By priority, then the one updated last.  The name, which decides between
\* rows updated at the same moment, is left out: BeginTransaction gives every
\* transaction a moment of its own.
ListedBefore(a, b) ==
  a.priority > b.priority \/ (a.priority = b.priority /\ a.updated_at > b.updated_at)

list_policies(active_only) ==
  LET S == Listed(active_only)
  IN  [k \in 1..Cardinality(S) |->
         CHOOSE row \in S : Cardinality({other \in S : ListedBefore(other, row)}) = k - 1]

resolve_policy(identity) == select_best_policy(list_policies(TRUE), identity)
-----------------------------------------------------------------------------
\* upsert_policy_by_name expects at most one row of a name.
OneRowPerName ==
  \A a, b \in Id : Exists(a) /\ Exists(b) /\ rows[a].name = rows[b].name => a = b

TypeOK ==
  /\ created \in 0..MaxPolicies
  /\ \A id \in Id : Exists(id) =>
       /\ id <= created
       /\ rows[id].id = id
       /\ rows[id].version \in Nat \ {0}
       /\ rows[id].updated_at \in 0..clock
       /\ rows[id].algorithm \in Algorithm
       /\ rows[id].rate \in Nat \ {0}
  /\ \A s \in Session :
       session[s].step \in {"ok", "failed", "fetched", "absent", "read", "delete",
                            "committed", "refreshed"}
  /\ OneRowPerName
  /\ writes \in 0..MaxWrites
  /\ \A row \in seen : row.id \in 1..created

(***************************************************************************)
(* No change is forgotten: while a commit has not been followed by an      *)
(* invalidation, some request still has one to do, unless it was cut off.  *)
(* This is so even for an update whose row is deleted before it can be     *)
(* read again, which fails without invalidating anything.                  *)
(***************************************************************************)
ChangesAnnounced ==
  dirty /\ ~lost => \E s \in Session : session[s].step \in {"committed", "refreshed"}

(***************************************************************************)
(* A policy that was deleted is gone for good: an update or a sync that    *)
(* had read it before does not bring it back.                              *)
(***************************************************************************)
DeletedStaysDeleted == [][\A id \in 1..created : ~Exists(id) => ~Exists(id)']_vars

(***************************************************************************)
(* One invalid row makes list_policies fail, and with it every request     *)
(* that is to be limited.  Each write validates what it writes; as long as *)
(* no row is written over that changed since it was read, all rows stay    *)
(* valid, and if one is, a burst capacity without token_bucket is the only *)
(* thing that can be wrong.                                                *)
(***************************************************************************)
RowsValid ==
  /\ ~overlap => ~ListFails(FALSE)
  /\ \A row \in Listed(FALSE) :
       Valid(row) \/ (row.burst_capacity # Null /\ row.algorithm # "token_bucket")

(***************************************************************************)
(* What was acknowledged was in the table, as it was asked for, unless     *)
(* writes of the same row overlapped.                                      *)
(***************************************************************************)
AcknowledgedWasWritten ==
  ~overlap =>
    \A s \in Session : session[s].step = "committed" =>
      \E row \in seen : /\ row.id = session[s].id
                        /\ \A c \in DOMAIN session[s].asked : row[c] = session[s].asked[c]

\* What the keys of two rows tell, for requests that they apply to.
KeysTell(a, i, b, j) ==
  LET same == build_rate_limit_key(a, i) = build_rate_limit_key(b, j)
  IN  policy_matches(a, i) /\ policy_matches(b, j) =>
        /\ same => a.id = b.id /\ a.algorithm = b.algorithm
        /\ a = b => same
        /\ same /\ ~overlap => a = b

(***************************************************************************)
(* A key of the limiter stands for one policy: a row shares its key with   *)
(* one that was ever in the table only if they are versions of one policy  *)
(* with the same algorithm (and so the same kind of Redis value), even     *)
(* when updates overlap and a version is used twice; when they do not,     *)
(* only if they are the same.  And all requests a row applies to share its *)
(* key.                                                                    *)
(***************************************************************************)
KeyTells ==
  \A a \in Listed(FALSE), b \in seen : \A q, r \in Traffic :
    KeysTell(a, build_request_identity(q), b, build_request_identity(r))

(***************************************************************************)
(* "User-specific or composite policies take priority": a policy applies   *)
(* to a request only if no active one that matches says more about it; one *)
(* for the route alone, only if none names the user or two things at once. *)
(* Priority and age decide between policies of the same selectors only.    *)
(***************************************************************************)
MostSpecificWins ==
  \A request \in Traffic :
    LET identity == build_request_identity(request)
        matching == {row \in Listed(TRUE) : policy_matches(row, identity)}
        p == resolve_policy(identity)
    IN  /\ p = Null <=> matching = {}
        /\ p # Null =>
             /\ p \in matching
             /\ \A row \in matching : ~(Named(p) \subseteq Named(row) /\ Named(p) # Named(row))
             /\ Named(p) = {"route"} =>
                  \A row \in matching : "user_id" \notin Named(row) /\ Cardinality(Named(row)) <= 1
             /\ \A row \in matching : Named(row) = Named(p) => row.priority <= p.priority
=============================================================================
