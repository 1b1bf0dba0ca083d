------------------------- MODULE PolicyStoreProofs -------------------------
(***************************************************************************)
(* What holds of PolicyStore for any sessions, payloads and bounds: every  *)
(* change is announced, what is deleted stays deleted, names are unique,   *)
(* rows are valid, keys tell policies apart and the most specific policy   *)
(* wins.  It all holds with the scripts of Provisioning running too, and a *)
(* script that is left alone does what it is for.                          *)
(***************************************************************************)
EXTENDS Provisioning, FiniteSetTheorems, TLAPS

\* Ids are given out in order, and a row knows its own.
TableInv ==
  /\ created \in 0..MaxPolicies
  /\ rows = [id \in Id |-> rows[id]]
  /\ \A id \in Id : Exists(id) =>
       id <= created /\ rows[id].id = id /\ {"id", "name"} \subseteq DOMAIN rows[id]

\* A request that has begun is about some row, and asks for columns.
Pending(x) ==
  /\ x.step \in {"fetched", "absent"} => DOMAIN x.asked = Column
  /\ x.step = "read" => x.row.id \in Id /\ DOMAIN x.asked \subseteq Column
  /\ x.step \in {"delete", "committed"} => x.id \in Id

SessionInv ==
  /\ session = [s \in Session |-> session[s]]
  /\ \A s \in Session : Pending(session[s])

(***************************************************************************)
(* Who is sure to invalidate, if nothing cuts it off: a request that has   *)
(* read its row back, or will find it there.  A request whose row is gone  *)
(* will fail instead; but then whoever deleted the row is sure to.         *)
(***************************************************************************)
Owes(s) ==
  \/ session[s].step = "refreshed"
  \/ session[s].step = "committed" /\ Exists(session[s].id)

AnnouncedInv == dirty /\ ~lost => \E s \in Session : Owes(s)

Inv == TableInv /\ SessionInv /\ OneRowPerName /\ AnnouncedInv
-----------------------------------------------------------------------------
\* An id is a positive number, so a row that knows its id is a row.
LEMMA RowIsThere ==
  ASSUME NEW id \in Id, NEW row, row.id = id
  PROVE  row # NoRow
  BY PolicyStoreAssumption DEF Id, NoRow

\* What an update writes keeps the id it found, and the columns.
LEMMA UpdatedKeeps ==
  ASSUME NEW now, NEW read, NEW asked, NEW begun,
         {"id", "name"} \subseteq DOMAIN now, DOMAIN asked \subseteq Column
  PROVE  LET row == Updated(now, read, asked, begun)
         IN  row.id = now.id /\ {"id", "name"} \subseteq DOMAIN row
<1>1. "id" \notin Column
  BY DEF Column, Selector
<1> QED
  BY <1>1 DEF Updated

\* A request goes on to another step, and the table stays as it is.
LEMMA SessionMoves ==
  ASSUME Inv, NEW s \in Session, NEW x, Pending(x),
         Goes(s, x), rows' = rows, created' = created, dirty' = dirty,
         lost => lost',
         ~lost' /\ Owes(s) => x.step = "refreshed"
  PROVE  Inv'
<1>1. session' = [t \in Session |-> IF t = s THEN x ELSE session[t]]
  BY DEF Inv, SessionInv, Goes
<1>2. TableInv' /\ OneRowPerName'
  BY DEF Inv, TableInv, OneRowPerName, Exists
<1>3. SessionInv'
  BY <1>1 DEF Inv, SessionInv, Pending
<1>4. AnnouncedInv'
  BY <1>1 DEF Inv, AnnouncedInv, Owes, Exists
<1> QED
  BY <1>2, <1>3, <1>4 DEF Inv

\* A row is written by s, which will read it back; no other has its name.
LEMMA RowWritten ==
  ASSUME Inv, NEW s \in Session, NEW x, NEW id \in Id, NEW row,
         created' \in created..MaxPolicies, id <= created',
         row.id = id, {"id", "name"} \subseteq DOMAIN row, ~NameTaken(row.name, id),
         x.step = "committed", x.id = id, Goes(s, x), Commits(id, row), lost' = lost
  PROVE  Inv'
<1>1. session' = [t \in Session |-> IF t = s THEN x ELSE session[t]]
  BY DEF Inv, SessionInv, Goes
<1>2. rows' = [n \in Id |-> IF n = id THEN row ELSE rows[n]]
  BY DEF Inv, TableInv, Commits
<1>3. row # NoRow
  BY RowIsThere
<1>4. TableInv'
  BY <1>2, PolicyStoreAssumption DEF Inv, TableInv, Exists, Id
<1>5. SessionInv'
  BY <1>1 DEF Inv, SessionInv, Pending
<1>6. OneRowPerName'
  BY <1>2 DEF Inv, OneRowPerName, NameTaken, Exists
<1>7. Owes(s)'
  BY <1>1, <1>2, <1>3 DEF Owes, Exists
<1>8. AnnouncedInv'
  BY <1>7 DEF AnnouncedInv
<1> QED
  BY <1>4, <1>5, <1>6, <1>8 DEF Inv

\* A row is deleted by s, which goes on to invalidate.
LEMMA RowDeleted ==
  ASSUME Inv, NEW s \in Session, NEW id \in Id,
         created' = created, Goes(s, AfterDelete), Commits(id, NoRow), lost' = lost
  PROVE  Inv'
<1>1. session' = [t \in Session |-> IF t = s THEN AfterDelete ELSE session[t]]
  BY DEF Inv, SessionInv, Goes
<1>2. rows' = [n \in Id |-> IF n = id THEN NoRow ELSE rows[n]]
  BY DEF Inv, TableInv, Commits
<1>3. TableInv'
  BY <1>2 DEF Inv, TableInv, Exists
<1>4. SessionInv'
  BY <1>1 DEF Inv, SessionInv, Pending, AfterDelete
<1>5. OneRowPerName'
  BY <1>2 DEF Inv, OneRowPerName, Exists
<1>6. Owes(s)'
  BY <1>1 DEF Owes, AfterDelete
<1>7. AnnouncedInv'
  BY <1>6 DEF AnnouncedInv
<1> QED
  BY <1>3, <1>4, <1>5, <1>7 DEF Inv

\* What PolicyCreate makes of a body has every column.
LEMMA PolicyCreateColumns ==
  ASSUME NEW body
  PROVE  DOMAIN PolicyCreate(body) = Column
  BY Zenon DEF PolicyCreate

\* A new row gets the next id.
LEMMA InsertInv ==
  ASSUME Inv, NEW s \in Session, NEW p, NEW now, Insert(s, p, now)
  PROVE  Inv'
<1> DEFINE id == created + 1
           row == [c \in Column \cup {"id", "version", "updated_at"} |->
                     IF c \in Column THEN p[c]
                     ELSE IF c = "id" THEN id ELSE IF c = "version" THEN 1 ELSE now]
           x == [step |-> "committed", id |-> id, asked |-> p]
<1>1. /\ id \in Id /\ ~NameTaken(p.name, id) /\ created' = id
      /\ Commits(id, row) /\ Goes(s, x) /\ lost' = lost
  BY DEF Insert
<1>2. row.id = id /\ {"id", "name"} \subseteq DOMAIN row /\ row.name = p.name
  BY DEF Column, Selector
<1>3. created' \in created..MaxPolicies /\ id <= created'
  BY <1>1, PolicyStoreAssumption DEF Inv, TableInv, Id
<1>4. x.step = "committed" /\ x.id = id
  OBVIOUS
<1> HIDE DEF id, row, x
<1> QED
  BY <1>1, <1>2, <1>3, <1>4, RowWritten

\* An insert that fails leaves the table alone.
LEMMA InsertFailsInv ==
  ASSUME Inv, NEW s \in Session, NEW p, InsertFails(s, p), ~Owes(s)
  PROVE  Inv'
<1>1. Pending(Failed)
  BY DEF Pending, Failed
<1> QED
  BY <1>1, SessionMoves DEF InsertFails, history
-----------------------------------------------------------------------------
\* Initially the table is empty and nothing is under way.
LEMMA InitInv == Init => Inv
<1> SUFFICES ASSUME Init PROVE Inv
  OBVIOUS
<1>1. TableInv
  BY PolicyStoreAssumption DEF Init, TableInv, Exists
<1>2. SessionInv
  BY DEF Init, SessionInv, Pending, Ended
<1>3. OneRowPerName /\ AnnouncedInv
  BY DEF Init, OneRowPerName, AnnouncedInv, Exists
<1> QED
  BY <1>1, <1>2, <1>3 DEF Inv

\* A request that is over owes nothing.
LEMMA IdleOwesNothing ==
  ASSUME NEW s \in Session, Idle(s)
  PROVE  ~Owes(s)
  BY DEF Idle, Ended, Failed, Owes

\* The first step of each request.
LEMMA BeginInv ==
  ASSUME Inv, NEW s \in Session,
         \/ \E b \in Body : create_policy(s, b) \/ sync_policy_from_config_control(s, b)
         \/ \E id \in Id : delete_policy(s, id) \/ \E u \in Patch : update_policy(s, id, u)
  PROVE  Inv'
<1>1. ASSUME NEW b \in Body, create_policy(s, b) PROVE Inv'
  BY <1>1, InsertInv DEF create_policy
<1>2. ASSUME NEW b \in Body, sync_policy_from_config_control(s, b) PROVE Inv'
  <2> DEFINE x == [step |-> "fetched", asked |-> PolicyCreate(b)]
  <2>1. Pending(x)
    BY PolicyCreateColumns DEF Pending
  <2>2. ~Owes(s)
    BY <1>2, IdleOwesNothing DEF sync_policy_from_config_control, Begins
  <2>3. Goes(s, x) /\ rows' = rows /\ created' = created /\ dirty' = dirty /\ lost' = lost
    BY <1>2 DEF sync_policy_from_config_control, sync_policy, history
  <2> HIDE DEF x
  <2> QED
    BY <2>1, <2>2, <2>3, SessionMoves
<1>3. ASSUME NEW id \in Id, delete_policy(s, id) PROVE Inv'
  <2> DEFINE x == [step |-> "delete", id |-> id]
  <2>1. Pending(x)
    BY DEF Pending
  <2>2. ~Owes(s)
    BY <1>3, IdleOwesNothing DEF delete_policy, Begins
  <2>3. Goes(s, x) /\ rows' = rows /\ created' = created /\ dirty' = dirty /\ lost' = lost
    BY <1>3 DEF delete_policy, history
  <2> HIDE DEF x
  <2> QED
    BY <2>1, <2>2, <2>3, SessionMoves
<1>4. ASSUME NEW id \in Id, NEW u \in Patch, update_policy(s, id, u) PROVE Inv'
  <2> DEFINE x == [step |-> "read", row |-> rows[id], asked |-> u, begun |-> clock]
  <2>1. Exists(id) /\ rows[id].id = id
    BY <1>4 DEF update_policy, GetForUpdate, Inv, TableInv
  <2>2. DOMAIN u \subseteq Column
    BY PolicyStoreAssumption DEF Parsed
  <2>3. Pending(x)
    BY <2>1, <2>2 DEF Pending
  <2>4. ~Owes(s)
    BY <1>4, IdleOwesNothing DEF update_policy, Begins
  <2>5. Goes(s, x) /\ rows' = rows /\ created' = created /\ dirty' = dirty /\ lost' = lost
    BY <1>4 DEF update_policy, GetForUpdate, history
  <2> HIDE DEF x
  <2> QED
    BY <2>3, <2>4, <2>5, SessionMoves
<1> QED
  BY <1>1, <1>2, <1>3, <1>4

\* A request that fails or ends, owing nothing, leaves everything as it is.
LEMMA EndsInv ==
  ASSUME Inv, NEW s \in Session, NEW x, x \in {Ended, Failed}, Goes(s, x),
         rows' = rows, created' = created, dirty' = dirty,
         lost => lost', ~lost' => ~Owes(s)
  PROVE  Inv'
<1>1. Pending(x)
  BY DEF Pending, Ended, Failed
<1> QED
  BY <1>1, SessionMoves

\* The SELECT of an upsert, whatever it finds.
LEMMA UpsertInv ==
  ASSUME Inv, NEW s \in Session, upsert_policy_by_name(s)
  PROVE  Inv'
<1> DEFINE p == session[s].asked
           found == {id \in Id : Exists(id) /\ rows[id].name = p.name}
           absent == [step |-> "absent", asked |-> p, begun |-> clock]
           read(id) == [step |-> "read", row |-> rows[id], asked |-> p, begun |-> clock]
<1>1. /\ session[s].step = "fetched"
      /\ rows' = rows /\ created' = created /\ dirty' = dirty /\ lost' = lost
  BY DEF upsert_policy_by_name, history
<1>2. ~Owes(s)
  BY <1>1 DEF Owes
<1>3. DOMAIN p = Column
  BY <1>1 DEF Inv, SessionInv, Pending
<1>4. CASE Goes(s, absent)
  <2>1. Pending(absent)
    BY <1>3 DEF Pending
  <2> HIDE DEF absent
  <2> QED
    BY <1>1, <1>2, <1>4, <2>1, SessionMoves
<1>5. ASSUME NEW id \in found, Goes(s, read(id)) PROVE Inv'
  <2>1. Pending(read(id))
    BY <1>3 DEF Pending, Inv, TableInv
  <2> HIDE DEF read
  <2> QED
    BY <1>1, <1>2, <1>5, <2>1, SessionMoves
<1>6. CASE Goes(s, Ended)
  BY <1>1, <1>2, <1>6, EndsInv
<1>7. \/ Goes(s, absent)
      \/ Goes(s, Ended)
      \/ \E id \in found : Goes(s, read(id))
  <2>1. CASE Goes(s, absent)
    BY <2>1
  <2>2. ASSUME NEW id \in found,
               Goes(s, IF to_policy_payload(rows[id]) = p THEN Ended ELSE read(id))
        PROVE  Goes(s, Ended) \/ Goes(s, read(id))
    <3> HIDE DEF read
    <3> QED
      BY <2>2
  <2> QED
    BY <2>2 DEF upsert_policy_by_name
<1> QED
  BY <1>4, <1>5, <1>6, <1>7

\* Flush and commit of an update: the row is written, or the request fails.
LEMMA UpdateInv ==
  ASSUME Inv, NEW s \in Session, Update(s)
  PROVE  Inv'
<1> DEFINE old == session[s].row
           id == old.id
           now == IF Exists(id) THEN rows[id] ELSE old
           row == Updated(now, old, session[s].asked, session[s].begun)
           x == [step |-> "committed", id |-> id, asked |-> session[s].asked]
<1>1. session[s].step = "read" /\ id \in Id /\ DOMAIN session[s].asked \subseteq Column
  BY DEF Update, Inv, SessionInv, Pending
<1>2. ASSUME Exists(id), ~NameTaken(row.name, id), Commits(id, row), Goes(s, x),
             created' = created, lost' = lost
      PROVE  Inv'
  <2>1. now = rows[id] /\ now.id = id /\ {"id", "name"} \subseteq DOMAIN now /\ id <= created
    BY <1>1, <1>2 DEF Inv, TableInv
  <2>2. row.id = now.id /\ {"id", "name"} \subseteq DOMAIN row
    <3> HIDE DEF now
    <3> QED
      BY <1>1, <2>1, UpdatedKeeps
  <2>3. created' \in created..MaxPolicies /\ id <= created'
    BY <1>2, <2>1, PolicyStoreAssumption DEF Inv, TableInv
  <2>4. x.step = "committed" /\ x.id = id
    OBVIOUS
  <2> HIDE DEF row, x, id, now
  <2> QED
    BY <1>1, <1>2, <2>1, <2>2, <2>3, <2>4, RowWritten
<1>3. ASSUME Goes(s, Failed), rows' = rows, created' = created, dirty' = dirty, lost' = lost
      PROVE  Inv'
  <2>1. ~Owes(s)
    BY <1>1 DEF Owes
  <2> QED
    BY <1>3, <2>1, EndsInv
<1> QED
  BY <1>2, <1>3 DEF Update, StillThere, history

\* session.refresh: a request whose row is gone owes nothing any more.
LEMMA RefreshInv ==
  ASSUME Inv, NEW s \in Session, Refresh(s)
  PROVE  Inv'
<1> DEFINE x == [step |-> "refreshed"]
<1>1. /\ session[s].step = "committed"
      /\ rows' = rows /\ created' = created /\ dirty' = dirty /\ lost' = lost
  BY DEF Refresh, history
<1>2. CASE Exists(session[s].id)
  <2>1. Goes(s, x)
    BY <1>2 DEF Refresh
  <2>2. Pending(x) /\ x.step = "refreshed"
    BY DEF Pending
  <2> HIDE DEF x
  <2> QED
    BY <1>1, <2>1, <2>2, SessionMoves
<1>3. CASE ~Exists(session[s].id)
  <2>1. Goes(s, Failed)
    BY <1>3 DEF Refresh
  <2>2. ~Owes(s)
    BY <1>1, <1>3 DEF Owes
  <2> QED
    BY <1>1, <2>1, <2>2, EndsInv
<1> QED
  BY <1>2, <1>3

\* After an invalidation there is nothing to announce.
LEMMA InvalidateInv ==
  ASSUME Inv, NEW s \in Session, Invalidate(s)
  PROVE  Inv'
<1>1. session' = [t \in Session |-> IF t = s THEN Ended ELSE session[t]]
  BY DEF Inv, SessionInv, Invalidate, Goes
<1>2. TableInv' /\ OneRowPerName'
  BY DEF Inv, TableInv, OneRowPerName, Exists, Invalidate
<1>3. SessionInv'
  BY <1>1 DEF Inv, SessionInv, Pending, Ended
<1>4. AnnouncedInv'
  BY DEF AnnouncedInv, Invalidate
<1> QED
  BY <1>2, <1>3, <1>4 DEF Inv

\* The steps of a request that has begun.
LEMMA ProceedInv ==
  ASSUME Inv, NEW s \in Session, Proceed(s)
  PROVE  Inv'
<1>1. CASE upsert_policy_by_name(s)
  BY <1>1, UpsertInv
<1>2. CASE upsert_creates(s)
  <2>1. ~Owes(s)
    BY <1>2 DEF upsert_creates, Owes
  <2> QED
    BY <1>2, <2>1, InsertInv, InsertFailsInv DEF upsert_creates
<1>3. CASE Update(s)
  BY <1>3, UpdateInv
<1>4. CASE Delete(s)
  <2>1. session[s].id \in Id
    BY <1>4 DEF Delete, Inv, SessionInv, Pending
  <2> QED
    BY <1>4, <2>1, RowDeleted DEF Delete
<1>5. CASE Refresh(s)
  BY <1>5, RefreshInv
<1>6. CASE Invalidate(s)
  BY <1>6, InvalidateInv
<1>7. CASE Crash(s)
  <2>1. Owes(s) => lost'
    BY <1>7 DEF Crash, Owes
  <2>2. lost => lost'
    BY <1>7 DEF Crash
  <2> QED
    BY <1>7, <2>1, <2>2, EndsInv DEF Crash
<1> QED
  BY <1>1, <1>2, <1>3, <1>4, <1>5, <1>6, <1>7 DEF Proceed

\* The invariant is inductive.
LEMMA NextInv == Inv /\ [Next]_vars => Inv'
<1> SUFFICES ASSUME Inv, [Next]_vars PROVE Inv'
  OBVIOUS
<1>1. CASE UNCHANGED vars
  BY <1>1 DEF vars, history, Inv, TableInv, SessionInv, Pending, OneRowPerName,
              AnnouncedInv, Owes, Exists
<1>2. ASSUME NEW s \in Session, Handle(s) PROVE Inv'
  BY <1>2, BeginInv, ProceedInv DEF Handle
<1> QED
  BY <1>1, <1>2 DEF Next

\* It holds all the time.
LEMMA InvHolds == Spec => []Inv
  BY InitInv, NextInv, PTL DEF Spec
-----------------------------------------------------------------------------
\* No row that was deleted comes back in this step.
Stays == \A id \in 1..created : ~Exists(id) => ~Exists(id)'

\* A commit that writes a new row, or one that is there, or deletes one.
LEMMA CommitStays ==
  ASSUME Inv, NEW n \in Id, NEW row, Commits(n, row),
         n = created + 1 \/ Exists(n) \/ row = NoRow
  PROVE  Stays
<1>1. \A id \in 1..created : id \in Id
  BY PolicyStoreAssumption DEF Inv, TableInv, Id
<1>2. rows' = [k \in Id |-> IF k = n THEN row ELSE rows[k]]
  BY DEF Inv, TableInv, Commits
<1>3. n = created + 1 => n \notin 1..created
  BY DEF Inv, TableInv
<1> QED
  BY <1>1, <1>2, <1>3 DEF Stays, Exists

\* A new row has an id that no other had.
LEMMA InsertStays ==
  ASSUME Inv, NEW s \in Session, NEW p, NEW now, Insert(s, p, now)
  PROVE  Stays
<1> SUFFICES ASSUME NEW row, created + 1 \in Id, Commits(created + 1, row) PROVE Stays
  BY DEF Insert
<1> QED
  BY CommitStays

\* Every other step of a request.
LEMMA HandleStays ==
  ASSUME Inv, NEW s \in Session, Handle(s)
  PROVE  Stays
<1>1. CASE rows' = rows
  BY <1>1 DEF Stays, Exists
<1>2. CASE Update(s)
  <2>1. session[s].row.id \in Id
    BY <1>2 DEF Update, Inv, SessionInv, Pending
  <2>2. \/ rows' = rows
        \/ Exists(session[s].row.id) /\ \E row : Commits(session[s].row.id, row)
    BY <1>2 DEF Update, StillThere
  <2> QED
    BY <1>1, <2>1, <2>2, CommitStays
<1>3. CASE Delete(s)
  <2>1. session[s].id \in Id
    BY <1>3 DEF Delete, Inv, SessionInv, Pending
  <2> QED
    BY <1>3, <2>1, CommitStays DEF Delete
<1>4. ASSUME NEW p, NEW now, Insert(s, p, now) PROVE Stays
  BY <1>4, InsertStays
<1>5. rows' = rows \/ Update(s) \/ Delete(s) \/ \E p, now : Insert(s, p, now)
  BY DEF Handle, Proceed, create_policy, update_policy, GetForUpdate, delete_policy,
         sync_policy, sync_policy_from_config_control, upsert_policy_by_name,
         upsert_creates, InsertFails, Refresh, Invalidate, Crash
<1> QED
  BY <1>1, <1>2, <1>3, <1>4, <1>5
(***************************************************************************)
(* A row's columns, one by one.  Each write sets some of them to values    *)
(* that passed PolicyBase and leaves the others, so this survives updates  *)
(* that overlap; that the columns go together does not.                    *)
(***************************************************************************)
Columns(row) ==
  /\ row.name # Null /\ row.active # Null
  /\ row.priority # Null /\ row.priority \in Int
  /\ row.algorithm # Null /\ row.algorithm \in Algorithm
  /\ row.rate # Null /\ row.rate \in Nat \ {0}
  /\ row.burst_capacity # Null => row.burst_capacity > 0

Row(row, t) ==
  /\ DOMAIN row = Column \cup {"id", "version", "updated_at"}
  /\ row.version \in Nat \ {0}
  /\ row.updated_at \in 0..t
  /\ Columns(row)

RowsInv ==
  /\ \A id \in Id : Exists(id) => Row(rows[id], clock)
  /\ ~overlap => \A id \in Id : Exists(id) => Valid(rows[id])

\* What a request asks for has been validated, against the row it has read.
Asked(x, t) ==
  /\ x.step \in {"ok", "failed", "fetched", "absent", "read", "delete", "committed", "refreshed"}
  /\ x.step \in {"fetched", "absent"} => Parsed(x.asked) /\ Valid(x.asked)
  /\ x.step \in {"absent", "read"} => x.begun \in 0..t
  /\ x.step = "read" =>
       Row(x.row, t) /\ Parsed(x.asked) /\ Valid(Merged(x.row, x.asked))

AskedInv == \A s \in Session : Asked(session[s], clock)

\* A policy's version grows, unless updates of it overlap.
SeenInv ==
  /\ \A b \in seen : b.id \in 1..created /\ b.version \in Nat
  /\ ~overlap => \A id \in Id, b \in seen :
       Exists(id) /\ b.id = id => b.version < rows[id].version \/ b = rows[id]

DataInv ==
  /\ clock \in Nat
  /\ writes \in 0..MaxWrites
  /\ RowsInv
  /\ AskedInv
  /\ SeenInv
  /\ AcknowledgedWasWritten
-----------------------------------------------------------------------------
\* A payload that is valid has valid columns.
LEMMA ValidColumns ==
  ASSUME NEW p, Valid(p), p.algorithm \in Algorithm \cup {Null}, p.rate \in Int \cup {Null},
         p.priority \in Int \cup {Null}
  PROVE  Columns(p)
  BY DEF Valid, Columns

\* With valid columns, only the burst capacity can be wrong.
LEMMA ColumnsValid ==
  ASSUME NEW row, Columns(row), row.burst_capacity # Null => row.algorithm = "token_bucket"
  PROVE  Valid(row)
  BY DEF Valid, Columns

\* The columns that matter are columns, the others are not.
LEMMA ColumnNames ==
  /\ {"name", "active", "priority", "algorithm", "rate", "burst_capacity"} \subseteq Column
  /\ "id" \notin Column /\ "version" \notin Column /\ "updated_at" \notin Column
  BY DEF Column, Selector

\* A later look at a row finds nothing wrong with it.
LEMMA RowLater ==
  ASSUME NEW row, NEW t \in Nat, NEW u \in Nat, t <= u, Row(row, t)
  PROVE  Row(row, u)
  BY DEF Row

\* Nor with a request.
LEMMA AskedLater ==
  ASSUME NEW x, NEW t \in Nat, NEW u \in Nat, t <= u, Asked(x, t)
  PROVE  Asked(x, u)
  BY RowLater DEF Asked

\* What a change makes of the row it read is valid column by column.
LEMMA MergedColumns ==
  ASSUME NEW row, NEW t, Row(row, t), NEW asked, Parsed(asked), Valid(Merged(row, asked))
  PROVE  Columns(Merged(row, asked))
<1> DEFINE m == Merged(row, asked)
<1>1. \A c \in Column : m[c] = IF c \in DOMAIN asked THEN asked[c] ELSE row[c]
  BY DEF Merged
<1>2. /\ m.algorithm \in Algorithm \cup {Null} /\ m.rate \in Int \cup {Null}
      /\ m.priority \in Int \cup {Null}
  BY <1>1, ColumnNames DEF Parsed, Row, Columns
<1> HIDE DEF m
<1>3. Valid(m)
  BY DEF m
<1> QED
  BY <1>2, <1>3, ValidColumns DEF m

\* What UPDATE makes of a row, which may have changed since it was read.
LEMMA UpdatedRow ==
  ASSUME NEW t \in Nat, NEW now, Row(now, t), NEW read, Row(read, t),
         NEW asked, Parsed(asked), Valid(Merged(read, asked)), NEW begun \in 0..t
  PROVE  /\ Row(Updated(now, read, asked, begun), t)
         /\ Updated(now, read, asked, begun).version = read.version + 1
         /\ now = read =>
              /\ Valid(Updated(now, read, asked, begun))
              /\ \A c \in DOMAIN asked : Updated(now, read, asked, begun)[c] = asked[c]
<1> DEFINE u == Updated(now, read, asked, begun)
           m == Merged(read, asked)
<1>1. /\ DOMAIN u = Column \cup {"id", "version", "updated_at"}
      /\ u.version = read.version + 1
      /\ u.updated_at = begun
  BY DEF Updated, Row
<1>2. \A c \in Column : u[c] = m[c] \/ u[c] = now[c]
  BY ColumnNames DEF Updated, Merged, Row
<1>3. Columns(m) /\ Valid(m)
  BY MergedColumns
<1>4. now = read => \A c \in Column : u[c] = m[c]
  BY ColumnNames DEF Updated, Merged, Row
<1>5. \A c \in DOMAIN asked : c \in Column /\ m[c] = asked[c]
  BY DEF Parsed, Merged
<1> HIDE DEF u, m
<1>6. Columns(u)
  BY <1>2, <1>3, ColumnNames DEF Row, Columns
<1>7. Row(u, t)
  BY <1>1, <1>6 DEF Row
<1>8. now = read => Valid(u)
  BY <1>3, <1>4, ColumnNames DEF Valid
<1> QED
  BY <1>1, <1>4, <1>5, <1>7, <1>8 DEF u

\* A request goes on, and the table stays as it is.
LEMMA DataMoves ==
  ASSUME Inv, DataInv, NEW s \in Session, NEW x, Asked(x, clock'), x.step # "committed",
         Goes(s, x), rows' = rows, created' = created, overlap' = overlap, seen' = seen,
         clock' \in {clock, clock + 1}, writes' \in 0..MaxWrites
  PROVE  DataInv'
<1>1. session' = [z \in Session |-> IF z = s THEN x ELSE session[z]]
  BY DEF Inv, SessionInv, Goes
<1>2. clock' \in Nat /\ clock <= clock'
  BY DEF DataInv
<1>3. RowsInv'
  BY <1>2, RowLater DEF DataInv, RowsInv, Exists
<1>4. AskedInv'
  BY <1>1, <1>2, AskedLater DEF DataInv, AskedInv
<1>5. SeenInv'
  BY DEF DataInv, SeenInv, Exists
<1>6. AcknowledgedWasWritten'
  BY <1>1 DEF DataInv, AcknowledgedWasWritten
<1> QED
  BY <1>2, <1>3, <1>4, <1>5, <1>6 DEF DataInv

\* A row is written: what the request asked for, unless it had changed.
LEMMA DataWritten ==
  ASSUME Inv, DataInv, NEW s \in Session, NEW x, NEW id \in Id, NEW row,
         x.step = "committed", x.id = id, Goes(s, x), Commits(id, row),
         row.id = id, Row(row, clock'), created' \in Nat, created <= created', id <= created',
         clock' \in {clock, clock + 1}, writes' \in 0..MaxWrites, overlap => overlap',
         ~overlap' => /\ Valid(row)
                      /\ \A c \in DOMAIN x.asked : row[c] = x.asked[c]
                      /\ \A b \in seen : b.id = id => b.version < row.version
  PROVE  DataInv'
<1>1. session' = [z \in Session |-> IF z = s THEN x ELSE session[z]]
  BY DEF Inv, SessionInv, Goes
<1>2. clock' \in Nat /\ clock <= clock'
  BY DEF DataInv
<1>3. row # NoRow
  BY RowIsThere
<1>4. seen' = seen \cup {row} /\ rows' = [n \in Id |-> IF n = id THEN row ELSE rows[n]]
  BY <1>3 DEF Commits, Inv, TableInv
<1>5. RowsInv'
  BY <1>2, <1>4, RowLater DEF DataInv, RowsInv, Exists
<1>6. AskedInv'
  <2>1. Asked(x, clock')
    BY DEF Asked
  <2> QED
    BY <1>1, <1>2, <2>1, AskedLater DEF DataInv, AskedInv
<1>7. SeenInv'
  <2>1. created \in Nat /\ id \in Nat \ {0}
    BY PolicyStoreAssumption DEF Inv, TableInv, Id
  <2>2. \A b \in seen' : b.id \in 1..created' /\ b.version \in Nat
    BY <1>4, <2>1 DEF DataInv, SeenInv, Row
  <2>3. ASSUME ~overlap', NEW n \in Id, NEW b \in seen', Exists(n)', b.id = n
        PROVE  b.version < rows'[n].version \/ b = rows'[n]
    <3>1. CASE n = id
      BY <1>4, <2>3, <3>1
    <3>2. CASE n # id
      BY <1>4, <2>3, <3>2 DEF DataInv, SeenInv, Exists
    <3> QED
      BY <3>1, <3>2
  <2> QED
    BY <2>2, <2>3 DEF SeenInv
<1>8. AcknowledgedWasWritten'
  BY <1>1, <1>4 DEF DataInv, AcknowledgedWasWritten
<1> QED
  BY <1>2, <1>5, <1>6, <1>7, <1>8 DEF DataInv

\* A row is deleted.
LEMMA DataDeleted ==
  ASSUME Inv, DataInv, NEW s \in Session, NEW id \in Id,
         Goes(s, AfterDelete), Commits(id, NoRow),
         UNCHANGED <<created, clock, writes, overlap>>
  PROVE  DataInv'
<1>1. session' = [z \in Session |-> IF z = s THEN AfterDelete ELSE session[z]]
  BY DEF Inv, SessionInv, Goes
<1>2. seen' = seen /\ rows' = [n \in Id |-> IF n = id THEN NoRow ELSE rows[n]]
  BY DEF Commits, Inv, TableInv
<1>3. RowsInv'
  BY <1>2 DEF DataInv, RowsInv, Exists
<1>4. AskedInv'
  <2>1. Asked(AfterDelete, clock')
    BY DEF Asked, AfterDelete
  <2> QED
    BY <1>1, <2>1 DEF DataInv, AskedInv
<1>5. SeenInv'
  BY <1>2 DEF DataInv, SeenInv, Exists
<1>6. AcknowledgedWasWritten'
  BY <1>1, <1>2 DEF DataInv, AcknowledgedWasWritten, AfterDelete
<1> QED
  BY <1>3, <1>4, <1>5, <1>6 DEF DataInv
\* The defaults of PolicyBase fit the columns.
LEMMA PolicyCreateParsed ==
  ASSUME NEW body, Parsed(body)
  PROVE  Parsed(PolicyCreate(body)) /\ DOMAIN PolicyCreate(body) = Column
<1> DEFINE p == PolicyCreate(body)
<1>1. DOMAIN p = Column
  BY PolicyCreateColumns
<1>2. /\ p.algorithm \in Algorithm \cup {Null} /\ p.rate \in Int \cup {Null}
      /\ p.priority \in Int \cup {Null}
  BY ColumnNames DEF PolicyCreate, defaults, Parsed, Algorithm
<1> HIDE DEF p
<1> QED
  BY <1>1, <1>2 DEF Parsed, p

\* A new row is what was asked for, and no row before it had its id.
LEMMA InsertData ==
  ASSUME Inv, DataInv, NEW s \in Session, NEW p, DOMAIN p = Column, Parsed(p), Valid(p),
         NEW begun \in 0..clock, Insert(s, p, begun),
         clock' \in {clock, clock + 1}, writes' \in 0..MaxWrites
  PROVE  DataInv'
<1> DEFINE id == created + 1
           row == [c \in Column \cup {"id", "version", "updated_at"} |->
                     IF c \in Column THEN p[c]
                     ELSE IF c = "id" THEN id ELSE IF c = "version" THEN 1 ELSE begun]
           x == [step |-> "committed", id |-> id, asked |-> p]
<1>1. id \in Id /\ created' = id /\ Commits(id, row) /\ Goes(s, x) /\ overlap' = overlap
  BY DEF Insert
<1>2. /\ DOMAIN row = Column \cup {"id", "version", "updated_at"}
      /\ row.id = id /\ row.version = 1 /\ row.updated_at = begun
      /\ \A c \in Column : row[c] = p[c]
  BY ColumnNames
<1>3. x.step = "committed" /\ x.id = id /\ x.asked = p
  OBVIOUS
<1>4. created \in Nat /\ clock \in Nat
  BY DEF Inv, TableInv, DataInv
<1>5. created' \in Nat /\ created <= created' /\ id <= created'
  BY <1>1, <1>4
<1>6. \A b \in seen : b.id # id
  BY <1>4 DEF DataInv, SeenInv
<1> HIDE DEF id, row, x
<1>7. Columns(p)
  BY ColumnNames, ValidColumns DEF Parsed
<1>8. Columns(row) /\ Valid(row)
  BY <1>2, <1>7, ColumnNames DEF Columns, Valid
<1>9. Row(row, clock')
  BY <1>2, <1>4, <1>8 DEF Row
<1>10. \A c \in DOMAIN x.asked : row[c] = x.asked[c]
  BY <1>2, <1>3
<1> QED
  BY <1>1, <1>2, <1>3, <1>5, <1>6, <1>8, <1>9, <1>10, DataWritten

\* A request that is over has nothing to be right about.
LEMMA EndsData ==
  ASSUME Inv, DataInv, NEW s \in Session, NEW x, x \in {Ended, Failed}, Goes(s, x),
         rows' = rows, created' = created, overlap' = overlap, seen' = seen,
         clock' \in {clock, clock + 1}, writes' \in 0..MaxWrites
  PROVE  DataInv'
<1>1. Asked(x, clock') /\ x.step # "committed"
  BY DEF Asked, Ended, Failed
<1> QED
  BY <1>1, DataMoves

\* A change to a row that was found.
LEMMA GetData ==
  ASSUME Inv, DataInv, NEW s \in Session, NEW id \in Id, NEW asked, Parsed(asked),
         GetForUpdate(s, id, asked), writes' \in 0..MaxWrites
  PROVE  DataInv'
<1> DEFINE x == [step |-> "read", row |-> rows[id], asked |-> asked, begun |-> clock]
<1>1. /\ Goes(s, x) /\ clock' = clock + 1
      /\ rows' = rows /\ created' = created /\ overlap' = overlap /\ seen' = seen
  BY DEF GetForUpdate, BeginTransaction, history
<1>2. clock \in Nat /\ Row(rows[id], clock) /\ Valid(Merged(rows[id], asked))
  BY DEF GetForUpdate, DataInv, RowsInv
<1>3. Row(rows[id], clock')
  BY <1>1, <1>2, RowLater
<1>4. Asked(x, clock') /\ x.step # "committed"
  BY <1>1, <1>2, <1>3 DEF Asked
<1> HIDE DEF x
<1> QED
  BY <1>1, <1>4, DataMoves

\* The first step of each request.
LEMMA BeginData ==
  ASSUME Inv, DataInv, NEW s \in Session,
         \/ \E b \in Body : create_policy(s, b) \/ sync_policy_from_config_control(s, b)
         \/ \E id \in Id : delete_policy(s, id) \/ \E u \in Patch : update_policy(s, id, u)
  PROVE  DataInv'
<1>1. clock \in Nat
  BY DEF DataInv
<1>2. Begins(s) => writes' \in 0..MaxWrites
  BY PolicyStoreAssumption DEF Begins, DataInv
<1>3. ASSUME NEW b \in Body, create_policy(s, b) PROVE DataInv'
  <2>1. /\ writes' \in 0..MaxWrites /\ clock' = clock + 1
        /\ Valid(PolicyCreate(b)) /\ Insert(s, PolicyCreate(b), clock)
    BY <1>2, <1>3 DEF create_policy, BeginTransaction
  <2>2. Parsed(PolicyCreate(b)) /\ DOMAIN PolicyCreate(b) = Column
    BY PolicyCreateParsed, PolicyStoreAssumption
  <2> QED
    BY <1>1, <2>1, <2>2, InsertData
<1>4. ASSUME NEW b \in Body, sync_policy_from_config_control(s, b) PROVE DataInv'
  <2> DEFINE x == [step |-> "fetched", asked |-> PolicyCreate(b)]
  <2>1. /\ writes' \in 0..MaxWrites /\ clock' = clock /\ Valid(PolicyCreate(b)) /\ Goes(s, x)
        /\ rows' = rows /\ created' = created /\ overlap' = overlap /\ seen' = seen
    BY <1>2, <1>4 DEF sync_policy_from_config_control, sync_policy, history
  <2>2. Parsed(PolicyCreate(b))
    BY PolicyCreateParsed, PolicyStoreAssumption
  <2>3. Asked(x, clock') /\ x.step # "committed"
    BY <2>1, <2>2 DEF Asked
  <2> HIDE DEF x
  <2> QED
    BY <2>1, <2>3, DataMoves
<1>5. ASSUME NEW id \in Id, delete_policy(s, id) PROVE DataInv'
  <2> DEFINE x == [step |-> "delete", id |-> id]
  <2>1. /\ writes' \in 0..MaxWrites /\ clock' = clock /\ Goes(s, x)
        /\ rows' = rows /\ created' = created /\ overlap' = overlap /\ seen' = seen
    BY <1>2, <1>5 DEF delete_policy, history
  <2>2. Asked(x, clock') /\ x.step # "committed"
    BY DEF Asked
  <2> HIDE DEF x
  <2> QED
    BY <2>1, <2>2, DataMoves
<1>6. ASSUME NEW id \in Id, NEW u \in Patch, update_policy(s, id, u) PROVE DataInv'
  BY <1>2, <1>6, GetData, PolicyStoreAssumption DEF update_policy
<1> QED
  BY <1>3, <1>4, <1>5, <1>6

\* The SELECT of an upsert: what was asked for is valid over any row.
LEMMA UpsertData ==
  ASSUME Inv, DataInv, NEW s \in Session, upsert_policy_by_name(s)
  PROVE  DataInv'
<1> DEFINE p == session[s].asked
           absent == [step |-> "absent", asked |-> p, begun |-> clock]
           read(id) == [step |-> "read", row |-> rows[id], asked |-> p, begun |-> clock]
<1>1. /\ session[s].step = "fetched" /\ clock' = clock + 1 /\ writes' = writes
      /\ rows' = rows /\ created' = created /\ overlap' = overlap /\ seen' = seen
  BY DEF upsert_policy_by_name, BeginTransaction, history
<1>2. /\ clock \in Nat /\ writes' \in 0..MaxWrites
      /\ DOMAIN p = Column /\ Parsed(p) /\ Valid(p)
  BY <1>1 DEF Inv, SessionInv, Pending, DataInv, AskedInv, Asked
<1>3. CASE Goes(s, absent)
  <2>1. Asked(absent, clock') /\ absent.step # "committed"
    BY <1>1, <1>2 DEF Asked
  <2> HIDE DEF absent
  <2> QED
    BY <1>1, <1>2, <1>3, <2>1, DataMoves
<1>4. ASSUME NEW id \in Id, Exists(id), Goes(s, read(id)) PROVE DataInv'
  <2>1. Row(rows[id], clock)
    BY <1>4 DEF DataInv, RowsInv
  <2>2. Row(rows[id], clock')
    BY <1>1, <1>2, <2>1, RowLater
  <2>3. Valid(Merged(rows[id], p))
    <3>1. \A c \in Column : Merged(rows[id], p)[c] = p[c]
      BY <1>2 DEF Merged
    <3> QED
      BY <1>2, <3>1, ColumnNames DEF Valid
  <2>4. Asked(read(id), clock') /\ read(id).step # "committed"
    BY <1>1, <1>2, <2>2, <2>3 DEF Asked
  <2> HIDE DEF read
  <2> QED
    BY <1>1, <1>2, <1>4, <2>4, DataMoves
<1>5. CASE Goes(s, Ended)
  BY <1>1, <1>2, <1>5, EndsData
<1>6. \/ Goes(s, absent)
      \/ Goes(s, Ended)
      \/ \E id \in Id : Exists(id) /\ Goes(s, read(id))
  <2>1. ASSUME NEW id \in Id,
               Goes(s, IF to_policy_payload(rows[id]) = p THEN Ended ELSE read(id))
        PROVE  Goes(s, Ended) \/ Goes(s, read(id))
    <3> HIDE DEF read
    <3> QED
      BY <2>1
  <2> QED
    BY <2>1 DEF upsert_policy_by_name
<1> QED
  BY <1>3, <1>4, <1>5, <1>6

(***************************************************************************)
(* An update writes the columns it validated over a row that may have      *)
(* changed: column by column the result is still right, and if the row is  *)
(* the one that was read it is what was validated, of the next version.    *)
(***************************************************************************)
LEMMA UpdateData ==
  ASSUME Inv, DataInv, NEW s \in Session, Update(s)
  PROVE  DataInv'
<1> DEFINE old == session[s].row
           asked == session[s].asked
           begun == session[s].begun
           id == old.id
           now == IF Exists(id) THEN rows[id] ELSE old
           row == Updated(now, old, asked, begun)
           x == [step |-> "committed", id |-> id, asked |-> asked]
<1>1. /\ id \in Id /\ DOMAIN asked \subseteq Column
      /\ Row(old, clock) /\ Parsed(asked) /\ Valid(Merged(old, asked)) /\ begun \in 0..clock
  BY DEF Update, Inv, SessionInv, Pending, DataInv, AskedInv, Asked
<1>2. clock \in Nat /\ clock' = clock /\ writes' \in 0..MaxWrites
  BY DEF Update, DataInv
<1>3. ASSUME Exists(id), Commits(id, row), Goes(s, x), created' = created,
             overlap' = (overlap \/ now # old)
      PROVE  DataInv'
  <2>1. /\ now = rows[id] /\ now.id = id /\ id <= created /\ created \in Nat
        /\ Row(now, clock) /\ {"id", "name"} \subseteq DOMAIN now
    BY <1>1, <1>3 DEF Inv, TableInv, DataInv, RowsInv
  <2> HIDE DEF now, asked, begun, old
  <2>2. /\ Row(row, clock)
        /\ row.version = old.version + 1
        /\ now = old => Valid(row) /\ \A c \in DOMAIN asked : row[c] = asked[c]
    BY <1>1, <1>2, <2>1, UpdatedRow
  <2>3. row.id = id
    BY <1>1, <2>1, UpdatedKeeps
  <2>4. x.step = "committed" /\ x.id = id /\ x.asked = asked
    OBVIOUS
  <2> HIDE DEF row, x, id
  <2>5. ~overlap' => ~overlap /\ now = old
    BY <1>3, Zenon
  <2>6. overlap => overlap'
    BY <1>3, Zenon
  <2>7. ASSUME ~overlap', NEW b \in seen, b.id = id PROVE b.version < row.version
    <3>1. b.version \in Nat /\ (b.version < rows[id].version \/ b = rows[id])
      BY <1>1, <1>3, <2>5, <2>7 DEF DataInv, SeenInv
    <3>2. rows[id].version \in Nat /\ row.version = rows[id].version + 1
      BY <2>1, <2>2, <2>5, <2>7 DEF Row
    <3> QED
      BY <3>1, <3>2
  <2>8. Row(row, clock') /\ created' \in Nat /\ created <= created' /\ id <= created'
    BY <1>2, <1>3, <2>1, <2>2
  <2> QED
    BY <1>1, <1>2, <1>3, <2>2, <2>3, <2>4, <2>5, <2>6, <2>7, <2>8, DataWritten
<1>4. ASSUME Goes(s, Failed), rows' = rows, created' = created, overlap' = overlap, seen' = seen
      PROVE  DataInv'
  BY <1>2, <1>4, EndsData
<1> QED
  BY <1>3, <1>4 DEF Update, StillThere, history

\* The steps of a request that has begun.
LEMMA ProceedData ==
  ASSUME Inv, DataInv, NEW s \in Session, Proceed(s)
  PROVE  DataInv'
<1>1. clock \in Nat /\ writes \in 0..MaxWrites
  BY DEF DataInv
<1>2. CASE upsert_policy_by_name(s)
  BY <1>2, UpsertData
<1>3. CASE upsert_creates(s)
  <2>1. /\ DOMAIN session[s].asked = Column /\ Parsed(session[s].asked) /\ Valid(session[s].asked)
        /\ session[s].begun \in 0..clock
    BY <1>3 DEF upsert_creates, Inv, SessionInv, Pending, DataInv, AskedInv, Asked
  <2>2. clock' = clock /\ writes' \in 0..MaxWrites
    BY <1>1, <1>3 DEF upsert_creates
  <2>3. CASE Insert(s, session[s].asked, session[s].begun)
    BY <2>1, <2>2, <2>3, InsertData
  <2>4. CASE InsertFails(s, session[s].asked)
    BY <2>2, <2>4, EndsData DEF InsertFails, history
  <2> QED
    BY <1>3, <2>3, <2>4 DEF upsert_creates
<1>4. CASE Update(s)
  BY <1>4, UpdateData
<1>5. CASE Delete(s)
  <2>1. session[s].id \in Id
    BY <1>5 DEF Delete, Inv, SessionInv, Pending
  <2> QED
    BY <1>5, <2>1, DataDeleted DEF Delete
<1>6. CASE Refresh(s)
  <2> DEFINE x == IF Exists(session[s].id) THEN [step |-> "refreshed"] ELSE Failed
  <2>1. Asked(x, clock') /\ x.step # "committed"
    BY DEF Asked, Failed
  <2>2. /\ Goes(s, x) /\ clock' = clock + 1 /\ writes' \in 0..MaxWrites
        /\ rows' = rows /\ created' = created /\ overlap' = overlap /\ seen' = seen
    BY <1>1, <1>6 DEF Refresh, BeginTransaction, history
  <2> HIDE DEF x
  <2> QED
    BY <2>1, <2>2, DataMoves
<1>7. CASE Invalidate(s)
  BY <1>1, <1>7, EndsData DEF Invalidate
<1>8. CASE Crash(s)
  BY <1>1, <1>8, EndsData DEF Crash
<1> QED
  BY <1>2, <1>3, <1>4, <1>5, <1>6, <1>7, <1>8 DEF Proceed

\* Nothing has been asked for or written yet.
LEMMA InitData == Init => DataInv
<1> SUFFICES ASSUME Init PROVE DataInv
  OBVIOUS
<1>1. AskedInv
  BY DEF Init, AskedInv, Asked, Ended
<1> QED
  BY <1>1, PolicyStoreAssumption
     DEF Init, DataInv, RowsInv, SeenInv, AcknowledgedWasWritten, Exists, Ended

\* A step that leaves the rows and the requests as they are.
LEMMA SameData ==
  ASSUME DataInv, UNCHANGED <<rows, created, session, writes, overlap, seen>>,
         clock' \in {clock, clock + 1}
  PROVE  DataInv'
<1>1. clock' \in Nat /\ clock <= clock'
  BY DEF DataInv
<1>2. RowsInv'
  BY <1>1, RowLater DEF DataInv, RowsInv, Exists
<1>3. AskedInv'
  BY <1>1, AskedLater DEF DataInv, AskedInv
<1> QED
  BY <1>1, <1>2, <1>3 DEF DataInv, SeenInv, AcknowledgedWasWritten, Exists

\* It holds all the time.
LEMMA DataInvHolds == Spec => []DataInv
<1>1. Inv /\ DataInv /\ [Next]_vars => DataInv'
  <2> SUFFICES ASSUME Inv, DataInv, [Next]_vars PROVE DataInv'
    OBVIOUS
  <2>1. CASE UNCHANGED vars
    BY <2>1, SameData DEF vars, history
  <2>2. ASSUME NEW s \in Session, Handle(s) PROVE DataInv'
    BY <2>2, BeginData, ProceedData DEF Handle
  <2> QED
    BY <2>1, <2>2 DEF Next
<1> QED
  BY <1>1, InitData, InvHolds, PTL DEF Spec
\* What the two invariants say of a state.
LEMMA StateTypeOK ==
  ASSUME Inv, DataInv
  PROVE  TypeOK
<1>1. \A id \in Id : Exists(id) =>
        /\ id <= created
        /\ rows[id].id = id
        /\ rows[id].version \in Nat \ {0}
        /\ rows[id].updated_at \in 0..clock
        /\ rows[id].algorithm \in Algorithm
        /\ rows[id].rate \in Nat \ {0}
  BY DEF Inv, TableInv, DataInv, RowsInv, Row, Columns
<1>2. \A s \in Session :
        session[s].step \in {"ok", "failed", "fetched", "absent", "read", "delete",
                             "committed", "refreshed"}
  BY DEF DataInv, AskedInv, Asked
<1>3. \A row \in seen : row.id \in 1..created
  BY DEF DataInv, SeenInv
<1> QED
  BY <1>1, <1>2, <1>3 DEF TypeOK, Inv, TableInv, DataInv

\* Every listed row is a row of the table.
LEMMA StateRowsValid ==
  ASSUME DataInv
  PROVE  RowsValid
<1>1. \A row \in Listed(FALSE) : \E id \in Id : Exists(id) /\ row = rows[id]
  BY DEF Listed
<1>2. \A row \in Listed(FALSE) : Columns(row)
  BY <1>1 DEF DataInv, RowsInv, Row
<1>3. \A row \in Listed(FALSE) :
        Valid(row) \/ (row.burst_capacity # Null /\ row.algorithm # "token_bucket")
  BY <1>2, ColumnsValid
<1>4. ~overlap => \A row \in Listed(FALSE) : Valid(row)
  BY <1>1 DEF DataInv, RowsInv
<1> QED
  BY <1>3, <1>4 DEF RowsValid, ListFails

\* A key is made of the id, the version and the algorithm, and of what the
\* row and the request agree on.
LEMMA StateKeyTells ==
  ASSUME Inv, DataInv
  PROVE  KeyTells
<1>1. ASSUME NEW a \in Listed(FALSE), NEW b \in seen, NEW i, NEW j
      PROVE  KeysTell(a, i, b, j)
  <2> SUFFICES ASSUME policy_matches(a, i), policy_matches(b, j) PROVE KeysTell(a, i, b, j)
    BY DEF KeysTell
  <2>1. PICK id \in Id : Exists(id) /\ a = rows[id]
    BY DEF Listed
  <2>2. a.id = id /\ a.version \in Nat /\ b.version \in Nat
    BY <2>1 DEF Inv, TableInv, DataInv, RowsInv, Row, SeenInv
  <2>3. build_rate_limit_key(a, i) = build_rate_limit_key(b, j) =>
          a.id = b.id /\ a.algorithm = b.algorithm /\ a.version = b.version
    BY DEF build_rate_limit_key
  <2>4. a = b => build_rate_limit_key(a, i) = build_rate_limit_key(b, j)
    <3>1. a = b => [c \in Named(a) |-> i[c]] = [c \in Named(b) |-> j[c]]
      BY DEF policy_matches
    <3> QED
      BY <3>1 DEF build_rate_limit_key
  <2>5. ~overlap /\ b.id = a.id => b.version < a.version \/ b = a
    BY <2>1, <2>2 DEF DataInv, SeenInv
  <2> QED
    BY <2>2, <2>3, <2>4, <2>5 DEF KeysTell
<1> QED
  BY <1>1 DEF KeyTells
-----------------------------------------------------------------------------
(***************************************************************************)
(* However many requests write at once, a change that is committed and not *)
(* yet announced has a request that will invalidate the caches after it,   *)
(* unless that request was cut off: session.refresh fails only when a row  *)
(* was deleted, and then the delete still has its invalidation to do.      *)
(***************************************************************************)
THEOREM ChangesAnnouncedHolds == Spec => []ChangesAnnounced
<1>1. Inv => ChangesAnnounced
  BY DEF Inv, AnnouncedInv, Owes, ChangesAnnounced
<1> QED
  BY <1>1, InvHolds, PTL

(***************************************************************************)
(* upsert_policy_by_name never finds two rows of one name, for any number  *)
(* of creates, renames and syncs at once.                                  *)
(***************************************************************************)
THEOREM OneRowPerNameHolds == Spec => []OneRowPerName
<1>1. Inv => OneRowPerName
  BY DEF Inv
<1> QED
  BY <1>1, InvHolds, PTL

(***************************************************************************)
(* A policy that is deleted is never seen again, whatever was read before  *)
(* the delete: an id is given out once, and only a row that is there is    *)
(* written over.                                                           *)
(***************************************************************************)
THEOREM DeletedStaysDeletedHolds == Spec => DeletedStaysDeleted
<1>1. Inv /\ [Next]_vars => [Stays]_vars
  BY HandleStays DEF Next
<1> QED
  BY <1>1, InvHolds, PTL DEF Spec, DeletedStaysDeleted, Stays

(***************************************************************************)
(* Rows have the columns and the values their types promise, versions and  *)
(* ids are positive, and no row was updated after the last transaction     *)
(* began, however requests interleave.                                     *)
(***************************************************************************)
THEOREM TypeCorrect == Spec => []TypeOK
<1>1. Inv /\ DataInv => TypeOK
  BY StateTypeOK
<1> QED
  BY <1>1, InvHolds, DataInvHolds, PTL

(***************************************************************************)
(* list_policies fails only when writes of one row overlapped, and then    *)
(* only because of a burst capacity without token_bucket: validating the   *)
(* merged payload in update_policy protects every column on its own.       *)
(***************************************************************************)
THEOREM RowsValidHolds == Spec => []RowsValid
<1>1. DataInv => RowsValid
  BY StateRowsValid
<1> QED
  BY <1>1, DataInvHolds, PTL

(***************************************************************************)
(* What a create, update or sync acknowledges was in the table, every      *)
(* column of it, unless writes of the row overlapped.                      *)
(***************************************************************************)
THEOREM AcknowledgedHolds == Spec => []AcknowledgedWasWritten
<1>1. DataInv => AcknowledgedWasWritten
  BY DEF DataInv
<1> QED
  BY <1>1, DataInvHolds, PTL

(***************************************************************************)
(* build_rate_limit_key keeps policies, and the algorithms of a policy,    *)
(* apart for good, and its versions too unless updates overlapped; and it  *)
(* gives all requests that a policy applies to the same key.               *)
(***************************************************************************)
THEOREM KeyTellsHolds == Spec => []KeyTells
<1>1. Inv /\ DataInv => KeyTells
  BY StateKeyTells
<1> QED
  BY <1>1, InvHolds, DataInvHolds, PTL
-----------------------------------------------------------------------------
\* What comes before a, in a relation that orders S strictly.
Below(S, R, a) == {x \in S : <<x, a>> \in R}

Strict(R, S) ==
  /\ \A a \in S : <<a, a>> \notin R
  /\ \A a, b, c \in S : <<a, b>> \in R /\ <<b, c>> \in R => <<a, c>> \in R

\* The more comes before, the later.
LEMMA BelowGrows ==
  ASSUME NEW S, IsFiniteSet(S), NEW R, Strict(R, S), NEW a \in S
  PROVE  /\ Cardinality(Below(S, R, a)) \in 0..(Cardinality(S) - 1)
         /\ \A b \in S : <<a, b>> \in R =>
              Cardinality(Below(S, R, a)) < Cardinality(Below(S, R, b))
<1>1. ASSUME NEW T, IsFiniteSet(T), T \subseteq S, a \in T, Below(S, R, a) \subseteq T
      PROVE  Cardinality(Below(S, R, a)) < Cardinality(T) /\ Cardinality(T) \in Nat
  <2>1. PICK U : U = Below(S, R, a)
    OBVIOUS
  <2>2. U \subseteq T /\ a \notin U
    BY <1>1, <2>1 DEF Below, Strict
  <2>3. Cardinality(U) <= Cardinality(T) /\ Cardinality(U) # Cardinality(T) /\ IsFiniteSet(U)
    BY <1>1, <2>2, FS_Subset
  <2>4. Cardinality(U) \in Nat /\ Cardinality(T) \in Nat
    BY <1>1, <2>3, FS_CardinalityType
  <2> QED
    BY <2>1, <2>3, <2>4
<1>2. Cardinality(Below(S, R, a)) < Cardinality(S) /\ Cardinality(S) \in Nat
  BY <1>1 DEF Below
<1>3. Cardinality(Below(S, R, a)) \in Nat
  BY FS_Subset, FS_CardinalityType DEF Below
<1>4. ASSUME NEW b \in S, <<a, b>> \in R
      PROVE  Cardinality(Below(S, R, a)) < Cardinality(Below(S, R, b))
  <2>1. PICK T : T = Below(S, R, b)
    OBVIOUS
  <2>2. T \subseteq S /\ a \in T /\ Below(S, R, a) \subseteq T
    BY <1>4, <2>1 DEF Below, Strict
  <2>3. IsFiniteSet(T)
    BY <2>2, FS_Subset
  <2> QED
    BY <1>1, <2>1, <2>2, <2>3
<1> QED
  BY <1>2, <1>3, <1>4

\* The least of some numbers exists.
LEMMA LeastExists ==
  ASSUME NEW S \in SUBSET Nat, S # {}
  PROVE  \E x \in S : \A y \in S : x <= y
<1>1. IsWellFoundedOn(OpToRel(<, Nat), Nat)
  BY NatLessThanWellFounded, Zenon
<1>2. PICK x \in S : \A y \in S : ~(<<y, x>> \in OpToRel(<, Nat))
  BY <1>1, WFMin, Zenon
<1>3. ASSUME NEW y \in S PROVE x <= y
  <2>1. y < x => <<y, x>> \in {ss \in Nat \X Nat : ss[1] < ss[2]}
    OBVIOUS
  <2>2. y < x => <<y, x>> \in OpToRel(<, Nat)
    BY <2>1, Zenon DEF OpToRel
  <2>3. ~(y < x)
    BY <1>2, <2>2, Zenon
  <2> QED
    BY <2>3
<1> QED
  BY <1>3

\* Something in a finite set has nothing before it.
LEMMA FirstExists ==
  ASSUME NEW S, IsFiniteSet(S), S # {}, NEW R, Strict(R, S)
  PROVE  \E a \in S : \A b \in S : <<b, a>> \notin R
<1> DEFINE rank(a) == Cardinality(Below(S, R, a))
           N == {rank(a) : a \in S}
<1>1. \A a \in S : rank(a) \in Nat
  BY BelowGrows, FS_CardinalityType
<1>2. N \in SUBSET Nat /\ N # {}
  BY <1>1
<1>3. PICK n \in N : \A m \in N : n <= m
  <2> HIDE DEF N
  <2> QED
    BY <1>2, LeastExists
<1>4. PICK a \in S : n = rank(a)
  OBVIOUS
<1>5. ASSUME NEW b \in S, <<b, a>> \in R PROVE FALSE
  <2>1. rank(b) < rank(a)
    BY <1>5, BelowGrows
  <2>2. rank(a) <= rank(b)
    BY <1>3, <1>4
  <2> HIDE DEF rank
  <2> QED
    BY <1>1, <2>1, <2>2
<1> QED
  BY <1>5

\* A finite set in a total order can be counted off: every place is taken,
\* by one element.
LEMMA PlacesTaken ==
  ASSUME NEW S, IsFiniteSet(S), NEW R, Strict(R, S),
         \A a, b \in S : a = b \/ <<a, b>> \in R \/ <<b, a>> \in R
  PROVE  /\ \A a, b \in S : Cardinality(Below(S, R, a)) = Cardinality(Below(S, R, b)) => a = b
         /\ \A k \in 1..Cardinality(S) : \E a \in S : Cardinality(Below(S, R, a)) = k - 1
<1> DEFINE rank(a) == Cardinality(Below(S, R, a))
           n == Cardinality(S)
           f == [a \in S |-> rank(a) + 1]
<1>1. n \in Nat
  BY FS_CardinalityType
<1>2. \A a \in S : rank(a) \in 0..(n - 1)
  BY BelowGrows
<1>3. \A a, b \in S : <<a, b>> \in R => rank(a) < rank(b)
  BY BelowGrows
<1> HIDE DEF rank, n
<1>4. ASSUME NEW a \in S, NEW b \in S, rank(a) = rank(b) PROVE a = b
  <2>1. rank(a) \in Int /\ rank(b) \in Int
    BY <1>1, <1>2
  <2>2. ~(rank(a) < rank(b)) /\ ~(rank(b) < rank(a))
    BY <1>4, <2>1
  <2> QED
    BY <1>3, <2>2, Zenon
<1>5. f \in [S -> 1..n]
  BY <1>1, <1>2
<1>6. \A a, b \in S : f[a] = f[b] => a = b
  BY <1>1, <1>2, <1>4
<1>7. f \in Injection(S, 1..n)
  BY <1>5, <1>6 DEF Injection, IsInjective
<1>8. IsFiniteSet(1..n) /\ Cardinality(1..n) = n
  BY <1>1, FS_Interval
<1>9. f \in Surjection(S, 1..n)
  <2> HIDE DEF f
  <2> QED
    BY <1>7, <1>8, FS_Injection DEF n
<1>10. ASSUME NEW k \in 1..n PROVE \E a \in S : rank(a) = k - 1
  <2>1. PICK a \in S : f[a] = k
    <3> HIDE DEF f
    <3> QED
      BY <1>9 DEF Surjection
  <2> QED
    BY <1>1, <1>2, <2>1
<1> QED
  BY <1>4, <1>10 DEF rank, n

\* What the proof needs to know of rows: which fields are numbers, and that
\* no two were written by one transaction.
Ordered(S) ==
  /\ IsFiniteSet(S)
  /\ \A a \in S : a.priority \in Int /\ a.updated_at \in Nat /\ a.version \in Nat
  /\ \A a, b \in S : a.updated_at = b.updated_at => a = b

\* list_policies gives every row it selects a place of its own.
LEMMA ListComplete ==
  ASSUME NEW active_only, Ordered(Listed(active_only))
  PROVE  LET L == list_policies(active_only)
         IN  /\ DOMAIN L = 1..Cardinality(Listed(active_only))
             /\ \A k \in DOMAIN L : L[k] \in Listed(active_only)
             /\ \A row \in Listed(active_only) : \E k \in DOMAIN L : L[k] = row
<1> DEFINE S == Listed(active_only)
           L == list_policies(active_only)
           R == {ab \in S \X S : ListedBefore(ab[1], ab[2])}
           rank(a) == Cardinality(Below(S, R, a))
<1> HIDE DEF S
<1>1. \A a, b \in S : <<a, b>> \in R <=> ListedBefore(a, b)
  OBVIOUS
<1>2. /\ IsFiniteSet(S)
      /\ \A a \in S : a.priority \in Int /\ a.updated_at \in Nat
      /\ \A a, b \in S : a.updated_at = b.updated_at => a = b
  BY DEF Ordered, S
<1>3. Cardinality(S) \in Nat
  BY <1>2, FS_CardinalityType
<1>4. \A a \in S : {other \in S : ListedBefore(other, a)} = Below(S, R, a)
  BY <1>1 DEF Below
<1> HIDE DEF R
<1>5. Strict(R, S)
  BY <1>1, <1>2 DEF Strict, ListedBefore
<1>6. \A a, b \in S : a = b \/ <<a, b>> \in R \/ <<b, a>> \in R
  <2>1. ASSUME NEW a \in S, NEW b \in S, a # b PROVE ListedBefore(a, b) \/ ListedBefore(b, a)
    <3>1. /\ a.priority \in Int /\ b.priority \in Int
          /\ a.updated_at \in Nat /\ b.updated_at \in Nat /\ a.updated_at # b.updated_at
      BY <1>2, <2>1
    <3> QED
      BY <3>1 DEF ListedBefore
  <2> QED
    BY <1>1, <2>1
<1>7. /\ \A a, b \in S : rank(a) = rank(b) => a = b
      /\ \A k \in 1..Cardinality(S) : \E a \in S : rank(a) = k - 1
  BY <1>2, <1>5, <1>6, PlacesTaken
<1>8. \A a \in S : rank(a) \in 0..(Cardinality(S) - 1)
  BY <1>2, <1>5, BelowGrows
<1>9. DOMAIN L = 1..Cardinality(S)
  BY DEF list_policies, S
<1>10. \A k \in 1..Cardinality(S) : L[k] = CHOOSE row \in S : rank(row) = k - 1
  BY <1>4 DEF list_policies, S
<1> HIDE DEF L, rank
<1>11. ASSUME NEW k \in 1..Cardinality(S) PROVE L[k] \in S /\ rank(L[k]) = k - 1
  BY <1>7, <1>10
<1>12. ASSUME NEW row \in S PROVE \E k \in 1..Cardinality(S) : L[k] = row
  <2>1. PICK k \in 1..Cardinality(S) : rank(row) = k - 1
    <3>1. rank(row) + 1 \in 1..Cardinality(S) /\ rank(row) = (rank(row) + 1) - 1
      BY <1>3, <1>8
    <3> QED
      BY <3>1
  <2>2. L[k] \in S /\ rank(L[k]) = rank(row)
    BY <1>11, <2>1
  <2> QED
    BY <1>7, <2>2, Zenon
<1> QED
  BY <1>9, <1>11, <1>12 DEF S, L

\* How two scores compare.
LEMMA ScoreExceeds ==
  ASSUME NEW p, NEW q
  PROVE  Exceeds(policy_score(p), policy_score(q)) <=>
           LET cp == Cardinality(Named(p))
               cq == Cardinality(Named(q))
           IN  \/ cp > cq
               \/ cp = cq /\ selector_weight(p) > selector_weight(q)
               \/ cp = cq /\ selector_weight(p) = selector_weight(q) /\ p.priority > q.priority
               \/ /\ cp = cq /\ selector_weight(p) = selector_weight(q)
                  /\ p.priority = q.priority /\ p.version > q.version
<1> DEFINE a == policy_score(p)
           b == policy_score(q)
<1>1. /\ DOMAIN a = 1..4
      /\ a[1] = Cardinality(Named(p)) /\ a[2] = selector_weight(p)
      /\ a[3] = p.priority /\ a[4] = p.version
      /\ b[1] = Cardinality(Named(q)) /\ b[2] = selector_weight(q)
      /\ b[3] = q.priority /\ b[4] = q.version
  BY DEF policy_score
<1> HIDE DEF a, b
<1>2. 1..4 = {1, 2, 3, 4} /\ 1..(1 - 1) = {} /\ 1..(2 - 1) = {1} /\ 1..(3 - 1) = {1, 2}
      /\ 1..(4 - 1) = {1, 2, 3}
  OBVIOUS
<1>3. Exceeds(a, b) <=>
        \/ a[1] > b[1]
        \/ a[2] > b[2] /\ a[1] = b[1]
        \/ a[3] > b[3] /\ a[1] = b[1] /\ a[2] = b[2]
        \/ a[4] > b[4] /\ a[1] = b[1] /\ a[2] = b[2] /\ a[3] = b[3]
  BY <1>1, <1>2 DEF Exceeds
<1> QED
  BY <1>1, <1>3, Zenon DEF a, b

\* The selectors a policy names are counted, and weighed, by numbers.
LEMMA NamedCounts ==
  ASSUME NEW p
  PROVE  /\ IsFiniteSet(Named(p)) /\ Cardinality(Named(p)) \in Nat
         /\ selector_weight(p) \in Nat
<1>1. IsFiniteSet(Selector)
  <2>1. IsFiniteSet({} \cup {"route"})
    BY FS_EmptySet, FS_AddElement
  <2>2. IsFiniteSet(({} \cup {"route"}) \cup {"user_id"})
    BY <2>1, FS_AddElement
  <2>3. IsFiniteSet((({} \cup {"route"}) \cup {"user_id"}) \cup {"ip_address"})
    BY <2>2, FS_AddElement
  <2>4. IsFiniteSet(((({} \cup {"route"}) \cup {"user_id"}) \cup {"ip_address"}) \cup {"tenant_id"})
    BY <2>3, FS_AddElement
  <2>5. IsFiniteSet((((({} \cup {"route"}) \cup {"user_id"}) \cup {"ip_address"})
                       \cup {"tenant_id"}) \cup {"api_key"})
    BY <2>4, FS_AddElement
  <2>6. Selector = (((({} \cup {"route"}) \cup {"user_id"}) \cup {"ip_address"})
                       \cup {"tenant_id"}) \cup {"api_key"}
    BY DEF Selector
  <2> QED
    BY <2>5, <2>6
<1>2. Named(p) \in SUBSET Selector
  BY DEF Named
<1>3. selector_weight(p) \in Nat
  BY DEF selector_weight, WeightIn, weight
<1> QED
  BY <1>1, <1>2, <1>3, FS_Subset, FS_CardinalityType

\* Scores order policies.
LEMMA ScoreOrder ==
  ASSUME NEW S, \A a \in S : a.priority \in Int /\ a.version \in Nat
  PROVE  Strict({ab \in S \X S : Exceeds(policy_score(ab[1]), policy_score(ab[2]))}, S)
<1> DEFINE R == {ab \in S \X S : Exceeds(policy_score(ab[1]), policy_score(ab[2]))}
<1>1. \A a, b \in S : <<a, b>> \in R <=> Exceeds(policy_score(a), policy_score(b))
  OBVIOUS
<1> HIDE DEF R
<1>2. ASSUME NEW a \in S PROVE <<a, a>> \notin R
  <2>1. Cardinality(Named(a)) \in Nat /\ selector_weight(a) \in Nat
    BY NamedCounts
  <2> QED
    BY <1>1, <2>1, ScoreExceeds
<1>3. ASSUME NEW a \in S, NEW b \in S, NEW c \in S, <<a, b>> \in R, <<b, c>> \in R
      PROVE  <<a, c>> \in R
  <2>1. PICK a1, a2, b1, b2, c1, c2 :
          /\ a1 = Cardinality(Named(a)) /\ a2 = selector_weight(a)
          /\ b1 = Cardinality(Named(b)) /\ b2 = selector_weight(b)
          /\ c1 = Cardinality(Named(c)) /\ c2 = selector_weight(c)
    OBVIOUS
  <2>2. a1 \in Nat /\ a2 \in Nat /\ b1 \in Nat /\ b2 \in Nat /\ c1 \in Nat /\ c2 \in Nat
    BY <2>1, NamedCounts
  <2>3. \/ a1 > b1
        \/ a1 = b1 /\ a2 > b2
        \/ a1 = b1 /\ a2 = b2 /\ a.priority > b.priority
        \/ a1 = b1 /\ a2 = b2 /\ a.priority = b.priority /\ a.version > b.version
    BY <1>1, <1>3, <2>1, ScoreExceeds
  <2>4. \/ b1 > c1
        \/ b1 = c1 /\ b2 > c2
        \/ b1 = c1 /\ b2 = c2 /\ b.priority > c.priority
        \/ b1 = c1 /\ b2 = c2 /\ b.priority = c.priority /\ b.version > c.version
    BY <1>1, <1>3, <2>1, ScoreExceeds
  <2>5. \/ a1 > c1
        \/ a1 = c1 /\ a2 > c2
        \/ a1 = c1 /\ a2 = c2 /\ a.priority > c.priority
        \/ a1 = c1 /\ a2 = c2 /\ a.priority = c.priority /\ a.version > c.version
    BY <2>2, <2>3, <2>4
  <2> QED
    BY <1>1, <2>1, <2>5, ScoreExceeds, Zenon
<1> QED
  BY <1>2, <1>3 DEF Strict, R

\* resolve_policy finds a policy that matches and that no other exceeds, if
\* there is one that matches.
LEMMA ResolvesBest ==
  ASSUME Ordered(Listed(TRUE)), NEW identity
  PROVE  LET matching == {row \in Listed(TRUE) : policy_matches(row, identity)}
             p == resolve_policy(identity)
         IN  IF matching = {}
             THEN p = Null
             ELSE /\ p \in matching
                  /\ \A row \in matching : ~Exceeds(policy_score(row), policy_score(p))
<1> DEFINE S == Listed(TRUE)
           L == list_policies(TRUE)
           matching == {row \in S : policy_matches(row, identity)}
           K == {k \in DOMAIN L : L[k].active /\ policy_matches(L[k], identity)}
           best == {k \in K : \A j \in K : ~Exceeds(policy_score(L[j]), policy_score(L[k]))}
           p == resolve_policy(identity)
<1>1. /\ DOMAIN L \in SUBSET Nat
      /\ \A k \in DOMAIN L : L[k] \in S
      /\ \A row \in S : \E k \in DOMAIN L : L[k] = row
  <2>1. Cardinality(S) \in Nat
    BY FS_CardinalityType DEF Ordered
  <2>2. /\ DOMAIN L = 1..Cardinality(S)
        /\ \A k \in DOMAIN L : L[k] \in S
        /\ \A row \in S : \E k \in DOMAIN L : L[k] = row
    BY ListComplete
  <2> HIDE DEF S, L
  <2> QED
    BY <2>1, <2>2
<1>2. \A row \in S : row.active
  BY DEF Listed
<1>3. IsFiniteSet(S) /\ \A a \in S : a.priority \in Int /\ a.version \in Nat
  BY DEF Ordered
<1>4. p = IF K = {} THEN Null ELSE L[CHOOSE k \in best : \A j \in best : k <= j]
  BY DEF resolve_policy, select_best_policy
<1> HIDE DEF S, L, p
<1>5. /\ \A k \in K : L[k] \in matching
      /\ \A row \in matching : \E k \in K : L[k] = row
  BY <1>1, <1>2
<1>6. CASE matching = {}
  BY <1>4, <1>5, <1>6 DEF S, p
<1>7. CASE matching # {}
  <2> DEFINE R == {ab \in matching \X matching : Exceeds(policy_score(ab[1]), policy_score(ab[2]))}
  <2>1. IsFiniteSet(matching)
    BY <1>3, FS_Subset
  <2>2. Strict(R, matching)
    BY <1>3, ScoreOrder
  <2>3. \A a, b \in matching : <<a, b>> \in R <=> Exceeds(policy_score(a), policy_score(b))
    OBVIOUS
  <2> HIDE DEF R, matching, K
  <2>4. PICK top \in matching : \A row \in matching : <<row, top>> \notin R
    BY <1>7, <2>1, <2>2, FirstExists
  <2>5. PICK k \in K : L[k] = top
    BY <1>5
  <2>6. k \in best
    BY <1>5, <2>3, <2>4, <2>5
  <2>7. best \in SUBSET Nat
    BY <1>1 DEF K
  <2> DEFINE first == CHOOSE i \in best : \A j \in best : i <= j
  <2>8. first \in best
    <3> HIDE DEF best
    <3>1. \E i \in best : \A j \in best : i <= j
      BY <2>6, <2>7, LeastExists
    <3> QED
      BY <3>1
  <2>9. p = L[first]
    BY <1>4, <2>5
  <2> HIDE DEF first
  <2>10. L[first] \in matching
    BY <1>5, <2>8
  <2>11. ASSUME NEW row \in matching PROVE ~Exceeds(policy_score(row), policy_score(L[first]))
    BY <1>5, <2>8
  <2> QED
    BY <1>7, <2>9, <2>10, <2>11 DEF matching, S, p
<1> QED
  BY <1>6, <1>7

\* So it finds the most specific one, and of equals the one of the highest
\* priority.
LEMMA MostSpecific ==
  ASSUME Ordered(Listed(TRUE)), "id" \notin DOMAIN Null,
         \A row \in Listed(TRUE) : "id" \in DOMAIN row
  PROVE  MostSpecificWins
<1> SUFFICES ASSUME NEW request \in Traffic
             PROVE  LET identity == build_request_identity(request)
                        matching == {row \in Listed(TRUE) : policy_matches(row, identity)}
                        p == resolve_policy(identity)
                    IN  /\ p = Null <=> matching = {}
                        /\ p # Null =>
                             /\ p \in matching
                             /\ \A row \in matching :
                                  ~(Named(p) \subseteq Named(row) /\ Named(p) # Named(row))
                             /\ Named(p) = {"route"} =>
                                  \A row \in matching :
                                    "user_id" \notin Named(row) /\ Cardinality(Named(row)) <= 1
                             /\ \A row \in matching :
                                  Named(row) = Named(p) => row.priority <= p.priority
  BY Zenon DEF MostSpecificWins
<1> DEFINE identity == build_request_identity(request)
           matching == {row \in Listed(TRUE) : policy_matches(row, identity)}
           p == resolve_policy(identity)
<1>1. IF matching = {}
      THEN p = Null
      ELSE p \in matching /\ \A row \in matching : ~Exceeds(policy_score(row), policy_score(p))
  <2> HIDE DEF identity
  <2> QED
    BY ResolvesBest
<1>2. \A row \in matching : row # Null /\ row.priority \in Int
  BY DEF Ordered
<1> HIDE DEF p, matching
<1>3. CASE matching = {}
  BY <1>1, <1>3 DEF p, matching
<1>4. CASE matching # {}
  <2>1. p \in matching /\ p # Null /\ p.priority \in Int
    BY <1>1, <1>2, <1>4
  <2>2. PICK P, w : P = Named(p) /\ w = selector_weight(p)
    OBVIOUS
  <2>3. IsFiniteSet(P) /\ Cardinality(P) \in Nat /\ w \in Nat
    BY <2>2, NamedCounts
  <2>4. ASSUME NEW row \in matching
        PROVE  /\ Cardinality(Named(row)) \in Nat /\ IsFiniteSet(Named(row))
               /\ Cardinality(Named(row)) <= Cardinality(P)
               /\ Cardinality(Named(row)) = Cardinality(P) => selector_weight(row) <= w
               /\ Cardinality(Named(row)) = Cardinality(P) /\ selector_weight(row) = w =>
                    row.priority <= p.priority
    <3>1. PICK c, v, pr :
            c = Cardinality(Named(row)) /\ v = selector_weight(row) /\ pr = row.priority
      OBVIOUS
    <3>2. c \in Nat /\ v \in Nat /\ pr \in Int /\ IsFiniteSet(Named(row))
      BY <1>2, <3>1, NamedCounts
    <3>3. /\ ~(c > Cardinality(P)) /\ ~(c = Cardinality(P) /\ v > w)
          /\ ~(c = Cardinality(P) /\ v = w /\ pr > p.priority)
      BY <1>1, <1>4, <2>2, <3>1, ScoreExceeds, Zenon
    <3>4. /\ c <= Cardinality(P)
          /\ c = Cardinality(P) => v <= w
          /\ c = Cardinality(P) /\ v = w => pr <= p.priority
      BY <2>1, <2>3, <3>2, <3>3
    <3> QED
      BY <3>1, <3>2, <3>4, Zenon
  <2>5. ASSUME NEW row \in matching, P \subseteq Named(row) PROVE P = Named(row)
    <3>1. PICK Q : Q = Named(row)
      OBVIOUS
    <3>2. Cardinality(P) <= Cardinality(Q) /\ (Cardinality(P) = Cardinality(Q) => P = Q)
      BY <2>4, <2>5, <3>1, FS_Subset
    <3>3. Cardinality(Q) \in Nat /\ Cardinality(Q) <= Cardinality(P)
      BY <2>4, <3>1
    <3> QED
      BY <2>3, <3>1, <3>2, <3>3
  <2>6. ASSUME P = {"route"}, NEW row \in matching
        PROVE  "user_id" \notin Named(row) /\ Cardinality(Named(row)) <= 1
    <3>1. Cardinality(P) = 1
      BY <2>6, FS_Singleton
    <3>2. Cardinality(Named(row)) <= 1
      BY <2>4, <3>1
    <3>3. ASSUME "user_id" \in Named(row) PROVE FALSE
      <4>1. Cardinality(Named(row)) = 1
        <5>1. Cardinality(Named(row)) # 0
          BY <2>4, <3>3, FS_EmptySet
        <5> QED
          BY <2>4, <3>2, <5>1
      <4>2. Named(row) = {"user_id"}
        BY <2>4, <3>3, <4>1, FS_Singleton
      <4>3. selector_weight(row) = 20
        BY <4>2 DEF selector_weight, WeightIn, weight, Named, Selector
      <4>4. w = 12
        BY <2>2, <2>6 DEF selector_weight, WeightIn, weight, Named, Selector
      <4> QED
        BY <2>4, <3>1, <4>1, <4>3, <4>4
    <3> QED
      BY <3>2, <3>3
  <2>7. ASSUME NEW row \in matching, Named(row) = P PROVE row.priority <= p.priority
    <3>1. selector_weight(row) = w
      BY <2>2, <2>7 DEF selector_weight, WeightIn, Named, Selector
    <3> QED
      BY <2>4, <2>7, <3>1
  <2>8. \A row \in matching : ~(Named(p) \subseteq Named(row) /\ Named(p) # Named(row))
    BY <2>2, <2>5
  <2>9. Named(p) = {"route"} =>
          \A row \in matching : "user_id" \notin Named(row) /\ Cardinality(Named(row)) <= 1
    BY <2>2, <2>6
  <2>10. \A row \in matching : Named(row) = Named(p) => row.priority <= p.priority
    BY <2>2, <2>7
  <2> QED
    BY <1>4, <2>1, <2>8, <2>9, <2>10, Zenon DEF p, matching
<1> QED
  BY <1>3, <1>4
-----------------------------------------------------------------------------
\* A transaction that is going to write a row, with the time it began.
Open(x) == x.step \in {"absent", "read"}

(***************************************************************************)
(* A transaction writes one row: no two rows have the time of the same     *)
(* one, and none has the time of one that is yet to write.  R is the times *)
(* that are set aside for others.                                          *)
(***************************************************************************)
StampInv(R) ==
  /\ \A id \in Id : Exists(id) => rows[id].updated_at < clock /\ rows[id].updated_at \notin R
  /\ \A s \in Session : Open(session[s]) => session[s].begun < clock /\ session[s].begun \notin R
  /\ \A a, b \in Id : Exists(a) /\ Exists(b) /\ rows[a].updated_at = rows[b].updated_at => a = b
  /\ \A s, t \in Session :
       Open(session[s]) /\ Open(session[t]) /\ session[s].begun = session[t].begun => s = t
  /\ \A id \in Id, s \in Session :
       Exists(id) /\ Open(session[s]) => rows[id].updated_at # session[s].begun
  /\ \A t \in R : t \in Nat /\ t < clock

\* A request goes on, or begins a transaction; the table stays as it is.
LEMMA StampMoves ==
  ASSUME Inv, DataInv, NEW R, StampInv(R), NEW s \in Session, NEW x, Goes(s, x), rows' = rows,
         clock' \in {clock, clock + 1}, Open(x) => x.begun = clock /\ clock' = clock + 1
  PROVE  StampInv(R)'
<1>1. session' = [z \in Session |-> IF z = s THEN x ELSE session[z]]
  BY DEF Inv, SessionInv, Goes
<1>2. clock \in Nat
  BY DEF DataInv
<1>3. \A id \in Id : Exists(id) => rows[id].updated_at \in Nat
  BY DEF DataInv, RowsInv, Row
<1>4. \A z \in Session : Open(session[z]) => session[z].begun \in Nat
  BY DEF DataInv, AskedInv, Asked, Open
<1>5. \A z \in Session : session'[z] = IF z = s THEN x ELSE session[z]
  BY <1>1
<1>6. \A id \in Id : Exists(id)' <=> Exists(id)
  BY DEF Exists
<1>7. \A id \in Id : Exists(id)' => rows'[id].updated_at < clock' /\ rows'[id].updated_at \notin R
  BY <1>2, <1>3, <1>6 DEF StampInv
<1>8. \A z \in Session :
        Open(session'[z]) => session'[z].begun < clock' /\ session'[z].begun \notin R
  BY <1>2, <1>4, <1>5 DEF StampInv
<1>9. \A a, b \in Id :
        Exists(a)' /\ Exists(b)' /\ rows'[a].updated_at = rows'[b].updated_at => a = b
  BY <1>6 DEF StampInv
<1>10. \A z, t \in Session :
         Open(session'[z]) /\ Open(session'[t]) /\ session'[z].begun = session'[t].begun => z = t
  BY <1>2, <1>4, <1>5 DEF StampInv
<1>11. \A id \in Id, z \in Session :
         Exists(id)' /\ Open(session'[z]) => rows'[id].updated_at # session'[z].begun
  BY <1>2, <1>3, <1>5, <1>6 DEF StampInv
<1>12. \A t \in R : t \in Nat /\ t < clock'
  BY <1>2 DEF StampInv
<1> QED
  BY <1>7, <1>8, <1>9, <1>10, <1>11, <1>12 DEF StampInv, Open

\* A row is written with the time t, or deleted.
LEMMA StampWritten ==
  ASSUME Inv, DataInv, NEW R, StampInv(R), NEW s \in Session, NEW x, Goes(s, x), ~Open(x),
         NEW id \in Id, NEW row, Commits(id, row), clock' \in {clock, clock + 1},
         row # NoRow =>
           /\ row.updated_at \in Nat /\ row.updated_at < clock' /\ row.updated_at \notin R
           /\ \A n \in Id \ {id} : Exists(n) => rows[n].updated_at # row.updated_at
           /\ \A z \in Session \ {s} : Open(session[z]) => session[z].begun # row.updated_at
  PROVE  StampInv(R)'
<1>1. session' = [z \in Session |-> IF z = s THEN x ELSE session[z]]
  BY DEF Inv, SessionInv, Goes
<1>2. clock \in Nat
  BY DEF DataInv
<1>3. \A n \in Id : Exists(n) => rows[n].updated_at \in Nat
  BY DEF DataInv, RowsInv, Row
<1>4. \A z \in Session : Open(session[z]) => session[z].begun \in Nat
  BY DEF DataInv, AskedInv, Asked, Open
<1>5. \A z \in Session : session'[z] = IF z = s THEN x ELSE session[z]
  BY <1>1
<1>6. \A n \in Id : rows'[n] = IF n = id THEN row ELSE rows[n]
  BY DEF Commits, Inv, TableInv
<1>7. \A n \in Id : Exists(n)' <=> IF n = id THEN row # NoRow ELSE Exists(n)
  BY <1>6 DEF Exists
<1>8. \A n \in Id : Exists(n)' => rows'[n].updated_at < clock' /\ rows'[n].updated_at \notin R
  BY <1>2, <1>3, <1>6, <1>7 DEF StampInv
<1>9. \A z \in Session :
        Open(session'[z]) => session'[z].begun < clock' /\ session'[z].begun \notin R
  BY <1>2, <1>4, <1>5 DEF StampInv
<1>10. \A a, b \in Id :
         Exists(a)' /\ Exists(b)' /\ rows'[a].updated_at = rows'[b].updated_at => a = b
  BY <1>6, <1>7 DEF StampInv
<1>11. \A z, t \in Session :
         Open(session'[z]) /\ Open(session'[t]) /\ session'[z].begun = session'[t].begun => z = t
  BY <1>5 DEF StampInv
<1>12. \A n \in Id, z \in Session :
         Exists(n)' /\ Open(session'[z]) => rows'[n].updated_at # session'[z].begun
  BY <1>5, <1>6, <1>7 DEF StampInv
<1>13. \A t \in R : t \in Nat /\ t < clock'
  BY <1>2 DEF StampInv
<1> QED
  BY <1>8, <1>9, <1>10, <1>11, <1>12, <1>13 DEF StampInv, Open

\* A transaction that began at t, and that no one else is in, inserts.
LEMMA InsertStamps ==
  ASSUME Inv, DataInv, NEW R, StampInv(R), NEW s \in Session, NEW p, NEW t \in Nat,
         Insert(s, p, t), t < clock', t \notin R, clock' \in {clock, clock + 1},
         \A n \in Id : Exists(n) => rows[n].updated_at # t,
         \A z \in Session \ {s} : Open(session[z]) => session[z].begun # t
  PROVE  StampInv(R)'
<1> DEFINE id == created + 1
           row == [c \in Column \cup {"id", "version", "updated_at"} |->
                     IF c \in Column THEN p[c]
                     ELSE IF c = "id" THEN id ELSE IF c = "version" THEN 1 ELSE t]
           x == [step |-> "committed", id |-> id, asked |-> p]
<1>1. id \in Id /\ Commits(id, row) /\ Goes(s, x)
  BY DEF Insert
<1>2. row.updated_at = t
  BY ColumnNames
<1>3. ~Open(x)
  BY DEF Open
<1> HIDE DEF id, row, x
<1> QED
  BY <1>1, <1>2, <1>3, StampWritten

\* No time is like the present: nothing has it yet.
LEMMA NowIsNew ==
  ASSUME DataInv, NEW R, StampInv(R)
  PROVE  /\ clock \in Nat /\ clock \notin R
         /\ \A n \in Id : Exists(n) => rows[n].updated_at # clock
         /\ \A z \in Session : Open(session[z]) => session[z].begun # clock
<1>1. clock \in Nat
  BY DEF DataInv
<1>2. \A n \in Id : Exists(n) => rows[n].updated_at \in Nat
  BY DEF DataInv, RowsInv, Row
<1>3. \A z \in Session : Open(session[z]) => session[z].begun \in Nat
  BY DEF DataInv, AskedInv, Asked, Open
<1> QED
  BY <1>1, <1>2, <1>3 DEF StampInv

\* A request that is over, or is not going to write, leaves the times alone.
LEMMA OtherStamps ==
  ASSUME Inv, DataInv, NEW R, StampInv(R), NEW s \in Session, NEW x, Goes(s, x), rows' = rows,
         x.step \notin {"absent", "read"}, clock' \in {clock, clock + 1}
  PROVE  StampInv(R)'
  BY StampMoves DEF Open

\* The change to a row begins.
LEMMA GetStamps ==
  ASSUME Inv, DataInv, NEW R, StampInv(R), NEW s \in Session, NEW id, NEW asked,
         GetForUpdate(s, id, asked)
  PROVE  StampInv(R)'
<1> DEFINE x == [step |-> "read", row |-> rows[id], asked |-> asked, begun |-> clock]
<1>1. Goes(s, x) /\ rows' = rows /\ clock' = clock + 1 /\ x.begun = clock
  BY DEF GetForUpdate, BeginTransaction
<1> HIDE DEF x
<1> QED
  BY <1>1, StampMoves

\* The rest of a request.
LEMMA ProceedStamps ==
  ASSUME Inv, DataInv, NEW R, StampInv(R), NEW s \in Session, Proceed(s)
  PROVE  StampInv(R)'
<1>1. CASE upsert_policy_by_name(s)
  <2> DEFINE p == session[s].asked
             absent == [step |-> "absent", asked |-> p, begun |-> clock]
             read(id) == [step |-> "read", row |-> rows[id], asked |-> p, begun |-> clock]
  <2>1. rows' = rows /\ clock' = clock + 1
    BY <1>1 DEF upsert_policy_by_name, BeginTransaction
  <2>2. absent.begun = clock /\ \A id : read(id).begun = clock
    OBVIOUS
  <2>3. ~Open(Ended)
    BY DEF Open, Ended
  <2>4. \E x : Goes(s, x) /\ (x = absent \/ x = Ended \/ \E id : x = read(id))
    <3> HIDE DEF absent, read
    <3>1. \/ Goes(s, absent)
          \/ \E id \in Id : Goes(s, IF to_policy_payload(rows[id]) = p THEN Ended ELSE read(id))
      BY <1>1 DEF upsert_policy_by_name, absent, read
    <3> QED
      BY <3>1
  <2> HIDE DEF absent, read
  <2> QED
    BY <2>1, <2>2, <2>3, <2>4, StampMoves
<1>2. CASE upsert_creates(s)
  <2>1. clock' = clock /\ Open(session[s])
    BY <1>2 DEF upsert_creates, Open
  <2>2. CASE Insert(s, session[s].asked, session[s].begun)
    <3>1. PICK t : t = session[s].begun
      OBVIOUS
    <3>2. t \in Nat /\ t < clock' /\ t \notin R
      BY <2>1, <3>1 DEF StampInv, DataInv, AskedInv, Asked, Open
    <3>3. /\ \A n \in Id : Exists(n) => rows[n].updated_at # t
          /\ \A z \in Session \ {s} : Open(session[z]) => session[z].begun # t
      BY <2>1, <3>1 DEF StampInv
    <3> QED
      BY <2>1, <2>2, <3>1, <3>2, <3>3, InsertStamps
  <2>3. CASE InsertFails(s, session[s].asked)
    BY <2>1, <2>3, OtherStamps DEF InsertFails, Failed
  <2> QED
    BY <1>2, <2>2, <2>3 DEF upsert_creates
<1>3. CASE Update(s)
  <2> DEFINE old == session[s].row
             id == old.id
             now == IF Exists(id) THEN rows[id] ELSE old
             row == Updated(now, old, session[s].asked, session[s].begun)
             x == [step |-> "committed", id |-> id, asked |-> session[s].asked]
  <2>1. clock' = clock /\ Open(session[s]) /\ id \in Id
    BY <1>3 DEF Update, Open, Inv, SessionInv, Pending
  <2>2. ASSUME Exists(id), Commits(id, row), Goes(s, x) PROVE StampInv(R)'
    <3>1. "updated_at" \in DOMAIN now
      BY <2>1, <2>2 DEF DataInv, RowsInv, Row
    <3>2. row.updated_at = session[s].begun
      BY <3>1 DEF Updated
    <3>3. ~Open(x)
      BY DEF Open
    <3>4. session[s].begun \in Nat /\ session[s].begun < clock' /\ session[s].begun \notin R
      BY <2>1 DEF StampInv, DataInv, AskedInv, Asked, Open
    <3>5. /\ \A n \in Id : Exists(n) => rows[n].updated_at # session[s].begun
          /\ \A z \in Session \ {s} : Open(session[z]) => session[z].begun # session[s].begun
      BY <2>1 DEF StampInv
    <3> HIDE DEF row, x, id
    <3> QED
      BY <2>1, <2>2, <3>2, <3>3, <3>4, <3>5, StampWritten
  <2>3. ASSUME Goes(s, Failed), rows' = rows PROVE StampInv(R)'
    BY <2>1, <2>3, OtherStamps DEF Failed
  <2> QED
    BY <1>3, <2>2, <2>3 DEF Update, StillThere
<1>4. CASE Delete(s)
  <2>1. session[s].id \in Id /\ ~Open(AfterDelete)
    BY <1>4 DEF Delete, Inv, SessionInv, Pending, Open, AfterDelete
  <2> QED
    BY <1>4, <2>1, StampWritten DEF Delete
<1>5. CASE Refresh(s)
  <2> DEFINE x == IF Exists(session[s].id) THEN [step |-> "refreshed"] ELSE Failed
  <2>1. x.step \notin {"absent", "read"}
    BY DEF Failed
  <2>2. Goes(s, x) /\ clock' = clock + 1 /\ rows' = rows
    BY <1>5 DEF Refresh, BeginTransaction
  <2> HIDE DEF x
  <2> QED
    BY <2>1, <2>2, OtherStamps
<1>6. CASE Invalidate(s)
  BY <1>6, OtherStamps DEF Invalidate, Ended
<1>7. CASE Crash(s)
  BY <1>7, OtherStamps DEF Crash, Failed
<1> QED
  BY <1>1, <1>2, <1>3, <1>4, <1>5, <1>6, <1>7 DEF Proceed

\* Any step of a request.
LEMMA HandleStamps ==
  ASSUME Inv, DataInv, NEW R, StampInv(R), NEW s \in Session, Handle(s)
  PROVE  StampInv(R)'
<1>1. ASSUME NEW b \in Body, create_policy(s, b) PROVE StampInv(R)'
  <2>1. Insert(s, PolicyCreate(b), clock) /\ clock' = clock + 1
    BY <1>1 DEF create_policy, BeginTransaction
  <2> QED
    BY <2>1, NowIsNew, InsertStamps
<1>2. ASSUME NEW b \in Body, sync_policy_from_config_control(s, b) PROVE StampInv(R)'
  BY <1>2, OtherStamps DEF sync_policy_from_config_control, sync_policy
<1>3. ASSUME NEW id \in Id, delete_policy(s, id) PROVE StampInv(R)'
  BY <1>3, OtherStamps DEF delete_policy
<1>4. ASSUME NEW id \in Id, NEW u \in Patch, update_policy(s, id, u) PROVE StampInv(R)'
  BY <1>4, GetStamps DEF update_policy
<1> QED
  BY <1>1, <1>2, <1>3, <1>4, ProceedStamps DEF Handle

\* The rows that are listed can be put in order.
LEMMA ListedOrdered ==
  ASSUME Inv, DataInv, NEW R, StampInv(R), NEW active_only
  PROVE  /\ Ordered(Listed(active_only))
         /\ \A row \in Listed(active_only) : "id" \in DOMAIN row
<1>1. \A row \in Listed(active_only) : \E id \in Id : Exists(id) /\ row = rows[id]
  BY DEF Listed
<1>2. \A row \in Listed(active_only) :
        /\ row.priority \in Int /\ row.updated_at \in Nat /\ row.version \in Nat
        /\ "id" \in DOMAIN row
  BY <1>1 DEF DataInv, RowsInv, Row, Columns
<1>3. \A a, b \in Listed(active_only) : a.updated_at = b.updated_at => a = b
  BY <1>1 DEF StampInv
<1>4. IsFiniteSet(Listed(active_only))
  <2> DEFINE f == [id \in Id |-> rows[id]]
             T == {f[id] : id \in Id}
  <2>1. IsFiniteSet(Id)
    BY FS_Interval, PolicyStoreAssumption DEF Id
  <2>2. f \in Surjection(Id, T)
    BY DEF Surjection
  <2>3. IsFiniteSet(T)
    <3> HIDE DEF f, T
    <3> QED
      BY <2>1, <2>2, FS_Surjection
  <2>4. Listed(active_only) \in SUBSET T
    BY <1>1
  <2> QED
    BY <2>3, <2>4, FS_Subset
<1> QED
  BY <1>2, <1>3, <1>4 DEF Ordered

\* Initially nothing has a time.
LEMMA InitStamps == Init => StampInv({})
  BY DEF Init, StampInv, Exists, Open, Ended

(***************************************************************************)
(* Whatever the table holds, resolve_policy finds a policy if one matches, *)
(* and none that matches says more; priority decides between policies of   *)
(* the same selectors only.  list_policies sorts by priority and then by   *)
(* updated_at, which tells any two rows apart since a transaction writes   *)
(* one row.  Python's None is no policy: it has no id.                     *)
(***************************************************************************)
THEOREM MostSpecificHolds ==
  ASSUME "id" \notin DOMAIN Null
  PROVE  Spec => []MostSpecificWins
<1>1. Inv /\ DataInv /\ StampInv({}) /\ [Next]_vars => StampInv({})'
  <2> SUFFICES ASSUME Inv, DataInv, StampInv({}), [Next]_vars PROVE StampInv({})'
    OBVIOUS
  <2>1. CASE UNCHANGED vars
    BY <2>1 DEF vars, history, StampInv, Open, Exists
  <2>2. ASSUME NEW s \in Session, Handle(s) PROVE StampInv({})'
    BY <2>2, HandleStamps
  <2> QED
    BY <2>1, <2>2 DEF Next
<1>2. Inv /\ DataInv /\ StampInv({}) => MostSpecificWins
  BY ListedOrdered, MostSpecific
<1> QED
  BY <1>1, <1>2, InitStamps, InvHolds, DataInvHolds, PTL DEF Spec
-----------------------------------------------------------------------------
\* What a running script will turn to next, and what it knows.
ScriptInv ==
  /\ script = [k \in Script |-> script[k]]
  /\ \A k \in Script : script[k].step = "running" =>
       /\ DOMAIN script[k] = {"step", "next", "begun", "existing"}
       /\ script[k].next \in Nat \ {0}
       /\ script[k].begun \in 0..clock
       /\ \A row \in script[k].existing : row.id \in Id

ProvisioningInv == Inv /\ DataInv /\ ScriptInv

\* The payloads of the scripts give values to columns.
LEMMA PayloadsParsed ==
  ASSUME NEW k, NEW n \in 1..Len(Payloads(k))
  PROVE  Parsed(Payloads(k)[n])
<1>1. \A i \in 1..Len(seed_policies) : Parsed(seed_policies[i])
  BY DEF seed_policies, Parsed, Column, Selector, Algorithm
<1>2. \A i \in 1..Len(benchmark_policy_payloads) : Parsed(benchmark_policy_payloads[i])
  BY DEF benchmark_policy_payloads, Parsed, Column, Selector, Algorithm
<1> QED
  BY <1>1, <1>2 DEF Payloads

\* Initially no script runs.
LEMMA ProvisioningInitInv == ProvisioningInit => ProvisioningInv
<1> SUFFICES ASSUME ProvisioningInit PROVE ProvisioningInv
  OBVIOUS
<1>1. ScriptInv
  BY DEF ProvisioningInit, ScriptInv
<1> QED
  BY <1>1, InitInv, InitData DEF ProvisioningInit, ProvisioningInv

\* A step that leaves the table and the requests as they are.
LEMMA NothingWritten ==
  ASSUME Inv, DataInv, UNCHANGED <<rows, created, session, writes, history>>,
         clock' \in {clock, clock + 1}
  PROVE  Inv' /\ DataInv' /\ Stays
<1>1. Inv' /\ Stays
  BY DEF Inv, TableInv, SessionInv, Pending, OneRowPerName, AnnouncedInv, Owes, Exists, Stays,
         history
<1> QED
  BY <1>1, SameData DEF history

\* A script turns to its next policy with nothing left to announce.
LEMMA TurnsInv ==
  ASSUME ProvisioningInv, NEW k \in Script, Turns(k), clock' \in {clock, clock + 1}
  PROVE  /\ k \in Session
         /\ ~Owes(k)
         /\ Parsed(Wanted(k))
         /\ writes' \in 0..MaxWrites
         /\ ScriptInv'
<1>1. k \in Session
  BY ProvisioningAssumption
<1>2. ~Owes(k)
  BY <1>1, IdleOwesNothing DEF Turns, Idle
<1>3. script[k].step = "running" /\ script[k].next \in Nat \ {0}
  BY DEF Turns, ProvisioningInv, ScriptInv
<1>4. script[k].next \in 1..Len(Payloads(k))
  <2>1. Len(Payloads(k)) \in Nat
    BY DEF Payloads, seed_policies, benchmark_policy_payloads
  <2> QED
    BY <1>3, <2>1 DEF Turns
<1>5. Parsed(Wanted(k))
  BY <1>4, PayloadsParsed DEF Wanted
<1>6. ScriptInv'
  BY <1>3 DEF Turns, ProvisioningInv, ScriptInv, DataInv
<1>7. writes' \in 0..MaxWrites
  BY DEF Turns, ProvisioningInv, DataInv
<1> QED
  BY <1>1, <1>2, <1>5, <1>6, <1>7

\* POST of a script, directly or through the API.
LEMMA ScriptCreates ==
  ASSUME ProvisioningInv, NEW k \in Script, Turns(k), Valid(PolicyCreate(Wanted(k))),
         NEW begun \in 0..clock, clock' \in {clock, clock + 1},
         Insert(k, PolicyCreate(Wanted(k)), begun) \/ InsertFails(k, PolicyCreate(Wanted(k)))
  PROVE  ProvisioningInv' /\ Stays
<1> DEFINE p == PolicyCreate(Wanted(k))
<1>1. /\ k \in Session /\ ~Owes(k) /\ writes' \in 0..MaxWrites /\ Parsed(Wanted(k))
      /\ ScriptInv' /\ Inv /\ DataInv
  BY TurnsInv DEF ProvisioningInv
<1>2. Parsed(p) /\ DOMAIN p = Column
  BY <1>1, PolicyCreateParsed
<1>3. CASE Insert(k, p, begun)
  <2>1. Inv' /\ Stays
    BY <1>1, <1>3, InsertInv, InsertStays
  <2>2. DataInv'
    BY <1>1, <1>2, <1>3, InsertData
  <2> QED
    BY <1>1, <2>1, <2>2 DEF ProvisioningInv
<1>4. CASE InsertFails(k, p)
  <2>1. Stays
    BY <1>4 DEF InsertFails, Stays, Exists
  <2>2. DataInv'
    BY <1>1, <1>4, EndsData DEF InsertFails, history
  <2>3. Inv'
    BY <1>1, <1>4, InsertFailsInv
  <2> QED
    BY <1>1, <2>1, <2>2, <2>3 DEF ProvisioningInv
<1> QED
  BY <1>3, <1>4

\* PUT of the benchmark.
LEMMA PutsInv ==
  ASSUME ProvisioningInv, BenchmarkPuts
  PROVE  ProvisioningInv' /\ Stays
<1> DEFINE k == "benchmark"
           x(row) == [step |-> "read", row |-> rows[row.id], asked |-> Wanted(k), begun |-> clock]
<1>1. k \in Script /\ Turns(k) /\ clock' = clock + 1
  BY DEF Script, BenchmarkPuts, GetForUpdate, BeginTransaction
<1> HIDE DEF k
<1>2. /\ k \in Session /\ ~Owes(k) /\ Parsed(Wanted(k)) /\ DOMAIN Wanted(k) \subseteq Column
      /\ writes' \in 0..MaxWrites /\ ScriptInv' /\ Inv /\ DataInv
  BY <1>1, TurnsInv DEF ProvisioningInv, Parsed
<1>3. PICK row \in Known(k) :
        \/ GetForUpdate(k, row.id, Wanted(k))
        \/ Goes(k, Failed) /\ UNCHANGED <<rows, created, history>>
  BY DEF BenchmarkPuts, k
<1>4. /\ rows' = rows /\ created' = created /\ dirty' = dirty /\ lost' = lost
      /\ overlap' = overlap /\ seen' = seen
  BY <1>3 DEF GetForUpdate, history
<1>5. Stays
  BY <1>4 DEF Stays, Exists
<1>6. CASE Goes(k, Failed)
  <2>1. Inv'
    BY <1>2, <1>4, <1>6, EndsInv
  <2>2. DataInv'
    BY <1>1, <1>2, <1>4, <1>6, EndsData
  <2> QED
    BY <1>2, <1>5, <2>1, <2>2 DEF ProvisioningInv
<1>7. CASE GetForUpdate(k, row.id, Wanted(k))
  <2>1. row.id \in Id
    BY <1>1 DEF Turns, Known, ProvisioningInv, ScriptInv
  <2>2. Exists(row.id) /\ Goes(k, x(row))
    BY <1>7 DEF GetForUpdate
  <2>3. rows[row.id].id = row.id
    BY <1>2, <2>1, <2>2 DEF Inv, TableInv
  <2>4. Pending(x(row))
    BY <1>2, <2>1, <2>3 DEF Pending
  <2> HIDE DEF x
  <2>5. Inv'
    BY <1>2, <1>4, <2>2, <2>4, SessionMoves
  <2>6. DataInv'
    BY <1>2, <1>7, <2>1, GetData
  <2> QED
    BY <1>2, <1>5, <2>5, <2>6 DEF ProvisioningInv
<1> QED
  BY <1>3, <1>6, <1>7

\* The other steps of a script: it lists, goes on with a request, or ends.
LEMMA ScriptStepInv ==
  ASSUME ProvisioningInv, NEW k \in Script, ScriptStep(k)
  PROVE  ProvisioningInv' /\ Stays
<1>1. Inv /\ DataInv /\ ScriptInv /\ clock \in Nat
  BY DEF ProvisioningInv, DataInv
<1>2. CASE List(k)
  <2>1. clock' = clock + 1
    BY <1>2 DEF List, BeginTransaction
  <2>2. Inv' /\ DataInv' /\ Stays
    BY <1>1, <1>2, <2>1, NothingWritten DEF List
  <2>3. \A row \in Listed(ActiveOnly(k)) : row.id \in Id
    BY <1>1 DEF Listed, Inv, TableInv
  <2>4. ScriptInv'
    BY <1>1, <1>2, <2>1, <2>3 DEF List, ScriptInv
  <2> QED
    BY <2>2, <2>4 DEF ProvisioningInv
<1>3. CASE ScriptProceeds(k)
  <2>1. k \in Session /\ Proceed(k)
    BY <1>3, ProvisioningAssumption DEF ScriptProceeds
  <2>2. Inv' /\ DataInv' /\ Stays
    BY <1>1, <2>1, ProceedInv, ProceedData, HandleStays DEF Handle
  <2>3. clock' \in {clock, clock + 1}
    BY <2>1 DEF Proceed, upsert_policy_by_name, upsert_creates, Update, Delete, Refresh,
                Invalidate, Crash, BeginTransaction
  <2>4. ScriptInv'
    BY <1>1, <1>3, <2>3 DEF ScriptProceeds, ScriptInv
  <2> QED
    BY <2>2, <2>4 DEF ProvisioningInv
<1>4. CASE Ends(k)
  <2>1. Inv' /\ DataInv' /\ Stays
    BY <1>1, <1>4, NothingWritten DEF Ends, vars, history
  <2>2. ScriptInv'
    BY <1>1, <1>4 DEF Ends, vars, ScriptInv
  <2> QED
    BY <2>1, <2>2 DEF ProvisioningInv
<1> QED
  BY <1>2, <1>3, <1>4 DEF ScriptStep

\* A request moves time on by one transaction at most.
LEMMA HandleClock ==
  ASSUME NEW s \in Session, Handle(s)
  PROVE  clock' \in {clock, clock + 1}
  BY DEF Handle, create_policy, sync_policy_from_config_control, sync_policy, delete_policy,
         update_policy, GetForUpdate, Proceed, upsert_policy_by_name, upsert_creates, Update,
         Delete, Refresh, Invalidate, Crash, BeginTransaction

\* The invariant is inductive, and no step brings a row back.
LEMMA ProvisioningNextInv ==
  ProvisioningInv /\ [ProvisioningNext]_provisioningVars => ProvisioningInv' /\ Stays
<1> SUFFICES ASSUME ProvisioningInv, [ProvisioningNext]_provisioningVars
             PROVE  ProvisioningInv' /\ Stays
  OBVIOUS
<1>1. Inv /\ DataInv /\ ScriptInv /\ clock \in Nat
  BY DEF ProvisioningInv, DataInv
<1>2. CASE UNCHANGED provisioningVars
  <2>1. Inv' /\ DataInv' /\ Stays
    BY <1>1, <1>2, NothingWritten DEF provisioningVars, vars, history
  <2> QED
    BY <1>1, <1>2, <2>1 DEF provisioningVars, vars, ProvisioningInv, ScriptInv
<1>3. ASSUME NEW s \in Session \ Script, OthersStep(s) PROVE ProvisioningInv' /\ Stays
  <2>1. s \in Session /\ Handle(s)
    BY <1>3 DEF OthersStep
  <2>2. Inv' /\ DataInv' /\ Stays
    BY <1>1, <2>1, BeginInv, BeginData, ProceedInv, ProceedData, HandleStays DEF Handle
  <2>3. ScriptInv'
    BY <1>1, <1>3, <2>1, HandleClock DEF OthersStep, ScriptInv
  <2> QED
    BY <2>2, <2>3 DEF ProvisioningInv
<1>4. ASSUME NEW k \in Script, ScriptStep(k) PROVE ProvisioningInv' /\ Stays
  BY <1>4, ScriptStepInv
<1>5. CASE SeedSkips
  <2>1. Turns("seed") /\ "seed" \in Script /\ clock' = clock
    BY <1>5 DEF SeedSkips, Script
  <2>2. Inv' /\ DataInv' /\ Stays
    BY <1>1, <1>5, NothingWritten DEF SeedSkips, Turns
  <2> QED
    BY <2>1, <2>2, TurnsInv DEF ProvisioningInv
<1>6. CASE SeedCreates
  <2>1. Turns("seed") /\ "seed" \in Script /\ clock' = clock
    BY <1>6 DEF SeedCreates, Script
  <2>2. script["seed"].begun \in 0..clock
    BY <1>1, <2>1 DEF Turns, ScriptInv
  <2> QED
    BY <1>6, <2>1, <2>2, ScriptCreates DEF SeedCreates
<1>7. CASE BenchmarkPosts
  <2>1. Turns("benchmark") /\ "benchmark" \in Script /\ clock' = clock + 1
    BY <1>7 DEF BenchmarkPosts, Script, BeginTransaction
  <2>2. clock \in 0..clock
    BY <1>1
  <2> QED
    BY <1>7, <2>1, <2>2, ScriptCreates DEF BenchmarkPosts
<1>8. CASE BenchmarkPuts
  BY <1>8, PutsInv
<1> QED
  BY <1>2, <1>3, <1>4, <1>5, <1>6, <1>7, <1>8 DEF ProvisioningNext

\* It holds all the time.
LEMMA ProvisioningInvHolds == ProvisioningSpec => []ProvisioningInv
  BY ProvisioningInitInv, ProvisioningNextInv, PTL DEF ProvisioningSpec
-----------------------------------------------------------------------------
(***************************************************************************)
(* With the scripts running too, no change to a policy is forgotten: the   *)
(* seed and the benchmark invalidate the caches after what they write.     *)
(***************************************************************************)
THEOREM ScriptsAnnounce == ProvisioningSpec => []ChangesAnnounced
<1>1. ProvisioningInv => ChangesAnnounced
  BY DEF ProvisioningInv, Inv, AnnouncedInv, Owes, ChangesAnnounced
<1> QED
  BY <1>1, ProvisioningInvHolds, PTL

(***************************************************************************)
(* A benchmark that updates a policy it listed does not bring it back if   *)
(* it was deleted since.                                                   *)
(***************************************************************************)
THEOREM ScriptsReviveNothing == ProvisioningSpec => DeletedStaysDeleted
<1>1. ProvisioningInv /\ [ProvisioningNext]_provisioningVars => [Stays]_vars
  BY ProvisioningNextInv
<1> QED
  BY <1>1, ProvisioningInvHolds, PTL DEF ProvisioningSpec, DeletedStaysDeleted, Stays

(***************************************************************************)
(* The scripts, which create and update without looking again at what they *)
(* listed, keep rows valid, acknowledge only what was written, and leave   *)
(* keys telling policies apart.                                            *)
(***************************************************************************)
THEOREM ScriptsKeepTheTable ==
  ProvisioningSpec => [](TypeOK /\ RowsValid /\ AcknowledgedWasWritten /\ KeyTells)
<1>1. ProvisioningInv => TypeOK /\ RowsValid /\ AcknowledgedWasWritten /\ KeyTells
  BY StateTypeOK, StateRowsValid, StateKeyTells DEF ProvisioningInv, DataInv
<1> QED
  BY <1>1, ProvisioningInvHolds, PTL
-----------------------------------------------------------------------------
\* A script has one request at a time, none before it starts or after it ends.
ScriptSession(k) ==
  /\ \/ Idle(k)
     \/ session[k].step \in {"committed", "refreshed"}
     \/ session[k].step = "read" /\ k = "benchmark"
  /\ script[k].step # "running" => Idle(k)
  /\ script[k].step \in {"start", "ok"} => session[k] = Ended

ScriptSessionInv == \A k \in Script : ScriptSession(k)

\* The time of the transaction that the seed is in, and has not used yet.
SeedStamps ==
  IF script["seed"].step = "running" /\ session["seed"].step \in {"ok", "refreshed"}
  THEN {script["seed"].begun}
  ELSE {}

ScriptStampInv == StampInv(SeedStamps)

\* Only the request itself goes on.
LEMMA HandleGoes ==
  ASSUME NEW s \in Session, Handle(s)
  PROVE  \E x : Goes(s, x)
  BY DEF Handle, create_policy, sync_policy_from_config_control, sync_policy, delete_policy,
         update_policy, GetForUpdate, Proceed, upsert_policy_by_name, upsert_creates, Update,
         Delete, Refresh, Invalidate, Crash, Insert, InsertFails

\* The request of another stays where it is.
LEMMA OthersStay ==
  ASSUME Inv, NEW s \in Session, NEW x, Goes(s, x)
  PROVE  session'[s] = x /\ \A z \in Session \ {s} : session'[z] = session[z]
  BY DEF Inv, SessionInv, Goes

\* What the step of a script's request comes to.
LEMMA ScriptProceedsTo ==
  ASSUME Inv, NEW k \in Script, ScriptSession(k), Proceed(k)
  PROVE  \/ Update(k) /\ session[k].step = "read"
         \/ /\ session[k].step = "committed" /\ Refresh(k) /\ rows' = rows
            /\ clock' = clock + 1
            /\ session'[k].step = "refreshed" \/ session'[k] = Failed
         \/ /\ session[k].step = "refreshed" /\ Invalidate(k) /\ rows' = rows
            /\ clock' = clock /\ session'[k] = Ended
         \/ Crash(k) /\ rows' = rows /\ session'[k] = Failed
<1>1. k \in Session
  BY ProvisioningAssumption
<1>2. ~upsert_policy_by_name(k) /\ ~upsert_creates(k) /\ ~Delete(k)
  BY DEF ScriptSession, Idle, Ended, Failed, upsert_policy_by_name, upsert_creates, Delete
<1>3. CASE Update(k)
  BY <1>3 DEF Update
<1>4. CASE Refresh(k)
  <2> DEFINE x == IF Exists(session[k].id) THEN [step |-> "refreshed"] ELSE Failed
  <2>1. /\ Goes(k, x) /\ rows' = rows /\ clock' = clock + 1 /\ session[k].step = "committed"
        /\ x.step = "refreshed" \/ x = Failed
    BY <1>4 DEF Refresh, BeginTransaction
  <2> HIDE DEF x
  <2>2. session'[k] = x
    BY <1>1, <2>1, OthersStay
  <2> QED
    BY <1>4, <2>1, <2>2
<1>5. CASE Invalidate(k)
  <2>1. session'[k] = Ended
    BY <1>1, <1>5, OthersStay DEF Invalidate
  <2> QED
    BY <1>5, <2>1 DEF Invalidate
<1>6. CASE Crash(k)
  <2>1. session'[k] = Failed
    BY <1>1, <1>6, OthersStay DEF Crash
  <2> QED
    BY <1>6, <2>1 DEF Crash
<1> QED
  BY <1>2, <1>3, <1>4, <1>5, <1>6 DEF Proceed

\* Where an update leaves the request.
LEMMA UpdateLeaves ==
  ASSUME Inv, NEW s \in Session, Update(s)
  PROVE  session'[s].step = "committed" \/ session'[s] = Failed
<1>1. \/ Goes(s, [step |-> "committed", id |-> session[s].row.id, asked |-> session[s].asked])
      \/ Goes(s, Failed)
  BY DEF Update
<1> QED
  BY <1>1, OthersStay

\* Where a POST leaves it.
LEMMA InsertLeaves ==
  ASSUME Inv, NEW s \in Session, NEW p, NEW t
  PROVE  /\ Insert(s, p, t) => session'[s].step = "committed"
         /\ InsertFails(s, p) => session'[s] = Failed
<1>1. ASSUME Insert(s, p, t) PROVE session'[s].step = "committed"
  <2>1. Goes(s, [step |-> "committed", id |-> created + 1, asked |-> p])
    BY <1>1 DEF Insert
  <2> QED
    BY <2>1, OthersStay
<1>2. ASSUME InsertFails(s, p) PROVE session'[s] = Failed
  BY <1>2, OthersStay DEF InsertFails
<1> QED
  BY <1>1, <1>2

\* What the steps of the scripts do to a script and its request.
LEMMA ScriptSessions ==
  ASSUME ProvisioningInv, ScriptSessionInv, [ProvisioningNext]_provisioningVars
  PROVE  ScriptSessionInv'
<1>1. Inv /\ ScriptInv /\ Script \subseteq Session
  BY ProvisioningAssumption DEF ProvisioningInv
<1>2. CASE UNCHANGED provisioningVars
  BY <1>2 DEF provisioningVars, vars, ScriptSessionInv, ScriptSession, Idle
<1>3. ASSUME NEW k \in Script, script'[k] = script[k], session'[k] = session[k]
      PROVE  ScriptSession(k)'
  BY <1>3 DEF ScriptSessionInv, ScriptSession, Idle
<1>4. ASSUME NEW k \in Script, NEW x, Goes(k, x),
             \A j \in Script \ {k} : script'[j] = script[j],
             ScriptSession(k)'
      PROVE  ScriptSessionInv'
  <2>1. \A j \in Script \ {k} : session'[j] = session[j]
    BY <1>1, <1>4, OthersStay
  <2> QED
    BY <1>3, <1>4, <2>1 DEF ScriptSessionInv
<1>5. ASSUME NEW s \in Session \ Script, OthersStep(s) PROVE ScriptSessionInv'
  <2>1. PICK x : Goes(s, x)
    BY <1>5, HandleGoes DEF OthersStep
  <2>2. \A k \in Script : session'[k] = session[k]
    BY <1>1, <1>5, <2>1, OthersStay
  <2>3. script' = script
    BY <1>5 DEF OthersStep
  <2> QED
    BY <1>3, <2>2, <2>3 DEF ScriptSessionInv
<1>6. ASSUME NEW k \in Script, List(k) \/ Ends(k) PROVE ScriptSessionInv'
  <2>1. session' = session /\ \A j \in Script \ {k} : script'[j] = script[j]
    BY <1>1, <1>6 DEF List, Ends, vars, ScriptInv
  <2>2. session[k] = Ended \/ (session[k] = Failed /\ script'[k].step = "failed")
    BY <1>1, <1>6 DEF List, Ends, ScriptSessionInv, ScriptSession, ScriptInv
  <2>3. ScriptSession(k)'
    BY <2>1, <2>2 DEF ScriptSession, Idle
  <2> QED
    BY <1>3, <2>1, <2>3 DEF ScriptSessionInv
<1>7. ASSUME NEW k \in Script, ScriptProceeds(k) PROVE ScriptSessionInv'
  <2>1. Proceed(k) /\ k \in Session /\ Handle(k)
    BY <1>1, <1>7 DEF ScriptProceeds, Handle
  <2>2. PICK x : Goes(k, x)
    BY <2>1, HandleGoes
  <2>3. ~Idle(k)
    BY <2>1 DEF Proceed, Idle, Ended, Failed, upsert_policy_by_name, upsert_creates, Update,
                Delete, Refresh, Invalidate, Crash
  <2>4. ScriptSession(k) /\ script[k].step = "running"
    BY <2>3 DEF ScriptSessionInv, ScriptSession
  <2>5. /\ \A j \in Script \ {k} : script'[j] = script[j]
        /\ script'[k].step = "running"
    BY <1>1, <1>7, <2>4 DEF ScriptProceeds, ScriptInv
  <2>6. session'[k].step \in {"committed", "refreshed"} \/ Idle(k)'
    BY <1>1, <2>1, <2>4, ScriptProceedsTo, UpdateLeaves DEF Idle
  <2>7. ScriptSession(k)'
    BY <2>5, <2>6 DEF ScriptSession
  <2> QED
    BY <1>4, <2>2, <2>5, <2>7
<1>8. ASSUME NEW k \in Script, Turns(k),
             \/ session' = session
             \/ \E x : /\ Goes(k, x)
                       /\ \/ x \in {Ended, Failed} \/ x.step = "committed"
                          \/ x.step = "read" /\ k = "benchmark"
      PROVE  ScriptSessionInv'
  <2>1. script[k].step = "running" /\ script' = [script EXCEPT ![k].next = @ + 1]
    BY <1>8 DEF Turns
  <2>2. script'[k].step = "running" /\ \A j \in Script \ {k} : script'[j] = script[j]
    BY <1>1, <2>1 DEF ScriptInv
  <2>3. CASE session' = session
    BY <1>3, <2>1, <2>2, <2>3 DEF ScriptSessionInv, ScriptSession, Idle
  <2>4. CASE session' # session
    <3>1. PICK x : /\ Goes(k, x)
                   /\ \/ x \in {Ended, Failed} \/ x.step = "committed"
                      \/ x.step = "read" /\ k = "benchmark"
      BY <1>8, <2>4
    <3>2. session'[k] = x
      BY <1>1, <3>1, OthersStay
    <3>3. ScriptSession(k)'
      BY <2>2, <3>1, <3>2 DEF ScriptSession, Idle
    <3> QED
      BY <1>4, <2>2, <3>1, <3>3
  <2> QED
    BY <2>3, <2>4
<1>9. ASSUME NEW k \in Script, Turns(k), NEW p, NEW t, Insert(k, p, t) \/ InsertFails(k, p)
      PROVE  ScriptSessionInv'
  <2> DEFINE x == [step |-> "committed", id |-> created + 1, asked |-> p]
  <2>1. Goes(k, x) \/ Goes(k, Failed)
    BY <1>9 DEF Insert, InsertFails
  <2>2. x.step = "committed"
    OBVIOUS
  <2> HIDE DEF x
  <2> QED
    BY <1>8, <1>9, <2>1, <2>2
<1>10. CASE SeedSkips
  BY <1>8, <1>10 DEF SeedSkips, Script
<1>11. CASE SeedCreates
  BY <1>9, <1>11 DEF SeedCreates, Script
<1>12. CASE BenchmarkPosts
  BY <1>9, <1>12 DEF BenchmarkPosts, Script
<1>13. CASE BenchmarkPuts
  <2> DEFINE k == "benchmark"
             x(row) == [step |-> "read", row |-> rows[row.id], asked |-> Wanted(k), begun |-> clock]
  <2>1. Turns(k) /\ k \in Script /\ \E row : Goes(k, x(row)) \/ Goes(k, Failed)
    BY <1>13 DEF BenchmarkPuts, GetForUpdate, Script
  <2>2. \A row : x(row).step = "read"
    OBVIOUS
  <2> HIDE DEF x
  <2> QED
    BY <1>8, <2>1, <2>2
<1> QED
  BY <1>2, <1>5, <1>6, <1>7, <1>10, <1>11, <1>12, <1>13 DEF ProvisioningNext, ScriptStep

\* Initially there is no request.
LEMMA InitSessions == ProvisioningInit => ScriptSessionInv
  BY ProvisioningAssumption DEF ProvisioningInit, Init, ScriptSessionInv, ScriptSession, Idle

\* The times set aside may be fewer.
LEMMA FewerStamps ==
  ASSUME NEW R, NEW T, T \subseteq R, StampInv(R)
  PROVE  StampInv(T)
  BY DEF StampInv

\* What is set aside for the seed after a step.
LEMMA SeedStampsAre ==
  ASSUME NEW R, StampInv(R)', SeedStamps' = R
  PROVE  ScriptStampInv'
  BY DEF ScriptStampInv, StampInv

\* A step of another leaves the seed's time alone.
LEMMA SeedWaits ==
  ASSUME NEW R, StampInv(R)', SeedStamps = R,
         script'["seed"] = script["seed"], session'["seed"] = session["seed"]
  PROVE  ScriptStampInv'
<1>1. SeedStamps' = R
  BY DEF SeedStamps
<1> QED
  BY <1>1, SeedStampsAre

\* Time goes on, and the table and the requests stay as they are: what was
\* the present may be set aside.
LEMMA StampsWait ==
  ASSUME DataInv, NEW R, StampInv(R), rows' = rows, session' = session,
         clock' \in {clock, clock + 1},
         NEW T, T = R \/ (clock' = clock + 1 /\ T = R \cup {clock})
  PROVE  StampInv(T)'
<1>1. clock \in Nat
  BY DEF DataInv
<1>2. \A n \in Id : Exists(n) => rows[n].updated_at \in Nat
  BY DEF DataInv, RowsInv, Row
<1>3. \A z \in Session : Open(session[z]) => session[z].begun \in Nat
  BY DEF DataInv, AskedInv, Asked, Open
<1>4. \A n \in Id : Exists(n)' <=> Exists(n)
  BY DEF Exists
<1>5. \A n \in Id : Exists(n)' => rows'[n].updated_at < clock' /\ rows'[n].updated_at \notin T
  BY <1>1, <1>2, <1>4 DEF StampInv
<1>6. \A z \in Session :
        Open(session'[z]) => session'[z].begun < clock' /\ session'[z].begun \notin T
  BY <1>1, <1>3 DEF StampInv
<1>7. \A t \in T : t \in Nat /\ t < clock'
  BY <1>1 DEF StampInv
<1> QED
  BY <1>4, <1>5, <1>6, <1>7 DEF StampInv, Open

\* The scripts keep to it too: the seed writes one row in a transaction, and
\* reads it back in the next.
LEMMA ScriptStamps ==
  ASSUME ProvisioningInv, ScriptSessionInv, ScriptStampInv, [ProvisioningNext]_provisioningVars
  PROVE  ScriptStampInv'
<1>1. Inv /\ DataInv /\ ScriptInv /\ Script \subseteq Session /\ {"seed", "benchmark"} = Script
      /\ clock \in Nat
  BY ProvisioningAssumption DEF ProvisioningInv, DataInv, Script
<1>2. PICK R : R = SeedStamps
  OBVIOUS
<1>3. StampInv(R)
  BY <1>2 DEF ScriptStampInv
<1>4. StampInv({})
  BY <1>3, FewerStamps
<1>5. CASE UNCHANGED provisioningVars
  <2>1. rows' = rows /\ session' = session /\ script' = script /\ clock' = clock
    BY <1>5 DEF provisioningVars, vars
  <2>2. StampInv(R)'
    BY <1>1, <1>3, <2>1, StampsWait
  <2> QED
    BY <1>2, <2>1, <2>2, SeedWaits
<1>6. ASSUME NEW s \in Session \ Script, OthersStep(s) PROVE ScriptStampInv'
  <2>1. Handle(s) /\ script' = script
    BY <1>6 DEF OthersStep
  <2>2. PICK x : Goes(s, x)
    BY <2>1, HandleGoes
  <2>3. session'["seed"] = session["seed"]
    BY <1>1, <2>2, OthersStay
  <2>4. StampInv(R)'
    BY <1>1, <1>3, <2>1, HandleStamps
  <2> QED
    BY <1>2, <2>1, <2>3, <2>4, SeedWaits
<1>7. ASSUME NEW k \in Script, List(k) PROVE ScriptStampInv'
  <2>1. rows' = rows /\ session' = session /\ clock' = clock + 1
    BY <1>7 DEF List, BeginTransaction
  <2>2. CASE k = "benchmark"
    <3>1. script'["seed"] = script["seed"]
      BY <1>1, <1>7, <2>2 DEF List, ScriptInv
    <3>2. StampInv(R)'
      BY <1>1, <1>3, <2>1, StampsWait
    <3> QED
      BY <1>2, <2>1, <3>1, <3>2, SeedWaits
  <2>3. CASE k = "seed"
    <3>1. R = {}
      BY <1>2, <1>7, <2>3 DEF List, SeedStamps
    <3>2. script'["seed"].step = "running" => script'["seed"].begun = clock
      BY <1>1, <1>7, <2>3 DEF List, ScriptInv
    <3>3. PICK T : T = {clock}
      OBVIOUS
    <3>4. SeedStamps' = {} \/ SeedStamps' = T
      BY <3>2, <3>3 DEF SeedStamps
    <3>5. StampInv({})' /\ StampInv(T)'
      BY <1>1, <1>3, <2>1, <3>1, <3>3, StampsWait
    <3> QED
      BY <3>4, <3>5, SeedStampsAre
  <2> QED
    BY <1>1, <2>2, <2>3
<1>8. ASSUME NEW k \in Script, Ends(k) PROVE ScriptStampInv'
  <2>1. rows' = rows /\ session' = session /\ clock' = clock
    BY <1>8 DEF Ends, vars
  <2>2. StampInv(R)' /\ StampInv({})'
    BY <1>1, <1>3, <1>4, <2>1, StampsWait
  <2>3. script'["seed"] = script["seed"] \/ script'["seed"].step # "running"
    BY <1>1, <1>8 DEF Ends, ScriptInv
  <2>4. SeedStamps' = R \/ SeedStamps' = {}
    BY <1>2, <2>1, <2>3 DEF SeedStamps
  <2> QED
    BY <2>2, <2>4, SeedStampsAre
<1>9. ASSUME NEW k \in Script, ScriptProceeds(k) PROVE ScriptStampInv'
  <2>1. Proceed(k) /\ k \in Session /\ ScriptSession(k)
    BY <1>1, <1>9 DEF ScriptProceeds, ScriptSessionInv
  <2>2. CASE k = "benchmark"
    <3>1. PICK x : Goes(k, x)
      BY <2>1, HandleGoes DEF Handle
    <3>2. session'["seed"] = session["seed"]
      BY <1>1, <2>1, <2>2, <3>1, OthersStay
    <3>3. script'["seed"] = script["seed"]
      BY <1>1, <1>9, <2>2 DEF ScriptProceeds, ScriptInv
    <3>4. StampInv(R)'
      BY <1>1, <1>3, <2>1, ProceedStamps
    <3> QED
      BY <1>2, <3>2, <3>3, <3>4, SeedWaits
  <2>3. CASE k = "seed"
    <3>1. PICK x : Goes(k, x)
      BY <2>1, HandleGoes DEF Handle
    <3>2. session[k].step # "read"
      BY <2>1, <2>3 DEF ScriptSession, Idle, Ended, Failed
    <3>3. CASE session[k].step = "committed" /\ Refresh(k) /\ rows' = rows /\ clock' = clock + 1
               /\ (session'[k].step = "refreshed" \/ session'[k] = Failed)
      <4>1. R = {}
        BY <1>2, <2>3, <3>3 DEF SeedStamps
      <4>2. script[k].step = "running"
        BY <2>1, <3>3 DEF ScriptSession, Idle, Ended, Failed
      <4>3. script'[k].begun = clock /\ script'[k].step = "running"
        BY <1>1, <1>9, <3>3, <4>2 DEF ScriptProceeds, ScriptInv
      <4>4. PICK T : T = {clock}
        OBVIOUS
      <4>5. SeedStamps' = {} \/ SeedStamps' = T
        BY <2>3, <4>3, <4>4 DEF SeedStamps
      <4>6. ~Open(session'[k])
        BY <3>3 DEF Open, Failed
      <4>7. StampInv({})'
        BY <1>1, <1>4, <2>1, ProceedStamps
      <4>8. StampInv(T)'
        <5>1. \A n \in Id : Exists(n)' => Exists(n) /\ rows'[n] = rows[n]
          BY <3>3 DEF Exists
        <5>2. \A n \in Id : Exists(n)' => rows'[n].updated_at \notin T
          BY <1>1, <1>4, <4>4, <5>1, NowIsNew
        <5>3. \A z \in Session : Open(session'[z]) => session'[z] = session[z]
          BY <1>1, <2>1, <3>1, <4>6, OthersStay
        <5>4. \A z \in Session : Open(session'[z]) => session'[z].begun \notin T
          BY <1>1, <1>4, <4>4, <5>3, NowIsNew
        <5>5. \A t \in T : t \in Nat /\ t < clock'
          BY <1>1, <3>3, <4>4
        <5> QED
          BY <4>7, <5>2, <5>4, <5>5 DEF StampInv, Open
      <4> QED
        BY <4>5, <4>7, <4>8, SeedStampsAre
    <3>4. CASE session[k].step # "committed" /\ session'[k] \in {Ended, Failed}
      <4>1. StampInv(R)' /\ StampInv({})'
        BY <1>1, <1>3, <1>4, <2>1, ProceedStamps
      <4>2. script' = script
        BY <1>9, <3>4 DEF ScriptProceeds
      <4>3. session[k].step = "refreshed" \/ session'[k] = Failed
        BY <1>1, <2>1, <3>2, <3>4, ScriptProceedsTo
      <4>4. SeedStamps' = R \/ SeedStamps' = {}
        BY <1>2, <2>3, <4>2, <4>3 DEF SeedStamps, Failed
      <4> QED
        BY <4>1, <4>4, SeedStampsAre
    <3>5. CASE session[k].step = "committed" /\ session'[k] = Failed
      <4>1. SeedStamps' = {}
        BY <2>3, <3>5 DEF SeedStamps, Failed
      <4>2. StampInv({})'
        BY <1>1, <1>4, <2>1, ProceedStamps
      <4> QED
        BY <4>1, <4>2, SeedStampsAre
    <3> QED
      BY <1>1, <2>1, <3>2, <3>3, <3>4, <3>5, ScriptProceedsTo
  <2> QED
    BY <1>1, <2>2, <2>3
<1>10. CASE SeedSkips
  <2>1. rows' = rows /\ session' = session /\ clock' = clock
    BY <1>10 DEF SeedSkips
  <2>2. StampInv(R)'
    BY <1>1, <1>3, <2>1, StampsWait
  <2>3. script["seed"].step = "running" /\ script'["seed"].step = "running"
        /\ script'["seed"].begun = script["seed"].begun
    BY <1>1, <1>10 DEF SeedSkips, Turns, ScriptInv
  <2>4. SeedStamps' = R
    BY <1>2, <2>1, <2>3 DEF SeedStamps
  <2> QED
    BY <2>2, <2>4, SeedStampsAre
<1>11. CASE SeedCreates
  <2> DEFINE p == PolicyCreate(Wanted("seed"))
  <2>1. /\ Turns("seed") /\ clock' = clock /\ "seed" \in Session
        /\ Insert("seed", p, script["seed"].begun) \/ InsertFails("seed", p)
    BY <1>1, <1>11 DEF SeedCreates
  <2> HIDE DEF p
  <2>2. PICK t : t = script["seed"].begun
    OBVIOUS
  <2>3. script["seed"].step = "running" /\ session["seed"].step = "ok"
    BY <2>1 DEF Turns, Ended
  <2>4. R = {t}
    BY <1>2, <2>2, <2>3 DEF SeedStamps
  <2>5. session'["seed"].step \in {"committed", "failed"}
    BY <1>1, <2>1, InsertLeaves DEF Failed
  <2>6. SeedStamps' = {}
    BY <2>5 DEF SeedStamps
  <2>7. CASE Insert("seed", p, t)
    <3>1. t \in Nat /\ t < clock'
      BY <1>3, <2>1, <2>4 DEF StampInv
    <3>2. /\ \A n \in Id : Exists(n) => rows[n].updated_at # t
          /\ \A z \in Session : Open(session[z]) => session[z].begun # t
      BY <1>3, <2>4 DEF StampInv
    <3>3. t \notin {}
      OBVIOUS
    <3>4. StampInv({})'
      BY <1>1, <1>4, <2>1, <2>7, <3>1, <3>2, <3>3, InsertStamps
    <3> QED
      BY <2>6, <3>4, SeedStampsAre
  <2>8. CASE InsertFails("seed", p)
    <3>1. StampInv({})'
      BY <1>1, <1>4, <2>1, <2>8, OtherStamps DEF InsertFails, Failed
    <3> QED
      BY <2>6, <3>1, SeedStampsAre
  <2> QED
    BY <2>1, <2>2, <2>7, <2>8
<1>12. ASSUME Turns("benchmark"), StampInv(R)', NEW x, Goes("benchmark", x) PROVE ScriptStampInv'
  <2>1. script'["seed"] = script["seed"]
    BY <1>1, <1>12 DEF Turns, ScriptInv
  <2>2. session'["seed"] = session["seed"]
    BY <1>1, <1>12, OthersStay
  <2> QED
    BY <1>2, <1>12, <2>1, <2>2, SeedWaits
<1>13. CASE BenchmarkPosts
  <2> DEFINE p == PolicyCreate(Wanted("benchmark"))
             x == [step |-> "committed", id |-> created + 1, asked |-> p]
  <2>1. /\ Turns("benchmark") /\ clock' = clock + 1 /\ "benchmark" \in Session
        /\ Insert("benchmark", p, clock) \/ InsertFails("benchmark", p)
    BY <1>1, <1>13 DEF BenchmarkPosts, BeginTransaction
  <2>2. CASE Insert("benchmark", p, clock)
    <3>1. Goes("benchmark", x)
      BY <2>2 DEF Insert
    <3> HIDE DEF p, x
    <3>2. StampInv(R)'
      BY <1>1, <1>3, <2>1, <2>2, NowIsNew, InsertStamps
    <3> QED
      BY <1>12, <2>1, <3>1, <3>2
  <2>3. CASE InsertFails("benchmark", p)
    <3> HIDE DEF p, x
    <3>1. Goes("benchmark", Failed) /\ rows' = rows
      BY <2>3 DEF InsertFails
    <3>2. StampInv(R)'
      BY <1>1, <1>3, <2>1, <3>1, OtherStamps DEF Failed
    <3> QED
      BY <1>12, <2>1, <3>1, <3>2
  <2> QED
    BY <2>1, <2>2, <2>3
<1>14. CASE BenchmarkPuts
  <2> DEFINE k == "benchmark"
             x(row) == [step |-> "read", row |-> rows[row.id], asked |-> Wanted(k), begun |-> clock]
  <2>1. Turns(k) /\ k \in Session
    BY <1>1, <1>14 DEF BenchmarkPuts
  <2>2. PICK row \in Known(k) :
          \/ GetForUpdate(k, row.id, Wanted(k))
          \/ Goes(k, Failed) /\ rows' = rows /\ clock' = clock + 1
    BY <1>14 DEF BenchmarkPuts, BeginTransaction
  <2>3. CASE GetForUpdate(k, row.id, Wanted(k))
    <3>1. Goes(k, x(row))
      BY <2>3 DEF GetForUpdate
    <3> HIDE DEF x
    <3>2. StampInv(R)'
      BY <1>1, <1>3, <2>1, <2>3, GetStamps
    <3> QED
      BY <1>12, <2>1, <3>1, <3>2
  <2>4. CASE Goes(k, Failed) /\ rows' = rows /\ clock' = clock + 1
    <3>1. StampInv(R)'
      BY <1>1, <1>3, <2>1, <2>4, OtherStamps DEF Failed
    <3> QED
      BY <1>12, <2>1, <2>4, <3>1
  <2> QED
    BY <2>2, <2>3, <2>4
<1> QED
  BY <1>5, <1>6, <1>7, <1>8, <1>9, <1>10, <1>11, <1>13, <1>14 DEF ProvisioningNext, ScriptStep

\* Initially the seed has not begun.
LEMMA InitScriptStamps == ProvisioningInit => ScriptStampInv
<1> SUFFICES ASSUME ProvisioningInit PROVE ScriptStampInv
  OBVIOUS
<1>1. script["seed"].step # "running"
  BY DEF ProvisioningInit, Script
<1>2. SeedStamps = {}
  BY <1>1 DEF SeedStamps
<1> QED
  BY <1>2, InitStamps DEF ProvisioningInit, ScriptStampInv

(***************************************************************************)
(* The same with the scripts running: the seed, which writes many rows in  *)
(* one session, commits after each and reads it back in a new transaction. *)
(***************************************************************************)
THEOREM ScriptsKeepResolving ==
  ASSUME "id" \notin DOMAIN Null
  PROVE  ProvisioningSpec => []MostSpecificWins
<1>1. ProvisioningInv /\ ScriptStampInv => MostSpecificWins
  <2> SUFFICES ASSUME ProvisioningInv, ScriptStampInv PROVE MostSpecificWins
    OBVIOUS
  <2>1. Ordered(Listed(TRUE)) /\ \A row \in Listed(TRUE) : "id" \in DOMAIN row
    BY ListedOrdered DEF ProvisioningInv, ScriptStampInv
  <2> QED
    BY <2>1, MostSpecific
<1> QED
  BY <1>1, InitSessions, InitScriptStamps, ScriptSessions, ScriptStamps, ProvisioningInvHolds, PTL
     DEF ProvisioningSpec
-----------------------------------------------------------------------------
\* The row is what script k wants of payload p.
Meets(k, p, row) ==
  /\ row.name = p.name
  /\ k = "benchmark" => row.active /\ \A c \in DOMAIN p : row[c] = p[c]

Done(k, n) == \E id \in Id : Exists(id) /\ Meets(k, Payloads(k)[n], rows[id])

\* What script k listed is still there, of the same name.
Kept(k) ==
  \A e \in script[k].existing :
    /\ e.id \in Id /\ Exists(e.id) /\ rows[e.id].name = e.name
    /\ k = "benchmark" => rows[e.id].active

\* The PUT in hand is for the last policy turned to, and the row is as it
\* was read.
Writing(k) ==
  LET x == session[k]
      n == script[k].next - 1
  IN  /\ k = "benchmark"
      /\ n \in DOMAIN Payloads(k)
      /\ x.asked = Payloads(k)[n]
      /\ x.row.id \in Id /\ Exists(x.row.id) /\ rows[x.row.id] = x.row
      /\ x.row.name = x.asked.name /\ x.row.active

(***************************************************************************)
(* How far a script that nobody interfered with has come: all policies it  *)
(* has turned to are done, up to one that is being written.                *)
(***************************************************************************)
Progress(k) ==
  /\ script[k].step = "running" /\ session[k] # Failed =>
       /\ Kept(k)
       /\ \A n \in DOMAIN Payloads(k) : n < script[k].next =>
            Done(k, n) \/ (session[k].step = "read" /\ n = script[k].next - 1)
       /\ session[k].step = "read" => Writing(k)
  /\ script[k].step = "ok" => \A n \in DOMAIN Payloads(k) : Done(k, n)

ProgressInv == alone \subseteq Script /\ \A k \in alone : Progress(k)

\* The payloads of a script have names, all different, and none says whether
\* its policy is active.
LEMMA PayloadNames ==
  ASSUME NEW k
  PROVE  /\ Len(Payloads(k)) \in Nat /\ DOMAIN Payloads(k) = 1..Len(Payloads(k))
         /\ \A n \in DOMAIN Payloads(k) :
              "name" \in DOMAIN Payloads(k)[n] /\ "active" \notin DOMAIN Payloads(k)[n]
         /\ \A m, n \in DOMAIN Payloads(k) : Payloads(k)[m].name = Payloads(k)[n].name => m = n
<1>1. /\ Len(seed_policies) \in Nat /\ DOMAIN seed_policies = 1..Len(seed_policies)
      /\ \A n \in DOMAIN seed_policies :
           "name" \in DOMAIN seed_policies[n] /\ "active" \notin DOMAIN seed_policies[n]
  BY DEF seed_policies
<1>2. \A m, n \in DOMAIN seed_policies : seed_policies[m].name = seed_policies[n].name => m = n
  BY DEF seed_policies
<1>3. /\ Len(benchmark_policy_payloads) \in Nat
      /\ DOMAIN benchmark_policy_payloads = 1..Len(benchmark_policy_payloads)
  <2> DEFINE B == benchmark_policy_payloads
  <2>1. \/ \E a : B = <<a>>
        \/ \E a, b : B = <<a, b>>
        \/ \E a, b, c : B = <<a, b, c>>
    BY DEF benchmark_policy_payloads
  <2> HIDE DEF B
  <2>2. Len(B) \in Nat /\ DOMAIN B = 1..Len(B)
    BY <2>1
  <2> QED
    BY <2>2 DEF B
<1>5. \A n \in DOMAIN benchmark_policy_payloads :
        /\ "name" \in DOMAIN benchmark_policy_payloads[n]
        /\ "active" \notin DOMAIN benchmark_policy_payloads[n]
  BY DEF benchmark_policy_payloads
<1>4. \A m, n \in DOMAIN benchmark_policy_payloads :
        benchmark_policy_payloads[m].name = benchmark_policy_payloads[n].name => m = n
  BY DEF benchmark_policy_payloads
<1> QED
  BY <1>1, <1>2, <1>3, <1>4, <1>5 DEF Payloads

\* The plan stays, and so do the payloads.
LEMMA PayloadsStay ==
  ASSUME plan' = plan, NEW k
  PROVE  Payloads(k)' = Payloads(k)
  BY DEF Payloads, benchmark_policy_payloads

\* What is done stays done while the table stays.
LEMMA DoneStays ==
  ASSUME rows' = rows, plan' = plan, NEW k, NEW n
  PROVE  Done(k, n)' <=> Done(k, n)
<1>1. Payloads(k)' = Payloads(k)
  BY PayloadsStay
<1> QED
  BY <1>1 DEF Done, Exists, Meets

\* Nothing happens to the script, and the table stays.
LEMMA ProgressStays ==
  ASSUME NEW k, Progress(k), rows' = rows, plan' = plan, script'[k] = script[k],
         session'[k] = session[k]
  PROVE  Progress(k)'
<1>1. Payloads(k)' = Payloads(k)
  BY PayloadsStay
<1>2. \A n : Done(k, n)' <=> Done(k, n)
  BY DoneStays
<1>3. \A id : Exists(id)' <=> Exists(id)
  BY DEF Exists
<1>4. Kept(k)' <=> Kept(k)
  BY <1>3 DEF Kept
<1>5. Writing(k)' <=> Writing(k)
  BY <1>1, <1>3 DEF Writing
<1> QED
  BY <1>1, <1>2, <1>4, <1>5 DEF Progress

\* The script goes on, having nothing to write; the table stays.
LEMMA ProgressMoves ==
  ASSUME NEW k, Progress(k), rows' = rows, plan' = plan,
         script[k].step = "running", session[k] # Failed, session[k].step # "read",
         script'[k].step = "running", script'[k].existing = script[k].existing,
         script'[k].next = script[k].next, session'[k].step # "read"
  PROVE  Progress(k)'
<1>1. Payloads(k)' = Payloads(k)
  BY PayloadsStay
<1>2. \A n : Done(k, n)' <=> Done(k, n)
  BY DoneStays
<1>3. \A id : Exists(id)' <=> Exists(id)
  BY DEF Exists
<1>4. Kept(k)'
  BY <1>3 DEF Kept, Progress
<1> QED
  BY <1>1, <1>2, <1>4 DEF Progress

\* A script that has failed promises nothing.
LEMMA ProgressFails ==
  ASSUME NEW k, script'[k].step = "failed" \/ (script'[k].step = "running" /\ session'[k] = Failed)
  PROVE  Progress(k)'
  BY DEF Progress

\* The step of another does not take anything back, or the script is no
\* longer alone.
LEMMA ProgressOfOthers ==
  ASSUME Inv, NEW k, ProgressInv, NEW s, s # k, k \in Session,
         k \in alone', plan' = plan, script'[k] = script[k], session'[k] = session[k],
         Disturbs(s) \/ (rows' = rows /\ alone' \subseteq alone \cup {s})
  PROVE  k \in Script /\ Progress(k)'
<1>1. rows' = rows /\ k \in alone
  BY DEF Disturbs
<1> QED
  BY <1>1, ProgressStays DEF ProgressInv

\* A row is written that is new, or that stood for payload m: the others stay done.
LEMMA DoneKept ==
  ASSUME Inv, plan' = plan, NEW k, NEW n, Done(k, n), NEW id \in Id, NEW row, Commits(id, row),
         Exists(id) => rows[id].name # Payloads(k)[n].name
  PROVE  Done(k, n)'
<1>1. Payloads(k)' = Payloads(k)
  BY PayloadsStay
<1>2. PICK i \in Id : Exists(i) /\ Meets(k, Payloads(k)[n], rows[i])
  BY DEF Done
<1>3. i # id
  BY <1>2 DEF Meets
<1>4. rows'[i] = rows[i]
  BY <1>3 DEF Commits, Inv, TableInv
<1> QED
  BY <1>1, <1>2, <1>4 DEF Done, Exists, Meets

\* Script k writes the row it wants for payload m: a new one, or the one of
\* that name.
LEMMA ProgressWrites ==
  ASSUME Inv, NEW k, Progress(k), plan' = plan, script[k].step = "running", session[k] # Failed,
         NEW id \in Id, NEW row, Commits(id, row), row # NoRow,
         NEW m \in DOMAIN Payloads(k), Exists(id) => rows[id].name = Payloads(k)[m].name,
         Meets(k, Payloads(k)[m], row), \A n \in DOMAIN Payloads(k) : n < m => Done(k, n),
         script'[k].step = "running", script'[k].existing = script[k].existing,
         script'[k].next = m + 1, session'[k].step # "read"
  PROVE  Progress(k)'
<1>1. Payloads(k)' = Payloads(k)
  BY PayloadsStay
<1>2. \A n \in Id : rows'[n] = IF n = id THEN row ELSE rows[n]
  BY DEF Commits, Inv, TableInv
<1>3. \A n \in Id : Exists(n)' <=> n = id \/ Exists(n)
  BY <1>2 DEF Exists
<1>4. Done(k, m)'
  BY <1>1, <1>2, <1>3 DEF Done, Meets
<1>5. ASSUME NEW n \in DOMAIN Payloads(k), n < m PROVE Done(k, n)'
  <2>1. n # m /\ m \in Int
    BY <1>5, PayloadNames
  <2>2. Payloads(k)[n].name # Payloads(k)[m].name
    BY <2>1, PayloadNames
  <2>3. Done(k, n)
    BY <1>5
  <2> QED
    BY <2>2, <2>3, DoneKept
<1>6. Kept(k)
  BY DEF Progress
<1>7. Kept(k)'
  BY <1>2, <1>3, <1>6 DEF Kept, Meets
<1>8. \A n \in DOMAIN Payloads(k) : n < m + 1 => n < m \/ n = m
  BY PayloadNames
<1> QED
  BY <1>1, <1>4, <1>5, <1>7, <1>8 DEF Progress

\* What a script finds when it turns to a policy.
LEMMA TurnsFinds ==
  ASSUME ProvisioningInv, NEW k \in Script, Turns(k), Progress(k)
  PROVE  /\ script[k].step = "running" /\ session[k] = Ended /\ session[k] # Failed /\ plan' = plan
         /\ script[k].next \in DOMAIN Payloads(k) /\ Parsed(Wanted(k))
         /\ script'[k].step = "running" /\ script'[k].existing = script[k].existing
         /\ script'[k].next = script[k].next + 1
         /\ \A j \in Script \ {k} : script'[j] = script[j]
         /\ Kept(k) /\ \A n \in DOMAIN Payloads(k) : n < script[k].next => Done(k, n)
<1>1. /\ script[k].step = "running" /\ session[k] = Ended /\ plan' = plan
      /\ script[k].next <= Len(Payloads(k)) /\ script' = [script EXCEPT ![k].next = @ + 1]
  BY DEF Turns
<1>2. ScriptInv
  BY DEF ProvisioningInv
<1>3. session[k] # Failed /\ session[k].step # "read"
  BY <1>1 DEF Ended, Failed
<1>4. script[k].next \in 1..Len(Payloads(k))
  BY <1>1, <1>2, PayloadNames DEF ScriptInv
<1>5. Parsed(Wanted(k))
  BY <1>4, PayloadsParsed DEF Wanted
<1>6. /\ script'[k].step = "running" /\ script'[k].existing = script[k].existing
      /\ script'[k].next = script[k].next + 1
      /\ \A j \in Script \ {k} : script'[j] = script[j]
  BY <1>1, <1>2 DEF ScriptInv
<1>7. Kept(k) /\ \A n \in DOMAIN Payloads(k) : n < script[k].next => Done(k, n)
  BY <1>1, <1>3 DEF Progress
<1> QED
  BY <1>1, <1>3, <1>4, <1>5, <1>6, <1>7, PayloadNames

\* A policy of that name is there already.
LEMMA SkipProgress ==
  ASSUME ProvisioningInv, SeedSkips, Progress("seed")
  PROVE  Progress("seed")'
<1>1. Turns("seed") /\ Known("seed") # {} /\ rows' = rows /\ session' = session
  BY DEF SeedSkips
<1>2. "seed" \in Script
  BY DEF Script
<1>3. PICK k : k = "seed"
  OBVIOUS
<1>4. /\ script[k].step = "running" /\ session[k] = Ended /\ plan' = plan
      /\ script[k].next \in DOMAIN Payloads(k)
      /\ script'[k].step = "running" /\ script'[k].existing = script[k].existing
      /\ script'[k].next = script[k].next + 1
      /\ Kept(k) /\ \A n \in DOMAIN Payloads(k) : n < script[k].next => Done(k, n)
  BY <1>1, <1>2, <1>3, TurnsFinds
<1>5. PICK e \in script[k].existing : e.name = Payloads(k)[script[k].next].name
  BY <1>1, <1>3 DEF Known, Wanted
<1>6. Done(k, script[k].next)
  BY <1>3, <1>4, <1>5 DEF Kept, Done, Meets
<1>7. Payloads(k)' = Payloads(k) /\ \A n : Done(k, n)' <=> Done(k, n)
  BY <1>1, <1>4, PayloadsStay, DoneStays
<1>8. Kept(k)'
  BY <1>1, <1>4 DEF Kept, Exists
<1>9. \A n \in DOMAIN Payloads(k) :
        n < script[k].next + 1 => n < script[k].next \/ n = script[k].next
  BY <1>4, PayloadNames
<1>10. session'[k].step # "read"
  BY <1>1, <1>4 DEF Ended
<1> QED
  BY <1>3, <1>4, <1>6, <1>7, <1>8, <1>9, <1>10 DEF Progress

\* A policy is created as its payload says.
LEMMA CreateProgress ==
  ASSUME ProvisioningInv, NEW k \in Script, Turns(k), Progress(k), NEW t,
         Insert(k, PolicyCreate(Wanted(k)), t) \/ InsertFails(k, PolicyCreate(Wanted(k)))
  PROVE  Progress(k)'
<1>1. Inv /\ k \in Session
  BY ProvisioningAssumption DEF ProvisioningInv
<1>2. /\ script[k].step = "running" /\ session[k] # Failed /\ plan' = plan
      /\ script[k].next \in DOMAIN Payloads(k) /\ Parsed(Wanted(k))
      /\ script'[k].step = "running" /\ script'[k].existing = script[k].existing
      /\ script'[k].next = script[k].next + 1
      /\ \A n \in DOMAIN Payloads(k) : n < script[k].next => Done(k, n)
  BY TurnsFinds
<1> DEFINE p == PolicyCreate(Wanted(k))
           id == created + 1
           row == [c \in Column \cup {"id", "version", "updated_at"} |->
                     IF c \in Column THEN p[c]
                     ELSE IF c = "id" THEN id ELSE IF c = "version" THEN 1 ELSE t]
<1>3. CASE Insert(k, p, t)
  <2>1. id \in Id /\ Commits(id, row)
    BY <1>3 DEF Insert
  <2>2. ~Exists(id)
    BY <1>1, <2>1 DEF Inv, TableInv
  <2>3. row.id = id
    BY ColumnNames
  <2>4. row # NoRow
    BY <2>1, <2>3, RowIsThere
  <2>5. /\ "name" \in DOMAIN Wanted(k) /\ "active" \notin DOMAIN Wanted(k)
        /\ DOMAIN Wanted(k) \subseteq Column
    BY <1>2, PayloadNames DEF Wanted, Parsed
  <2>6. p.active = TRUE /\ \A c \in DOMAIN Wanted(k) : p[c] = Wanted(k)[c]
    BY <2>5 DEF PolicyCreate, defaults, Column
  <2>7. \A c \in Column : row[c] = p[c]
    OBVIOUS
  <2> HIDE DEF p, row, id
  <2>8. Meets(k, Wanted(k), row)
    BY <2>5, <2>6, <2>7 DEF Meets, Column
  <2>9. session'[k].step # "read"
    BY <1>1, <1>3, InsertLeaves
  <2>10. PICK m : m = script[k].next
    OBVIOUS
  <2> QED
    BY <1>1, <1>2, <2>1, <2>2, <2>4, <2>8, <2>9, <2>10, ProgressWrites DEF Wanted
<1>4. CASE InsertFails(k, p)
  <2>1. session'[k] = Failed
    BY <1>1, <1>4, InsertLeaves
  <2> QED
    BY <1>2, <2>1, ProgressFails
<1> QED
  BY <1>3, <1>4

\* A policy that was listed is read, to be changed.
LEMMA PutProgress ==
  ASSUME ProvisioningInv, BenchmarkPuts, Progress("benchmark")
  PROVE  Progress("benchmark")'
<1> DEFINE x(e, k) == [step |-> "read", row |-> rows[e.id], asked |-> Wanted(k), begun |-> clock]
<1>1. Inv /\ "benchmark" \in Session /\ "benchmark" \in Script
  BY ProvisioningAssumption DEF ProvisioningInv, Script
<1>2. PICK k : k = "benchmark"
  OBVIOUS
<1>3. Turns(k) /\ rows' = rows
  BY <1>2 DEF BenchmarkPuts, GetForUpdate
<1>4. /\ script[k].step = "running" /\ plan' = plan
      /\ script[k].next \in DOMAIN Payloads(k)
      /\ script'[k].step = "running" /\ script'[k].existing = script[k].existing
      /\ script'[k].next = script[k].next + 1
      /\ Kept(k) /\ \A n \in DOMAIN Payloads(k) : n < script[k].next => Done(k, n)
  BY <1>1, <1>2, <1>3, TurnsFinds
<1>5. PICK e \in Known(k) : GetForUpdate(k, e.id, Wanted(k)) \/ Goes(k, Failed)
  BY <1>2 DEF BenchmarkPuts
<1>6. CASE Goes(k, Failed)
  <2>1. session'[k] = Failed
    BY <1>1, <1>2, <1>6, OthersStay
  <2> QED
    BY <1>2, <1>4, <2>1, ProgressFails
<1>7. CASE GetForUpdate(k, e.id, Wanted(k))
  <2>1. Goes(k, x(e, k))
    BY <1>7 DEF GetForUpdate
  <2>2. /\ x(e, k).step = "read" /\ x(e, k).row = rows[e.id] /\ x(e, k).asked = Wanted(k)
    OBVIOUS
  <2> HIDE DEF x
  <2>3. session'[k] = x(e, k)
    BY <1>1, <1>2, <2>1, OthersStay
  <2>4. Payloads(k)' = Payloads(k) /\ \A n : Done(k, n)' <=> Done(k, n)
    BY <1>3, <1>4, PayloadsStay, DoneStays
  <2>5. Kept(k)'
    BY <1>3, <1>4 DEF Kept, Exists
  <2>6. e \in script[k].existing /\ e.name = Wanted(k).name
    BY DEF Known
  <2>7. e.id \in Id /\ Exists(e.id) /\ rows[e.id].name = Wanted(k).name /\ rows[e.id].active
    BY <1>2, <1>4, <2>6 DEF Kept
  <2>8. rows[e.id].id = e.id
    BY <1>1, <2>7 DEF Inv, TableInv
  <2>9. script'[k].next - 1 = script[k].next
    BY <1>4, PayloadNames
  <2>10. Writing(k)'
    BY <1>2, <1>3, <1>4, <2>2, <2>3, <2>4, <2>7, <2>8, <2>9 DEF Writing, Wanted, Exists
  <2>11. \A n \in DOMAIN Payloads(k) :
           n < script'[k].next => n < script[k].next \/ n = script'[k].next - 1
    BY <1>4, <2>9, PayloadNames
  <2> QED
    BY <1>2, <1>4, <2>2, <2>3, <2>4, <2>5, <2>10, <2>11 DEF Progress
<1> QED
  BY <1>5, <1>6, <1>7

\* The change is written.
LEMMA UpdateProgress ==
  ASSUME ProvisioningInv, NEW k \in Script, Progress(k), script[k].step = "running", Update(k),
         plan' = plan, script'[k] = script[k]
  PROVE  Progress(k)'
<1> DEFINE old == session[k].row
           id == old.id
           now == IF Exists(id) THEN rows[id] ELSE old
           row == Updated(now, old, session[k].asked, session[k].begun)
<1>1. Inv /\ DataInv /\ k \in Session /\ session[k].step = "read" /\ session[k] # Failed
  BY ProvisioningAssumption DEF ProvisioningInv, Update, Failed
<1>2. Writing(k) /\ \A n \in DOMAIN Payloads(k) :
        n < script[k].next => Done(k, n) \/ n = script[k].next - 1
  BY <1>1 DEF Progress
<1>3. CASE session'[k] = Failed
  BY <1>3, ProgressFails
<1>4. CASE session'[k] # Failed
  <2>1. ~Goes(k, Failed)
    BY <1>1, <1>4, OthersStay
  <2>2. Commits(id, row)
    BY <2>1 DEF Update
  <2>3. PICK m : m = script[k].next - 1
    OBVIOUS
  <2>4. /\ k = "benchmark" /\ m \in DOMAIN Payloads(k) /\ session[k].asked = Payloads(k)[m]
        /\ id \in Id /\ Exists(id) /\ rows[id] = old /\ now = old
        /\ old.name = Payloads(k)[m].name /\ old.active
    BY <1>2, <2>3 DEF Writing
  <2>5. Row(old, clock) /\ DOMAIN Payloads(k)[m] \subseteq Column
    BY <1>1, <2>4 DEF DataInv, AskedInv, Asked, Parsed
  <2>6. "name" \in DOMAIN Payloads(k)[m] /\ "active" \notin DOMAIN Payloads(k)[m]
    BY <2>4, PayloadNames
  <2>7. DOMAIN old = Column \cup {"id", "version", "updated_at"}
    BY <2>5 DEF Row
  <2>8. row = Updated(old, old, Payloads(k)[m], session[k].begun)
    BY <2>4
  <2>9. /\ \A c \in DOMAIN Payloads(k)[m] : row[c] = Payloads(k)[m][c]
        /\ row.active = old.active /\ row.id = old.id
    BY <2>5, <2>6, <2>7, <2>8, ColumnNames DEF Updated
  <2> HIDE DEF row
  <2>10. Meets(k, Payloads(k)[m], row)
    BY <2>4, <2>6, <2>9 DEF Meets
  <2>11. row # NoRow
    BY <2>4, <2>9, RowIsThere
  <2>12. /\ m + 1 = script[k].next
         /\ \A n \in DOMAIN Payloads(k) : n < m => n < script[k].next /\ n # m
    <3>1. script[k].next \in Nat
      BY DEF ProvisioningInv, ScriptInv
    <3> QED
      BY <2>3, <3>1, PayloadNames
  <2>13. session'[k].step # "read"
    BY <1>1, <1>4, UpdateLeaves
  <2> HIDE DEF id, now, old
  <2> QED
    BY <1>1, <1>2, <2>2, <2>3, <2>4, <2>10, <2>11, <2>12, <2>13, ProgressWrites
<1> QED
  BY <1>3, <1>4

\* A request of the script goes on.
LEMMA ProceedsProgress ==
  ASSUME ProvisioningInv, NEW k \in Script, ScriptSession(k), Progress(k), ScriptProceeds(k)
  PROVE  Progress(k)'
<1>1. Inv /\ ScriptInv /\ k \in Session
  BY ProvisioningAssumption DEF ProvisioningInv
<1>2. Proceed(k) /\ plan' = plan
  BY DEF ScriptProceeds
<1>3. ~Idle(k)
  BY <1>2 DEF Proceed, Idle, Ended, Failed, upsert_policy_by_name, upsert_creates, Update,
              Delete, Refresh, Invalidate, Crash
<1>4. script[k].step = "running" /\ session[k] # Failed
  BY <1>3 DEF ScriptSession, Idle
<1>5. /\ script'[k].step = "running" /\ script'[k].existing = script[k].existing
      /\ script'[k].next = script[k].next
      /\ session[k].step # "committed" => script'[k] = script[k]
  BY <1>1, <1>4 DEF ScriptProceeds, ScriptInv
<1>6. CASE Update(k) /\ session[k].step = "read"
  BY <1>2, <1>4, <1>5, <1>6, UpdateProgress
<1>7. CASE session'[k] = Failed
  BY <1>5, <1>7, ProgressFails
<1>8. CASE /\ session[k].step \in {"committed", "refreshed"} /\ rows' = rows
           /\ session'[k].step = "refreshed" \/ session'[k] = Ended
  <2>1. session'[k].step # "read" /\ session[k].step # "read"
    BY <1>8 DEF Ended
  <2> QED
    BY <1>2, <1>4, <1>5, <1>8, <2>1, ProgressMoves
<1> QED
  BY <1>1, <1>2, <1>6, <1>7, <1>8, ScriptProceedsTo

\* A script starts: what it lists is there.
LEMMA ListProgress ==
  ASSUME ProvisioningInv, NEW k \in Script, ScriptSession(k), List(k)
  PROVE  Progress(k)'
<1>1. Inv /\ ScriptInv
  BY DEF ProvisioningInv
<1>2. script[k].step = "start" /\ session' = session /\ rows' = rows /\ plan' = plan
  BY DEF List
<1>3. CASE ListFails(ActiveOnly(k))
  <2>1. script'[k].step = "failed"
    BY <1>1, <1>3 DEF List, ScriptInv
  <2> QED
    BY <2>1, ProgressFails
<1>4. CASE ~ListFails(ActiveOnly(k))
  <2>1. script'[k] = [step |-> "running", next |-> 1, begun |-> clock,
                      existing |-> Listed(ActiveOnly(k))]
    BY <1>1, <1>4 DEF List, ScriptInv
  <2>2. /\ script'[k].step = "running" /\ script'[k].next = 1
        /\ script'[k].existing = Listed(ActiveOnly(k))
    BY <2>1
  <2>3. session'[k].step # "read"
    BY <1>2 DEF ScriptSession, Ended
  <2>4. \A e \in Listed(ActiveOnly(k)) :
          /\ e.id \in Id /\ Exists(e.id) /\ rows[e.id].name = e.name
          /\ k = "benchmark" => rows[e.id].active
    BY <1>1 DEF Listed, ActiveOnly, Inv, TableInv
  <2>5. Kept(k)'
    BY <1>2, <2>2, <2>4 DEF Kept, Exists
  <2>6. Payloads(k)' = Payloads(k)
    BY <1>2, PayloadsStay
  <2>7. \A n \in DOMAIN Payloads(k) : ~(n < 1)
    BY PayloadNames
  <2> QED
    BY <2>2, <2>3, <2>5, <2>6, <2>7 DEF Progress
<1> QED
  BY <1>3, <1>4

\* A script ends: it has turned to every policy.
LEMMA EndProgress ==
  ASSUME ProvisioningInv, NEW k \in Script, Progress(k), Ends(k)
  PROVE  Progress(k)'
<1>1. Inv /\ ScriptInv
  BY DEF ProvisioningInv
<1>2. script[k].step = "running" /\ rows' = rows /\ plan' = plan
  BY DEF Ends, vars
<1>3. CASE script' = [script EXCEPT ![k] = [step |-> "failed"]]
  <2>1. script'[k].step = "failed"
    BY <1>1, <1>3 DEF ScriptInv
  <2> QED
    BY <2>1, ProgressFails
<1>4. CASE /\ session[k] = Ended /\ script[k].next > Len(Payloads(k))
           /\ script' = [script EXCEPT ![k] = [step |-> "ok"]]
  <2>1. script'[k].step = "ok"
    BY <1>1, <1>4 DEF ScriptInv
  <2>2. session[k] # Failed /\ session[k].step # "read"
    BY <1>4 DEF Ended, Failed
  <2>3. \A n \in DOMAIN Payloads(k) : n < script[k].next
    <3>1. script[k].next \in Nat
      BY <1>1, <1>2 DEF ScriptInv
    <3> QED
      BY <1>4, <3>1, PayloadNames
  <2>4. \A n \in DOMAIN Payloads(k) : Done(k, n)
    BY <1>2, <2>2, <2>3 DEF Progress
  <2>5. Payloads(k)' = Payloads(k) /\ \A n : Done(k, n)' <=> Done(k, n)
    BY <1>2, PayloadsStay, DoneStays
  <2> QED
    BY <2>1, <2>4, <2>5 DEF Progress
<1> QED
  BY <1>3, <1>4 DEF Ends

\* Every step keeps the scripts that are alone in progress.
LEMMA ProgressNext ==
  ASSUME ProvisioningInv, ScriptSessionInv, ProgressInv, [ProvisioningNext]_provisioningVars
  PROVE  ProgressInv'
<1>1. /\ Inv /\ ScriptInv /\ Script \subseteq Session /\ Script = {"seed", "benchmark"}
      /\ alone \subseteq Script
  BY ProvisioningAssumption DEF ProvisioningInv, Script, ProgressInv
<1>2. CASE UNCHANGED provisioningVars
  <2>1. rows' = rows /\ plan' = plan /\ script' = script /\ session' = session /\ alone' = alone
    BY <1>2 DEF provisioningVars, vars
  <2>2. \A k \in alone : Progress(k)'
    BY <2>1, ProgressStays DEF ProgressInv
  <2> QED
    BY <1>1, <2>1, <2>2 DEF ProgressInv
<1>3. ASSUME NEW s \in Session, plan' = plan, \A k \in Script \ {s} : script'[k] = script[k],
             session' = session \/ \E x : Goes(s, x),
             s \in Script /\ s \in alone' => Progress(s)',
             Disturbs(s) \/ (rows' = rows /\ alone' = alone)
               \/ (rows' = rows /\ s \in Script /\ alone' = alone \cup {s})
      PROVE  ProgressInv'
  <2>1. \A k \in Script \ {s} : session'[k] = session[k]
    BY <1>1, <1>3, OthersStay
  <2>2. alone' \subseteq Script
    BY <1>1, <1>3 DEF Disturbs
  <2>3. ASSUME NEW k \in alone' PROVE Progress(k)'
    <3>1. CASE k = s
      BY <1>3, <2>2, <3>1
    <3>2. CASE k # s
      <4>1. k \in Script /\ k \in Session
        BY <1>1, <2>2
      <4>2. Disturbs(s) \/ (rows' = rows /\ alone' \subseteq alone \cup {s})
        BY <1>3
      <4>3. session'[k] = session[k] /\ script'[k] = script[k]
        BY <1>3, <2>1, <3>2, <4>1
      <4> QED
        BY <1>1, <1>3, <3>2, <4>1, <4>2, <4>3, ProgressOfOthers
    <3> QED
      BY <3>1, <3>2
  <2> QED
    BY <2>2, <2>3 DEF ProgressInv
<1>4. ASSUME NEW s \in Session \ Script, OthersStep(s) PROVE ProgressInv'
  <2>1. Handle(s) /\ script' = script /\ plan' = plan /\ Disturbs(s)
    BY <1>4 DEF OthersStep
  <2>2. \E x : Goes(s, x)
    BY <2>1, HandleGoes
  <2> QED
    BY <1>3, <2>1, <2>2
<1>5. ASSUME NEW k \in Script, List(k) PROVE ProgressInv'
  <2>1. \A j \in Script \ {k} : script'[j] = script[j]
    BY <1>1, <1>5 DEF List, ScriptInv
  <2>2. Progress(k)'
    BY <1>5, ListProgress DEF ScriptSessionInv
  <2>3. session' = session /\ rows' = rows /\ plan' = plan /\ alone' = alone \cup {k}
    BY <1>5 DEF List
  <2> QED
    BY <1>1, <1>3, <2>1, <2>2, <2>3
<1>6. ASSUME NEW k \in Script, k \in alone', Disturbs(k) \/ alone' = alone PROVE Progress(k)
  BY <1>6 DEF ProgressInv, Disturbs
<1>7. ASSUME NEW k \in Script, ScriptProceeds(k) PROVE ProgressInv'
  <2>1. Proceed(k) /\ plan' = plan /\ Disturbs(k) /\ k \in Session
    BY <1>1, <1>7 DEF ScriptProceeds
  <2>2. \A j \in Script \ {k} : script'[j] = script[j]
    BY <1>1, <1>7 DEF ScriptProceeds, ScriptInv
  <2>3. \E x : Goes(k, x)
    BY <2>1, HandleGoes DEF Handle
  <2>4. k \in alone' => Progress(k)'
    BY <1>6, <1>7, <2>1, ProceedsProgress DEF ScriptSessionInv
  <2> QED
    BY <1>3, <2>1, <2>2, <2>3, <2>4
<1>8. ASSUME NEW k \in Script, Ends(k) PROVE ProgressInv'
  <2>1. rows' = rows /\ session' = session /\ plan' = plan /\ alone' = alone /\ k \in Session
    BY <1>1, <1>8 DEF Ends, vars
  <2>2. \A j \in Script \ {k} : script'[j] = script[j]
    BY <1>1, <1>8 DEF Ends, ScriptInv
  <2>3. k \in alone' => Progress(k)'
    BY <1>6, <1>8, <2>1, EndProgress
  <2> QED
    BY <1>3, <2>1, <2>2, <2>3
<1>9. ASSUME NEW k \in Script, Turns(k)
      PROVE  plan' = plan /\ \A j \in Script \ {k} : script'[j] = script[j]
  BY <1>1, <1>9 DEF Turns, ScriptInv
<1>10. CASE SeedSkips
  <2>1. /\ Turns("seed") /\ rows' = rows /\ session' = session /\ alone' = alone
        /\ "seed" \in Script /\ "seed" \in Session
    BY <1>1, <1>10 DEF SeedSkips
  <2>2. "seed" \in alone' => Progress("seed")'
    BY <1>6, <1>10, <2>1, SkipProgress
  <2> QED
    BY <1>3, <1>9, <2>1, <2>2
<1>11. ASSUME NEW k \in Script, Turns(k), NEW t, Disturbs(k),
              Insert(k, PolicyCreate(Wanted(k)), t) \/ InsertFails(k, PolicyCreate(Wanted(k)))
       PROVE  ProgressInv'
  <2> DEFINE p == PolicyCreate(Wanted(k))
  <2>1. \E x : Goes(k, x)
    BY <1>11 DEF Insert, InsertFails
  <2>2. k \in alone' => Progress(k)'
    BY <1>6, <1>11, CreateProgress
  <2> QED
    BY <1>1, <1>3, <1>9, <1>11, <2>1, <2>2
<1>12. CASE SeedCreates
  <2>1. PICK t : t = script["seed"].begun
    OBVIOUS
  <2>2. /\ Turns("seed") /\ Disturbs("seed") /\ "seed" \in Script
        /\ \/ Insert("seed", PolicyCreate(Wanted("seed")), t)
           \/ InsertFails("seed", PolicyCreate(Wanted("seed")))
    BY <1>1, <1>12, <2>1 DEF SeedCreates
  <2> QED
    BY <1>11, <2>2
<1>13. CASE BenchmarkPosts
  <2>1. PICK t : t = clock
    OBVIOUS
  <2>2. /\ Turns("benchmark") /\ Disturbs("benchmark") /\ "benchmark" \in Script
        /\ \/ Insert("benchmark", PolicyCreate(Wanted("benchmark")), t)
           \/ InsertFails("benchmark", PolicyCreate(Wanted("benchmark")))
    BY <1>1, <1>13, <2>1 DEF BenchmarkPosts
  <2> QED
    BY <1>11, <2>2
<1>14. CASE BenchmarkPuts
  <2>1. /\ Turns("benchmark") /\ rows' = rows /\ alone' = alone
        /\ "benchmark" \in Script /\ "benchmark" \in Session
        /\ \E x : Goes("benchmark", x)
    BY <1>1, <1>14 DEF BenchmarkPuts, GetForUpdate
  <2>2. "benchmark" \in alone' => Progress("benchmark")'
    BY <1>6, <1>14, <2>1, PutProgress
  <2> QED
    BY <1>3, <1>9, <2>1, <2>2
<1> QED
  BY <1>2, <1>4, <1>5, <1>7, <1>8, <1>10, <1>12, <1>13, <1>14 DEF ProvisioningNext, ScriptStep

(***************************************************************************)
(* A script that ended well, and since whose start nobody else changed the *)
(* table, has done its work: for every plan and whatever the table held,   *)
(* there is a policy of every name the seed knows, and an active one just  *)
(* as the payload says of every name the benchmark knows.                  *)
(***************************************************************************)
THEOREM ProvisioningDone == ProvisioningSpec => []ProvisioningHolds
<1>1. ProvisioningInit => ProgressInv
  BY DEF ProvisioningInit, ProgressInv
<1>2. ProgressInv => ProvisioningHolds
  <2> SUFFICES ASSUME ProgressInv, NEW k \in alone, script[k].step = "ok",
                      NEW n \in DOMAIN Payloads(k)
               PROVE  \E row \in Listed(k = "benchmark") :
                        /\ row.name = Payloads(k)[n].name
                        /\ k = "benchmark" =>
                             \A c \in DOMAIN Payloads(k)[n] : row[c] = Payloads(k)[n][c]
    BY DEF ProvisioningHolds
  <2>1. PICK id \in Id : Exists(id) /\ Meets(k, Payloads(k)[n], rows[id])
    BY DEF ProgressInv, Progress, Done
  <2>2. rows[id] \in Listed(k = "benchmark")
    BY <2>1 DEF Listed, Meets
  <2> QED
    BY <2>1, <2>2 DEF Meets
<1> QED
  BY <1>1, <1>2, InitSessions, ScriptSessions, ProgressNext, ProvisioningInvHolds, PTL
     DEF ProvisioningSpec
=============================================================================
