---------------------------- MODULE PolicyCache ----------------------------
(***************************************************************************)
(* How instances read the active policies: from the cache in Redis, which  *)
(* they fill from the database; and, when Redis fails, from a snapshot in  *)
(* memory.  A write commits, clears its own snapshot, deletes the cached   *)
(* list and publishes a message that clears the snapshots of all.  An      *)
(* instance starts (with or without a listener for these messages, or not  *)
(* at all) and stops.                                                      *)
(*                                                                         *)
(* The list of active policies is known by its version: the number of      *)
(* writes committed before it was read.  Each await is a step of its own.  *)
(* A command to Redis whose caller gave up (a timeout) or is gone (a stop) *)
(* may be under way still: it is executed at any moment of the next Late   *)
(* seconds, with other commands in between, or never.                      *)
(***************************************************************************)
EXTENDS Integers, FiniteSets

CONSTANTS Instance, Reader, Writer,
          CacheTtl,     \* settings.policy_cache_ttl_seconds
          SnapshotTtl,  \* settings.local_policy_cache_ttl_seconds
          Setting,      \* enable_policy_pubsub and strict_startup_checks
          Slow,         \* the seconds a read takes at most (a bound)
          Late,         \* the seconds a command outlives its caller at most (a bound)
          MaxLate,      \* the commands that outlive their callers at a time (a bound)
          MaxVersion    \* the writes committed (a bound)

ASSUME PolicyCacheAssumption ==
  /\ CacheTtl \in Nat \ {0}
  /\ SnapshotTtl \in Nat
  /\ Setting \subseteq [pubsub : BOOLEAN, strict : BOOLEAN]
  /\ Slow \in Nat
  /\ Late \in Nat
  /\ MaxLate \in Nat
  /\ MaxVersion \in Nat

VARIABLES
  settings,  \* the settings of all instances, which never change
  db,        \* the version committed last
  redisUp,   \* whether Redis is running
  cache,     \* the cached list
  snapshot,  \* snapshot[i]: the snapshot of instance i
  read,      \* read[r]: how far a call of list_active_policies_cached has come
  write,     \* write[w]: how far a write has come
  listener,  \* listener[i]: the task policy_refresh_listener; "down" if i is
  inbox,     \* the instances a message is on its way to
  wire,      \* the commands under way to Redis that nobody waits for any more
  stale,     \* history: stale[v]: for how long v has been out of date
  missed     \* history: whether part of an invalidation was lost, or one overtook a
             \* read with an old list or the SETEX that it left behind

vars == <<settings, db, redisUp, cache, snapshot, read, write, listener, inbox, wire, stale, missed>>

Version == 0..MaxVersion

\* No list: nothing cached, no snapshot.
None == [version |-> -1, age |-> 0]

List(v) == [version |-> v, age |-> 0]

NoRead == [state |-> "idle"]

NoWrite == [state |-> "idle"]

\* A list is a list of the past for longer than any bound below.
Horizon == 2 * Slow + Late + CacheTtl + SnapshotTtl + 1

Init ==
  /\ settings \in Setting
  /\ db = 0
  /\ redisUp = TRUE
  /\ cache = None
  /\ snapshot = [i \in Instance |-> None]
  /\ read = [r \in Reader |-> NoRead]
  /\ write = [w \in Writer |-> NoWrite]
  /\ listener = [i \in Instance |-> "down"]
  /\ inbox = {}
  /\ wire = {}
  /\ stale = [v \in Version |-> 0]
  /\ missed = FALSE

Runs(i) == listener[i] # "down"

SETEX(v) == [command |-> "SETEX", version |-> v, age |-> 0]

DEL == [command |-> "DEL", age |-> 0]

PUBLISH == [command |-> "PUBLISH", age |-> 0]

\* Some of the commands C reach Redis, but after their callers are gone.
LeftBehind(C) ==
  /\ wire' \in {wire \cup D : D \in SUBSET (IF redisUp THEN C ELSE {})}
  /\ Cardinality(wire') <= MaxLate

\* Redis executes c.  Another command like it may be left, of another caller.
Executed(c) == wire' \in {wire, wire \ {c}}
-----------------------------------------------------------------------------
(* list_active_policies_cached *)

Goes(r, state, v) == read' = [read EXCEPT ![r].state = state, ![r].version = v]

Returns(r) == read' = [read EXCEPT ![r] = NoRead]

\* A slip: a hit renews the time to live.
HitAgeRenewed == 0

HitAge == cache.age

\* GET finds the list, or not.
Get(r, i) ==
  /\ read[r].state = "idle"
  /\ Runs(i)
  /\ redisUp
  /\ read' = [read EXCEPT ![r] =
                [state |-> IF cache = None THEN "miss" ELSE "loaded",
                 version |-> cache.version, at |-> i, time |-> 0]]
  /\ cache' = IF cache = None THEN None ELSE [cache EXCEPT !.age = HitAge]
  /\ UNCHANGED <<settings, db, redisUp, snapshot, write, listener, inbox, wire, stale, missed>>

\* GET fails.  A fresh snapshot is returned as it is, which is no step here;
\* without one the database is asked.
GetFails(r, i) ==
  /\ read[r].state = "idle"
  /\ Runs(i)
  /\ snapshot[i] = None
  /\ read' = [read EXCEPT ![r] = [state |-> "failed", version |-> -1, at |-> i, time |-> 0]]
  /\ UNCHANGED <<settings, db, redisUp, cache, snapshot, write, listener, inbox, wire, stale, missed>>

\* list_policies: after a failed GET the result is not cached.
Load(r) ==
  /\ read[r].state \in {"miss", "failed"}
  /\ Goes(r, IF read[r].state = "miss" THEN "fill" ELSE "loaded", db)
  /\ UNCHANGED <<settings, db, redisUp, cache, snapshot, write, listener, inbox, wire, stale, missed>>

\* SETEX
Fill(r) ==
  /\ read[r].state = "fill"
  /\ redisUp
  /\ cache' = List(read[r].version)
  /\ Goes(r, "loaded", read[r].version)
  /\ UNCHANGED <<settings, db, redisUp, snapshot, write, listener, inbox, wire, stale, missed>>

\* The RedisError is swallowed.
FillFails(r) ==
  /\ read[r].state = "fill"
  /\ LeftBehind({SETEX(read[r].version)})
  /\ Goes(r, "loaded", read[r].version)
  /\ UNCHANGED <<settings, db, redisUp, cache, snapshot, write, listener, inbox, stale, missed>>

FillLate(c) ==
  /\ c \in wire
  /\ c.command = "SETEX"
  /\ cache' = List(c.version)
  /\ Executed(c)
  /\ UNCHANGED <<settings, db, redisUp, snapshot, read, write, listener, inbox, stale, missed>>

\* snapshot_store.set, and the list is returned.
Finish(r) ==
  /\ read[r].state = "loaded"
  /\ snapshot' = [snapshot EXCEPT ![read[r].at] = List(read[r].version)]
  /\ Returns(r)
  /\ UNCHANGED <<settings, db, redisUp, cache, write, listener, inbox, wire, stale, missed>>
-----------------------------------------------------------------------------
(* create, update and delete, from their commit on *)

\* Reads at the instances I that hold a list which is out of date.
Behind(I) ==
  \E r \in Reader : /\ read[r].state \in {"fill", "loaded"}
                    /\ read[r].at \in I
                    /\ read[r].version < db

\* A SETEX is under way with a list which is out of date.
OldFill == \E c \in wire : c.command = "SETEX" /\ c.version < db

Commit(w, i) ==
  /\ write[w].state = "idle"
  /\ Runs(i)
  /\ db < MaxVersion
  /\ db' = db + 1
  /\ write' = [write EXCEPT ![w] = [state |-> "committed", at |-> i]]
  /\ UNCHANGED <<settings, redisUp, cache, snapshot, read, listener, inbox, wire, stale, missed>>

\* invalidate_policy_cache: snapshot_store.clear
ClearSnapshot(w) ==
  /\ write[w].state = "committed"
  /\ snapshot' = [snapshot EXCEPT ![write[w].at] = None]
  /\ write' = [write EXCEPT ![w].state = "cleared"]
  /\ UNCHANGED <<settings, db, redisUp, cache, read, listener, inbox, wire, stale, missed>>

\* DEL; if messages are disabled, that is all, and nobody else is told.
Delete(w) ==
  /\ write[w].state = "cleared"
  /\ redisUp
  /\ cache' = None
  /\ missed' = (missed \/ Behind(Instance) \/ OldFill \/ ~settings.pubsub)
  /\ write' = [write EXCEPT ![w] = IF settings.pubsub THEN [@ EXCEPT !.state = "deleted"] ELSE NoWrite]
  /\ UNCHANGED <<settings, db, redisUp, snapshot, read, listener, inbox, wire, stale>>

\* A slip: the writer's own instance is left out.
SubscribedOthers ==
  {i \in Instance : /\ listener[i] = "on"
                    /\ \A w \in Writer : write[w].state = "deleted" => write[w].at # i}

Subscribed == {i \in Instance : listener[i] = "on"}

\* PUBLISH reaches those that listen.
Publish(w) ==
  /\ write[w].state = "deleted"
  /\ redisUp
  /\ inbox' = inbox \cup Subscribed
  /\ missed' = (missed \/ \E i \in Instance : Runs(i) /\ listener[i] # "on")
  /\ write' = [write EXCEPT ![w] = NoWrite]
  /\ UNCHANGED <<settings, db, redisUp, cache, snapshot, read, listener, wire, stale>>

\* The RedisError is swallowed: what is left of the invalidation is not done.
InvalidateFails(w) ==
  /\ write[w].state \in {"cleared", "deleted"}
  /\ LeftBehind({IF write[w].state = "cleared" THEN DEL ELSE PUBLISH})
  /\ missed' = TRUE
  /\ write' = [write EXCEPT ![w] = NoWrite]
  /\ UNCHANGED <<settings, db, redisUp, cache, snapshot, read, listener, inbox, stale>>

DeleteLate(c) ==
  /\ c \in wire
  /\ c.command = "DEL"
  /\ cache' = None
  /\ Executed(c)
  /\ UNCHANGED <<settings, db, redisUp, snapshot, read, write, listener, inbox, stale, missed>>

PublishLate(c) ==
  /\ c \in wire
  /\ c.command = "PUBLISH"
  /\ inbox' = inbox \cup Subscribed
  /\ Executed(c)
  /\ UNCHANGED <<settings, db, redisUp, cache, snapshot, read, write, listener, stale, missed>>
-----------------------------------------------------------------------------
(* policy_refresh_listener *)

Refresh(i) ==
  /\ i \in inbox
  /\ listener[i] = "on"
  /\ inbox' = inbox \ {i}
  /\ snapshot' = [snapshot EXCEPT ![i] = None]
  /\ missed' = (missed \/ Behind({i}))
  /\ UNCHANGED <<settings, db, redisUp, cache, read, write, listener, wire, stale>>

\* The connection fails: it is made again, and nothing is cleared then.
Disconnect(i) ==
  /\ listener[i] = "on"
  /\ listener' = [listener EXCEPT ![i] = "off"]
  /\ missed' = (missed \/ i \in inbox)
  /\ inbox' = inbox \ {i}
  /\ UNCHANGED <<settings, db, redisUp, cache, snapshot, read, write, wire, stale>>

Subscribe(i) ==
  /\ listener[i] = "off"
  /\ redisUp
  /\ listener' = [listener EXCEPT ![i] = "on"]
  /\ UNCHANGED <<settings, db, redisUp, cache, snapshot, read, write, inbox, wire, stale, missed>>
-----------------------------------------------------------------------------
\* What the pings of run_startup_checks may find.
run_startup_checks ==
  [postgres : BOOLEAN, redis : IF redisUp THEN BOOLEAN ELSE {FALSE}]

\* The task is created only if Redis answered; it has yet to subscribe.
Listener(status) == IF settings.pubsub /\ status.redis THEN "off" ELSE "none"

\* lifespan up to its yield.  With strict checks that fail it raises, and the
\* instance stays down.
Start(i) ==
  /\ ~Runs(i)
  /\ \E status \in run_startup_checks :
       /\ settings.strict => status.postgres /\ status.redis
       /\ listener' = [listener EXCEPT ![i] = Listener(status)]
  /\ UNCHANGED <<settings, db, redisUp, cache, snapshot, read, write, inbox, wire, stale, missed>>

\* The commands that instance i may be waiting for.
Sent(i) ==
  {SETEX(read[r].version) : r \in {q \in Reader : read[q].state = "fill" /\ read[q].at = i}}
  \cup {DEL : w \in {x \in Writer : write[x].state = "cleared" /\ write[x].at = i}}
  \cup {PUBLISH : w \in {x \in Writer : write[x].state = "deleted" /\ write[x].at = i}}

\* lifespan after its yield, or a crash.
Stop(i) ==
  /\ Runs(i)
  /\ listener' = [listener EXCEPT ![i] = "down"]
  /\ snapshot' = [snapshot EXCEPT ![i] = None]
  /\ read' = [r \in Reader |->
                IF read[r] # NoRead /\ read[r].at = i THEN NoRead ELSE read[r]]
  /\ missed' = (missed \/ \E w \in Writer : write[w] # NoWrite /\ write[w].at = i)
  /\ write' = [w \in Writer |->
                 IF write[w] # NoWrite /\ write[w].at = i THEN NoWrite ELSE write[w]]
  /\ inbox' = inbox \ {i}
  /\ LeftBehind(Sent(i))
  /\ UNCHANGED <<settings, db, redisUp, cache, stale>>

\* Redis keeps nothing on disk, and its connections break.
RedisCrash ==
  /\ redisUp
  /\ redisUp' = FALSE
  /\ cache' = None
  /\ missed' = (missed \/ inbox # {})
  /\ inbox' = {}
  /\ wire' = {}
  /\ listener' = [i \in Instance |-> IF listener[i] = "on" THEN "off" ELSE listener[i]]
  /\ UNCHANGED <<settings, db, snapshot, read, write, stale>>

RedisStart ==
  /\ ~redisUp
  /\ redisUp' = TRUE
  /\ UNCHANGED <<settings, db, cache, snapshot, read, write, listener, inbox, wire, stale, missed>>

Older(a, most) == IF a < most THEN a + 1 ELSE a

\* A slip: the cached list never expires.
ExpiredNever == [cache EXCEPT !.age = Older(@, CacheTtl)]

\* The cached list after one more second.
Expired == IF cache.age = CacheTtl THEN None ELSE [cache EXCEPT !.age = @ + 1]

\* A slip: a snapshot is never too old.
AgedForever(i) == IF snapshot[i] = None THEN None ELSE [snapshot[i] EXCEPT !.age = @ + 1]

\* The snapshot after one more second.  get_fresh, which alone reads it, does
\* not return it once it is too old: then there is none.
Aged(i) ==
  IF snapshot[i] = None \/ snapshot[i].age = SnapshotTtl
  THEN None ELSE [snapshot[i] EXCEPT !.age = @ + 1]

\* A second passes.
Tick ==
  /\ \A r \in Reader : read[r] # NoRead => read[r].time < Slow
  /\ read' = [r \in Reader |->
                IF read[r] = NoRead THEN NoRead ELSE [read[r] EXCEPT !.time = @ + 1]]
  /\ cache' = IF cache = None THEN None ELSE Expired
  /\ snapshot' = [i \in Instance |-> Aged(i)]
  /\ wire' = {[c EXCEPT !.age = @ + 1] : c \in {d \in wire : d.age < Late}}
  /\ stale' = [v \in Version |-> IF v < db THEN Older(stale[v], Horizon) ELSE 0]
  /\ UNCHANGED <<settings, db, redisUp, write, listener, inbox, missed>>

ReadStep(r) == Load(r) \/ Fill(r) \/ FillFails(r) \/ Finish(r)

WriteStep(w) == ClearSnapshot(w) \/ Delete(w) \/ Publish(w) \/ InvalidateFails(w)

Next ==
  \/ \E r \in Reader : ReadStep(r) \/ \E i \in Instance : Get(r, i) \/ GetFails(r, i)
  \/ \E w \in Writer : WriteStep(w) \/ \E i \in Instance : Commit(w, i)
  \/ \E i \in Instance : Refresh(i) \/ Disconnect(i) \/ Subscribe(i) \/ Start(i) \/ Stop(i)
  \/ \E c \in wire : FillLate(c) \/ DeleteLate(c) \/ PublishLate(c)
  \/ RedisCrash \/ RedisStart
  \/ Tick

(***************************************************************************)
(* Time passes, and a read that has begun runs on: its calls return or     *)
(* fail.  Nothing is assumed of Redis, of the listener or of invalidation. *)
(***************************************************************************)
Fairness == WF_vars(Tick) /\ \A r \in Reader : WF_vars(ReadStep(r))

Spec == Init /\ [][Next]_vars /\ Fairness
-----------------------------------------------------------------------------
TypeOK ==
  /\ settings \in Setting
  /\ db \in Version
  /\ redisUp \in BOOLEAN
  /\ cache \in [version : Version, age : 0..CacheTtl] \cup {None}
  /\ snapshot \in [Instance -> [version : Version, age : 0..SnapshotTtl] \cup {None}]
  /\ \A r \in Reader : read[r] # NoRead =>
       /\ read[r].state \in {"miss", "failed", "fill", "loaded"}
       /\ read[r].time \in 0..Slow
       /\ read[r].state \in {"fill", "loaded"} => read[r].version \in Version
  /\ \A w \in Writer : write[w].state \in {"idle", "committed", "cleared", "deleted"}
  /\ listener \in [Instance -> {"on", "off", "none", "down"}]
  /\ inbox \subseteq Instance
  /\ wire \subseteq [command : {"SETEX"}, version : Version, age : 0..Late]
                 \cup [command : {"DEL", "PUBLISH"}, age : 0..Late]
  /\ stale \in [Version -> 0..Horizon]

(***************************************************************************)
(* Whatever is lost, crashes, or is executed when its caller is gone, no   *)
(* instance works with a list that has been out of date for longer than    *)
(* the two times to live, the reads that passed it on and the time that a  *)
(* SETEX outlives its read.                                                *)
(***************************************************************************)
StalenessBounded ==
  /\ cache # None => stale[cache.version] <= Slow + Late + CacheTtl
  /\ \A r \in Reader : read[r].state = "loaded" =>
       stale[read[r].version] <= 2 * Slow + Late + CacheTtl
  /\ \A i \in Instance : snapshot[i] # None =>
       stale[snapshot[i].version] <= 2 * Slow + Late + CacheTtl + SnapshotTtl

(***************************************************************************)
(* An invalidation that got through works: if none was lost, and none      *)
(* overtook a read with an old list or the SETEX that one left behind,     *)
(* then an old list is cached only until the write's DEL, and an old       *)
(* snapshot is kept only until its message arrives.                        *)
(***************************************************************************)
InvalidationWorks ==
  ~missed =>
    /\ cache # None /\ cache.version < db =>
         \E w \in Writer : write[w].state \in {"committed", "cleared"}
    /\ \A i \in Instance : snapshot[i] # None /\ snapshot[i].version < db =>
         i \in inbox \/ \E w \in Writer : write[w].state # "idle"

(***************************************************************************)
(* Once the policies stay the same, every instance comes to work with them *)
(* and never again with older ones, even if every invalidation was lost.   *)
(***************************************************************************)
Converges ==
  <>[](/\ cache # None => cache.version = db
       /\ \A i \in Instance : snapshot[i] # None => snapshot[i].version = db)
=============================================================================
