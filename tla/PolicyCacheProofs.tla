-------------------------- MODULE PolicyCacheProofs --------------------------
(***************************************************************************)
(* What holds of PolicyCache for any number of instances, readers, writers *)
(* and versions, any times to live, any duration of a read, and any time   *)
(* that a command may outlive its caller.                                  *)
(***************************************************************************)
EXTENDS PolicyCache, TLAPS

ListType(most) == [version : Version, age : 0..most] \cup {None}

ReadType ==
  {NoRead} \cup
  [state : {"miss", "failed", "fill", "loaded"}, version : Version \cup {-1}, at : Instance,
   time : 0..Slow]

WriteType == {NoWrite} \cup [state : {"committed", "cleared", "deleted"}, at : Instance]

\* TypeOK, with the fields that records have.
TypeInv ==
  /\ settings \in Setting
  /\ db \in Version
  /\ redisUp \in BOOLEAN
  /\ cache \in ListType(CacheTtl)
  /\ snapshot \in [Instance -> ListType(SnapshotTtl)]
  /\ read \in [Reader -> ReadType]
  /\ \A r \in Reader : read[r].state \in {"fill", "loaded"} => read[r].version \in Version
  /\ write \in [Writer -> WriteType]
  /\ listener \in [Instance -> {"on", "off", "none", "down"}]
  /\ inbox \subseteq Instance
  /\ stale \in [Version -> 0..Horizon]
  /\ missed \in BOOLEAN

(***************************************************************************)
(* A list is as far out of date as its ways since it left the database     *)
(* have taken: a read that fills the cache, the time its SETEX outlives    *)
(* the read, the time in the cache, a read that takes it from there, the   *)
(* time in the snapshot.                                                   *)
(***************************************************************************)
StaleInv ==
  /\ \A v \in Version : v >= db => stale[v] = 0
  /\ cache # None => stale[cache.version] <= Slow + Late + cache.age
  /\ \A r \in Reader :
       /\ read[r].state = "fill" => stale[read[r].version] <= read[r].time
       /\ read[r].state = "loaded" => stale[read[r].version] <= Slow + Late + CacheTtl + read[r].time
  /\ \A i \in Instance : snapshot[i] # None =>
       stale[snapshot[i].version] <= 2 * Slow + Late + CacheTtl + snapshot[i].age

\* What an instance that is down had in memory is gone.
RunInv ==
  /\ \A i \in Instance : snapshot[i] # None => Runs(i)
  /\ \A r \in Reader : read[r] # NoRead => Runs(read[r].at)

\* A write whose DEL is still to come.
Invalidates == \E w \in Writer : write[w].state \in {"committed", "cleared"}

(***************************************************************************)
(* InvalidationWorks, and the same of a read that holds an old list: what  *)
(* it holds is what it puts into the cache and the snapshot.               *)
(***************************************************************************)
OldInv ==
  ~missed =>
    /\ cache # None /\ cache.version < db => Invalidates
    /\ \A r \in Reader : read[r].state \in {"fill", "loaded"} /\ read[r].version < db => Invalidates
    /\ \A i \in Instance : snapshot[i] # None /\ snapshot[i].version < db =>
         i \in inbox \/ \E w \in Writer : write[w].state # "idle"

CommandType ==
  [command : {"SETEX"}, version : Version, age : 0..Late]
  \cup [command : {"DEL", "PUBLISH"}, age : 0..Late]

\* The same of a SETEX that a read has left behind.
WireInv ==
  /\ wire \subseteq CommandType
  /\ \A c \in wire : c.command = "SETEX" =>
       /\ stale[c.version] <= Slow + c.age
       /\ ~missed /\ c.version < db => Invalidates

Inv == TypeInv /\ StaleInv /\ RunInv /\ OldInv /\ WireInv
-----------------------------------------------------------------------------
\* What the parameters are.
LEMMA Sizes ==
  /\ CacheTtl \in Nat \ {0} /\ SnapshotTtl \in Nat /\ Slow \in Nat
  /\ Late \in Nat /\ MaxVersion \in Nat
  /\ Horizon \in Nat /\ Horizon = 2 * Slow + Late + CacheTtl + SnapshotTtl + 1
  BY PolicyCacheAssumption DEF Horizon

\* What is under way is what was, and what is left behind now.
LEMMA LeftBehindAdds ==
  ASSUME NEW C, LeftBehind(C)
  PROVE  wire' \subseteq wire \cup C
  BY DEF LeftBehind

\* GET finds the list that is cached, or none.
LEMMA GetInv ==
  ASSUME Inv, NEW r \in Reader, NEW i \in Instance, Get(r, i)
  PROVE  Inv'
<1>1. cache' = cache
  BY DEF Inv, TypeInv, ListType, Get, HitAge
<1> DEFINE new == [state |-> IF cache = None THEN "miss" ELSE "loaded",
                   version |-> cache.version, at |-> i, time |-> 0]
<1>2. /\ read'[r] = new /\ \A q \in Reader : q # r => read'[q] = read[q]
      /\ UNCHANGED <<settings, db, redisUp, snapshot, write, listener, inbox, wire, stale, missed>>
  BY DEF Inv, TypeInv, Get
<1>3. new \in ReadType /\ (cache # None => cache.version \in Version /\ cache.age \in 0..CacheTtl)
  BY Sizes DEF Inv, TypeInv, ListType, None, ReadType, Version
<1>4. TypeInv'
  <2>1. read' \in [Reader -> ReadType]
    BY <1>3 DEF Inv, TypeInv, Get
  <2>2. \A q \in Reader : read'[q].state \in {"fill", "loaded"} => read'[q].version \in Version
    BY <1>2, <1>3 DEF Inv, TypeInv
  <2> QED
    BY <2>1, <2>2, <1>1, <1>2 DEF Inv, TypeInv
<1>5. StaleInv'
  <2>1. cache # None => stale[cache.version] <= Slow + Late + CacheTtl
    <3>1. cache # None => stale[cache.version] \in Nat /\ stale[cache.version] <= Slow + Late + cache.age
      BY <1>3, Sizes DEF Inv, TypeInv, StaleInv
    <3> QED
      BY <3>1, <1>3, Sizes
  <2>2. ASSUME NEW q \in Reader
        PROVE  /\ read'[q].state = "fill" => stale[read'[q].version] <= read'[q].time
               /\ read'[q].state = "loaded" => stale[read'[q].version] <= Slow + Late + CacheTtl + read'[q].time
    <3>1. CASE q = r
      BY <3>1, <2>1, <1>2, Sizes
    <3>2. CASE q # r
      BY <3>2, <1>2 DEF Inv, StaleInv
    <3> QED
      BY <3>1, <3>2
  <2> QED
    BY <2>2, <1>1, <1>2 DEF Inv, StaleInv
<1>6. RunInv'
  BY DEF Inv, TypeInv, RunInv, Runs, ReadType, NoRead, None, Get, HitAge
<1>7. OldInv'
  BY Sizes DEF Inv, TypeInv, RunInv, Runs, OldInv, Invalidates, Behind, ReadType, WriteType,
               NoRead, NoWrite, None, Version, Get, HitAge
<1>8. WireInv'
  BY DEF Inv, WireInv, Invalidates, Get
<1> QED
  BY <1>4, <1>5, <1>6, <1>7, <1>8 DEF Inv

\* GET fails.
LEMMA GetFailsInv ==
  ASSUME Inv, NEW r \in Reader, NEW i \in Instance, GetFails(r, i)
  PROVE  Inv'
<1>1. TypeInv'
  BY Sizes DEF Inv, TypeInv, ListType, ReadType, WriteType, Version, None, NoRead, NoWrite, GetFails
<1>2. StaleInv'
  BY Sizes DEF Inv, TypeInv, StaleInv, ListType, ReadType, Version, None, NoRead, GetFails
<1>3. RunInv'
  BY DEF Inv, TypeInv, RunInv, Runs, ReadType, NoRead, None, GetFails
<1>4. OldInv'
  BY Sizes DEF Inv, TypeInv, RunInv, Runs, OldInv, Invalidates, Behind, ReadType, WriteType,
               NoRead, NoWrite, None, Version, GetFails
<1>5. WireInv'
  BY DEF Inv, WireInv, Invalidates, GetFails
<1> QED
  BY <1>1, <1>2, <1>3, <1>4, <1>5 DEF Inv

\* A read goes on with the list v.
LEMMA ReadMoves ==
  ASSUME Inv, NEW r \in Reader, read[r] # NoRead,
         NEW state \in {"fill", "loaded"}, NEW v \in Version, Goes(r, state, v)
  PROVE  /\ read'[r].state = state /\ read'[r].version = v
         /\ read'[r].at = read[r].at /\ read'[r].time = read[r].time
         /\ read[r].time \in 0..Slow
         /\ \A q \in Reader : q # r => read'[q] = read[q]
         /\ read' \in [Reader -> ReadType]
         /\ \A q \in Reader : read'[q].state \in {"fill", "loaded"} => read'[q].version \in Version
<1>1. read[r] \in [state : {"miss", "failed", "fill", "loaded"}, version : Version \cup {-1},
                   at : Instance, time : 0..Slow]
  BY DEF Inv, TypeInv, ReadType
<1>2. read'[r] = [read[r] EXCEPT !.state = state, !.version = v]
  BY DEF Goes, Inv, TypeInv
<1>3. /\ read'[r].state = state /\ read'[r].version = v
      /\ read'[r].at = read[r].at /\ read'[r].time = read[r].time
      /\ read[r].time \in 0..Slow /\ read'[r] \in ReadType
  BY <1>1, <1>2 DEF ReadType
<1>4. \A q \in Reader : q # r => read'[q] = read[q]
  BY DEF Goes, Inv, TypeInv
<1>5. read' \in [Reader -> ReadType]
  BY <1>3, <1>4 DEF Goes, Inv, TypeInv
<1> QED
  BY <1>3, <1>4, <1>5 DEF Inv, TypeInv

\* The list comes from the database, and is up to date then.
LEMMA LoadInv ==
  ASSUME Inv, NEW r \in Reader, Load(r)
  PROVE  Inv'
<1>1. /\ read[r].state \in {"miss", "failed"} /\ read[r] # NoRead /\ db \in Version
      /\ (IF read[r].state = "miss" THEN "fill" ELSE "loaded") \in {"fill", "loaded"}
  BY DEF Load, Inv, TypeInv, NoRead
<1>2. /\ read'[r].state = (IF read[r].state = "miss" THEN "fill" ELSE "loaded") /\ read'[r].version = db
      /\ read'[r].at = read[r].at /\ read'[r].time = read[r].time
      /\ read[r].time \in 0..Slow
      /\ \A q \in Reader : q # r => read'[q] = read[q]
      /\ read' \in [Reader -> ReadType]
      /\ \A q \in Reader : read'[q].state \in {"fill", "loaded"} => read'[q].version \in Version
  BY <1>1, ReadMoves DEF Load
<1>3. UNCHANGED <<settings, db, redisUp, cache, snapshot, write, listener, inbox, wire, stale, missed>>
  BY DEF Load
<1>4. TypeInv'
  BY <1>2, <1>3 DEF Inv, TypeInv
<1>5. StaleInv'
  <2>1. stale[db] = 0
    BY <1>1, Sizes DEF Inv, StaleInv, Version
  <2>2. ASSUME NEW q \in Reader
        PROVE  /\ read'[q].state = "fill" => stale[read'[q].version] <= read'[q].time
               /\ read'[q].state = "loaded" => stale[read'[q].version] <= Slow + Late + CacheTtl + read'[q].time
    <3>1. CASE q = r
      BY <3>1, <2>1, <1>2, Sizes
    <3>2. CASE q # r
      BY <3>2, <1>2 DEF Inv, StaleInv
    <3> QED
      BY <3>1, <3>2
  <2> QED
    BY <2>2, <1>3 DEF Inv, StaleInv
<1>6. RunInv'
  BY DEF Inv, TypeInv, RunInv, Runs, ReadType, NoRead, None, Load, Goes
<1>7. OldInv'
  BY Sizes DEF Inv, TypeInv, RunInv, Runs, OldInv, Invalidates, Behind, ReadType, WriteType,
               NoRead, NoWrite, None, Version, Load, Goes
<1>8. WireInv'
  BY DEF Inv, WireInv, Invalidates, Load
<1> QED
  BY <1>4, <1>5, <1>6, <1>7, <1>8 DEF Inv

\* The cache takes what a read has loaded.
LEMMA FillInv ==
  ASSUME Inv, NEW r \in Reader, Fill(r)
  PROVE  Inv'
<1>1. read[r].state = "fill" /\ read[r] # NoRead /\ read[r].version \in Version
  BY DEF Fill, Inv, TypeInv, NoRead
<1>2. /\ read'[r].state = "loaded" /\ read'[r].version = read[r].version
      /\ read'[r].at = read[r].at /\ read'[r].time = read[r].time
      /\ read[r].time \in 0..Slow
      /\ \A q \in Reader : q # r => read'[q] = read[q]
      /\ read' \in [Reader -> ReadType]
      /\ \A q \in Reader : read'[q].state \in {"fill", "loaded"} => read'[q].version \in Version
  BY <1>1, ReadMoves DEF Fill
<1>3. /\ UNCHANGED <<settings, db, redisUp, snapshot, write, listener, inbox, wire, stale, missed>>
      /\ cache' = List(read[r].version)
  BY DEF Fill
<1>4. TypeInv'
  <2>1. cache' \in ListType(CacheTtl)
    BY <1>1, <1>3, Sizes DEF ListType, List
  <2> QED
    BY <2>1, <1>2, <1>3 DEF Inv, TypeInv
<1>5. StaleInv'
  <2>1. stale[read[r].version] \in Nat /\ stale[read[r].version] <= read[r].time
    BY <1>1, Sizes DEF Inv, TypeInv, StaleInv
  <2>2. ASSUME NEW q \in Reader
        PROVE  /\ read'[q].state = "fill" => stale[read'[q].version] <= read'[q].time
               /\ read'[q].state = "loaded" => stale[read'[q].version] <= Slow + Late + CacheTtl + read'[q].time
    <3>1. CASE q = r
      BY <3>1, <2>1, <1>2, Sizes
    <3>2. CASE q # r
      BY <3>2, <1>2 DEF Inv, StaleInv
    <3> QED
      BY <3>1, <3>2
  <2>3. stale'[cache'.version] <= Slow + Late + cache'.age
    BY <2>1, <1>2, <1>3, Sizes DEF List
  <2> QED
    BY <2>2, <2>3, <1>3 DEF Inv, StaleInv
<1>6. RunInv'
  BY DEF Inv, TypeInv, RunInv, Runs, ReadType, NoRead, None, Fill, Goes, List
<1>7. OldInv'
  BY Sizes DEF Inv, TypeInv, RunInv, Runs, OldInv, Invalidates, Behind, ReadType, WriteType,
               NoRead, NoWrite, None, Version, Fill, Goes, List
<1>8. WireInv'
  BY DEF Inv, WireInv, Invalidates, Fill
<1> QED
  BY <1>4, <1>5, <1>6, <1>7, <1>8 DEF Inv

\* The SETEX that a read waits for, should it go on without the answer.
LEMMA FillInFlight ==
  ASSUME Inv, NEW r \in Reader, read[r].state = "fill", NEW c, c = SETEX(read[r].version)
  PROVE  /\ c \in CommandType
         /\ stale[c.version] <= Slow + c.age
         /\ ~missed /\ c.version < db => Invalidates
<1>1. read[r].version \in Version /\ read[r].time \in 0..Slow
  BY DEF Inv, TypeInv, ReadType, NoRead
<1>2. c \in CommandType /\ c.version = read[r].version /\ c.age = 0
  BY <1>1, Sizes DEF SETEX, CommandType
<1>3. stale[read[r].version] \in Nat /\ stale[read[r].version] <= read[r].time
  BY <1>1, Sizes DEF Inv, TypeInv, StaleInv
<1>4. stale[c.version] <= Slow + c.age
  BY <1>1, <1>2, <1>3, Sizes
<1> QED
  BY <1>2, <1>4 DEF Inv, OldInv

\* A read goes on without the cache.
LEMMA FillFailsInv ==
  ASSUME Inv, NEW r \in Reader, FillFails(r)
  PROVE  Inv'
<1>1. read[r].state = "fill" /\ read[r] # NoRead /\ read[r].version \in Version
  BY DEF FillFails, Inv, TypeInv, NoRead
<1>2. /\ read'[r].state = "loaded" /\ read'[r].version = read[r].version
      /\ read'[r].at = read[r].at /\ read'[r].time = read[r].time
      /\ read[r].time \in 0..Slow
      /\ \A q \in Reader : q # r => read'[q] = read[q]
      /\ read' \in [Reader -> ReadType]
      /\ \A q \in Reader : read'[q].state \in {"fill", "loaded"} => read'[q].version \in Version
  BY <1>1, ReadMoves DEF FillFails
<1>3. UNCHANGED <<settings, db, redisUp, cache, snapshot, write, listener, inbox, stale, missed>>
  BY DEF FillFails
<1>4. TypeInv'
  BY <1>2, <1>3 DEF Inv, TypeInv
<1>5. StaleInv'
  <2>1. stale[read[r].version] \in Nat /\ stale[read[r].version] <= read[r].time
    BY <1>1, Sizes DEF Inv, TypeInv, StaleInv
  <2>2. ASSUME NEW q \in Reader
        PROVE  /\ read'[q].state = "fill" => stale[read'[q].version] <= read'[q].time
               /\ read'[q].state = "loaded" => stale[read'[q].version] <= Slow + Late + CacheTtl + read'[q].time
    <3>1. CASE q = r
      BY <3>1, <2>1, <1>2, Sizes
    <3>2. CASE q # r
      BY <3>2, <1>2 DEF Inv, StaleInv
    <3> QED
      BY <3>1, <3>2
  <2> QED
    BY <2>2, <1>3 DEF Inv, StaleInv
<1>6. RunInv'
  BY DEF Inv, TypeInv, RunInv, Runs, ReadType, NoRead, None, FillFails, Goes
<1>7. OldInv'
  BY Sizes DEF Inv, TypeInv, RunInv, Runs, OldInv, Invalidates, Behind, ReadType, WriteType,
               NoRead, NoWrite, None, Version, FillFails, Goes
<1>8. WireInv'
  <2>1. wire' \subseteq wire \cup {SETEX(read[r].version)}
    BY LeftBehindAdds DEF FillFails
  <2> QED
    BY <2>1, <1>1, <1>3, FillInFlight DEF Inv, WireInv, Invalidates
<1> QED
  BY <1>4, <1>5, <1>6, <1>7, <1>8 DEF Inv

\* The cache takes what a read had loaded that did not wait for it.
LEMMA FillLateInv ==
  ASSUME Inv, NEW c \in wire, FillLate(c)
  PROVE  Inv'
<1>1. /\ c.version \in Version /\ c.age \in 0..Late
      /\ stale[c.version] <= Slow + c.age
      /\ ~missed /\ c.version < db => Invalidates
  BY DEF FillLate, Inv, WireInv, CommandType
<1>2. /\ UNCHANGED <<settings, db, redisUp, snapshot, read, write, listener, inbox, stale, missed>>
      /\ cache' = [version |-> c.version, age |-> 0]
      /\ wire' \subseteq wire
  BY DEF FillLate, List, Executed
<1>3. TypeInv'
  <2>1. cache' \in ListType(CacheTtl)
    BY <1>1, <1>2, Sizes DEF ListType
  <2> QED
    BY <2>1, <1>2 DEF Inv, TypeInv
<1>4. StaleInv'
  <2>1. stale[c.version] \in Nat
    BY <1>1, Sizes DEF Inv, TypeInv
  <2>2. stale'[cache'.version] <= Slow + Late + cache'.age
    BY <2>1, <1>1, <1>2, Sizes
  <2> QED
    BY <2>2, <1>2 DEF Inv, StaleInv
<1>5. RunInv'
  BY <1>2 DEF Inv, RunInv, Runs
<1>6. OldInv'
  BY <1>1, <1>2 DEF Inv, OldInv, Invalidates
<1>7. WireInv'
  BY <1>2 DEF Inv, WireInv, Invalidates
<1> QED
  BY <1>3, <1>4, <1>5, <1>6, <1>7 DEF Inv

\* The snapshot takes what a read has found.
LEMMA FinishInv ==
  ASSUME Inv, NEW r \in Reader, Finish(r)
  PROVE  Inv'
<1>1. /\ read[r].state = "loaded" /\ read[r].version \in Version
      /\ read[r].at \in Instance /\ read[r].time \in 0..Slow
  <2>1. read[r].state = "loaded" /\ read[r].version \in Version /\ read[r] \in ReadType
    BY DEF Finish, Inv, TypeInv
  <2> QED
    BY <2>1 DEF ReadType, NoRead
<1>2. /\ snapshot'[read[r].at] = [version |-> read[r].version, age |-> 0]
      /\ \A i \in Instance : i # read[r].at => snapshot'[i] = snapshot[i]
      /\ read'[r] = NoRead /\ \A q \in Reader : q # r => read'[q] = read[q]
      /\ UNCHANGED <<settings, db, redisUp, cache, write, listener, inbox, wire, stale, missed>>
  BY <1>1 DEF Finish, Returns, List, Inv, TypeInv
<1>3. TypeInv'
  <2>1. snapshot' \in [Instance -> ListType(SnapshotTtl)]
    <3>1. List(read[r].version) \in ListType(SnapshotTtl)
      BY <1>1, Sizes DEF ListType, List
    <3> QED
      BY <3>1, <1>1 DEF Finish, Inv, TypeInv
  <2>2. read' \in [Reader -> ReadType]
    BY DEF Finish, Returns, Inv, TypeInv, ReadType
  <2>3. \A q \in Reader : read'[q].state \in {"fill", "loaded"} => read'[q].version \in Version
    BY <1>2 DEF Inv, TypeInv, NoRead
  <2> QED
    BY <2>1, <2>2, <2>3, <1>2 DEF Inv, TypeInv
<1>4. StaleInv'
  <2>1. stale[read[r].version] <= 2 * Slow + Late + CacheTtl
    <3>1. stale[read[r].version] \in Nat /\ stale[read[r].version] <= Slow + Late + CacheTtl + read[r].time
      BY <1>1, Sizes DEF Inv, TypeInv, StaleInv
    <3> QED
      BY <3>1, <1>1, Sizes
  <2>2. ASSUME NEW i \in Instance, snapshot'[i] # None
        PROVE  stale[snapshot'[i].version] <= 2 * Slow + Late + CacheTtl + snapshot'[i].age
    <3>1. CASE i = read[r].at
      <4>1. snapshot'[i].version = read[r].version /\ snapshot'[i].age = 0
        BY <3>1, <1>2
      <4> QED
        BY <4>1, <2>1, Sizes
    <3>2. CASE i # read[r].at
      BY <3>2, <2>2, <1>2 DEF Inv, StaleInv
    <3> QED
      BY <3>1, <3>2
  <2>3. \A q \in Reader :
          /\ read'[q].state = "fill" => stale[read'[q].version] <= read'[q].time
          /\ read'[q].state = "loaded" => stale[read'[q].version] <= Slow + Late + CacheTtl + read'[q].time
    BY <1>2 DEF Inv, StaleInv, NoRead
  <2> QED
    BY <2>2, <2>3, <1>2 DEF Inv, StaleInv
<1>5. RunInv'
  BY DEF Inv, TypeInv, RunInv, Runs, ReadType, NoRead, None, Finish, Returns, List
<1>6. OldInv'
  BY Sizes DEF Inv, TypeInv, RunInv, Runs, OldInv, Invalidates, Behind, ReadType, WriteType,
               NoRead, NoWrite, None, Version, Finish, Returns, List
<1>7. WireInv'
  BY DEF Inv, WireInv, Invalidates, Finish
<1> QED
  BY <1>3, <1>4, <1>5, <1>6, <1>7 DEF Inv

\* A commit makes lists out of date, and is still to invalidate them.
LEMMA CommitInv ==
  ASSUME Inv, NEW w \in Writer, NEW i \in Instance, Commit(w, i)
  PROVE  Inv'
<1>1. TypeInv'
  BY Sizes DEF Inv, TypeInv, ListType, ReadType, WriteType, Version, None, NoRead, NoWrite, Commit
<1>2. StaleInv'
  BY Sizes DEF Inv, TypeInv, StaleInv, ListType, ReadType, Version, None, NoRead, Commit
<1>3. RunInv'
  BY DEF Inv, TypeInv, RunInv, Runs, ReadType, NoRead, None, Commit
<1>4. OldInv'
  BY Sizes DEF Inv, TypeInv, RunInv, Runs, OldInv, Invalidates, Behind, ReadType, WriteType,
               NoRead, NoWrite, None, Version, Commit
<1>5. WireInv'
  BY DEF Inv, TypeInv, WireInv, Invalidates, Commit
<1> QED
  BY <1>1, <1>2, <1>3, <1>4, <1>5 DEF Inv

\* A writer clears its own snapshot.
LEMMA ClearSnapshotInv ==
  ASSUME Inv, NEW w \in Writer, ClearSnapshot(w)
  PROVE  Inv'
<1>1. TypeInv'
  <2>1. write[w] \in [state : {"committed", "cleared", "deleted"}, at : Instance]
    BY DEF Inv, TypeInv, WriteType, NoWrite, ClearSnapshot
  <2>2. [write[w] EXCEPT !.state = "cleared"] \in WriteType
    BY <2>1 DEF WriteType
  <2>3. write' \in [Writer -> WriteType]
    BY <2>2 DEF Inv, TypeInv, ClearSnapshot
  <2>4. snapshot' \in [Instance -> ListType(SnapshotTtl)]
    BY <2>1 DEF Inv, TypeInv, ListType, ClearSnapshot
  <2> QED
    BY <2>3, <2>4 DEF Inv, TypeInv, ClearSnapshot
<1>2. StaleInv'
  BY Sizes DEF Inv, TypeInv, StaleInv, ListType, ReadType, Version, None, NoRead,
               ClearSnapshot
<1>3. RunInv'
  BY DEF Inv, TypeInv, RunInv, Runs, ReadType, NoRead, None, ClearSnapshot
<1>4. OldInv'
  BY Sizes DEF Inv, TypeInv, RunInv, Runs, OldInv, Invalidates, Behind, ReadType, WriteType,
               NoRead, NoWrite, None, Version, ClearSnapshot
<1>5. WireInv'
  BY DEF Inv, WireInv, Invalidates, ClearSnapshot
<1> QED
  BY <1>1, <1>2, <1>3, <1>4, <1>5 DEF Inv

\* DEL: a read that still holds an old list has been overtaken.
LEMMA DeleteInv ==
  ASSUME Inv, NEW w \in Writer, Delete(w)
  PROVE  Inv'
<1>1. /\ write[w] \in [state : {"committed", "cleared", "deleted"}, at : Instance]
      /\ settings.pubsub \in BOOLEAN
  BY PolicyCacheAssumption DEF Inv, TypeInv, WriteType, NoWrite, Delete
<1>2. /\ settings.pubsub => write'[w] = [write[w] EXCEPT !.state = "deleted"]
      /\ ~settings.pubsub => write'[w] = NoWrite
      /\ \A x \in Writer : x # w => write'[x] = write[x]
  BY DEF Inv, TypeInv, Delete
<1>3. TypeInv'
  <2>1. [write[w] EXCEPT !.state = "deleted"] \in WriteType /\ NoWrite \in WriteType
    BY <1>1 DEF WriteType
  <2>2. write' \in [Writer -> WriteType]
    BY <2>1, <1>1 DEF Inv, TypeInv, Delete
  <2>3. missed' \in BOOLEAN
    BY Zenon DEF Inv, TypeInv, Delete
  <2> QED
    BY <2>2, <2>3 DEF Inv, TypeInv, ListType, Delete
<1>4. StaleInv'
  BY Sizes DEF Inv, TypeInv, StaleInv, ListType, ReadType, Version, None, NoRead, Delete
<1>5. RunInv'
  BY DEF Inv, TypeInv, RunInv, Runs, ReadType, NoRead, None, Delete
<1>6. OldInv'
  <2> SUFFICES ASSUME ~missed'
               PROVE  /\ \A r \in Reader : ~(read[r].state \in {"fill", "loaded"} /\ read[r].version < db)
                      /\ write'[w].state # "idle"
    BY DEF OldInv, Delete
  <2>1. settings.pubsub /\ ~Behind(Instance)
    BY <1>1 DEF Delete
  <2>2. \A r \in Reader : read[r].state \in {"fill", "loaded"} => read[r].at \in Instance
    BY DEF Inv, TypeInv, ReadType, NoRead
  <2>3. write'[w].state = "deleted"
    BY <2>1, <1>1, <1>2
  <2> QED
    BY <2>1, <2>2, <2>3 DEF Behind
<1>7. WireInv'
  <2>1. ~missed' => ~OldFill
    BY DEF Delete
  <2> QED
    BY <2>1 DEF Inv, WireInv, OldFill, Delete
<1> QED
  BY <1>3, <1>4, <1>5, <1>6, <1>7 DEF Inv

\* PUBLISH reaches every snapshot, or counts as lost.
LEMMA PublishInv ==
  ASSUME Inv, NEW w \in Writer, Publish(w)
  PROVE  Inv'
<1>1. TypeInv'
  BY Sizes DEF Inv, TypeInv, ListType, ReadType, WriteType, Version, None, NoRead, NoWrite,
               Publish, Subscribed
<1>2. StaleInv'
  BY Sizes DEF Inv, TypeInv, StaleInv, ListType, ReadType, Version, None, NoRead, Publish,
               Subscribed
<1>3. RunInv'
  BY DEF Inv, TypeInv, RunInv, Runs, ReadType, NoRead, None, Publish, Subscribed
<1>4. OldInv'
  BY Sizes DEF Inv, TypeInv, RunInv, Runs, OldInv, Invalidates, Behind, ReadType, WriteType,
               NoRead, NoWrite, None, Version, Publish, Subscribed
<1>5. WireInv'
  BY DEF Inv, TypeInv, WireInv, Invalidates, NoWrite, Publish
<1> QED
  BY <1>1, <1>2, <1>3, <1>4, <1>5 DEF Inv

\* The rest of an invalidation is lost.
LEMMA InvalidateFailsInv ==
  ASSUME Inv, NEW w \in Writer, InvalidateFails(w)
  PROVE  Inv'
<1>1. TypeInv'
  BY Sizes DEF Inv, TypeInv, ListType, ReadType, WriteType, Version, None, NoRead, NoWrite,
               InvalidateFails
<1>2. StaleInv'
  BY Sizes DEF Inv, TypeInv, StaleInv, ListType, ReadType, Version, None, NoRead,
               InvalidateFails
<1>3. RunInv'
  BY DEF Inv, TypeInv, RunInv, Runs, ReadType, NoRead, None, InvalidateFails
<1>4. OldInv'
  BY Sizes DEF Inv, TypeInv, RunInv, Runs, OldInv, Invalidates, Behind, ReadType, WriteType,
               NoRead, NoWrite, None, Version, InvalidateFails
<1>5. WireInv'
  <2>1. wire' \subseteq wire \cup {DEL, PUBLISH}
    BY LeftBehindAdds DEF InvalidateFails
  <2>2. /\ DEL \in CommandType /\ DEL.command # "SETEX"
        /\ PUBLISH \in CommandType /\ PUBLISH.command # "SETEX"
    BY Sizes DEF DEL, PUBLISH, CommandType
  <2>3. missed' /\ stale' = stale /\ db' = db
    BY DEF InvalidateFails
  <2> QED
    BY <2>1, <2>2, <2>3 DEF Inv, WireInv
<1> QED
  BY <1>1, <1>2, <1>3, <1>4, <1>5 DEF Inv

\* A DEL that its writer did not wait for.
LEMMA DeleteLateInv ==
  ASSUME Inv, NEW c \in wire, DeleteLate(c)
  PROVE  Inv'
<1>1. /\ UNCHANGED <<settings, db, redisUp, snapshot, read, write, listener, inbox, stale, missed>>
      /\ cache' = None
      /\ wire' \subseteq wire
  BY DEF DeleteLate, Executed
<1>2. TypeInv' /\ StaleInv' /\ RunInv'
  BY <1>1 DEF Inv, TypeInv, ListType, StaleInv, RunInv, Runs
<1>3. OldInv' /\ WireInv'
  BY <1>1 DEF Inv, OldInv, WireInv, Invalidates
<1> QED
  BY <1>2, <1>3 DEF Inv

\* A PUBLISH that its writer did not wait for.
LEMMA PublishLateInv ==
  ASSUME Inv, NEW c \in wire, PublishLate(c)
  PROVE  Inv'
<1>1. /\ UNCHANGED <<settings, db, redisUp, cache, snapshot, read, write, listener, stale, missed>>
      /\ inbox \subseteq inbox' /\ inbox' \subseteq Instance
      /\ wire' \subseteq wire
  BY DEF PublishLate, Executed, Subscribed, Inv, TypeInv
<1>2. TypeInv' /\ StaleInv' /\ RunInv'
  BY <1>1 DEF Inv, TypeInv, StaleInv, RunInv, Runs
<1>3. OldInv' /\ WireInv'
  BY <1>1 DEF Inv, OldInv, WireInv, Invalidates
<1> QED
  BY <1>2, <1>3 DEF Inv

\* The listener clears its snapshot.
LEMMA RefreshInv ==
  ASSUME Inv, NEW i \in Instance, Refresh(i)
  PROVE  Inv'
<1>1. TypeInv'
  BY Sizes DEF Inv, TypeInv, ListType, ReadType, WriteType, Version, None, NoRead, NoWrite, Refresh
<1>2. StaleInv'
  BY Sizes DEF Inv, TypeInv, StaleInv, ListType, ReadType, Version, None, NoRead, Refresh
<1>3. RunInv'
  BY DEF Inv, TypeInv, RunInv, Runs, ReadType, NoRead, None, Refresh
<1>4. OldInv'
  BY Sizes DEF Inv, TypeInv, RunInv, Runs, OldInv, Invalidates, Behind, ReadType, WriteType,
               NoRead, NoWrite, None, Version, Refresh
<1>5. WireInv'
  BY DEF Inv, WireInv, Invalidates, Refresh
<1> QED
  BY <1>1, <1>2, <1>3, <1>4, <1>5 DEF Inv

\* The listener loses its connection.
LEMMA DisconnectInv ==
  ASSUME Inv, NEW i \in Instance, Disconnect(i)
  PROVE  Inv'
<1>1. TypeInv'
  BY Sizes DEF Inv, TypeInv, ListType, ReadType, WriteType, Version, None, NoRead, NoWrite,
               Disconnect
<1>2. StaleInv'
  BY Sizes DEF Inv, TypeInv, StaleInv, ListType, ReadType, Version, None, NoRead, Disconnect
<1>3. RunInv'
  BY DEF Inv, TypeInv, RunInv, Runs, ReadType, NoRead, None, Disconnect
<1>4. OldInv'
  BY Sizes DEF Inv, TypeInv, RunInv, Runs, OldInv, Invalidates, Behind, ReadType, WriteType,
               NoRead, NoWrite, None, Version, Disconnect
<1>5. WireInv'
  BY DEF Inv, WireInv, Invalidates, Disconnect
<1> QED
  BY <1>1, <1>2, <1>3, <1>4, <1>5 DEF Inv

\* It subscribes again.
LEMMA SubscribeInv ==
  ASSUME Inv, NEW i \in Instance, Subscribe(i)
  PROVE  Inv'
<1>1. TypeInv'
  BY Sizes DEF Inv, TypeInv, ListType, ReadType, WriteType, Version, None, NoRead, NoWrite,
               Subscribe
<1>2. StaleInv'
  BY Sizes DEF Inv, TypeInv, StaleInv, ListType, ReadType, Version, None, NoRead, Subscribe
<1>3. RunInv'
  BY DEF Inv, TypeInv, RunInv, Runs, ReadType, NoRead, None, Subscribe
<1>4. OldInv'
  BY Sizes DEF Inv, TypeInv, RunInv, Runs, OldInv, Invalidates, Behind, ReadType, WriteType,
               NoRead, NoWrite, None, Version, Subscribe
<1>5. WireInv'
  BY DEF Inv, WireInv, Invalidates, Subscribe
<1> QED
  BY <1>1, <1>2, <1>3, <1>4, <1>5 DEF Inv

\* An instance starts.
LEMMA StartInv ==
  ASSUME Inv, NEW i \in Instance, Start(i)
  PROVE  Inv'
<1>1. TypeInv'
  BY Sizes DEF Inv, TypeInv, ListType, ReadType, WriteType, Version, None, NoRead, NoWrite,
               Start, Listener
<1>2. StaleInv'
  BY Sizes DEF Inv, TypeInv, StaleInv, ListType, ReadType, Version, None, NoRead, Start,
               Listener
<1>3. RunInv'
  BY DEF Inv, TypeInv, RunInv, Runs, ReadType, NoRead, None, Start, Listener
<1>4. OldInv'
  BY Sizes DEF Inv, TypeInv, RunInv, Runs, OldInv, Invalidates, Behind, ReadType, WriteType,
               NoRead, NoWrite, None, Version, Start, Listener
<1>5. WireInv'
  BY DEF Inv, WireInv, Invalidates, Start
<1> QED
  BY <1>1, <1>2, <1>3, <1>4, <1>5 DEF Inv

\* An instance stops.
LEMMA StopInv ==
  ASSUME Inv, NEW i \in Instance, Stop(i)
  PROVE  Inv'
<1>1. TypeInv'
  BY Sizes DEF Inv, TypeInv, ListType, ReadType, WriteType, Version, None, NoRead, NoWrite, Stop
<1>2. StaleInv'
  BY Sizes DEF Inv, TypeInv, StaleInv, ListType, ReadType, Version, None, NoRead, Stop
<1>3. RunInv'
  BY DEF Inv, TypeInv, RunInv, Runs, ReadType, NoRead, None, Stop
<1>4. OldInv'
  BY Sizes DEF Inv, TypeInv, RunInv, Runs, OldInv, Invalidates, Behind, ReadType, WriteType,
               NoRead, NoWrite, None, Version, Stop
<1>5. WireInv'
  <2>1. wire' \subseteq wire \cup Sent(i) /\ stale' = stale /\ db' = db
    BY LeftBehindAdds DEF Stop
  <2>2. ~missed' => ~missed /\ (Invalidates => Invalidates')
    BY DEF Inv, TypeInv, WriteType, NoWrite, Invalidates, Stop
  <2>3. DEL.command # "SETEX" /\ PUBLISH.command # "SETEX"
    BY DEF DEL, PUBLISH
  <2>4. DEL \in CommandType /\ PUBLISH \in CommandType
    BY Sizes DEF DEL, PUBLISH, CommandType
  <2>5. ASSUME NEW c \in Sent(i)
        PROVE  /\ c \in CommandType
               /\ c.command = "SETEX" => /\ stale[c.version] <= Slow + c.age
                                         /\ ~missed /\ c.version < db => Invalidates
    <3>1. CASE c \in {DEL, PUBLISH}
      BY <3>1, <2>3, <2>4
    <3>2. CASE \E r \in Reader : read[r].state = "fill" /\ c = SETEX(read[r].version)
      BY <3>2, FillInFlight
    <3> QED
      BY <3>1, <3>2 DEF Sent
  <2> QED
    BY <2>1, <2>2, <2>5 DEF Inv, WireInv
<1> QED
  BY <1>1, <1>2, <1>3, <1>4, <1>5 DEF Inv

\* Redis loses the cached list and its subscribers.
LEMMA RedisCrashInv ==
  ASSUME Inv, RedisCrash
  PROVE  Inv'
<1>1. TypeInv'
  BY Sizes DEF Inv, TypeInv, ListType, ReadType, WriteType, Version, None, NoRead, NoWrite,
               RedisCrash
<1>2. StaleInv'
  BY Sizes DEF Inv, TypeInv, StaleInv, ListType, ReadType, Version, None, NoRead, RedisCrash
<1>3. RunInv'
  BY DEF Inv, TypeInv, RunInv, Runs, ReadType, NoRead, None, RedisCrash
<1>4. OldInv'
  BY Sizes DEF Inv, TypeInv, RunInv, Runs, OldInv, Invalidates, Behind, ReadType, WriteType,
               NoRead, NoWrite, None, Version, RedisCrash
<1>5. WireInv'
  BY DEF Inv, WireInv, Invalidates, RedisCrash
<1> QED
  BY <1>1, <1>2, <1>3, <1>4, <1>5 DEF Inv

\* Redis starts.
LEMMA RedisStartInv ==
  ASSUME Inv, RedisStart
  PROVE  Inv'
<1>1. TypeInv'
  BY Sizes DEF Inv, TypeInv, ListType, ReadType, WriteType, Version, None, NoRead, NoWrite,
               RedisStart
<1>2. StaleInv'
  BY Sizes DEF Inv, TypeInv, StaleInv, ListType, ReadType, Version, None, NoRead, RedisStart
<1>3. RunInv'
  BY DEF Inv, TypeInv, RunInv, Runs, ReadType, NoRead, None, RedisStart
<1>4. OldInv'
  BY Sizes DEF Inv, TypeInv, RunInv, Runs, OldInv, Invalidates, Behind, ReadType, WriteType,
               NoRead, NoWrite, None, Version, RedisStart
<1>5. WireInv'
  BY DEF Inv, WireInv, Invalidates, RedisStart
<1> QED
  BY <1>1, <1>2, <1>3, <1>4, <1>5 DEF Inv

\* A second passes.
LEMMA TickInv ==
  ASSUME Inv, Tick
  PROVE  Inv'
<1>1. UNCHANGED <<settings, db, redisUp, write, listener, inbox, missed>>
  BY DEF Tick
<1>2. ASSUME NEW r \in Reader
      PROVE  /\ read[r] = NoRead => read'[r] = NoRead
             /\ read[r] # NoRead =>
                  /\ read'[r] \in ReadType /\ read'[r] # NoRead
                  /\ read'[r].state = read[r].state /\ read'[r].version = read[r].version
                  /\ read'[r].at = read[r].at /\ read'[r].time = read[r].time + 1
                  /\ read[r].time \in Nat
  <2>1. CASE read[r] = NoRead
    BY <2>1 DEF Tick
  <2>2. CASE read[r] # NoRead
    <3>1. read[r] \in [state : {"miss", "failed", "fill", "loaded"}, version : Version \cup {-1},
                       at : Instance, time : 0..Slow] /\ read[r].time < Slow
      BY <2>2 DEF Inv, TypeInv, ReadType, Tick
    <3>2. read'[r] = [read[r] EXCEPT !.time = read[r].time + 1]
      BY <2>2 DEF Tick
    <3>3. read[r].time + 1 \in 0..Slow
      BY <3>1, Sizes
    <3>4. read'[r] \in [state : {"miss", "failed", "fill", "loaded"}, version : Version \cup {-1},
                        at : Instance, time : 0..Slow]
      BY <3>1, <3>2, <3>3
    <3> QED
      BY <3>1, <3>2, <3>4, <2>2 DEF ReadType, NoRead
  <2> QED
    BY <2>1, <2>2
<1>3. /\ cache' \in ListType(CacheTtl)
      /\ cache' # None => /\ cache # None
                          /\ cache'.version = cache.version /\ cache'.age = cache.age + 1
                          /\ cache.age \in Nat /\ cache.version \in Version
  <2>1. CASE cache = None
    BY <2>1 DEF Tick, ListType
  <2>2. CASE cache # None
    <3>1. cache \in [version : Version, age : 0..CacheTtl] /\ cache' = Expired
      BY <2>2 DEF Tick, Inv, TypeInv, ListType
    <3>2. cache.age # CacheTtl => cache.age + 1 \in 0..CacheTtl
      BY <3>1, Sizes
    <3> QED
      BY <3>1, <3>2, <2>2 DEF Expired, ListType
  <2> QED
    BY <2>1, <2>2
<1>4. ASSUME NEW i \in Instance
      PROVE  /\ snapshot'[i] \in ListType(SnapshotTtl)
             /\ snapshot'[i] # None =>
                  /\ snapshot[i] # None
                  /\ snapshot'[i].version = snapshot[i].version
                  /\ snapshot'[i].age = snapshot[i].age + 1
                  /\ snapshot[i].version \in Version /\ snapshot[i].age \in Nat
  <2>1. CASE snapshot[i] = None
    BY <2>1 DEF Tick, Aged, ListType
  <2>2. CASE snapshot[i] # None
    <3>1. snapshot[i] \in [version : Version, age : 0..SnapshotTtl] /\ snapshot'[i] = Aged(i)
      BY <2>2 DEF Tick, Inv, TypeInv, ListType
    <3>2. snapshot[i].age # SnapshotTtl => snapshot[i].age + 1 \in 0..SnapshotTtl
      BY <3>1, Sizes
    <3> QED
      BY <3>1, <3>2, <2>2 DEF Aged, ListType
  <2> QED
    BY <2>1, <2>2
<1>5. ASSUME NEW v \in Version
      PROVE  /\ stale[v] \in Nat /\ stale'[v] \in 0..Horizon /\ stale'[v] <= stale[v] + 1
             /\ v >= db => stale'[v] = 0
  BY Sizes DEF Tick, Older, Inv, TypeInv, Version
<1>6. TypeInv'
  <2>1. read' \in [Reader -> ReadType]
    <3>1. \A r \in Reader : read'[r] \in ReadType
      BY <1>2 DEF ReadType
    <3> QED
      BY <3>1 DEF Tick
  <2>2. \A r \in Reader : read'[r].state \in {"fill", "loaded"} => read'[r].version \in Version
    BY <1>2 DEF Inv, TypeInv, NoRead
  <2>3. snapshot' \in [Instance -> ListType(SnapshotTtl)]
    BY <1>4 DEF Tick
  <2>4. stale' \in [Version -> 0..Horizon]
    BY <1>5 DEF Tick
  <2> QED
    BY <2>1, <2>2, <2>3, <2>4, <1>1, <1>3 DEF Inv, TypeInv
<1>7. StaleInv'
  <2>1. cache' # None => stale'[cache'.version] <= Slow + Late + cache'.age
    <3> SUFFICES ASSUME cache' # None PROVE stale'[cache'.version] <= Slow + Late + cache'.age
      OBVIOUS
    <3>1. stale[cache.version] <= Slow + Late + cache.age
      BY <1>3 DEF Inv, StaleInv
    <3> QED
      BY <3>1, <1>3, <1>5, Sizes
  <2>2. ASSUME NEW r \in Reader
        PROVE  /\ read'[r].state = "fill" => stale'[read'[r].version] <= read'[r].time
               /\ read'[r].state = "loaded" => stale'[read'[r].version] <= Slow + Late + CacheTtl + read'[r].time
    <3>1. CASE read[r] = NoRead
      BY <3>1, <1>2 DEF NoRead
    <3>2. CASE read[r] # NoRead
      <4>1. /\ read[r].state = "fill" => stale[read[r].version] <= read[r].time
            /\ read[r].state = "loaded" => stale[read[r].version] <= Slow + Late + CacheTtl + read[r].time
            /\ read[r].state \in {"fill", "loaded"} => read[r].version \in Version
        BY DEF Inv, StaleInv, TypeInv
      <4> QED
        BY <4>1, <3>2, <1>2, <1>5, Sizes
    <3> QED
      BY <3>1, <3>2
  <2>3. ASSUME NEW i \in Instance, snapshot'[i] # None
        PROVE  stale'[snapshot'[i].version] <= 2 * Slow + Late + CacheTtl + snapshot'[i].age
    <3>1. stale[snapshot[i].version] <= 2 * Slow + Late + CacheTtl + snapshot[i].age
      BY <2>3, <1>4 DEF Inv, StaleInv
    <3> QED
      BY <3>1, <2>3, <1>4, <1>5, Sizes
  <2> QED
    BY <2>1, <2>2, <2>3, <1>1, <1>5 DEF StaleInv
<1>8. RunInv'
  BY <1>1, <1>2, <1>4 DEF Inv, RunInv, Runs
<1>9. OldInv'
  <2>1. \A r \in Reader : read'[r].state \in {"fill", "loaded"} =>
          read'[r].state = read[r].state /\ read'[r].version = read[r].version
    BY <1>2 DEF NoRead
  <2> QED
    BY <2>1, <1>1, <1>3, <1>4 DEF Inv, OldInv, Invalidates
<1>10. WireInv'
  <2>1. ASSUME NEW c \in wire'
        PROVE  /\ c \in CommandType
               /\ c.command = "SETEX" => /\ stale'[c.version] <= Slow + c.age
                                         /\ ~missed /\ c.version < db => Invalidates
    <3>1. PICK d \in wire : d.age < Late /\ c = [d EXCEPT !.age = d.age + 1]
      BY DEF Tick
    <3>2. d \in CommandType /\ d.age \in 0..Late /\ d.age + 1 \in 0..Late
      BY <3>1, Sizes DEF Inv, WireInv, CommandType
    <3>3. CASE d.command = "SETEX"
      <4>1. d \in [command : {"SETEX"}, version : Version, age : 0..Late]
        BY <3>2, <3>3 DEF CommandType
      <4>2. /\ c \in CommandType /\ d.version \in Version
            /\ c.version = d.version /\ c.age = d.age + 1
        BY <4>1, <3>1, <3>2 DEF CommandType
      <4>3. stale[d.version] <= Slow + d.age /\ (~missed /\ d.version < db => Invalidates)
        BY <3>3 DEF Inv, WireInv
      <4>4. stale'[c.version] <= Slow + c.age
        BY <4>2, <4>3, <3>2, <1>5, Sizes
      <4> QED
        BY <4>2, <4>3, <4>4
    <3>4. CASE d.command # "SETEX"
      <4>1. d \in [command : {"DEL", "PUBLISH"}, age : 0..Late]
        BY <3>2, <3>4 DEF CommandType
      <4>2. c \in [command : {"DEL", "PUBLISH"}, age : 0..Late]
        BY <4>1, <3>1, <3>2
      <4> QED
        BY <4>2 DEF CommandType
    <3> QED
      BY <3>3, <3>4
  <2> QED
    BY <2>1, <1>1 DEF WireInv, Invalidates
<1> QED
  BY <1>6, <1>7, <1>8, <1>9, <1>10 DEF Inv
-----------------------------------------------------------------------------
\* It holds at first.
LEMMA InitInv ==
  ASSUME Init
  PROVE  Inv
<1>1. TypeInv
  <2>1. db \in Version /\ stale \in [Version -> 0..Horizon]
    BY Sizes DEF Init, Version
  <2>2. read \in [Reader -> ReadType] /\ \A r \in Reader : read[r].state = "idle"
    BY DEF Init, ReadType, NoRead
  <2>3. cache \in ListType(CacheTtl) /\ snapshot \in [Instance -> ListType(SnapshotTtl)]
    BY DEF Init, ListType
  <2>4. write \in [Writer -> WriteType]
    BY DEF Init, WriteType
  <2> QED
    BY <2>1, <2>2, <2>3, <2>4 DEF Init, TypeInv
<1>2. StaleInv
  BY Sizes DEF Init, StaleInv, NoRead, Version
<1>3. RunInv /\ OldInv /\ WireInv
  BY DEF Init, RunInv, OldInv, WireInv, NoRead
<1> QED
  BY <1>1, <1>2, <1>3 DEF Inv

\* No step breaks it.
LEMMA NextInv ==
  ASSUME Inv, [Next]_vars
  PROVE  Inv'
<1>1. CASE \E r \in Reader : ReadStep(r)
  BY <1>1, LoadInv, FillInv, FillFailsInv, FinishInv DEF ReadStep
<1>2. CASE \E r \in Reader, i \in Instance : Get(r, i) \/ GetFails(r, i)
  BY <1>2, GetInv, GetFailsInv
<1>3. CASE \E w \in Writer : WriteStep(w)
  BY <1>3, ClearSnapshotInv, DeleteInv, PublishInv, InvalidateFailsInv DEF WriteStep
<1>4. CASE \E w \in Writer, i \in Instance : Commit(w, i)
  BY <1>4, CommitInv
<1>5. CASE \E i \in Instance : Refresh(i) \/ Disconnect(i) \/ Subscribe(i) \/ Start(i) \/ Stop(i)
  BY <1>5, RefreshInv, DisconnectInv, SubscribeInv, StartInv, StopInv
<1>6. CASE RedisCrash \/ RedisStart \/ Tick
  BY <1>6, RedisCrashInv, RedisStartInv, TickInv
<1>7. CASE \E c \in wire : FillLate(c) \/ DeleteLate(c) \/ PublishLate(c)
  BY <1>7, FillLateInv, DeleteLateInv, PublishLateInv
<1>8. CASE UNCHANGED vars
  <2>1. TypeInv' /\ StaleInv'
    BY <1>8 DEF vars, Inv, TypeInv, StaleInv
  <2>2. RunInv' /\ OldInv' /\ WireInv'
    BY <1>8 DEF vars, Inv, RunInv, Runs, OldInv, WireInv, Invalidates
  <2> QED
    BY <2>1, <2>2 DEF Inv
<1> QED
  BY <1>1, <1>2, <1>3, <1>4, <1>5, <1>6, <1>7, <1>8 DEF Next

\* All of this holds in every state of every behaviour.
THEOREM CacheInvariant == Spec => []Inv
<1>1. Init => Inv
  BY InitInv
<1>2. Inv /\ [Next]_vars => Inv'
  BY NextInv
<1> QED
  BY <1>1, <1>2, PTL DEF Spec

\* What is kept where has its type, ages within the times to live included.
THEOREM TypeCorrect == Spec => []TypeOK
<1>1. Inv => TypeOK
  <2> SUFFICES ASSUME Inv PROVE TypeOK
    OBVIOUS
  <2>1. \A r \in Reader : read[r] # NoRead =>
          /\ read[r].state \in {"miss", "failed", "fill", "loaded"}
          /\ read[r].time \in 0..Slow
          /\ read[r].state \in {"fill", "loaded"} => read[r].version \in Version
    BY DEF Inv, TypeInv, ReadType
  <2>2. \A w \in Writer : write[w].state \in {"idle", "committed", "cleared", "deleted"}
    BY DEF Inv, TypeInv, WriteType, NoWrite
  <2> QED
    BY <2>1, <2>2 DEF Inv, TypeInv, WireInv, CommandType, TypeOK, ListType
<1> QED
  BY <1>1, CacheInvariant, PTL

(***************************************************************************)
(* No instance works with a list that has been out of date for longer than *)
(* the two times to live, the reads that passed it on and the time that a  *)
(* SETEX outlives its read, whatever invalidations are lost or overtaken   *)
(* and whatever is executed after its caller gave up or stopped.           *)
(***************************************************************************)
THEOREM StalenessHolds == Spec => []StalenessBounded
<1>1. Inv => StalenessBounded
  <2> SUFFICES ASSUME Inv PROVE StalenessBounded
    OBVIOUS
  <2>1. cache # None => stale[cache.version] <= Slow + Late + CacheTtl
    <3>1. cache # None => /\ cache.age \in 0..CacheTtl /\ stale[cache.version] \in Nat
                          /\ stale[cache.version] <= Slow + Late + cache.age
      BY Sizes DEF Inv, TypeInv, StaleInv, ListType
    <3> QED
      BY <3>1, Sizes
  <2>2. ASSUME NEW r \in Reader, read[r].state = "loaded"
        PROVE  stale[read[r].version] <= 2 * Slow + Late + CacheTtl
    <3>1. /\ read[r].time \in 0..Slow /\ stale[read[r].version] \in Nat
          /\ stale[read[r].version] <= Slow + Late + CacheTtl + read[r].time
      <4>1. read[r] \in ReadType /\ read[r].version \in Version
        BY <2>2 DEF Inv, TypeInv
      <4> QED
        BY <4>1, <2>2, Sizes DEF Inv, TypeInv, StaleInv, ReadType, NoRead
    <3> QED
      BY <3>1, Sizes
  <2>3. ASSUME NEW i \in Instance, snapshot[i] # None
        PROVE  stale[snapshot[i].version] <= 2 * Slow + Late + CacheTtl + SnapshotTtl
    <3>1. /\ snapshot[i].age \in Nat /\ snapshot[i].age <= SnapshotTtl
          /\ stale[snapshot[i].version] \in Nat
          /\ stale[snapshot[i].version] <= 2 * Slow + Late + CacheTtl + snapshot[i].age
      BY <2>3, Sizes DEF Inv, TypeInv, StaleInv, ListType
    <3> QED
      BY <3>1, Sizes
  <2> QED
    BY <2>1, <2>2, <2>3 DEF StalenessBounded
<1> QED
  BY <1>1, CacheInvariant, PTL

(***************************************************************************)
(* If no part of an invalidation was lost, and none overtook a read with   *)
(* an old list or the SETEX that one left behind, an old list is cached    *)
(* only until the write's DEL, and an old snapshot is kept only until its  *)
(* message arrives.                                                        *)
(***************************************************************************)
THEOREM InvalidationHolds == Spec => []InvalidationWorks
<1>1. Inv => InvalidationWorks
  BY DEF Inv, OldInv, Invalidates, InvalidationWorks
<1> QED
  BY <1>1, CacheInvariant, PTL
=============================================================================
