--------------------------- MODULE EdgeRuntimeProofs ---------------------------
(***************************************************************************)
(* IInv of EdgeRuntime is inductive, and the safety properties follow from *)
(* it.  First the table: what closing and upserting do to its rows.  Then  *)
(* the entity store and the queues, and then one lemma for every action.   *)
(* After the safety properties, the work that is left in a shutdown, and   *)
(* the refinement of PresenceLog.                                          *)
(***************************************************************************)
EXTENDS EdgeRuntime, FiniteSetTheorems, TLAPS

Rows == Row(Entities, Stamps)
OpsStates == [pc : {"idle", "updating", "ended"}, at : [Entities -> Walls],
              visible : SUBSET Entities, todo : SUBSET Entities]

\* The properties as predicates on a table.
Single(rows) ==
  \A i, j \in OpenRows(rows) : rows[i].entity = rows[j].entity => i = j

\* A row that claims no more than a store has observed.
Witnessed(r, st) == Dated(r) /\ NotAfter(r.last, st[r.entity].wall)

Bounded(rows, st, pc) ==
  \A i \in OpenRows(rows) :
    (Undated(rows[i]) /\ pc = "updating") \/ Witnessed(rows[i], st)

Forward(rows, new) ==
  \A i \in 1 .. Len(rows) :
    /\ i <= Len(new)
    /\ new[i].entity = rows[i].entity
    /\ new[i].started = rows[i].started
    /\ \/ new[i].last = rows[i].last
       \/ /\ Seconds \notin {rows[i].last, new[i].last}
          /\ new[i].last > rows[i].last
    /\ ~IsOpen(rows[i]) => new[i] = rows[i]

\* A table that follows another one: no row lost, none opened that was closed.
Follows(rows, new) == new \in Seq(Rows) /\ Forward(rows, new)

LEMMA TimesAreNat ==
  /\ Times \subseteq Nat /\ 0 \in Times /\ MaxTime \in Nat
  /\ Seconds \notin Nat /\ Never \notin Nat
BY RuntimeAssumption, SecondsAssumption, EntityAssumption DEF Times

LEMMA Unchanged ==
  ASSUME NEW rows \in Seq(Rows)
  PROVE  Follows(rows, rows)
BY DEF Follows, Forward

\* Closing some open rows leaves the others as they are.
LEMMA Closing ==
  ASSUME NEW rows \in Seq(Rows), NEW ids, ids \subseteq OpenRows(rows)
  PROVE  /\ Follows(rows, ClosedRows(rows, ids))
         /\ OpenRows(ClosedRows(rows, ids)) = OpenRows(rows) \ ids
         /\ \A i \in OpenRows(rows) \ ids : ClosedRows(rows, ids)[i] = rows[i]
<1> DEFINE new == ClosedRows(rows, ids)
<1>1. Len(rows) \in Nat /\ \A i \in 1 .. Len(rows) : rows[i] \in Rows
  OBVIOUS
<1>2. new = [i \in 1 .. Len(rows) |->
               IF i \in ids THEN [rows[i] EXCEPT !.status = "closed"] ELSE rows[i]]
  BY DEF ClosedRows
<1>3. ASSUME NEW i \in 1 .. Len(rows)
      PROVE  /\ new[i] \in Rows
             /\ i \in ids => /\ new[i].entity = rows[i].entity
                             /\ new[i].started = rows[i].started
                             /\ new[i].last = rows[i].last
                             /\ new[i].status = "closed"
             /\ i \notin ids => new[i] = rows[i]
  <2>1. rows[i] \in Rows
    BY <1>1
  <2>2. CASE i \in ids
    <3>1. new[i] = [rows[i] EXCEPT !.status = "closed"]
      BY <1>2, <2>2
    <3> QED BY <2>1, <2>2, <3>1 DEF Rows, Row, Statuses
  <2>3. CASE i \notin ids
    BY <1>2, <2>1, <2>3
  <2> QED BY <2>2, <2>3
<1> HIDE DEF new
<1>4. new \in Seq(Rows) /\ Len(new) = Len(rows)
  <2>1. new = [i \in 1 .. Len(rows) |-> new[i]]
    BY <1>2
  <2>2. \A i \in 1 .. Len(rows) : new[i] \in Rows
    BY <1>3
  <2>3. new \in [1 .. Len(rows) -> Rows]
    BY <2>1, <2>2
  <2> QED BY <1>1, <2>3
<1>5. \A i \in ids : i \in 1 .. Len(rows) /\ IsOpen(rows[i])
  BY DEF OpenRows
<1>6. Forward(rows, new)
  BY <1>1, <1>3, <1>4, <1>5 DEF Forward
<1>7. OpenRows(new) = OpenRows(rows) \ ids
  BY <1>3, <1>4, <1>5 DEF OpenRows, IsOpen
<1>8. \A i \in OpenRows(rows) \ ids : new[i] = rows[i]
  BY <1>3 DEF OpenRows
<1> QED BY <1>4, <1>6, <1>7, <1>8 DEF new, Follows

\* What a closing update keeps.
LEMMA ClosingKeeps ==
  ASSUME NEW rows \in Seq(Rows), NEW ids, ids \subseteq OpenRows(rows),
         NEW new, new = ClosedRows(rows, ids)
  PROVE  /\ Follows(rows, new)
         /\ Single(rows) => Single(new)
         /\ \A st, pc : Bounded(rows, st, pc) => Bounded(new, st, pc)
         /\ OpenRows(new) = OpenRows(rows) \ ids
         /\ \A i \in OpenRows(new) : new[i] = rows[i]
<1>1. /\ Follows(rows, new) /\ OpenRows(new) = OpenRows(rows) \ ids
      /\ \A i \in OpenRows(rows) \ ids : new[i] = rows[i]
  BY Closing
<1>2. Single(rows) => Single(new)
  BY <1>1 DEF Single
<1>3. ASSUME NEW st, NEW pc, Bounded(rows, st, pc)
      PROVE  Bounded(new, st, pc)
  BY <1>1, <1>3 DEF Bounded
<1> QED BY <1>1, <1>2, <1>3

\* An upsert updates the one open row of the entity, or opens the first one.
LEMMA UpsertKeeps ==
  ASSUME NEW rows \in Seq(Rows), NEW e \in Entities, NEW at \in Stamps,
         NEW visible \in BOOLEAN, Single(rows),
         NEW st, Bounded(rows, st, "updating"),
         visible => at = Seconds \/ NotAfter(at, st[e].wall)
  PROVE  /\ Follows(rows, Upserted(rows, e, at, visible))
         /\ Single(Upserted(rows, e, at, visible))
         /\ Bounded(Upserted(rows, e, at, visible), st, "updating")
<1> DEFINE new == Upserted(rows, e, at, visible)
<1>1. Len(rows) \in Nat /\ \A k \in 1 .. Len(rows) : rows[k] \in Rows
  OBVIOUS
<1>2. at \in Nat \/ at = Seconds
  BY TimesAreNat DEF Stamps
<1>3. \A k \in 1 .. Len(rows) : /\ rows[k].last \in Nat \cup {Seconds}
                               /\ rows[k].started \in Nat \cup {Seconds}
  BY <1>1, TimesAreNat DEF Rows, Row, Stamps
<1>4. CASE OpenRowsOf(rows, e) # {}
  <2>1. PICK i : i \in OpenRowsOf(rows, e)
    BY <1>4
  <2>2. i \in 1 .. Len(rows) /\ IsOpen(rows[i]) /\ rows[i].entity = e
        /\ i \in OpenRows(rows)
    BY <2>1 DEF OpenRowsOf, OpenRows
  <2>3. \A j \in OpenRowsOf(rows, e) : j = i
    BY <2>1, <2>2 DEF OpenRowsOf, Single
  <2>4. Newest(OpenRowsOf(rows, e)) = i
    <3>1. \A j \in OpenRowsOf(rows, e) : j <= i
      BY <1>1, <2>2, <2>3
    <3> QED BY <2>1, <2>3, <3>1 DEF Newest
  <2> DEFINE r == IF visible THEN Seen(rows[i], at)
                  ELSE [rows[i] EXCEPT !.status = "occluded"]
  <2>5. /\ r \in Rows /\ r.entity = e /\ r.started = rows[i].started
        /\ r.last = (IF visible THEN Later(rows[i].last, at) ELSE rows[i].last)
        /\ r.status \in {"active", "occluded"}
    <3>1. rows[i] \in Rows
      BY <1>1, <2>2
    <3>2. Later(rows[i].last, at) \in Stamps
      BY <3>1 DEF Later, Rows, Row
    <3>3. CASE visible
      <4>1. r = [rows[i] EXCEPT !.last = Later(rows[i].last, at), !.status = "active"]
        BY <3>3 DEF Seen
      <4> QED BY <2>2, <3>1, <3>2, <3>3, <4>1 DEF Rows, Row, Statuses
    <3>4. CASE ~visible
      <4>1. r = [rows[i] EXCEPT !.status = "occluded"]
        BY <3>4
      <4> QED BY <2>2, <3>1, <3>4, <4>1 DEF Rows, Row, Statuses
    <3> QED BY <3>3, <3>4
  <2>6. new = [rows EXCEPT ![i] = r]
    BY <1>4, <2>4 DEF Upserted
  <2>7. /\ \/ r.last = rows[i].last
           \/ Seconds \notin {rows[i].last, r.last} /\ r.last > rows[i].last
        /\ Undated(r) \/ Witnessed(r, st)
    <3>1. Undated(rows[i]) \/ Witnessed(rows[i], st)
      BY <2>2 DEF Bounded
    <3>2. /\ rows[i].last \in Nat \cup {Seconds}
          /\ rows[i].started \in Nat \cup {Seconds}
      BY <1>3, <2>2
    <3> HIDE DEF r
    <3>3. CASE r.last = rows[i].last
      BY <2>2, <2>5, <3>1, <3>3 DEF Undated, Witnessed, Dated
    <3>4. CASE r.last # rows[i].last
      <4>1. /\ visible /\ r.last = at
            /\ rows[i].last # Seconds /\ at # Seconds /\ rows[i].last < at
        BY <2>5, <3>4 DEF Later
      <4>2. rows[i].started # Seconds /\ rows[i].started <= rows[i].last
        BY <3>1, <4>1 DEF Undated, Witnessed, Dated
      <4>3. /\ rows[i].started \in Nat /\ rows[i].last \in Nat /\ at \in Nat
            /\ rows[i].started <= at /\ at > rows[i].last
        BY <1>2, <3>2, <4>1, <4>2
      <4>4. NotAfter(at, st[e].wall)
        BY <4>1
      <4> QED BY <2>5, <4>1, <4>2, <4>3, <4>4 DEF Witnessed, Dated
    <3> QED BY <3>3, <3>4
  <2> HIDE DEF r, new
  <2>8. /\ new \in Seq(Rows) /\ Len(new) = Len(rows) /\ new[i] = r
        /\ \A k \in (1 .. Len(rows)) \ {i} : new[k] = rows[k]
    BY <2>2, <2>5, <2>6
  <2>9. OpenRows(new) = OpenRows(rows)
    BY <2>2, <2>5, <2>8 DEF OpenRows, IsOpen
  <2>10. \A k \in OpenRows(rows) : k \in 1 .. Len(rows) /\ new[k].entity = rows[k].entity
    BY <2>2, <2>5, <2>8 DEF OpenRows
  <2>11. Forward(rows, new)
    BY <1>1, <2>2, <2>5, <2>7, <2>8 DEF Forward
  <2>12. Single(new)
    BY <2>9, <2>10 DEF Single
  <2>13. Bounded(new, st, "updating")
    <3> SUFFICES ASSUME NEW k \in OpenRows(rows)
                 PROVE  Undated(new[k]) \/ Witnessed(new[k], st)
      BY <2>9 DEF Bounded
    <3>1. CASE k = i
      BY <2>7, <2>8, <3>1
    <3>2. CASE k # i
      BY <2>8, <2>10, <3>2 DEF Bounded
    <3> QED BY <3>1, <3>2
  <2> QED BY <2>8, <2>11, <2>12, <2>13 DEF new, Follows
<1>5. CASE OpenRowsOf(rows, e) = {} /\ visible
  <2> DEFINE r == [entity |-> e, started |-> at, last |-> at, status |-> "active"]
  <2>1. r \in Rows /\ r.entity = e /\ r.started = at /\ r.last = at /\ r.status = "active"
    BY DEF Rows, Row, Statuses
  <2>2. new = Append(rows, r)
    BY <1>5 DEF Upserted
  <2> HIDE DEF r, new
  <2>3. /\ new \in Seq(Rows) /\ Len(new) = Len(rows) + 1 /\ new[Len(rows) + 1] = r
        /\ \A k \in 1 .. Len(rows) : new[k] = rows[k]
    BY <1>1, <2>1, <2>2
  <2>4. Forward(rows, new)
    BY <1>1, <2>3 DEF Forward
  <2>5. OpenRows(new) = OpenRows(rows) \cup {Len(rows) + 1}
    BY <1>1, <2>1, <2>3 DEF OpenRows, IsOpen
  <2>6. \A k \in OpenRows(rows) : k \in 1 .. Len(rows) /\ rows[k].entity # e
    BY <1>5 DEF OpenRowsOf, OpenRows
  <2>7. Single(new)
    BY <2>1, <2>3, <2>5, <2>6 DEF Single
  <2>8. Bounded(new, st, "updating")
    <3>1. Undated(r) \/ Witnessed(r, st)
      BY <1>2, <1>5, <2>1 DEF Undated, Witnessed, Dated
    <3> SUFFICES ASSUME NEW k \in OpenRows(new)
                 PROVE  Undated(new[k]) \/ Witnessed(new[k], st)
      BY DEF Bounded
    <3>2. CASE k = Len(rows) + 1
      BY <2>3, <3>1, <3>2
    <3>3. CASE k \in OpenRows(rows)
      BY <2>3, <2>6, <3>3 DEF Bounded
    <3> QED BY <2>5, <3>2, <3>3
  <2> QED BY <2>3, <2>4, <2>7, <2>8 DEF new, Follows
<1>6. CASE OpenRowsOf(rows, e) = {} /\ ~visible
  BY <1>6, Unchanged DEF Upserted
<1> QED BY <1>4, <1>5, <1>6

-----------------------------------------------------------------------------
(* The entity store and the queues *)

Stores == [Entities -> [life : Lives, seen : Times, wall : Walls]]

\* No observation is taken back.
Grown(old, new) ==
  \A e \in Entities : /\ old[e].wall \in Walls /\ new[e].wall \in Walls
                      /\ old[e].wall # Never => NotAfter(old[e].wall, new[e].wall)

\* TrackedFirst, of any store.
First(st) == \A e \in Entities : st[e].wall # Never => st[e].wall <= st[e].seen

LEMMA WallsAre == \A t \in Walls : t = Never \/ t \in Nat
BY TimesAreNat DEF Walls

LEMMA GrownAgain ==
  ASSUME NEW st, NEW mid, NEW new, Grown(st, mid), Grown(mid, new)
  PROVE  Grown(st, new)
<1> SUFFICES ASSUME NEW e \in Entities, st[e].wall # Never
             PROVE  NotAfter(st[e].wall, new[e].wall)
  BY DEF Grown
<1>1. /\ st[e].wall \in Walls /\ mid[e].wall \in Walls /\ new[e].wall \in Walls
      /\ mid[e].wall # Never /\ st[e].wall <= mid[e].wall
      /\ new[e].wall # Never /\ mid[e].wall <= new[e].wall
  BY DEF Grown, NotAfter
<1>2. st[e].wall \in Nat /\ mid[e].wall \in Nat /\ new[e].wall \in Nat
  BY <1>1, WallsAre
<1> QED BY <1>1, <1>2 DEF NotAfter

\* update_tracks leaves the observations alone; a track is only seen later.
LEMMA UpdatedStore ==
  ASSUME NEW st \in Stores, First(st), NEW tracked \in SUBSET Entities, NEW switched,
         NEW now \in Times
  PROVE  /\ Updated(st, tracked, switched, now) \in Stores
         /\ First(Updated(st, tracked, switched, now))
         /\ Grown(st, Updated(st, tracked, switched, now))
<1> DEFINE new == Updated(st, tracked, switched, now)
<1>1. now \in Nat
  BY TimesAreNat
<1>2. ASSUME NEW e \in Entities
      PROVE  /\ new[e] \in [life : Lives, seen : Times, wall : Walls]
             /\ new[e].wall = st[e].wall
             /\ st[e].seen <= new[e].seen
             /\ st[e].seen \in Nat /\ new[e].seen \in Nat
             /\ st[e].wall \in Walls
  <2>1. st[e] \in [life : Lives, seen : Times, wall : Walls]
    BY DEF Stores
  <2>2. st[e].seen \in Nat
    BY <2>1, TimesAreNat
  <2>3. CASE e \in tracked
    <3>1. new[e] = [st[e] EXCEPT !.life = "active",
                                 !.seen = IF st[e].seen < now THEN now ELSE st[e].seen]
      BY <2>1, <2>3 DEF Updated
    <3>2. PICK later \in Times : /\ later = IF st[e].seen < now THEN now ELSE st[e].seen
                                 /\ st[e].seen <= later /\ later \in Nat
      BY <1>1, <2>1, <2>2
    <3>3. new[e] = [st[e] EXCEPT !.life = "active", !.seen = later]
      BY <3>1, <3>2
    <3> HIDE DEF new
    <3> QED BY <2>1, <2>2, <3>2, <3>3 DEF Lives
  <2>4. CASE e \notin tracked
    <3>1. \/ new[e] = [st[e] EXCEPT !.life = "closed"]
          \/ new[e] = [st[e] EXCEPT !.life = "missing"]
          \/ new[e] = st[e]
      BY <2>4 DEF Updated
    <3> HIDE DEF new
    <3> QED BY <2>1, <2>2, <3>1 DEF Lives
  <2> QED BY <2>3, <2>4
<1>3. new = [e \in Entities |-> new[e]]
  BY DEF Updated
<1> HIDE DEF new
<1>4. new \in Stores
  BY <1>2, <1>3 DEF Stores
<1>5. First(new)
  <2> SUFFICES ASSUME NEW e \in Entities, new[e].wall # Never
               PROVE  new[e].wall <= new[e].seen
    BY DEF First
  <2>1. st[e].wall <= st[e].seen /\ st[e].wall \in Nat
    BY <1>2, WallsAre DEF First
  <2> QED BY <1>2, <2>1
<1>6. Grown(st, new)
  <2> SUFFICES ASSUME NEW e \in Entities
               PROVE  /\ st[e].wall \in Walls /\ new[e].wall \in Walls
                      /\ st[e].wall # Never => NotAfter(st[e].wall, new[e].wall)
    BY DEF Grown
  <2>1. st[e].wall # Never => st[e].wall \in Nat
    BY <1>2, WallsAre
  <2> QED BY <1>2, <2>1 DEF NotAfter
<1> QED BY <1>4, <1>5, <1>6 DEF new

\* attach: an observation is recorded when it is not older than the track, and
\* so not older than the one on record.
LEMMA AttachedStore ==
  ASSUME NEW st \in Stores, First(st), NEW fresh, NEW now \in Times
  PROVE  /\ Attached(st, fresh, now) \in Stores
         /\ First(Attached(st, fresh, now))
         /\ Grown(st, Attached(st, fresh, now))
<1> DEFINE new == Attached(st, fresh, now)
<1>1. now \in Nat /\ now \in Walls /\ now # Never
  BY TimesAreNat DEF Walls
<1>2. new = [e \in Entities |-> new[e]]
  BY DEF Attached
<1>3. ASSUME NEW e \in Entities
      PROVE  /\ new[e] \in [life : Lives, seen : Times, wall : Walls]
             /\ new[e].wall # Never => new[e].wall <= new[e].seen
             /\ st[e].wall \in Walls /\ new[e].wall \in Walls
             /\ st[e].wall # Never => NotAfter(st[e].wall, new[e].wall)
  <2>1. /\ st[e] \in [life : Lives, seen : Times, wall : Walls]
        /\ st[e].wall # Never => st[e].wall <= st[e].seen
    BY DEF Stores, First
  <2>2. st[e].seen \in Nat /\ (st[e].wall # Never => st[e].wall \in Nat)
    BY <2>1, TimesAreNat, WallsAre
  <2>3. CASE e \in fresh /\ st[e].seen <= now
    <3>1. new[e] = [st[e] EXCEPT !.seen = now, !.wall = now]
      BY <2>3 DEF Attached
    <3> HIDE DEF new
    <3>2. /\ new[e] \in [life : Lives, seen : Times, wall : Walls]
          /\ new[e].seen = now /\ new[e].wall = now
      BY <1>1, <2>1, <3>1
    <3> QED BY <1>1, <2>1, <2>2, <2>3, <3>2 DEF NotAfter
  <2>4. CASE ~(e \in fresh /\ st[e].seen <= now)
    <3>1. new[e] = st[e]
      BY <2>4 DEF Attached
    <3> HIDE DEF new
    <3> QED BY <2>1, <2>2, <3>1 DEF NotAfter
  <2> QED BY <2>3, <2>4
<1> HIDE DEF new
<1> QED BY <1>2, <1>3 DEF new, Stores, First, Grown

\* A frame: its tracks, and then its observations.
LEMMA FrameStore ==
  ASSUME NEW st \in Stores, First(st), NEW tracked \in SUBSET Entities, NEW switched,
         NEW fresh, NEW now \in Times,
         NEW new, new = Attached(Updated(st, tracked, switched, now), fresh, now)
  PROVE  new \in Stores /\ First(new) /\ Grown(st, new)
<1>1. PICK mid : mid = Updated(st, tracked, switched, now)
  OBVIOUS
<1>2. mid \in Stores /\ First(mid) /\ Grown(st, mid)
  BY <1>1, UpdatedStore
<1>3. new = Attached(mid, fresh, now)
  BY <1>1
<1>4. new \in Stores /\ First(new) /\ Grown(mid, new)
  BY <1>2, <1>3, AttachedStore
<1> QED BY <1>2, <1>4, GrownAgain

\* What a task says of the entities it shows, a store has observed.
Covered(task, st) ==
  \A e \in task.visible : task.at[e] # Never => NotAfter(task.at[e], st[e].wall)

\* A queue whose tasks say no more than a store has observed.
Sound(queue, st) == \A i \in 1 .. Len(queue) : Covered(queue[i], st)

LEMMA PutKeeps ==
  ASSUME NEW queue \in Seq(Tasks), NEW size \in Nat, Len(queue) <= size,
         NEW task \in Tasks
  PROVE  /\ Put(queue, size, task) \in Seq(Tasks)
         /\ Len(Put(queue, size, task)) <= size
         /\ Len(Put(queue, size, task)) \in {Len(queue), Len(queue) + 1}
         /\ \A st : Sound(queue, st) /\ Covered(task, st)
                  => Sound(Put(queue, size, task), st)
<1>1. Len(queue) \in Nat
  OBVIOUS
<1>2. CASE Len(queue) < size
  <2>1. Put(queue, size, task) = Append(queue, task)
    BY <1>2 DEF Put
  <2>2. PICK new : new = Append(queue, task)
    OBVIOUS
  <2>3. /\ new \in Seq(Tasks) /\ Len(new) = Len(queue) + 1
        /\ new[Len(queue) + 1] = task
        /\ \A i \in 1 .. Len(queue) : new[i] = queue[i]
    BY <2>2
  <2>4. ASSUME NEW st, Sound(queue, st), Covered(task, st)
        PROVE  Sound(new, st)
    <3>1. \A i \in 1 .. Len(new) : i \in 1 .. Len(queue) \/ i = Len(queue) + 1
      BY <1>1, <2>3
    <3> QED BY <2>3, <2>4, <3>1 DEF Sound
  <2> QED BY <1>1, <1>2, <2>1, <2>2, <2>3, <2>4
<1>3. CASE ~(Len(queue) < size)
  BY <1>1, <1>3 DEF Put
<1> QED BY <1>2, <1>3

LEMMA TakeKeeps ==
  ASSUME NEW queue \in Seq(Tasks), queue # <<>>
  PROVE  /\ Head(queue) \in Tasks
         /\ Tail(queue) \in Seq(Tasks) /\ Len(Tail(queue)) = Len(queue) - 1
         /\ \A st : Sound(queue, st) =>
                /\ Sound(Tail(queue), st)
                /\ Covered(Head(queue), st)
<1>1. /\ Head(queue) = queue[1] /\ Len(queue) \in Nat \ {0}
      /\ Head(queue) \in Tasks
  OBVIOUS
<1>2. PICK new : new = Tail(queue)
  OBVIOUS
<1>3. /\ new \in Seq(Tasks) /\ Len(new) = Len(queue) - 1
      /\ \A i \in 1 .. Len(new) : new[i] = queue[i + 1] /\ i + 1 \in 1 .. Len(queue)
  BY <1>2
<1>4. ASSUME NEW st, Sound(queue, st)
      PROVE  /\ Sound(new, st)
             /\ Covered(Head(queue), st)
  BY <1>1, <1>3, <1>4 DEF Sound
<1> QED BY <1>1, <1>2, <1>3, <1>4

-----------------------------------------------------------------------------
(* One lemma per action *)

Step == IInv' /\ Follows(sessions, sessions')

\* IInv, with its parts in terms of tables and queues.
LEMMA Parts ==
  ASSUME IInv
  PROVE  /\ TypeOK /\ EndsEmpty /\ AtMostOneLeftBehind /\ CleanIsEnded
         /\ CleanExitClosesAll
         /\ sessions \in Seq(Rows) /\ store \in Stores
         /\ Single(sessions) /\ (Up => Bounded(sessions, store, ops.pc))
         /\ First(store)
         /\ Sound(regular, store) /\ Sound(critical, store)
         /\ Covered(ops, store)
BY DEF IInv, TypeOK, OneOpenSession, NeverSeenLater, TasksObserved, Observed, Sound,
       TrackedFirst, First, Covered, Witnessed, Single, Bounded, Rows, Stores

LEMMA Whole ==
  ASSUME TypeOK', EndsEmpty', AtMostOneLeftBehind', CleanIsEnded', CleanExitClosesAll',
         Single(sessions'), Up' => Bounded(sessions', store', ops'.pc), First(store'),
         Sound(regular', store'), Sound(critical', store'),
         Covered(ops', store')
  PROVE  IInv'
<1>1. OneOpenSession' /\ NeverSeenLater'
  BY DEF OneOpenSession, NeverSeenLater, Single, Bounded, Witnessed
<1>2. TasksObserved' /\ TrackedFirst'
  BY DEF TasksObserved, Observed, Sound, Covered, TrackedFirst, First
<1> QED BY <1>1, <1>2 DEF IInv

\* Steps that only concern the camera, the clock, inference or main: table,
\* store, queues and operations are the same.
LEMMA QuietKeeps ==
  ASSUME IInv, UNCHANGED <<store, regular, critical, ops, sessions>>,
         TypeOK', Up' => Up, EndsEmpty', CleanIsEnded', CleanExitClosesAll'
  PROVE  Step
<1>1. AtMostOneLeftBehind'
  BY DEF IInv, AtMostOneLeftBehind
<1> QED BY <1>1, Parts, Whole, Unchanged DEF Step

LEMMA CaptureKeeps ==
  ASSUME IInv, Capture
  PROVE  Step
<1>1. TypeOK'
  <2>1. buffer' = {clock} /\ clock \in Times
    BY DEF Capture, IInv, TypeOK
  <2>2. frames' \in 0 .. MaxFrames
    BY RuntimeAssumption DEF Capture, IInv, TypeOK
  <2> QED BY <2>1, <2>2 DEF Capture, queues, IInv, TypeOK
<1>2. EndsEmpty' /\ CleanIsEnded' /\ CleanExitClosesAll' /\ (Up' => Up)
  BY DEF Capture, queues, IInv, EndsEmpty, CleanIsEnded, CleanExitClosesAll, Up, OpsStopped,
         WritersEnded
<1> QED BY <1>1, <1>2, QuietKeeps DEF Capture, queues

LEMMA TickKeeps ==
  ASSUME IInv, Tick
  PROVE  Step
<1>1. TypeOK'
  <2>1. clock' \in Times
    BY RuntimeAssumption DEF Tick, IInv, TypeOK, Times
  <2> QED BY <2>1 DEF Tick, queues, IInv, TypeOK
<1>2. EndsEmpty' /\ CleanIsEnded' /\ CleanExitClosesAll' /\ (Up' => Up)
  BY DEF Tick, queues, IInv, EndsEmpty, CleanIsEnded, CleanExitClosesAll, Up, OpsStopped,
         WritersEnded
<1> QED BY <1>1, <1>2, QuietKeeps DEF Tick, queues

LEMMA NextRoundType ==
  /\ NextRound = [pc |-> IF Stopping THEN "ended" ELSE "waiting", at |-> 0]
  /\ NextRound \in [pc : {"waiting", "busy", "ended"}, at : Times]
BY TimesAreNat DEF NextRound, InferenceWaiting

LEMMA TakeFrameKeeps ==
  ASSUME IInv, TakeFrame
  PROVE  Step
<1>1. /\ inference.pc = "waiting"
      /\ inference' \in {NextRound, [pc |-> "busy", at |-> clock]}
      /\ clock \in Times
  BY DEF TakeFrame, IInv, TypeOK
<1>2. inference' \in [pc : {"waiting", "busy", "ended"}, at : Times]
  BY <1>1, NextRoundType
<1>3. TypeOK'
  BY <1>2 DEF TakeFrame, queues, IInv, TypeOK
<1>4. EndsEmpty'
  BY <1>1 DEF TakeFrame, queues, IInv, EndsEmpty, OpsStopped
<1>5. CleanIsEnded' /\ CleanExitClosesAll' /\ (Up' => Up)
  BY <1>1 DEF TakeFrame, queues, IInv, CleanIsEnded, CleanExitClosesAll, Up, WritersEnded
<1> QED BY <1>3, <1>4, <1>5, QuietKeeps DEF TakeFrame, queues

LEMMA InferenceEndsKeeps ==
  ASSUME IInv, InferenceEnds
  PROVE  Step
<1>1. inference.pc = "waiting" /\ inference' = NextRound
  BY DEF InferenceEnds
<1>2. TypeOK'
  BY <1>1, NextRoundType DEF InferenceEnds, queues, IInv, TypeOK
<1>3. EndsEmpty'
  BY <1>1 DEF InferenceEnds, queues, IInv, EndsEmpty, OpsStopped
<1>4. CleanIsEnded' /\ CleanExitClosesAll' /\ (Up' => Up)
  BY <1>1 DEF InferenceEnds, queues, IInv, CleanIsEnded, CleanExitClosesAll, Up, WritersEnded
<1> QED BY <1>2, <1>3, <1>4, QuietKeeps DEF InferenceEnds, queues

\* What holds of a task, or of the rows, still holds when the store grows.
LEMMA CoveredGrows ==
  ASSUME NEW task, task.visible \subseteq Entities, task.at \in [Entities -> Walls],
         NEW old, NEW new, Grown(old, new), Covered(task, old)
  PROVE  Covered(task, new)
<1> SUFFICES ASSUME NEW e \in task.visible, task.at[e] # Never
             PROVE  NotAfter(task.at[e], new[e].wall)
  BY DEF Covered
<1>1. /\ e \in Entities /\ task.at[e] \in Nat
      /\ old[e].wall # Never /\ task.at[e] <= old[e].wall
  BY WallsAre DEF Covered, NotAfter
<1>2. /\ old[e].wall \in Nat /\ new[e].wall \in Nat
      /\ new[e].wall # Never /\ old[e].wall <= new[e].wall
  BY <1>1, WallsAre DEF Grown, NotAfter
<1> QED BY <1>1, <1>2 DEF NotAfter

LEMMA SoundGrows ==
  ASSUME NEW queue \in Seq(Tasks), NEW old, NEW new, Grown(old, new), Sound(queue, old)
  PROVE  Sound(queue, new)
<1> SUFFICES ASSUME NEW i \in 1 .. Len(queue)
             PROVE  Covered(queue[i], new)
  BY DEF Sound
<1>1. queue[i] \in Tasks
  OBVIOUS
<1>2. queue[i].visible \subseteq Entities /\ queue[i].at \in [Entities -> Walls]
  BY <1>1 DEF Tasks
<1>3. Covered(queue[i], old)
  BY DEF Sound
<1> QED BY <1>2, <1>3, CoveredGrows

LEMMA BoundedGrows ==
  ASSUME NEW rows \in Seq(Rows), NEW old, NEW new, Grown(old, new),
         NEW pc, Bounded(rows, old, pc)
  PROVE  Bounded(rows, new, pc)
<1> SUFFICES ASSUME NEW i \in OpenRows(rows), Witnessed(rows[i], old)
             PROVE  Witnessed(rows[i], new)
  BY DEF Bounded
<1> DEFINE e == rows[i].entity
<1>1. rows[i] \in Rows
  BY DEF OpenRows
<1>2. e \in Entities /\ (rows[i].last # Seconds => rows[i].last \in Nat)
  BY <1>1, TimesAreNat DEF Rows, Row, Stamps
<1>3. /\ Dated(rows[i]) /\ rows[i].last # Seconds
      /\ old[e].wall # Never /\ rows[i].last <= old[e].wall
  BY DEF Witnessed, Dated, NotAfter
<1>4. /\ old[e].wall \in Nat /\ new[e].wall \in Nat
      /\ new[e].wall # Never /\ old[e].wall <= new[e].wall
  BY <1>2, <1>3, WallsAre DEF Grown, NotAfter
<1>5. rows[i].last <= new[e].wall
  BY <1>2, <1>3, <1>4
<1> QED BY <1>3, <1>4, <1>5 DEF Witnessed, NotAfter

\* Between two tasks every open row has a date.
LEMMA BoundedBetween ==
  ASSUME NEW rows, NEW st, NEW pc, pc # "updating", Bounded(rows, st, pc), NEW next
  PROVE  Bounded(rows, st, next)
BY DEF Bounded

\* A round of inference: the store grows, and at most one task is submitted.
LEMMA RoundKeeps ==
  ASSUME IInv, Up, inference.pc = "busy",
         store' \in Stores, First(store'), Grown(store, store'),
         inference' = NextRound,
         UNCHANGED <<clock, buffer, frames, ops, date, main, clean, sessions>>,
         regular' \in Seq(Tasks), Len(regular') <= RegularSize,
         critical' \in Seq(Tasks), Len(critical') <= CriticalSize,
         Len(regular') + Len(critical') <= Len(regular) + Len(critical) + 1,
         Sound(regular, store') => Sound(regular', store'),
         Sound(critical, store') => Sound(critical', store')
  PROVE  Step
<1>1. TypeOK'
  BY NextRoundType DEF IInv, TypeOK, Stores
<1>2. ops.pc # "ended" \/ (Stopping /\ regular = <<>> /\ critical = <<>>)
  BY DEF IInv, EndsEmpty, OpsStopped, Stopping
<1>3. EndsEmpty' /\ AtMostOneLeftBehind'
  <2>1. CASE ops.pc # "ended"
    BY <2>1 DEF EndsEmpty, AtMostOneLeftBehind
  <2>2. CASE ops.pc = "ended"
    <3>1. inference'.pc = "ended"
      BY <1>2, <2>2, NextRoundType
    <3>2. Len(regular) = 0 /\ Len(critical) = 0
      BY <1>2, <2>2
    <3>3. Len(regular') + Len(critical') <= 1
      BY <3>2
    <3> QED BY <3>1, <3>3 DEF IInv, EndsEmpty, AtMostOneLeftBehind, OpsStopped
  <2> QED BY <2>1, <2>2
<1>4. CleanIsEnded' /\ CleanExitClosesAll'
  BY DEF IInv, CleanIsEnded, CleanExitClosesAll, WritersEnded, Up
<1>5. Bounded(sessions, store', ops.pc)
  <2>1. sessions \in Seq(Rows) /\ Bounded(sessions, store, ops.pc)
    BY Parts
  <2> QED BY <2>1, BoundedGrows
<1>6. /\ Sound(regular, store') /\ Sound(critical, store')
      /\ Covered(ops, store')
  <2>1. regular \in Seq(Tasks) /\ critical \in Seq(Tasks)
    BY DEF IInv, TypeOK
  <2>2. Sound(regular, store) /\ Sound(critical, store)
    BY Parts
  <2>3. Sound(regular, store') /\ Sound(critical, store')
    BY <2>1, <2>2, SoundGrows
  <2>4. ops.visible \subseteq Entities /\ ops.at \in [Entities -> Walls]
    BY DEF IInv, TypeOK
  <2>5. Covered(ops, store')
    BY <2>4, Parts, CoveredGrows
  <2> QED BY <2>3, <2>5
<1>7. IInv'
  BY <1>1, <1>3, <1>4, <1>5, <1>6, Parts, Whole
<1> QED BY <1>7, Parts, Unchanged DEF Step

LEMMA ProcessKeeps ==
  ASSUME IInv, NEW tracked \in SUBSET Entities, NEW switched \in SUBSET Entities,
         NEW fresh, NEW late, NEW events, Process(tracked, switched, fresh, late, events)
  PROVE  Step
<1> DEFINE now  == inference.at
           next == Attached(Updated(store, tracked, switched, now), fresh, now)
           at   == [e \in Entities |-> IF e \in tracked THEN next[e].wall ELSE Never]
           task == [at |-> at, visible |-> tracked, hidden |-> Live(next) \ tracked,
                    closed |-> Lost(store, tracked, switched, now)]
<1>1. now \in Times /\ store \in Stores /\ First(store)
  BY Parts DEF IInv, TypeOK
<1>2. /\ store' = Attached(next, late, now)
      /\ regular' = (IF Worthwhile(task, events) /\ events # "severe"
                     THEN Put(regular, RegularSize, task) ELSE regular)
      /\ critical' = (IF events = "severe" THEN Put(critical, CriticalSize, task)
                      ELSE critical)
  BY DEF Process
<1>3. next \in Stores /\ First(next) /\ Grown(store, next)
  <2>1. PICK new : new = Attached(Updated(store, tracked, switched, now), fresh, now)
    OBVIOUS
  <2> QED BY <1>1, <2>1, FrameStore
<1>4. at \in [Entities -> Walls]
  <2>1. \A e \in Entities : next[e].wall \in Walls
    BY <1>3 DEF Stores
  <2> HIDE DEF next
  <2> QED BY <2>1 DEF Walls
<1>5. task \in Tasks
  <2>1. Live(next) \subseteq Entities /\ Lost(store, tracked, switched, now) \subseteq Entities
    BY DEF Live, Lost
  <2> HIDE DEF at, next
  <2> QED BY <1>4, <2>1 DEF Tasks
<1>6. store' \in Stores /\ First(store') /\ Grown(store, store') /\ Grown(next, store')
  <2>1. PICK mid : mid = next
    OBVIOUS
  <2>2. PICK new : new = Attached(mid, late, now)
    OBVIOUS
  <2> HIDE DEF next
  <2>3. new \in Stores /\ First(new) /\ Grown(mid, new)
    BY <1>1, <1>3, <2>1, <2>2, AttachedStore
  <2>4. store' = new
    BY <1>2, <2>1, <2>2
  <2> QED BY <1>3, <2>1, <2>3, <2>4, GrownAgain
<1>7. Covered(task, store')
  <2>1. task.visible = tracked /\ \A e \in tracked : task.at[e] = next[e].wall
    OBVIOUS
  <2> HIDE DEF task, next
  <2>2. \A e \in tracked : next[e].wall # Never => NotAfter(next[e].wall, store'[e].wall)
    BY <1>6 DEF Grown
  <2> QED BY <2>1, <2>2 DEF Covered
<1> HIDE DEF task, next
<1>8. /\ regular \in Seq(Tasks) /\ Len(regular) <= RegularSize
      /\ critical \in Seq(Tasks) /\ Len(critical) <= CriticalSize
      /\ RegularSize \in Nat /\ CriticalSize \in Nat
  BY RuntimeAssumption DEF IInv, TypeOK
<1>9. /\ regular' \in Seq(Tasks) /\ Len(regular') <= RegularSize
      /\ Len(regular') \in {Len(regular), Len(regular) + 1}
      /\ events = "severe" => Len(regular') = Len(regular)
      /\ Sound(regular, store') => Sound(regular', store')
  BY <1>2, <1>5, <1>7, <1>8, PutKeeps
<1>10. /\ critical' \in Seq(Tasks) /\ Len(critical') <= CriticalSize
       /\ Len(critical') \in {Len(critical), Len(critical) + 1}
       /\ events # "severe" => Len(critical') = Len(critical)
       /\ Sound(critical, store') => Sound(critical', store')
  BY <1>2, <1>5, <1>7, <1>8, PutKeeps
<1>11. Len(regular') + Len(critical') <= Len(regular) + Len(critical) + 1
  <2>1. Len(regular) \in Nat /\ Len(critical) \in Nat
    BY <1>8
  <2> QED BY <1>9, <1>10, <2>1
<1> QED BY <1>6, <1>9, <1>10, <1>11, RoundKeeps DEF Process

LEMMA ProcessFailsKeeps ==
  ASSUME IInv, NEW tracked \in SUBSET Entities, NEW switched \in SUBSET Entities,
         NEW fresh, ProcessFails(tracked, switched, fresh)
  PROVE  Step
<1>1. /\ regular' \in Seq(Tasks) /\ Len(regular') <= RegularSize
      /\ critical' \in Seq(Tasks) /\ Len(critical') <= CriticalSize
      /\ regular' = regular /\ critical' = critical
      /\ Len(regular') + Len(critical') <= Len(regular) + Len(critical) + 1
  BY DEF ProcessFails, queues, IInv, TypeOK
<1>2. store' \in Stores /\ First(store') /\ Grown(store, store')
  <2>1. inference.at \in Times /\ store \in Stores /\ First(store)
    BY Parts DEF IInv, TypeOK
  <2>2. store' = Attached(Updated(store, tracked, switched, inference.at), fresh,
                         inference.at)
    BY DEF ProcessFails
  <2> QED BY <2>1, <2>2, FrameStore
<1> QED BY <1>1, <1>2, RoundKeeps DEF ProcessFails

\* The task that is begun is one of the queues, and its closing transitions
\* close rows.
LEMMA TakeTaskKeeps ==
  ASSUME IInv, TakeTask
  PROVE  Step
<1>1. PICK task \in Tasks :
        /\ Begin(task)
        /\ Covered(task, store)
        /\ regular' \in Seq(Tasks) /\ Len(regular') <= RegularSize
        /\ critical' \in Seq(Tasks) /\ Len(critical') <= CriticalSize
        /\ Sound(regular', store) /\ Sound(critical', store)
  <2>1. /\ regular \in Seq(Tasks) /\ Len(regular) <= RegularSize
        /\ critical \in Seq(Tasks) /\ Len(critical) <= CriticalSize
        /\ RegularSize \in Nat /\ CriticalSize \in Nat
        /\ Len(regular) \in Nat /\ Len(critical) \in Nat
    BY RuntimeAssumption DEF IInv, TypeOK
  <2>2. Sound(regular, store) /\ Sound(critical, store)
    BY Parts
  <2>3. CASE /\ critical # <<>> /\ Begin(Head(critical)) /\ critical' = Tail(critical)
             /\ UNCHANGED regular
    <3>1. /\ Head(critical) \in Tasks
          /\ Tail(critical) \in Seq(Tasks) /\ Len(Tail(critical)) = Len(critical) - 1
          /\ Sound(Tail(critical), store)
          /\ Covered(Head(critical), store)
      BY <2>1, <2>2, <2>3, TakeKeeps
    <3>2. Len(critical') <= CriticalSize
      BY <2>1, <2>3, <3>1
    <3> QED BY <2>1, <2>2, <2>3, <3>1, <3>2
  <2>4. CASE /\ critical = <<>> /\ regular # <<>>
             /\ Begin(Head(regular)) /\ regular' = Tail(regular)
             /\ UNCHANGED critical
    <3>1. /\ Head(regular) \in Tasks
          /\ Tail(regular) \in Seq(Tasks) /\ Len(Tail(regular)) = Len(regular) - 1
          /\ Sound(Tail(regular), store)
          /\ Covered(Head(regular), store)
      BY <2>1, <2>2, <2>4, TakeKeeps
    <3>2. Len(regular') <= RegularSize
      BY <2>1, <2>4, <3>1
    <3> QED BY <2>1, <2>2, <2>4, <3>1, <3>2
  <2> QED BY <2>3, <2>4 DEF TakeTask
<1>2. /\ ops.pc = "idle"
      /\ UNCHANGED <<clock, buffer, frames, inference, store, date, main, clean>>
      /\ ops' = [pc |-> "updating", at |-> task.at, visible |-> task.visible,
                 todo |-> task.visible \cup task.hidden]
      /\ sessions' = EntitiesClosed(sessions, task.closed)
  BY <1>1 DEF TakeTask, Begin
<1>3. /\ sessions' \in Seq(Rows) /\ Follows(sessions, sessions') /\ Single(sessions')
      /\ Up' => Bounded(sessions', store', ops'.pc)
      /\ OpenRows(sessions') \subseteq OpenRows(sessions)
  <2> DEFINE ids == {i \in OpenRows(sessions) : sessions[i].entity \in task.closed}
  <2>1. sessions' = ClosedRows(sessions, ids)
    BY <1>2 DEF EntitiesClosed
  <2>2. ids \subseteq OpenRows(sessions)
    OBVIOUS
  <2> HIDE DEF ids
  <2>3. Up' => Up
    BY <1>2 DEF Up
  <2>4. Up' => Bounded(sessions', store, "idle")
    BY <1>2, <2>1, <2>2, <2>3, Parts, ClosingKeeps
  <2>5. Up' => Bounded(sessions', store', ops'.pc)
    BY <1>2, <2>4, BoundedBetween
  <2> QED BY <2>1, <2>2, <2>5, Parts, ClosingKeeps DEF Follows
<1>4. TypeOK'
  <2>1. /\ task.at \in [Entities -> Walls] /\ task.visible \subseteq Entities
        /\ task.hidden \subseteq Entities
    BY DEF Tasks
  <2>2. ops' \in OpsStates
    BY <1>2, <2>1 DEF OpsStates
  <2> QED BY <1>1, <1>2, <1>3, <2>2 DEF IInv, TypeOK, Rows, OpsStates
<1>5. EndsEmpty' /\ AtMostOneLeftBehind'
  BY <1>2 DEF EndsEmpty, AtMostOneLeftBehind
<1>6. CleanIsEnded' /\ CleanExitClosesAll'
  <2>1. Up /\ ops.pc # "ended"
    BY <1>2 DEF TakeTask
  <2>2. ~clean
    BY <2>1 DEF IInv, CleanIsEnded, WritersEnded, Up
  <2> QED BY <1>2, <2>2 DEF CleanIsEnded, CleanExitClosesAll
<1>7. Covered(ops', store') /\ First(store')
  BY <1>1, <1>2, Parts DEF Covered
<1>8. IInv'
  BY <1>1, <1>2, <1>3, <1>4, <1>5, <1>6, <1>7, Whole
<1> QED BY <1>3, <1>8 DEF Step

\* While the operations thread is in a task, no shutdown has been clean.
LEMMA BusyIsNotClean ==
  ASSUME IInv, Up, ops.pc # "ended"
  PROVE  ~clean
BY DEF IInv, CleanIsEnded, WritersEnded, Up

LEMMA UpsertEntityKeeps ==
  ASSUME IInv, NEW e \in Entities, UpsertEntity(e)
  PROVE  Step
<1>1. /\ Up /\ ops.pc = "updating"
      /\ sessions' = Upserted(sessions, e, ObservedAt(ops.at[e]), e \in ops.visible)
      /\ ops' = [ops EXCEPT !.todo = @ \ {e}]
      /\ UNCHANGED <<clock, buffer, frames, inference, store, regular, critical, date,
                     main, clean>>
  BY DEF UpsertEntity, queues
<1>2. /\ ops \in OpsStates
      /\ ops'.pc = "updating" /\ ops'.at = ops.at /\ ops'.visible = ops.visible
      /\ ops' \in OpsStates
  BY <1>1 DEF IInv, TypeOK, OpsStates
<1>3. /\ Follows(sessions, sessions') /\ Single(sessions')
      /\ Bounded(sessions', store', ops'.pc)
  <2> DEFINE visible == e \in ops.visible
             at == ObservedAt(ops.at[e])
  <2>1. /\ visible \in BOOLEAN /\ at \in Stamps
        /\ visible => at = Seconds \/ NotAfter(at, store[e].wall)
    <3>1. ops.at[e] \in Walls /\ Covered(ops, store)
      BY <1>2, Parts DEF OpsStates
    <3> QED BY <3>1 DEF ObservedAt, Covered, Walls, Stamps
  <2>2. sessions' = Upserted(sessions, e, at, visible)
    BY <1>1
  <2> HIDE DEF visible, at
  <2>3. /\ sessions \in Seq(Rows) /\ Single(sessions)
        /\ Bounded(sessions, store, "updating")
    BY <1>1, Parts
  <2>4. /\ Follows(sessions, Upserted(sessions, e, at, visible))
        /\ Single(Upserted(sessions, e, at, visible))
        /\ Bounded(Upserted(sessions, e, at, visible), store, "updating")
    BY <2>1, <2>3, UpsertKeeps
  <2> QED BY <1>1, <1>2, <2>2, <2>4
<1>4. TypeOK'
  BY <1>1, <1>2, <1>3 DEF IInv, TypeOK, Follows, Rows, OpsStates
<1>5. EndsEmpty' /\ AtMostOneLeftBehind'
  BY <1>2 DEF EndsEmpty, AtMostOneLeftBehind
<1>6. CleanIsEnded' /\ CleanExitClosesAll'
  BY <1>1, BusyIsNotClean DEF CleanIsEnded, CleanExitClosesAll
<1>7. Covered(ops', store') /\ First(store')
  BY <1>1, <1>2, Parts DEF Covered
<1>8. IInv'
  BY <1>1, <1>2, <1>3, <1>4, <1>5, <1>6, <1>7, Parts, Whole
<1> QED BY <1>3, <1>8 DEF Step

\* A closing update by any thread, with the rest of the step.
LEMMA CloseKeeps ==
  ASSUME IInv, NEW ids, ids \subseteq OpenRows(sessions),
         sessions' \in {sessions, ClosedRows(sessions, ids)},
         store' = store, Up' => Up,
         UNCHANGED <<regular, critical>>, Covered(ops', store),
         sessions' \in Seq(Rows) => TypeOK',
         \/ ops'.pc = ops.pc
         \/ /\ sessions' = ClosedRows(sessions, ids)
            /\ \A i \in OpenRows(sessions) \ ids : sessions[i].last # Seconds,
         EndsEmpty', AtMostOneLeftBehind', CleanIsEnded',
         OpenRows(sessions') \subseteq OpenRows(sessions) => CleanExitClosesAll'
  PROVE  Step
<1>1. /\ Follows(sessions, sessions') /\ Single(sessions')
      /\ Up => Bounded(sessions', store, ops.pc)
      /\ OpenRows(sessions') \subseteq OpenRows(sessions)
  <2>1. CASE sessions' = sessions
    BY <2>1, Parts, Unchanged
  <2>2. CASE sessions' = ClosedRows(sessions, ids)
    BY <2>2, Parts, ClosingKeeps
  <2> QED BY <2>1, <2>2
<1>2. Up => Bounded(sessions', store, ops'.pc)
  <2>1. CASE ops'.pc = ops.pc
    BY <1>1, <2>1
  <2>2. CASE /\ sessions' = ClosedRows(sessions, ids)
             /\ \A i \in OpenRows(sessions) \ ids : sessions[i].last # Seconds
    <3>1. /\ OpenRows(sessions') = OpenRows(sessions) \ ids
          /\ \A i \in OpenRows(sessions') : sessions'[i] = sessions[i]
      BY <2>2, Parts, ClosingKeeps
    <3> QED BY <1>1, <2>2, <3>1 DEF Bounded, Undated
  <2> QED BY <2>1, <2>2
<1>3. TypeOK' /\ CleanExitClosesAll'
  BY <1>1 DEF Follows
<1> QED BY <1>1, <1>3, <1>2, Parts, Whole DEF Step

LEMMA SweepKeeps ==
  ASSUME IInv, Sweep
  PROVE  Step
<1> DEFINE ids == {i \in OpenRows(sessions) : Stale(sessions[i], clock, CloseAfter)}
<1>1. /\ ids \subseteq OpenRows(sessions) /\ sessions' = ClosedRows(sessions, ids)
      /\ \A i \in OpenRows(sessions) \ ids : sessions[i].last # Seconds
  BY DEF Sweep, StaleClosed, Stale
<1>2. ops' = OpsIdle /\ ops'.pc = "idle" /\ ops'.visible = {}
  BY DEF Sweep, OpsIdle
<1>3. sessions' \in Seq(Rows) => TypeOK'
  <2>1. OpsIdle \in OpsStates
    BY DEF OpsIdle, OpsStates, Unobserved, Walls
  <2> QED BY <1>2, <2>1 DEF Sweep, queues, IInv, TypeOK, Rows, OpsStates
<1>4. EndsEmpty' /\ AtMostOneLeftBehind'
  BY <1>2 DEF EndsEmpty, AtMostOneLeftBehind
<1>5. ~clean'
  BY BusyIsNotClean DEF Sweep
<1> HIDE DEF ids
<1>6. CleanIsEnded' /\ CleanExitClosesAll'
  BY <1>5 DEF CleanIsEnded, CleanExitClosesAll
<1>7. Covered(ops', store)
  BY <1>2 DEF Covered
<1> QED BY <1>1, <1>3, <1>4, <1>6, <1>7, CloseKeeps DEF Sweep, queues, Up

LEMMA OpsEndsKeeps ==
  ASSUME IInv, OpsEnds
  PROVE  Step
<1>1. /\ Up /\ ops.pc = "idle" /\ OpsStopped /\ regular = <<>> /\ critical = <<>>
      /\ ops' = [ops EXCEPT !.pc = "ended"]
      /\ UNCHANGED <<clock, buffer, frames, inference, store, regular, critical, date,
                     main, clean, sessions>>
  BY DEF OpsEnds, queues
<1>2. /\ ops'.pc = "ended" /\ ops'.at = ops.at /\ ops'.visible = ops.visible
      /\ ops' \in OpsStates
  BY <1>1 DEF IInv, TypeOK, OpsStates
<1>3. TypeOK'
  BY <1>1, <1>2 DEF IInv, TypeOK, OpsStates
<1>4. EndsEmpty' /\ AtMostOneLeftBehind'
  <2>1. Len(regular') + Len(critical') <= 1
    BY <1>1
  <2>2. OpsStopped'
    BY <1>1 DEF OpsStopped
  <2> QED BY <1>1, <2>1, <2>2 DEF EndsEmpty, AtMostOneLeftBehind
<1>5. CleanIsEnded' /\ CleanExitClosesAll'
  BY <1>1, BusyIsNotClean DEF CleanIsEnded, CleanExitClosesAll
<1>6. /\ Covered(ops', store') /\ First(store')
      /\ Bounded(sessions', store', ops'.pc)
  <2>1. Covered(ops', store') /\ First(store')
    BY <1>1, <1>2, Parts DEF Covered
  <2>2. Bounded(sessions, store, "idle")
    BY <1>1, Parts
  <2> QED BY <1>1, <2>1, <2>2, BoundedBetween
<1>7. IInv'
  BY <1>1, <1>3, <1>4, <1>5, <1>6, Parts, Whole DEF Up
<1> QED BY <1>1, <1>7, Parts, Unchanged DEF Step

\* At midnight open sessions are closed, unless an attendance row keeps them.
LEMMA RolloverKeeps ==
  ASSUME IInv, Rollover
  PROVE  Step
<1>1. sessions' \in {sessions, ClosedRows(sessions, OpenRows(sessions))}
  BY DEF Rollover, AllClosed
<1>2. sessions' \in Seq(Rows) => TypeOK'
  BY DEF Rollover, queues, IInv, TypeOK, Rows
<1>3. EndsEmpty' /\ AtMostOneLeftBehind' /\ CleanIsEnded'
  BY DEF Rollover, queues, IInv, EndsEmpty, AtMostOneLeftBehind, CleanIsEnded, OpsStopped,
         WritersEnded
<1>4. OpenRows(sessions') \subseteq OpenRows(sessions) => CleanExitClosesAll'
  BY DEF Rollover, IInv, CleanExitClosesAll
<1>5. Covered(ops', store)
  BY Parts DEF Rollover
<1>6. OpenRows(sessions) \subseteq OpenRows(sessions)
  OBVIOUS
<1> QED BY <1>1, <1>2, <1>3, <1>4, <1>5, <1>6, CloseKeeps DEF Rollover, queues, Up

\* main sets the flags of the shutdown; nothing has been clean before the joins.
LEMMA StopKeeps ==
  ASSUME IInv, StopWorkers \/ StopOperations
  PROVE  Step
<1>1. /\ main \in {"running", "stopping"} /\ main' \in {"stopping", "joining"}
      /\ UNCHANGED <<clock, buffer, frames, inference, store, regular, critical, ops, date,
                     clean, sessions>>
  BY DEF StopWorkers, StopOperations, queues
<1>2. TypeOK'
  BY <1>1 DEF IInv, TypeOK
<1>3. ops.pc # "ended" /\ ~clean
  BY <1>1 DEF IInv, EndsEmpty, OpsStopped, CleanIsEnded
<1>4. EndsEmpty' /\ CleanIsEnded' /\ CleanExitClosesAll' /\ (Up' => Up)
  BY <1>1, <1>3 DEF EndsEmpty, CleanIsEnded, CleanExitClosesAll, Up
<1> QED BY <1>1, <1>2, <1>4, QuietKeeps

\* All rows are closed, and the shutdown is clean only if every join saw its
\* thread end.
LEMMA CloseForShutdownKeeps ==
  ASSUME IInv, CloseForShutdown
  PROVE  Step
<1>1. /\ main = "joining" /\ main' = "exiting" /\ clean' \in {FALSE, WritersEnded}
      /\ sessions' = ClosedRows(sessions, OpenRows(sessions))
      /\ UNCHANGED <<clock, buffer, frames, inference, store, regular, critical, ops, date>>
  BY DEF CloseForShutdown, AllClosed, queues
<1>2. OpenRows(sessions) \subseteq OpenRows(sessions)
  OBVIOUS
<1>3. OpenRows(sessions') = {}
  BY <1>1, <1>2, Parts, Closing
<1>4. sessions' \in Seq(Rows) => TypeOK'
  <2>1. WritersEnded \in BOOLEAN
    BY DEF WritersEnded
  <2> QED BY <1>1, <2>1 DEF IInv, TypeOK, Rows
<1>5. EndsEmpty' /\ AtMostOneLeftBehind' /\ CleanIsEnded' /\ CleanExitClosesAll'
  BY <1>1, <1>3 DEF IInv, EndsEmpty, AtMostOneLeftBehind, CleanIsEnded, CleanExitClosesAll,
                    OpsStopped, WritersEnded
<1>6. Covered(ops', store)
  BY <1>1, Parts
<1> QED BY <1>1, <1>2, <1>4, <1>5, <1>6, CloseKeeps DEF Up

\* A process that has just started, or is gone, holds nothing.
LEMMA ResetHolds ==
  ASSUME IInv, MemoryReset, clean' \in BOOLEAN, date' \in {Day(t) : t \in Times},
         main' \in {"running", "down"}, sessions' \in Seq(Rows)
  PROVE  /\ TypeOK' /\ EndsEmpty' /\ AtMostOneLeftBehind'
         /\ Sound(regular', store') /\ Sound(critical', store')
         /\ Covered(ops', store') /\ First(store')
<1>1. /\ buffer' = {} /\ inference' = InferenceWaiting /\ store' = EmptyStore
      /\ regular' = <<>> /\ critical' = <<>> /\ ops' = OpsIdle
      /\ clock' = clock /\ frames' = frames
  BY DEF MemoryReset
<1>2. ops'.pc = "idle" /\ ops'.visible = {}
  BY <1>1 DEF OpsIdle
<1>3. TypeOK'
  <2>1. InferenceWaiting \in [pc : {"waiting", "busy", "ended"}, at : Times]
    BY TimesAreNat DEF InferenceWaiting
  <2>2. EmptyStore \in Stores
    BY TimesAreNat DEF EmptyStore, Stores, Lives, Walls
  <2>3. OpsIdle \in OpsStates
    BY DEF OpsIdle, OpsStates, Unobserved, Walls
  <2>4. /\ <<>> \in Seq(Tasks) /\ Len(<<>>) = 0
        /\ 0 <= RegularSize /\ 0 <= CriticalSize
    BY RuntimeAssumption
  <2> QED BY <1>1, <2>1, <2>2, <2>3, <2>4 DEF IInv, TypeOK, Rows, OpsStates, Stores
<1>4. EndsEmpty' /\ AtMostOneLeftBehind'
  BY <1>2 DEF EndsEmpty, AtMostOneLeftBehind
<1>5. Sound(regular', store') /\ Sound(critical', store')
  BY <1>1 DEF Sound
<1>6. Covered(ops', store') /\ First(store')
  BY <1>1, <1>2 DEF Covered, First, EmptyStore
<1> QED BY <1>3, <1>4, <1>5, <1>6

\* The table stays as it is; a clean exit has closed it before.
LEMMA GoneKeeps ==
  ASSUME IInv, Exit \/ Crash
  PROVE  Step
<1>1. /\ MemoryReset /\ main' = "down" /\ date' = date /\ sessions' = sessions
      /\ clean' = FALSE \/ (clean' = clean /\ main = "exiting")
  BY DEF Exit, Crash, Gone
<1>2. /\ sessions' \in Seq(Rows) /\ clean' \in BOOLEAN
      /\ date' \in {Day(t) : t \in Times}
  BY <1>1, Parts DEF IInv, TypeOK
<1>3. CleanIsEnded' /\ CleanExitClosesAll' /\ ~Up'
  BY <1>1 DEF IInv, CleanIsEnded, CleanExitClosesAll, Up
<1>4. IInv'
  BY <1>1, <1>2, <1>3, ResetHolds, Parts, Whole
<1> QED BY <1>1, <1>4, Parts, Unchanged DEF Step

\* What an earlier process left open is closed before anything is observed.
LEMMA StartKeeps ==
  ASSUME IInv, Start
  PROVE  Step
<1>1. /\ MemoryReset /\ main' = "running" /\ date' = Day(clock) /\ clean' = FALSE
      /\ sessions' = ClosedRows(sessions, OpenRows(sessions))
  BY DEF Start, AllClosed
<1>2. OpenRows(sessions) \subseteq OpenRows(sessions)
  OBVIOUS
<1>3. Follows(sessions, sessions') /\ OpenRows(sessions') = {}
  BY <1>1, <1>2, Parts, Closing
<1>4. Single(sessions') /\ Bounded(sessions', store', ops'.pc)
  BY <1>3 DEF Single, Bounded
<1>5. /\ sessions' \in Seq(Rows) /\ clean' \in BOOLEAN
      /\ date' \in {Day(t) : t \in Times}
  BY <1>1, <1>3 DEF IInv, TypeOK, Follows
<1>6. CleanIsEnded' /\ CleanExitClosesAll'
  BY <1>1 DEF CleanIsEnded, CleanExitClosesAll
<1>7. IInv'
  BY <1>1, <1>4, <1>5, <1>6, ResetHolds, Whole
<1> QED BY <1>3, <1>7 DEF Step

-----------------------------------------------------------------------------
(* The theorems *)

\* Init establishes the invariant: an empty table and idle threads.
LEMMA InitIInv == Init => IInv
<1> SUFFICES ASSUME Init PROVE IInv
  OBVIOUS
<1>1. TypeOK
  <2>1. InferenceWaiting \in [pc : {"waiting", "busy", "ended"}, at : Times]
    BY TimesAreNat DEF InferenceWaiting
  <2>2. EmptyStore \in Stores
    BY TimesAreNat DEF EmptyStore, Stores, Lives, Walls
  <2>3. OpsIdle \in OpsStates
    BY DEF OpsIdle, OpsStates, Unobserved, Walls
  <2>4. /\ <<>> \in Seq(Tasks) /\ <<>> \in Seq(Rows) /\ Len(<<>>) = 0
        /\ 0 <= RegularSize /\ 0 <= CriticalSize /\ 0 \in 0 .. MaxFrames
    BY RuntimeAssumption
  <2>5. Day(0) \in {Day(t) : t \in Times}
    BY TimesAreNat
  <2> QED BY <2>1, <2>2, <2>3, <2>4, <2>5, TimesAreNat
         DEF Init, TypeOK, Rows, OpsStates, Stores
<1>2. OpenRows(sessions) = {}
  BY DEF Init, OpenRows
<1>3. OneOpenSession /\ NeverSeenLater
  BY <1>2 DEF OneOpenSession, NeverSeenLater
<1>4. TasksObserved /\ TrackedFirst
  BY DEF Init, OpsIdle, EmptyStore, TasksObserved, Observed, TrackedFirst
<1>5. EndsEmpty /\ AtMostOneLeftBehind /\ CleanIsEnded /\ CleanExitClosesAll
  BY DEF Init, OpsIdle, EndsEmpty, AtMostOneLeftBehind, CleanIsEnded, CleanExitClosesAll
<1> QED BY <1>1, <1>3, <1>4, <1>5 DEF IInv

LEMMA NextKeeps ==
  ASSUME IInv, Next
  PROVE  Step
<1>1. CASE Capture \/ Tick
  BY <1>1, CaptureKeeps, TickKeeps
<1>2. CASE InferenceStep
  BY <1>2, TakeFrameKeeps, InferenceEndsKeeps, ProcessKeeps, ProcessFailsKeeps
     DEF InferenceStep
<1>3. CASE OperationsStep
  BY <1>3, TakeTaskKeeps, UpsertEntityKeeps, SweepKeeps, OpsEndsKeeps DEF OperationsStep
<1>4. CASE Rollover
  BY <1>4, RolloverKeeps
<1>5. CASE StopWorkers \/ ShutdownStep
  BY <1>5, StopKeeps, CloseForShutdownKeeps, GoneKeeps DEF ShutdownStep
<1>6. CASE Crash \/ Start
  BY <1>6, GoneKeeps, StartKeeps
<1> QED BY <1>1, <1>2, <1>3, <1>4, <1>5, <1>6 DEF Next

LEMMA StutterKeeps ==
  ASSUME IInv, UNCHANGED vars
  PROVE  IInv'
<1>1. TypeOK'
  BY DEF vars, queues, IInv, TypeOK
<1>2. EndsEmpty' /\ AtMostOneLeftBehind' /\ CleanIsEnded' /\ CleanExitClosesAll'
  BY DEF vars, queues, IInv, EndsEmpty, AtMostOneLeftBehind, CleanIsEnded,
         CleanExitClosesAll, OpsStopped, WritersEnded
<1> QED BY <1>1, <1>2, Parts, Whole DEF vars, queues, Up

\* The inductive invariant holds in every reachable state.
THEOREM Invariance == Spec => []IInv
<1>1. IInv /\ [Next]_vars => IInv'
  BY NextKeeps, StutterKeeps DEF Step
<1> QED BY InitIInv, <1>1, PTL DEF Spec

\* Every variable keeps its type, and the queues keep to their sizes.
THEOREM TypeCorrect == Spec => []TypeOK
BY Invariance, PTL DEF IInv

\* An entity has at most one open session (upsert_presence_session looks for
\* the open row of the entity, and one thread calls it).
THEOREM OneOpenSessionHolds == Spec => []OneOpenSession
BY Invariance, PTL DEF IInv

\* An open session claims no presence that the store has not observed, and one
\* without a date does not outlive its task (upsert_presence_session with
\* last_observed_wallclock or completed_at, close_stale_presence_sessions).
THEOREM NeverSeenLaterHolds == Spec => []NeverSeenLater
BY Invariance, PTL DEF IInv

\* A shutdown leaves at most one task unhandled (OperationalWorker.run,
\* InferenceWorker.run, the order of the flags in main).
THEOREM AtMostOneLeftBehindHolds == Spec => []AtMostOneLeftBehind
BY Invariance, PTL DEF IInv

\* A shutdown that has joined all threads leaves no session open (main,
\* close_open_presence_sessions).
THEOREM CleanExitClosesAllHolds == Spec => []CleanExitClosesAll
BY Invariance, PTL DEF IInv

\* Rows only move forward, and a closed session is history (every operation of
\* the table, whichever thread calls it and however tasks are ordered).
THEOREM SessionsMoveForwardHolds == Spec => SessionsMoveForward
<1>1. IInv /\ [Next]_vars =>
        [\A i \in 1 .. Len(sessions) :
           /\ i <= Len(sessions')
           /\ sessions'[i].entity = sessions[i].entity
           /\ sessions'[i].started = sessions[i].started
           /\ \/ sessions'[i].last = sessions[i].last
              \/ /\ Seconds \notin {sessions[i].last, sessions'[i].last}
                 /\ sessions'[i].last > sessions[i].last
           /\ ~IsOpen(sessions[i]) => sessions'[i] = sessions[i]]_sessions
  BY NextKeeps DEF Step, Follows, Forward, vars
<1> QED BY Invariance, <1>1, PTL DEF Spec, SessionsMoveForward

-----------------------------------------------------------------------------
(* The work of the operations thread in a shutdown *)

\* A set of entities is finite, and no larger than their number.
LEMMA CountOfEntities ==
  ASSUME NEW s \in SUBSET Entities
  PROVE  /\ IsFiniteSet(s)
         /\ Cardinality(s) \in Nat /\ Cardinality(s) <= MaxEntities
         /\ \A e \in s : Cardinality(s \ {e}) = Cardinality(s) - 1
<1>1. MaxEntities \in Nat \ {0}
  BY EntityAssumption
<1>2. IsFiniteSet(Entities) /\ Cardinality(Entities) = MaxEntities
  BY <1>1, FS_Interval DEF Entities
<1>3. IsFiniteSet(s) /\ Cardinality(s) <= MaxEntities
  BY <1>2, FS_Subset
<1> QED BY <1>3, FS_CardinalityType, FS_RemoveElement

\* Work as a function of its parts: n tasks that cost k each, and a rest.
Amount(n, k, rest) == n * k + rest

LEMMA WorkIsAmount ==
  /\ Work = Amount(TasksLeft, TaskCost, CostOfTask)
  /\ Work' = Amount(TasksLeft', TaskCost', CostOfTask')
BY DEF Work, Amount

\* Fewer tasks, or as many with less to do in the one at work.
LEMMA FewerTasks ==
  ASSUME NEW n \in Nat, NEW m \in Nat, NEW k \in Nat, NEW a \in Nat, NEW b \in Nat
  PROVE  /\ Amount(n, k, a) \in Nat
         /\ m <= n /\ b <= a => Amount(m, k, b) <= Amount(n, k, a)
         /\ m <= n /\ b < a => Amount(m, k, b) < Amount(n, k, a)
         /\ m + 1 <= n /\ b <= k => Amount(m, k, b) <= Amount(n, k, 0)
         /\ 0 < a => Amount(n, k, 0) < Amount(n, k, a)
<1>1. PICK x \in Nat, y \in Nat : x = n * k /\ y = m * k
  OBVIOUS
<1>2. m <= n => y <= x
  <2> SUFFICES ASSUME m <= n PROVE y <= x
    OBVIOUS
  <2>1. PICK d \in Nat : n = m + d
    <3>1. n - m \in Nat /\ n = m + (n - m)
      OBVIOUS
    <3> QED BY <3>1
  <2>2. x = m * k + d * k /\ d * k \in Nat
    BY <1>1, <2>1
  <2> QED BY <1>1, <2>2
<1>3. m + 1 <= n => y + k <= x
  <2> SUFFICES ASSUME m + 1 <= n PROVE y + k <= x
    OBVIOUS
  <2>1. PICK d \in Nat : n = m + 1 + d
    <3>1. n - (m + 1) \in Nat /\ n = m + 1 + (n - (m + 1))
      OBVIOUS
    <3> QED BY <3>1
  <2>2. x = m * k + k + d * k /\ d * k \in Nat
    BY <1>1, <2>1
  <2> QED BY <1>1, <2>2
<1>4. /\ Amount(m, k, b) = y + b
      /\ Amount(n, k, a) = x + a /\ Amount(n, k, 0) = x
  BY <1>1 DEF Amount
<1> QED BY <1>2, <1>3, <1>4

\* The parts of Work are numbers.
WorkTyped ==
  /\ TasksLeft \in Nat /\ TaskCost \in Nat /\ CostOfTask \in Nat
  /\ Len(regular) \in Nat /\ Len(critical) \in Nat
  /\ CostOfTask <= TaskCost

LEMMA WorkIsTyped == TypeOK => WorkTyped
<1> SUFFICES ASSUME TypeOK PROVE WorkTyped
  OBVIOUS
<1>1. Len(regular) \in Nat /\ Len(critical) \in Nat
  BY DEF TypeOK
<1>2. TasksLeft \in Nat
  BY <1>1 DEF TasksLeft
<1>3. TaskCost \in Nat /\ TaskCost = MaxEntities + 2 /\ MaxEntities \in Nat
  BY EntityAssumption DEF TaskCost
<1>4. ops.pc \in {"idle", "updating", "ended"} /\ ops.todo \subseteq Entities
  BY DEF TypeOK
<1>5. /\ Cardinality(ops.todo) \in Nat
      /\ Cardinality(ops.todo) <= MaxEntities
  BY <1>4, CountOfEntities
<1>6. CostOfTask \in {0, 1, 2 + Cardinality(ops.todo)}
  BY <1>4 DEF CostOfTask
<1> QED BY <1>1, <1>2, <1>3, <1>5, <1>6 DEF WorkTyped

LEMMA WorkIsTypedNext == TypeOK' => WorkTyped'
BY WorkIsTyped, PTL

\* Steps of the other threads: no more tasks than before.
LEMMA OthersAddNoWork ==
  ASSUME TypeOK, TypeOK', ops' = ops, TasksLeft' <= TasksLeft
  PROVE  Work' <= Work /\ ops' = ops
<1>1. CostOfTask' = CostOfTask /\ TaskCost' = TaskCost
  BY DEF CostOfTask, TaskCost
<1>2. /\ TasksLeft \in Nat /\ TasksLeft' \in Nat /\ TaskCost \in Nat
      /\ CostOfTask \in Nat
  BY WorkIsTyped, WorkIsTypedNext DEF WorkTyped
<1>3. Amount(TasksLeft', TaskCost, CostOfTask) <= Amount(TasksLeft, TaskCost, CostOfTask)
  BY <1>2, FewerTasks
<1> QED BY <1>1, <1>3, WorkIsAmount

\* In a shutdown inference submits one result at most, and is then at its end.
LEMMA InferenceAddsNoWork ==
  ASSUME IInv, IInv', Stopping, InferenceStep
  PROVE  ops' = ops /\ TasksLeft' <= TasksLeft
<1>1. Len(regular) \in Nat /\ Len(critical) \in Nat
  BY WorkIsTyped DEF WorkTyped, IInv
<1>2. NextRound.pc = "ended"
  BY NextRoundType
<1>3. CASE TakeFrame \/ InferenceEnds
  <2>1. /\ ops' = ops /\ regular' = regular /\ critical' = critical
        /\ inference.pc # "ended"
    BY <1>3 DEF TakeFrame, InferenceEnds, queues
  <2> QED BY <1>1, <2>1 DEF TasksLeft
<1>4. ASSUME NEW tracked \in SUBSET Entities, NEW switched \in SUBSET Entities,
             NEW fresh, NEW late, NEW events,
             Process(tracked, switched, fresh, late, events)
      PROVE  ops' = ops /\ TasksLeft' <= TasksLeft
  <2> DEFINE now  == inference.at
             next == Attached(Updated(store, tracked, switched, now), fresh, now)
             task == [at |-> [e \in Entities |-> IF e \in tracked THEN next[e].wall
                                                ELSE Never],
                      visible |-> tracked, hidden |-> Live(next) \ tracked,
                      closed |-> Lost(store, tracked, switched, now)]
  <2>1. /\ ops' = ops /\ inference.pc = "busy" /\ inference' = NextRound
        /\ regular' = (IF Worthwhile(task, events) /\ events # "severe"
                       THEN Put(regular, RegularSize, task) ELSE regular)
        /\ critical' = (IF events = "severe" THEN Put(critical, CriticalSize, task)
                        ELSE critical)
    BY <1>4 DEF Process
  <2> HIDE DEF task
  <2>2. /\ regular \in Seq(Tasks) /\ critical \in Seq(Tasks)
        /\ regular' \in Seq(Tasks) /\ critical' \in Seq(Tasks)
    BY DEF IInv, TypeOK
  <2>3. /\ Len(Append(regular, task)) = Len(regular) + 1
        /\ Len(Append(critical, task)) = Len(critical) + 1
    BY <2>2
  <2>4. /\ Len(regular') \in {Len(regular), Len(regular) + 1}
        /\ Len(critical') \in {Len(critical), Len(critical) + 1}
        /\ Len(regular') = Len(regular) \/ Len(critical') = Len(critical)
    <3>1. regular' = regular \/ (events # "severe" /\ regular' = Append(regular, task))
      BY <2>1 DEF Put
    <3>2. critical' = critical \/ (events = "severe" /\ critical' = Append(critical, task))
      BY <2>1 DEF Put
    <3> QED BY <2>3, <3>1, <3>2
  <2>5. inference'.pc = "ended" /\ inference.pc # "ended"
    BY <1>2, <2>1
  <2>6. Len(regular') + Len(critical') <= Len(regular) + Len(critical) + 1
    BY <1>1, <2>4
  <2>7. Len(regular') \in Nat /\ Len(critical') \in Nat
    BY <2>2
  <2>8. /\ TasksLeft' = Len(regular') + Len(critical')
        /\ TasksLeft = Len(regular) + Len(critical) + 1
    BY <1>1, <2>5, <2>7 DEF TasksLeft
  <2> QED BY <2>1, <2>6, <2>8
<1>5. ASSUME NEW tracked \in SUBSET Entities, NEW switched \in SUBSET Entities,
             NEW fresh, ProcessFails(tracked, switched, fresh)
      PROVE  ops' = ops /\ TasksLeft' <= TasksLeft
  <2>1. /\ ops' = ops /\ regular' = regular /\ critical' = critical
        /\ inference.pc = "busy" /\ inference' = NextRound
    BY <1>5 DEF ProcessFails, queues
  <2> QED BY <1>1, <1>2, <2>1 DEF TasksLeft
<1> QED BY <1>3, <1>4, <1>5 DEF InferenceStep

\* Each step of the operations thread: a task less in the queues, an entity
\* less in its task, or its sweep done, or its end.
LEMMA OperationsWorksDown ==
  ASSUME IInv, IInv', OperationsStep
  PROVE  Work' < Work
<1>1. /\ TasksLeft \in Nat /\ TaskCost \in Nat /\ CostOfTask \in Nat
      /\ TasksLeft' \in Nat /\ CostOfTask' \in Nat /\ TaskCost' = TaskCost
      /\ Len(regular) \in Nat /\ Len(critical) \in Nat
      /\ CostOfTask' <= TaskCost
  BY WorkIsTyped, WorkIsTypedNext DEF WorkTyped, IInv, TaskCost
<1>2. CASE TakeTask
  <2>1. TasksLeft' + 1 <= TasksLeft /\ CostOfTask = 1
    <3>1. /\ ops.pc = "idle" /\ inference' = inference
          /\ \/ critical # <<>> /\ critical' = Tail(critical) /\ regular' = regular
             \/ regular # <<>> /\ regular' = Tail(regular) /\ critical' = critical
      BY <1>2 DEF TakeTask
    <3>2. \/ /\ Len(critical') = Len(critical) - 1
             /\ Len(regular') = Len(regular)
          \/ /\ Len(regular') = Len(regular) - 1
             /\ Len(critical') = Len(critical)
      BY <3>1, TakeKeeps DEF IInv, TypeOK
    <3>3. CostOfTask = 1
      BY <3>1 DEF CostOfTask
    <3> QED BY <1>1, <3>1, <3>2, <3>3 DEF TasksLeft
  <2>2. Amount(TasksLeft', TaskCost, CostOfTask') <= Amount(TasksLeft, TaskCost, 0)
    BY <1>1, <2>1, FewerTasks
  <2>3. Amount(TasksLeft, TaskCost, 0) < Amount(TasksLeft, TaskCost, CostOfTask)
    BY <1>1, <2>1, FewerTasks
  <2>4. /\ Amount(TasksLeft', TaskCost, CostOfTask') \in Nat
        /\ Amount(TasksLeft, TaskCost, CostOfTask) \in Nat
        /\ Amount(TasksLeft, TaskCost, 0) \in Nat
    BY <1>1, FewerTasks
  <2> QED BY <1>1, <2>2, <2>3, <2>4, WorkIsAmount
<1>3. CASE Sweep \/ OpsEnds \/ \E e \in Entities : UpsertEntity(e)
  <2>1. TasksLeft' = TasksLeft
    BY <1>3 DEF Sweep, OpsEnds, UpsertEntity, queues, TasksLeft
  <2>2. CostOfTask' < CostOfTask
    <3>1. /\ ops \in OpsStates
          /\ Cardinality(ops.todo) \in Nat
      BY CountOfEntities DEF IInv, TypeOK, OpsStates
    <3>2. CASE Sweep
      <4>1. ops.pc = "updating" /\ ops'.pc = "idle"
        BY <3>2 DEF Sweep, OpsIdle
      <4> QED BY <3>1, <4>1 DEF CostOfTask
    <3>3. CASE OpsEnds
      <4>1. ops.pc = "idle" /\ ops'.pc = "ended"
        BY <3>1, <3>3 DEF OpsEnds, OpsStates
      <4> QED BY <4>1 DEF CostOfTask
    <3>4. ASSUME NEW e \in Entities, UpsertEntity(e)
          PROVE  CostOfTask' < CostOfTask
      <4>1. /\ ops.pc = "updating" /\ e \in ops.todo
            /\ ops'.pc = "updating" /\ ops'.todo = ops.todo \ {e}
        BY <3>1, <3>4 DEF UpsertEntity, OpsStates
      <4>2. Cardinality(ops'.todo) = Cardinality(ops.todo) - 1
        BY <3>1, <4>1, CountOfEntities DEF OpsStates
      <4> QED BY <3>1, <4>1, <4>2 DEF CostOfTask
    <3> QED BY <1>3, <3>2, <3>3, <3>4
  <2>3. Amount(TasksLeft, TaskCost, CostOfTask') < Amount(TasksLeft, TaskCost, CostOfTask)
    BY <1>1, <2>2, FewerTasks
  <2> QED BY <1>1, <2>1, <2>3, WorkIsAmount
<1> QED BY <1>2, <1>3 DEF OperationsStep

\* Work is never more than what full queues and a full task amount to.
LEMMA WorkIsBounded ==
  ASSUME TypeOK
  PROVE  Work <= (RegularSize + CriticalSize + 2) * TaskCost
<1> DEFINE n == RegularSize + CriticalSize + 2
<1>1. /\ RegularSize \in Nat /\ CriticalSize \in Nat /\ n \in Nat
      /\ Len(regular) <= RegularSize /\ Len(critical) <= CriticalSize
  BY RuntimeAssumption DEF TypeOK
<1>2. /\ TasksLeft \in Nat /\ TaskCost \in Nat /\ CostOfTask \in Nat
      /\ Len(regular) \in Nat /\ Len(critical) \in Nat
      /\ CostOfTask <= TaskCost
  BY WorkIsTyped DEF WorkTyped
<1>3. TasksLeft + 1 <= n
  BY <1>1, <1>2 DEF TasksLeft
<1> HIDE DEF n
<1>4. Amount(TasksLeft, TaskCost, CostOfTask) <= Amount(n, TaskCost, 0)
  BY <1>1, <1>2, <1>3, FewerTasks
<1>5. Amount(n, TaskCost, 0) = n * TaskCost
  BY <1>1, <1>2 DEF Amount
<1> QED BY <1>4, <1>5, WorkIsAmount DEF n

\* The work of a shutdown only shrinks, and each step of the operations
\* thread takes some of it away (OperationalWorker.run and .stop,
\* InferenceWorker.run).
THEOREM WorksDownHolds == Spec => WorksDown
<1>1. ASSUME IInv, IInv', Next, Stopping, Up'
      PROVE  Work' <= Work /\ (ops' # ops => Work' < Work)
  <2>1. TypeOK /\ TypeOK' /\ Work \in Nat /\ Work' \in Nat
    <3>1. TypeOK /\ TypeOK'
      BY <1>1 DEF IInv
    <3>2. /\ TasksLeft \in Nat /\ TaskCost \in Nat /\ CostOfTask \in Nat
          /\ TasksLeft' \in Nat /\ TaskCost' \in Nat /\ CostOfTask' \in Nat
      BY <3>1, WorkIsTyped, WorkIsTypedNext DEF WorkTyped
    <3> QED BY <3>1, <3>2, WorkIsAmount, FewerTasks
  <2>2. CASE Capture \/ Tick \/ Rollover \/ StopOperations \/ CloseForShutdown
    <3>1. ops' = ops /\ TasksLeft' = TasksLeft /\ TasksLeft \in Nat
      BY <2>1, <2>2, WorkIsTyped
         DEF WorkTyped, Capture, Tick, Rollover, StopOperations, CloseForShutdown, queues, TasksLeft
    <3> QED BY <2>1, <3>1, OthersAddNoWork
  <2>3. CASE InferenceStep
    BY <1>1, <2>1, <2>3, InferenceAddsNoWork, OthersAddNoWork
  <2>4. CASE OperationsStep
    BY <1>1, <2>1, <2>4, OperationsWorksDown
  <2>5. CASE StopWorkers \/ Exit \/ Crash \/ Start
    BY <1>1, <2>5 DEF StopWorkers, Exit, Crash, Start, Gone, Stopping, Up
  <2> QED BY <1>1, <2>2, <2>3, <2>4, <2>5 DEF Next, ShutdownStep
<1>2. IInv /\ IInv' /\ [Next]_vars =>
        [Stopping /\ Up' =>
           Work' <= Work /\ (ops' # ops => Work' < Work)]_<<main, inference, queues, ops>>
  BY <1>1 DEF vars
<1> QED BY Invariance, <1>2, PTL DEF Spec, WorksDown

\* However many entities there are and however large the queues, a shutdown
\* is at most this many steps of the operations thread away from its end.
THEOREM WorkBounded == Spec => [](Work <= (RegularSize + CriticalSize + 2) * TaskCost)
<1>1. TypeOK => Work <= (RegularSize + CriticalSize + 2) * TaskCost
  BY WorkIsBounded
<1> QED BY TypeCorrect, <1>1, PTL

-----------------------------------------------------------------------------
(* The log of visits *)

VisitRecord == [entity : Entities, from : Stamps, to : Stamps, over : BOOLEAN]

LEMMA VisitsAre ==
  ASSUME NEW rows \in Seq(Rows)
  PROVE  /\ VisitsOf(rows) \in Seq(VisitRecord)
         /\ Len(VisitsOf(rows)) = Len(rows)
         /\ \A i \in 1 .. Len(rows) : VisitsOf(rows)[i] = Visit(rows[i])
<1>1. Len(rows) \in Nat /\ \A i \in 1 .. Len(rows) : rows[i] \in Rows
  OBVIOUS
<1>2. PICK visits : visits = VisitsOf(rows)
  OBVIOUS
<1>3. /\ visits = [i \in 1 .. Len(rows) |-> visits[i]]
      /\ \A i \in 1 .. Len(rows) : visits[i] = Visit(rows[i])
  BY <1>2 DEF VisitsOf
<1>4. ASSUME NEW i \in 1 .. Len(rows)
      PROVE  visits[i] \in VisitRecord
  <2>1. rows[i] \in Rows
    BY <1>1
  <2>2. PICK over \in BOOLEAN : over = ~IsOpen(rows[i])
    BY DEF IsOpen
  <2>3. visits[i] = [entity |-> rows[i].entity, from |-> rows[i].started,
                     to |-> rows[i].last, over |-> over]
    BY <1>3, <2>2 DEF Visit
  <2> QED BY <2>1, <2>3 DEF VisitRecord, Rows, Row
<1>5. visits \in [1 .. Len(rows) -> VisitRecord]
  BY <1>3, <1>4
<1> QED BY <1>1, <1>2, <1>3, <1>5

\* Rows that say the same of presence are the same log.
LEMMA SameVisits ==
  ASSUME NEW rows \in Seq(Rows), NEW new \in Seq(Rows), Len(new) = Len(rows),
         \A i \in 1 .. Len(rows) : Visit(new[i]) = Visit(rows[i])
  PROVE  VisitsOf(new) = VisitsOf(rows)
BY DEF VisitsOf

\* Closing rows ends their visits.
LEMMA ClosingEnds ==
  ASSUME NEW rows \in Seq(Rows), NEW ids, ids \subseteq OpenRows(rows)
  PROVE  VisitsOf(ClosedRows(rows, ids)) =
           [i \in 1 .. Len(VisitsOf(rows)) |->
              IF i \in ids THEN [VisitsOf(rows)[i] EXCEPT !.over = TRUE]
              ELSE VisitsOf(rows)[i]]
<1> DEFINE new == ClosedRows(rows, ids)
<1>1. Len(rows) \in Nat /\ \A i \in 1 .. Len(rows) : rows[i] \in Rows
  OBVIOUS
<1>2. Len(new) = Len(rows)
  BY <1>1 DEF ClosedRows
<1>3. ASSUME NEW i \in 1 .. Len(rows)
      PROVE  Visit(new[i]) = IF i \in ids THEN [Visit(rows[i]) EXCEPT !.over = TRUE]
                             ELSE Visit(rows[i])
  <2>1. new[i] = IF i \in ids THEN [rows[i] EXCEPT !.status = "closed"] ELSE rows[i]
    BY DEF ClosedRows
  <2>2. rows[i] \in Rows
    BY <1>1
  <2>3. CASE i \in ids
    <3>1. /\ new[i].entity = rows[i].entity /\ new[i].started = rows[i].started
          /\ new[i].last = rows[i].last /\ new[i].status = "closed"
      BY <2>1, <2>2, <2>3 DEF Rows, Row
    <3>2. Visit(new[i]) = [entity |-> rows[i].entity, from |-> rows[i].started,
                           to |-> rows[i].last, over |-> TRUE]
      BY <3>1 DEF IsOpen, Visit
    <3>3. PICK over : over = ~IsOpen(rows[i])
      OBVIOUS
    <3>4. Visit(rows[i]) = [entity |-> rows[i].entity, from |-> rows[i].started,
                            to |-> rows[i].last, over |-> over]
      BY <3>3 DEF Visit
    <3>5. PICK true : true = TRUE
      OBVIOUS
    <3>6. [Visit(rows[i]) EXCEPT !.over = true] =
            [entity |-> rows[i].entity, from |-> rows[i].started,
             to |-> rows[i].last, over |-> true]
      BY <3>4
    <3> QED BY <2>3, <3>2, <3>5, <3>6
  <2>4. CASE i \notin ids
    BY <2>1, <2>4
  <2> QED BY <2>3, <2>4
<1> HIDE DEF new
<1>4. /\ Len(VisitsOf(rows)) = Len(rows)
      /\ \A i \in 1 .. Len(rows) : VisitsOf(rows)[i] = Visit(rows[i])
  BY VisitsAre
<1>5. VisitsOf(new) = [i \in 1 .. Len(rows) |-> Visit(new[i])]
  BY <1>2 DEF VisitsOf
<1> QED BY <1>3, <1>4, <1>5 DEF new

\* A visit as it is opened, and a log with a visit extended.
Arrival(e, at) == [entity |-> e, from |-> at, to |-> at, over |-> FALSE]
Extended(visits, i, at) == [visits EXCEPT ![i].to = at]

\* An upsert opens a visit, extends one, or says nothing new.
LEMMA UpsertLogs ==
  ASSUME NEW rows \in Seq(Rows), Single(rows), NEW e \in Entities, NEW at \in Stamps,
         NEW shown,
         NEW new, new = Upserted(rows, e, at, e \in shown)
  PROVE  \/ VisitsOf(new) = VisitsOf(rows)
         \/ /\ e \in shown
            /\ \A i \in OpenRows(rows) : rows[i].entity # e
            /\ VisitsOf(new) = Append(VisitsOf(rows), Arrival(e, at))
         \/ /\ e \in shown
            /\ \E i \in OpenRows(rows) :
                 /\ rows[i].entity = e /\ rows[i].last # Seconds
                 /\ at # Seconds /\ rows[i].last < at
                 /\ VisitsOf(new) = Extended(VisitsOf(rows), i, at)
<1>1. Len(rows) \in Nat /\ \A k \in 1 .. Len(rows) : rows[k] \in Rows
  OBVIOUS
<1>2. /\ VisitsOf(rows) \in Seq(VisitRecord) /\ Len(VisitsOf(rows)) = Len(rows)
      /\ \A k \in 1 .. Len(rows) : VisitsOf(rows)[k] = Visit(rows[k])
  BY VisitsAre
<1>3. CASE OpenRowsOf(rows, e) # {}
  <2>1. PICK i : i \in OpenRowsOf(rows, e)
    BY <1>3
  <2>2. /\ i \in 1 .. Len(rows) /\ IsOpen(rows[i]) /\ rows[i].entity = e
        /\ i \in OpenRows(rows)
    BY <2>1 DEF OpenRowsOf, OpenRows
  <2>3. \A j \in OpenRowsOf(rows, e) : j = i
    BY <2>1, <2>2 DEF OpenRowsOf, Single
  <2>4. Newest(OpenRowsOf(rows, e)) = i
    <3>1. \A j \in OpenRowsOf(rows, e) : j <= i
      BY <1>1, <2>2, <2>3
    <3> QED BY <2>1, <2>3, <3>1 DEF Newest
  <2>5. PICK r : r = IF e \in shown THEN Seen(rows[i], at)
                     ELSE [rows[i] EXCEPT !.status = "occluded"]
    OBVIOUS
  <2>6. /\ r.entity = e /\ r.started = rows[i].started
        /\ r.last = (IF e \in shown THEN Later(rows[i].last, at) ELSE rows[i].last)
        /\ IsOpen(r) /\ r \in Rows
    <3>1. rows[i] \in Rows
      BY <1>1, <2>2
    <3>2. Later(rows[i].last, at) \in Stamps
      BY <3>1 DEF Later, Rows, Row
    <3>3. CASE e \in shown
      <4>1. r = [rows[i] EXCEPT !.last = Later(rows[i].last, at), !.status = "active"]
        BY <2>5, <3>3 DEF Seen
      <4> QED BY <2>2, <3>1, <3>2, <3>3, <4>1 DEF Rows, Row, Statuses, IsOpen
    <3>4. CASE e \notin shown
      <4>1. r = [rows[i] EXCEPT !.status = "occluded"]
        BY <2>5, <3>4
      <4> QED BY <2>2, <3>1, <3>4, <4>1 DEF Rows, Row, Statuses, IsOpen
    <3> QED BY <3>3, <3>4
  <2>7. new = [rows EXCEPT ![i] = r]
    BY <1>3, <2>4, <2>5 DEF Upserted
  <2>8. /\ new \in Seq(Rows) /\ Len(new) = Len(rows) /\ new[i] = r
        /\ \A k \in (1 .. Len(rows)) \ {i} : new[k] = rows[k]
    BY <2>2, <2>6, <2>7
  <2>9. CASE /\ e \in shown /\ rows[i].last # Seconds /\ at # Seconds
             /\ rows[i].last < at
    <3>1. Visit(r) = [Visit(rows[i]) EXCEPT !.to = at]
      BY <2>2, <2>6, <2>9 DEF Visit, Later
    <3>2. /\ VisitsOf(new) \in Seq(VisitRecord) /\ Len(VisitsOf(new)) = Len(rows)
          /\ \A k \in 1 .. Len(rows) : VisitsOf(new)[k] = Visit(new[k])
      BY <2>8, VisitsAre
    <3>3. PICK other : other = Extended(VisitsOf(rows), i, at)
      OBVIOUS
    <3>4. /\ other = [k \in 1 .. Len(rows) |-> other[k]]
          /\ other[i] = Visit(r)
          /\ \A k \in (1 .. Len(rows)) \ {i} : other[k] = Visit(rows[k])
      <4>1. PICK visits : visits = VisitsOf(rows)
        OBVIOUS
      <4>2. /\ visits = [k \in 1 .. Len(rows) |-> visits[k]]
            /\ \A k \in 1 .. Len(rows) : visits[k] = Visit(rows[k])
        BY <1>2, <4>1 DEF VisitsOf
      <4>3. other = [visits EXCEPT ![i] = [visits[i] EXCEPT !.to = at]]
        BY <3>3, <4>1 DEF Extended
      <4>4. [visits[i] EXCEPT !.to = at] = Visit(r)
        BY <2>2, <3>1, <4>2
      <4> QED BY <2>2, <4>2, <4>3, <4>4
    <3>5. VisitsOf(new) = [k \in 1 .. Len(rows) |-> VisitsOf(new)[k]]
      BY <2>8 DEF VisitsOf
    <3>6. \A k \in 1 .. Len(rows) : VisitsOf(new)[k] = other[k]
      BY <2>8, <3>2, <3>4
    <3>7. VisitsOf(new) = other
      BY <3>4, <3>5, <3>6
    <3> QED BY <2>2, <2>9, <3>3, <3>7
  <2>10. CASE ~(/\ e \in shown /\ rows[i].last # Seconds /\ at # Seconds
                /\ rows[i].last < at)
    <3>1. r.last = rows[i].last
      BY <2>2, <2>6, <2>10 DEF Later
    <3>2. Visit(r) = Visit(rows[i])
      BY <2>2, <2>6, <3>1 DEF Visit
    <3> QED BY <2>8, <3>2, SameVisits
  <2> QED BY <2>9, <2>10
<1>4. CASE OpenRowsOf(rows, e) = {} /\ e \in shown
  <2>1. PICK r : r = [entity |-> e, started |-> at, last |-> at, status |-> "active"]
    OBVIOUS
  <2>2. r \in Rows /\ Visit(r) = Arrival(e, at)
    BY <2>1 DEF Arrival, Rows, Row, Statuses, Visit, IsOpen
  <2>3. new = Append(rows, r)
    BY <1>4, <2>1 DEF Upserted
  <2>4. /\ new \in Seq(Rows) /\ Len(new) = Len(rows) + 1 /\ new[Len(rows) + 1] = r
        /\ \A k \in 1 .. Len(rows) : new[k] = rows[k]
    BY <1>1, <2>2, <2>3
  <2>5. /\ VisitsOf(new) \in Seq(VisitRecord) /\ Len(VisitsOf(new)) = Len(rows) + 1
        /\ \A k \in 1 .. Len(rows) + 1 : VisitsOf(new)[k] = Visit(new[k])
    BY <2>4, VisitsAre
  <2>6. PICK other : other = Append(VisitsOf(rows), Visit(r))
    OBVIOUS
  <2>7. Visit(r) \in VisitRecord
    BY <2>2 DEF VisitRecord, Arrival
  <2>8. /\ other \in Seq(VisitRecord) /\ Len(other) = Len(rows) + 1
        /\ other[Len(rows) + 1] = Visit(r)
        /\ \A k \in 1 .. Len(rows) : other[k] = VisitsOf(rows)[k]
    BY <1>1, <1>2, <2>6, <2>7
  <2>9. \A k \in 1 .. Len(rows) + 1 : VisitsOf(new)[k] = other[k]
    BY <1>1, <1>2, <2>4, <2>5, <2>8
  <2>10. VisitsOf(new) = other
    BY <2>5, <2>8, <2>9
  <2>11. \A i \in OpenRows(rows) : rows[i].entity # e
    BY <1>4 DEF OpenRowsOf
  <2> QED BY <1>4, <2>2, <2>6, <2>10, <2>11
<1>5. CASE OpenRowsOf(rows, e) = {} /\ e \notin shown
  BY <1>5 DEF Upserted
<1> QED BY <1>3, <1>4, <1>5

-----------------------------------------------------------------------------
(* Every action is a step of the log, or none *)

LogStep == [Log!Next]_(Log!vars)

\* Neither table nor store nor process changes.
LEMMA QuietLogs ==
  ASSUME UNCHANGED <<sessions, store>>, Up' = Up
  PROVE  LogStep
BY DEF LogStep, Log!vars

\* A frame is an observation.
LEMMA RoundLogs ==
  ASSUME IInv, Up, UNCHANGED <<sessions, main>>, Grown(store, store')
  PROVE  LogStep
<1>1. /\ SeenOf(store') \in [Entities -> Nat \cup {Never}]
      /\ \A e \in Entities :
           SeenOf(store)[e] # Never =>
             SeenOf(store')[e] # Never /\ SeenOf(store)[e] <= SeenOf(store')[e]
  BY WallsAre DEF SeenOf, Grown, NotAfter
<1>2. Up' = Up
  BY DEF Up
<1>3. Log!Observe
  BY <1>1, <1>2 DEF Log!Observe
<1> QED BY <1>3 DEF LogStep, Log!Next

\* A round only adds observations, those of the security signals last.
LEMMA ProcessFailsGrows ==
  ASSUME IInv, NEW tracked \in SUBSET Entities, NEW switched, NEW fresh,
         ProcessFails(tracked, switched, fresh)
  PROVE  Grown(store, store')
<1>1. inference.at \in Times /\ store \in Stores /\ First(store)
  BY Parts DEF IInv, TypeOK
<1>2. store' = Attached(Updated(store, tracked, switched, inference.at), fresh,
                       inference.at)
  BY DEF ProcessFails
<1> QED BY <1>1, <1>2, FrameStore

LEMMA ProcessGrows ==
  ASSUME IInv, NEW tracked \in SUBSET Entities, NEW switched, NEW fresh, NEW late,
         NEW events, Process(tracked, switched, fresh, late, events)
  PROVE  Grown(store, store')
<1>1. inference.at \in Times /\ store \in Stores /\ First(store)
  BY Parts DEF IInv, TypeOK
<1>2. PICK next : next = Attached(Updated(store, tracked, switched, inference.at), fresh,
                                  inference.at)
  OBVIOUS
<1>3. store' = Attached(next, late, inference.at)
  BY <1>2 DEF Process
<1>4. next \in Stores /\ First(next) /\ Grown(store, next)
  BY <1>1, <1>2, FrameStore
<1>5. Grown(next, store')
  BY <1>1, <1>3, <1>4, AttachedStore
<1> QED BY <1>4, <1>5, GrownAgain

\* A closing update ends visits.
LEMMA CloseLogs ==
  ASSUME IInv, Up, Up' = Up, store' = store, NEW ids, ids \subseteq OpenRows(sessions),
         sessions' \in {sessions, ClosedRows(sessions, ids)}
  PROVE  LogStep
<1>1. CASE sessions' = sessions
  BY <1>1, QuietLogs
<1>2. CASE sessions' = ClosedRows(sessions, ids)
  <2>1. sessions \in Seq(Rows)
    BY Parts
  <2>2. VisitsOf(sessions') = Log!Over(ids)
    BY <1>2, <2>1, ClosingEnds DEF Log!Over, Log!Visits
  <2>3. ids \subseteq Log!Current
    <3>1. ASSUME NEW i \in ids
          PROVE  i \in 1 .. Len(VisitsOf(sessions)) /\ ~VisitsOf(sessions)[i].over
      <4>1. i \in 1 .. Len(sessions) /\ IsOpen(sessions[i])
        BY DEF OpenRows
      <4>2. ~Visit(sessions[i]).over
        BY <4>1 DEF Visit
      <4> QED BY <2>1, <4>1, <4>2, VisitsAre
    <3> QED BY <3>1 DEF Log!Current, Log!Visits
  <2>4. Log!Leave(ids)
    BY <2>2 DEF Log!Leave
  <2> QED BY <2>3, <2>4 DEF LogStep, Log!Next
<1> QED BY <1>1, <1>2

\* A current visit of the log is an open row.
LEMMA CurrentIsOpen ==
  ASSUME IInv
  PROVE  /\ Log!Current = OpenRows(sessions)
         /\ \A i \in OpenRows(sessions) :
              /\ VisitsOf(sessions)[i].entity = sessions[i].entity
              /\ VisitsOf(sessions)[i].to = sessions[i].last
<1>1. sessions \in Seq(Rows)
  BY Parts
<1>2. /\ Len(VisitsOf(sessions)) = Len(sessions)
      /\ \A i \in 1 .. Len(sessions) : VisitsOf(sessions)[i] = Visit(sessions[i])
  BY <1>1, VisitsAre
<1>3. ASSUME NEW i \in 1 .. Len(sessions)
      PROVE  /\ ~VisitsOf(sessions)[i].over <=> IsOpen(sessions[i])
             /\ VisitsOf(sessions)[i].entity = sessions[i].entity
             /\ VisitsOf(sessions)[i].to = sessions[i].last
  <2>1. ~Visit(sessions[i]).over <=> IsOpen(sessions[i])
    BY DEF Visit
  <2>2. Visit(sessions[i]).entity = sessions[i].entity
        /\ Visit(sessions[i]).to = sessions[i].last
    BY DEF Visit
  <2> QED BY <1>2, <2>1, <2>2
<1> QED BY <1>2, <1>3 DEF Log!Current, Log!Visits, OpenRows

\* An upsert of a visible entity is an arrival or a stay, at an instant it
\* was observed.
LEMMA UpsertEntityLogs ==
  ASSUME IInv, NEW e \in Entities, UpsertEntity(e)
  PROVE  LogStep
<1>1. PICK at : at = ObservedAt(ops.at[e])
  OBVIOUS
<1>2. /\ Up /\ Up' = Up /\ SeenOf(store') = SeenOf(store)
      /\ sessions' = Upserted(sessions, e, at, e \in ops.visible)
  BY <1>1 DEF UpsertEntity, Up
<1>3. at \in Stamps /\ sessions \in Seq(Rows) /\ Single(sessions)
  <2>1. ops.at[e] \in Walls
    BY DEF IInv, TypeOK
  <2> QED BY <1>1, <2>1, Parts DEF ObservedAt, Walls, Stamps
<1>4. e \in ops.visible => at \in Log!Seen(e) \cup {Seconds}
  <2> SUFFICES ASSUME e \in ops.visible, at # Seconds PROVE at \in Log!Seen(e)
    OBVIOUS
  <2>1. /\ at \in Nat /\ NotAfter(at, store[e].wall) /\ store[e].wall \in Nat
    <3>1. ops.at[e] \in Walls /\ store[e].wall \in Walls /\ Covered(ops, store)
      BY Parts DEF IInv, TypeOK
    <3>2. ops.at[e] # Never /\ at = ops.at[e]
      BY <1>1 DEF ObservedAt
    <3> QED BY <3>1, <3>2, WallsAre DEF Covered, NotAfter
  <2>2. SeenOf(store)[e] = store[e].wall
    BY DEF SeenOf
  <2> QED BY <2>1, <2>2 DEF Log!Seen, NotAfter
<1>5. CASE VisitsOf(sessions') = VisitsOf(sessions)
  BY <1>2, <1>5 DEF LogStep, Log!vars
<1>6. CASE /\ e \in ops.visible
           /\ \A i \in OpenRows(sessions) : sessions[i].entity # e
           /\ VisitsOf(sessions') = Append(VisitsOf(sessions), Arrival(e, at))
  <2>1. Log!Arrive(e, at)
    BY <1>2, <1>6, CurrentIsOpen DEF Log!Arrive, Arrival
  <2> QED BY <1>4, <1>6, <2>1 DEF LogStep, Log!Next
<1>7. CASE /\ e \in ops.visible
           /\ \E i \in OpenRows(sessions) :
                /\ sessions[i].entity = e /\ sessions[i].last # Seconds
                /\ at # Seconds /\ sessions[i].last < at
                /\ VisitsOf(sessions') = Extended(VisitsOf(sessions), i, at)
  <2>1. PICK i \in OpenRows(sessions) :
          /\ sessions[i].entity = e /\ sessions[i].last # Seconds
          /\ at # Seconds /\ sessions[i].last < at
          /\ VisitsOf(sessions') = Extended(VisitsOf(sessions), i, at)
    BY <1>7
  <2>2. /\ i \in Log!Current
        /\ VisitsOf(sessions)[i].entity = e /\ VisitsOf(sessions)[i].to # Seconds
        /\ VisitsOf(sessions)[i].to < at
    BY <2>1, CurrentIsOpen
  <2>3. Log!Stay(i, at)
    BY <1>2, <2>1, <2>2 DEF Log!Stay, Extended
  <2>4. at \in Log!Seen(VisitsOf(sessions)[i].entity)
    BY <1>4, <1>7, <2>1, <2>2
  <2> QED BY <2>2, <2>3, <2>4 DEF LogStep, Log!Next
<1>8. \/ VisitsOf(sessions') = VisitsOf(sessions)
      \/ /\ e \in ops.visible
         /\ \A i \in OpenRows(sessions) : sessions[i].entity # e
         /\ VisitsOf(sessions') = Append(VisitsOf(sessions), Arrival(e, at))
      \/ /\ e \in ops.visible
         /\ \E i \in OpenRows(sessions) :
              /\ sessions[i].entity = e /\ sessions[i].last # Seconds
              /\ at # Seconds /\ sessions[i].last < at
              /\ VisitsOf(sessions') = Extended(VisitsOf(sessions), i, at)
  BY <1>2, <1>3, UpsertLogs
<1> QED BY <1>5, <1>6, <1>7, <1>8

\* A process that is gone has observed nothing that the next one could use.
LEMMA GoneLogs ==
  ASSUME Exit \/ Crash
  PROVE  LogStep
<1>1. /\ Up /\ ~Up' /\ sessions' = sessions /\ store' = EmptyStore
  BY DEF Exit, Crash, Gone, MemoryReset, Up
<1>2. SeenOf(store') = Log!Unseen
  BY <1>1 DEF SeenOf, EmptyStore, Log!Unseen
<1>3. Log!Stop
  BY <1>1, <1>2 DEF Log!Stop
<1> QED BY <1>3 DEF LogStep, Log!Next

LEMMA StartLogs ==
  ASSUME IInv, Start
  PROVE  LogStep
<1>1. /\ ~Up /\ Up' /\ store' = EmptyStore
      /\ sessions' = ClosedRows(sessions, OpenRows(sessions))
  BY DEF Start, AllClosed, MemoryReset, Up
<1>2. SeenOf(store') = Log!Unseen
  BY <1>1 DEF SeenOf, EmptyStore, Log!Unseen
<1>3. OpenRows(sessions) \subseteq OpenRows(sessions) /\ sessions \in Seq(Rows)
  BY Parts
<1>4. VisitsOf(sessions') = Log!Over(Log!Current)
  BY <1>1, <1>3, ClosingEnds, CurrentIsOpen DEF Log!Over, Log!Visits
<1>5. Log!Start
  BY <1>1, <1>2, <1>4 DEF Log!Start
<1> QED BY <1>5 DEF LogStep, Log!Next

LEMMA NextLogs ==
  ASSUME IInv, Next
  PROVE  LogStep
<1>1. CASE Capture \/ Tick \/ TakeFrame \/ InferenceEnds \/ OpsEnds
  BY <1>1, QuietLogs DEF Capture, Tick, TakeFrame, InferenceEnds, OpsEnds, Up
<1>2. CASE StopWorkers \/ StopOperations
  BY <1>2, QuietLogs DEF StopWorkers, StopOperations, Up
<1>3. ASSUME NEW tracked \in SUBSET Entities, NEW switched \in SUBSET Entities,
             NEW fresh, NEW late, NEW events,
             \/ Process(tracked, switched, fresh, late, events)
             \/ ProcessFails(tracked, switched, fresh)
      PROVE  LogStep
  <2>1. Up /\ UNCHANGED <<sessions, main>>
    BY <1>3 DEF Process, ProcessFails
  <2>2. Grown(store, store')
    BY <1>3, ProcessGrows, ProcessFailsGrows
  <2> QED BY <2>1, <2>2, RoundLogs
<1>4. CASE TakeTask
  <2>1. PICK task : Begin(task)
    BY <1>4 DEF TakeTask
  <2> DEFINE ids == {i \in OpenRows(sessions) : sessions[i].entity \in task.closed}
  <2>2. sessions' = ClosedRows(sessions, ids) /\ ids \subseteq OpenRows(sessions)
    BY <2>1 DEF Begin, EntitiesClosed
  <2>3. Up /\ Up' = Up /\ store' = store
    BY <1>4 DEF TakeTask, Up
  <2> HIDE DEF ids
  <2> QED BY <2>2, <2>3, CloseLogs
<1>5. CASE Sweep
  <2> DEFINE ids == {i \in OpenRows(sessions) : Stale(sessions[i], clock, CloseAfter)}
  <2>1. sessions' = ClosedRows(sessions, ids) /\ ids \subseteq OpenRows(sessions)
    BY <1>5 DEF Sweep, StaleClosed
  <2>2. Up /\ Up' = Up /\ store' = store
    BY <1>5 DEF Sweep, Up
  <2> HIDE DEF ids
  <2> QED BY <2>1, <2>2, CloseLogs
<1>6. CASE Rollover \/ CloseForShutdown
  <2>1. sessions' \in {sessions, ClosedRows(sessions, OpenRows(sessions))}
    BY <1>6 DEF Rollover, CloseForShutdown, AllClosed
  <2>2. Up /\ Up' = Up /\ store' = store
    BY <1>6 DEF Rollover, CloseForShutdown, Up
  <2>3. OpenRows(sessions) \subseteq OpenRows(sessions)
    OBVIOUS
  <2> QED BY <2>1, <2>2, <2>3, CloseLogs
<1>7. CASE \E e \in Entities : UpsertEntity(e)
  BY <1>7, UpsertEntityLogs
<1>8. CASE Exit \/ Crash \/ Start
  BY <1>8, GoneLogs, StartLogs
<1> QED BY <1>1, <1>2, <1>3, <1>4, <1>5, <1>6, <1>7, <1>8
        DEF Next, InferenceStep, OperationsStep, ShutdownStep

\* The threads implement the log: a round of inference is an observation, an
\* upsert an arrival, a stay or nothing new, every closing update an end of
\* visits, and a restart a new beginning (InferenceWorker, OperationalWorker,
\* main and the operations of table presence_sessions together).
THEOREM KeepsALog == Spec => ImplementsPresenceLog
<1>1. Init => Log!Init
  <2> SUFFICES ASSUME Init PROVE Log!Init
    OBVIOUS
  <2>1. Up = TRUE /\ SeenOf(store) \in [Entities -> Nat \cup {Never}]
    BY DEF Init, Up, SeenOf, EmptyStore
  <2>2. VisitsOf(sessions) = <<>>
    BY DEF Init, VisitsOf
  <2> QED BY <2>1, <2>2 DEF Log!Init
<1>2. IInv /\ [Next]_vars => LogStep
  <2>1. CASE Next
    BY <2>1, NextLogs
  <2>2. CASE UNCHANGED vars
    BY <2>2, QuietLogs DEF vars, Up
  <2> QED BY <2>1, <2>2
<1> QED BY Invariance, <1>1, <1>2, PTL DEF Spec, LogStep, ImplementsPresenceLog, Log!Spec
=============================================================================
