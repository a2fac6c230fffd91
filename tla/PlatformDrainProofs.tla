------------------------ MODULE PlatformDrainProofs ------------------------
(***************************************************************************)
(* Why platform_drain may write all times a day smaller: for any lease and *)
(* day, once the clock has reached MaxTime the table with smaller times    *)
(* takes every step that the table itself takes on a clock without bound.  *)
(***************************************************************************)
EXTENDS MCPlatformOutbox, PlatformOutboxProofs

\* The table, the clock and the hands of the workers as Rebase leaves them.
View == INSTANCE MCPlatformOutbox WITH
          clock <- clock - DayLength, rows <- EarlierRows, held <- EarlierHeld

EndlessSpec == Init /\ [][EndlessNext]_vars

LEMMA ViewIds == View!EventIds = EventIds
BY DEF View!EventIds, View!EventId, View!AnyValue, EventIds, EventId, AnyValue

LEMMA DaysAhead ==
  ASSUME clock \in Nat, clock >= MaxTime
  PROVE  /\ DayLength \in Nat /\ DayLength > 0 /\ Lease \in Nat
         /\ clock >= 2 * DayLength /\ clock > DayLength + Lease
BY RebaseAssumption, BoundsAssumption, DayAssumption

\* One day earlier is one day less.
LEMMA DayBefore ==
  ASSUME NEW a \in Nat, NEW n \in Nat, n > 0
  PROVE  (a + n) \div n = (a \div n) + 1
OBVIOUS

LEMMA DayOfEarlier ==
  ASSUME NEW t \in Nat, t >= DayLength
  PROVE  Day(t - DayLength) + 1 = Day(t) /\ Day(t) \in Nat
<1> DEFINE a == t - DayLength
<1>1. DayLength \in Nat /\ DayLength > 0 /\ a \in Nat /\ t = a + DayLength
  BY DayAssumption
<1> HIDE DEF a
<1>2. t \div DayLength = (a \div DayLength) + 1
  BY <1>1, DayBefore
<1>3. a \div DayLength \in Nat
  BY <1>1
<1>4. a = t - DayLength
  BY <1>1 DEF a
<1> QED
  BY <1>2, <1>3, <1>4 DEF Day

LEMMA DayOfNone ==
  ASSUME NEW t \in Nat, t < DayLength
  PROVE  Day(t) = 0 /\ Day(0) = 0
BY DayAssumption DEF Day

LEMMA EarlierTyped ==
  ASSUME NEW t \in Nat
  PROVE  /\ Earlier(t) \in Nat
         /\ t < DayLength => Earlier(t) = 0
         /\ t >= DayLength => Earlier(t) = t - DayLength
BY DayAssumption DEF Earlier

\* A row with smaller times has the shape of a row.
LEMMA EarlierRowTyped ==
  ASSUME NEW row \in Row
  PROVE  /\ EarlierRow(row) \in Row
         /\ EarlierRow(row).status = row.status
         /\ EarlierRow(row).order = row.order
         /\ EarlierRow(row).payload = row.payload
         /\ EarlierRow(row).attempts = row.attempts
         /\ EarlierRow(row).dueIso = row.dueIso
         /\ EarlierRow(row).lockedBy = row.lockedBy
         /\ EarlierRow(row).due = Earlier(row.due)
         /\ EarlierRow(row).lockedAt = Earlier(row.lockedAt)
         /\ EarlierRow(row).sentAt = Earlier(row.sentAt)
<1>1. /\ row.due \in Nat /\ row.lockedAt \in Nat /\ row.sentAt \in Nat
  BY DEF Row
<1>2. /\ Earlier(row.due) \in Nat /\ Earlier(row.lockedAt) \in Nat
      /\ Earlier(row.sentAt) \in Nat
  BY <1>1, EarlierTyped
<1> QED
  BY <1>2 DEF EarlierRow, Row

\* Rows are equal when their fields are.
LEMMA RowsEqual ==
  ASSUME NEW r \in Row, NEW s \in Row,
         r.status = s.status, r.order = s.order, r.payload = s.payload,
         r.attempts = s.attempts, r.due = s.due, r.dueIso = s.dueIso,
         r.lockedAt = s.lockedAt, r.lockedBy = s.lockedBy,
         r.sentAt = s.sentAt
  PROVE  r = s
BY DEF Row

\* A claim is stale, an item is due, in the view when it is in the table: a
\* floored time is a lease that is over and a day that is past.
LEMMA ViewStale ==
  ASSUME clock \in Nat, clock >= MaxTime, NEW row \in Row
  PROVE  View!Stale(EarlierRow(row)) <=> Stale(row)
<1>1. row.lockedAt \in Nat
  BY DEF Row
<1>2. /\ DayLength \in Nat /\ Lease \in Nat /\ clock > DayLength + Lease
  BY DaysAhead
<1>3. row.lockedAt < clock - Lease
        <=> Earlier(row.lockedAt) < (clock - DayLength) - Lease
  BY <1>1, <1>2, EarlierTyped
<1> QED
  BY <1>3, EarlierRowTyped DEF View!Stale, Stale

LEMMA ViewDue ==
  ASSUME clock \in Nat, clock >= MaxTime, NEW row \in Row
  PROVE  View!Claimable(EarlierRow(row)) <=> Claimable(row)
<1> DEFINE t == row.due
<1>1. t \in Nat
  BY DEF Row
<1>2. DayLength \in Nat /\ DayLength > 0 /\ clock >= 2 * DayLength
  BY DaysAhead
<1>3. t <= clock <=> Earlier(t) <= clock - DayLength
  BY <1>1, <1>2, EarlierTyped
<1>4. Day(t) < Day(clock) <=> Day(Earlier(t)) < Day(clock - DayLength)
  <2>1. Day(clock - DayLength) + 1 = Day(clock) /\ Day(clock) \in Nat
    BY <1>2, DayOfEarlier
  <2>2. clock - DayLength \in Nat /\ clock - DayLength >= DayLength
    BY <1>2
  <2>3. /\ Day((clock - DayLength) - DayLength) + 1 = Day(clock - DayLength)
        /\ Day(clock - DayLength) \in Nat
    BY <2>2, DayOfEarlier
  <2>4. Day((clock - DayLength) - DayLength) \in Nat
    BY <1>2 DEF Day
  <2>5. Day(clock - DayLength) > 0
    BY <2>3, <2>4
  <2>6. CASE t < DayLength
    <3>1. Day(t) = 0 /\ Day(Earlier(t)) = 0
      BY <1>1, <2>6, DayOfNone, EarlierTyped
    <3> QED
      BY <2>1, <2>3, <2>5, <3>1
  <2>7. CASE t >= DayLength
    <3>1. Day(Earlier(t)) + 1 = Day(t) /\ Day(t) \in Nat
      BY <1>1, <2>7, DayOfEarlier, EarlierTyped
    <3>2. Day(Earlier(t)) \in Nat
      BY <1>1, <1>2, EarlierTyped DEF Day
    <3> QED
      BY <2>1, <2>3, <3>1, <3>2
  <2> QED
    BY <1>1, <1>2, <2>6, <2>7
<1>5. /\ EarlierRow(row).due = Earlier(t)
      /\ EarlierRow(row).dueIso = row.dueIso
      /\ EarlierRow(row).status = row.status
  BY EarlierRowTyped
<1> HIDE DEF t
<1>6. row.due = t
  BY DEF t
<1>7. View!Day(clock - DayLength) = Day(clock - DayLength)
      /\ View!Day(Earlier(t)) = Day(Earlier(t))
  BY DEF View!Day, Day
<1>8. View!Due(EarlierRow(row)) <=> Due(row)
  BY <1>3, <1>4, <1>5, <1>6, <1>7 DEF View!Due, Due
<1> QED
  BY <1>5, <1>8 DEF View!Claimable, Claimable

\* What is done to a row at this instant is done to its view.
LEMMA ViewLocked ==
  ASSUME clock \in Nat, clock >= MaxTime, NEW row \in Row, NEW w \in Workers
  PROVE  View!LockedFor(EarlierRow(row), w) = EarlierRow(LockedFor(row, w))
<1>1. /\ clock - DayLength \in Nat /\ Earlier(clock) = clock - DayLength
  BY DaysAhead, EarlierTyped
<1>2. EarlierRow(row) \in Row
  BY EarlierRowTyped
<1> DEFINE l == LockedFor(row, w)
           v == View!LockedFor(EarlierRow(row), w)
<1>3. l \in Row
  BY LockedTyped
<1>4. l = [row EXCEPT !.status = "processing", !.lockedAt = clock,
                      !.lockedBy = w]
  BY DEF LockedFor
<1>5. v = [EarlierRow(row) EXCEPT !.status = "processing",
                 !.lockedAt = clock - DayLength, !.lockedBy = w]
  BY DEF View!LockedFor
<1> HIDE DEF l, v
<1>6. v \in Row
  BY <1>1, <1>2, <1>5 DEF Row, Statuses
<1>7. EarlierRow(l) \in Row
  BY <1>3, EarlierRowTyped
<1>8. /\ l.status = "processing" /\ l.order = row.order
      /\ l.payload = row.payload /\ l.attempts = row.attempts
      /\ l.due = row.due /\ l.dueIso = row.dueIso /\ l.lockedAt = clock
      /\ l.lockedBy = w /\ l.sentAt = row.sentAt
  BY <1>4 DEF Row
<1>9. /\ v.status = "processing" /\ v.order = row.order
      /\ v.payload = row.payload /\ v.attempts = row.attempts
      /\ v.due = Earlier(row.due) /\ v.dueIso = row.dueIso
      /\ v.lockedAt = clock - DayLength
      /\ v.lockedBy = w /\ v.sentAt = Earlier(row.sentAt)
  BY <1>2, <1>5, EarlierRowTyped DEF Row
<1>10. v = EarlierRow(l)
  BY <1>1, <1>3, <1>6, <1>7, <1>8, <1>9, EarlierRowTyped, RowsEqual
<1> QED
  BY <1>10 DEF l, v

LEMMA ViewReleased ==
  ASSUME clock \in Nat, clock >= MaxTime, NEW row \in Row, NEW s \in Statuses,
         NEW n \in 0..MaxAttempts, NEW t \in Nat, t >= clock,
         NEW iso \in BOOLEAN
  PROVE  View!Released(EarlierRow(row), s, n, t - DayLength, iso)
           = EarlierRow(Released(row, s, n, t, iso))
<1> DEFINE d  == t - DayLength
           q  == EarlierRow(row)
           l1 == [row EXCEPT !.status = s, !.attempts = n, !.due = t]
           l  == [l1 EXCEPT !.dueIso = iso, !.lockedAt = 0, !.lockedBy = Nobody]
           v1 == [q EXCEPT !.status = s, !.attempts = n, !.due = d]
           v  == [v1 EXCEPT !.dueIso = iso, !.lockedAt = 0, !.lockedBy = Nobody]
<1>1. d \in Nat /\ Earlier(t) = d /\ Earlier(0) = 0
  BY DaysAhead, EarlierTyped
<1>2. /\ q \in Row /\ q.order = row.order /\ q.payload = row.payload
      /\ q.sentAt = Earlier(row.sentAt)
  BY EarlierRowTyped
<1>3. Released(row, s, n, t, iso) = l
  BY Zenon DEF Released
<1>4. View!Released(q, s, n, d, iso) = v
  BY Zenon DEF View!Released
<1> HIDE DEF d, q
<1>5. /\ l1 \in Row /\ l1.status = s /\ l1.attempts = n /\ l1.due = t
      /\ l1.order = row.order /\ l1.payload = row.payload
      /\ l1.sentAt = row.sentAt
  BY DEF Row
<1>6. /\ v1 \in Row /\ v1.status = s /\ v1.attempts = n /\ v1.due = d
      /\ v1.order = row.order /\ v1.payload = row.payload
      /\ v1.sentAt = Earlier(row.sentAt)
  BY <1>1, <1>2 DEF Row
<1> HIDE DEF l1, v1
<1>7. /\ l \in Row /\ l.status = s /\ l.attempts = n /\ l.due = t
      /\ l.order = row.order /\ l.payload = row.payload
      /\ l.sentAt = row.sentAt
      /\ l.dueIso = iso /\ l.lockedAt = 0 /\ l.lockedBy = Nobody
  BY <1>5 DEF Row
<1>8. /\ v \in Row /\ v.status = s /\ v.attempts = n /\ v.due = d
      /\ v.order = row.order /\ v.payload = row.payload
      /\ v.sentAt = Earlier(row.sentAt)
      /\ v.dueIso = iso /\ v.lockedAt = 0 /\ v.lockedBy = Nobody
  BY <1>6 DEF Row
<1> HIDE DEF l, v
<1>9. v = EarlierRow(l)
  BY <1>1, <1>7, <1>8, EarlierRowTyped, RowsEqual
<1> QED
  BY <1>3, <1>4, <1>9 DEF d, q

LEMMA ViewRecover ==
  ASSUME clock \in Nat, clock >= MaxTime, NEW row \in Row
  PROVE  View!Recover(EarlierRow(row)) = EarlierRow(Recover(row))
<1> DEFINE iso == FALSE
           s == "failed"
<1>1. row.attempts \in 0..MaxAttempts /\ s \in Statuses /\ iso \in BOOLEAN
  BY DEF Row, Statuses
<1> HIDE DEF iso, s
<1>2. View!Released(EarlierRow(row), s, row.attempts, clock - DayLength, iso)
        = EarlierRow(Released(row, s, row.attempts, clock, iso))
  BY <1>1, ViewReleased
<1>3. EarlierRow(row).attempts = row.attempts
  BY EarlierRowTyped
<1> QED
  BY <1>2, <1>3, ViewStale DEF View!Recover, Recover, iso, s

LEMMA ViewInserted ==
  ASSUME clock \in Nat, clock >= MaxTime, NEW o \in Nat, NEW x \in Values
  PROVE  View!Inserted(o, x) = EarlierRow(Inserted(o, x))
<1> DEFINE l1 == [NoRow EXCEPT !.status = "pending", !.order = o]
           l  == [l1 EXCEPT !.payload = x, !.due = clock]
           v  == [l1 EXCEPT !.payload = x, !.due = clock - DayLength]
<1>1. /\ clock - DayLength \in Nat /\ Earlier(clock) = clock - DayLength
      /\ Earlier(0) = 0
  BY DaysAhead, EarlierTyped
<1>2. View!NoRow = NoRow
  BY DEF View!NoRow, NoRow, View!AnyValue, AnyValue
<1>3. Inserted(o, x) = l
  BY Zenon DEF Inserted
<1>4. View!Inserted(o, x) = v
  BY <1>2, Zenon DEF View!Inserted
<1>5. /\ l1 \in Row /\ l1.status = "pending" /\ l1.order = o
      /\ l1.attempts = 0 /\ l1.dueIso = FALSE
      /\ l1.lockedAt = 0 /\ l1.lockedBy = Nobody /\ l1.sentAt = 0
  <2>1. /\ NoRow \in Row /\ NoRow.attempts = 0 /\ NoRow.dueIso = FALSE
        /\ NoRow.lockedAt = 0 /\ NoRow.lockedBy = Nobody /\ NoRow.sentAt = 0
    BY NoRowTyped DEF NoRow
  <2> QED
    BY <2>1 DEF Row, Statuses
<1> HIDE DEF l1
<1>6. /\ l \in Row /\ l.status = "pending" /\ l.order = o /\ l.payload = x
      /\ l.attempts = 0 /\ l.due = clock /\ l.dueIso = FALSE
      /\ l.lockedAt = 0 /\ l.lockedBy = Nobody /\ l.sentAt = 0
  BY <1>5 DEF Row
<1>7. /\ v \in Row /\ v.status = "pending" /\ v.order = o /\ v.payload = x
      /\ v.attempts = 0 /\ v.due = clock - DayLength /\ v.dueIso = FALSE
      /\ v.lockedAt = 0 /\ v.lockedBy = Nobody /\ v.sentAt = 0
  BY <1>1, <1>5 DEF Row
<1> HIDE DEF l, v
<1> DEFINE q == EarlierRow(l)
<1>8. /\ q \in Row /\ q.status = "pending" /\ q.order = o /\ q.payload = x
      /\ q.attempts = 0 /\ q.due = clock - DayLength /\ q.dueIso = FALSE
      /\ q.lockedAt = 0 /\ q.lockedBy = Nobody /\ q.sentAt = 0
  BY <1>1, <1>6, EarlierRowTyped
<1> HIDE DEF q
<1>9. v = q
  BY <1>7, <1>8, RowsEqual
<1> QED
  BY <1>3, <1>4, <1>9 DEF q

LEMMA SameCardinality ==
  ASSUME NEW S
  PROVE  View!Cardinality(S) = Cardinality(S)
BY Zenon DEF View!Cardinality, Cardinality, View!IsFiniteSet, IsFiniteSet

\* Claims are taken in the order of the rows, which has no time in it.
LEMMA ViewFirst ==
  ASSUME NEW rs \in [EventIds -> Row], NEW S \in SUBSET EventIds
  PROVE  View!FirstOf(S, [e \in EventIds |-> EarlierRow(rs[e])]) = FirstOf(S, rs)
<1> DEFINE vs == [e \in EventIds |-> EarlierRow(rs[e])]
<1>1. \A e \in EventIds : vs[e].order = rs[e].order
  BY EarlierRowTyped
<1> HIDE DEF vs
<1> DEFINE Before(e)     == Cardinality({f \in S : rs[f].order < rs[e].order})
           ViewBefore(e) == View!Cardinality({f \in S : vs[f].order < vs[e].order})
<1>2. ASSUME NEW e \in S
      PROVE  ViewBefore(e) = Before(e)
  <2>1. {f \in S : vs[f].order < vs[e].order}
          = {f \in S : rs[f].order < rs[e].order}
    BY <1>1
  <2>2. View!Cardinality({f \in S : rs[f].order < rs[e].order}) = Before(e)
    BY SameCardinality, Zenon
  <2> QED
    BY <2>1, <2>2, Zenon
<1>3. FirstOf(S, rs) = {e \in S : Before(e) < ClaimLimit}
  BY Zenon DEF FirstOf
<1>4. View!FirstOf(S, vs) = {e \in S : ViewBefore(e) < ClaimLimit}
  BY Zenon DEF View!FirstOf
<1> HIDE DEF Before, ViewBefore
<1>5. View!FirstOf(S, vs) = FirstOf(S, rs)
  BY <1>2, <1>3, <1>4
<1> QED
  BY <1>5 DEF vs

\* A worker holds an event once, so its items stay apart in the view.
LEMMA ViewAnswered ==
  ASSUME IInv, NEW w \in Workers, NEW h \in held[w]
  PROVE  /\ EarlierItem(h) \in EarlierHeld[w]
         /\ EarlierItem(h).event = h.event
         /\ {EarlierItem(g) : g \in held[w] \ {h}}
              = EarlierHeld[w] \ {EarlierItem(h)}
<1>1. held \in [Workers -> SUBSET HeldItem]
  BY DEF IInv, TypeOK
<1>2. \A g \in held[w] : EarlierItem(g).event = g.event
  BY <1>1 DEF HeldItem, EarlierItem
<1>3. \A g \in held[w] : g.event = h.event => g = h
  BY DEF IInv, ClaimsDistinct
<1>4. EarlierHeld[w] = {EarlierItem(g) : g \in held[w]}
  BY DEF EarlierHeld
<1>5. \A g \in held[w] : EarlierItem(g) = EarlierItem(h) => g = h
  BY <1>2, <1>3
<1> QED
  BY <1>2, <1>4, <1>5

LEMMA ViewShapes ==
  ASSUME IInv
  PROVE  /\ clock \in Nat /\ rows \in [EventIds -> Row]
         /\ held \in [Workers -> SUBSET HeldItem]
         /\ EarlierRows \in [EventIds -> Row]
         /\ \A e \in EventIds : EarlierRows[e] = EarlierRow(rows[e])
BY EarlierRowTyped DEF IInv, TypeOK, EarlierRows

\* A step that writes rows and hands writes their views.
LEMMA ViewOfNext ==
  /\ EarlierRows' = [e \in EventIds |-> EarlierRow(rows'[e])]
  /\ EarlierHeld' = [w \in Workers |-> {EarlierItem(h) : h \in held'[w]}]
BY DEF EarlierRows, EarlierHeld, EventIds, EventId, EarlierRow, EarlierItem, Earlier

LEMMA ViewTick ==
  ASSUME IInv, clock >= MaxTime, InLease, clock' = clock + 1,
         UNCHANGED <<value, rows, held, changes, crashes>>
  PROVE  View!EndlessNext
<1>1. View!InLease
  <2> SUFFICES ASSUME NEW w \in Workers, NEW g \in EarlierHeld[w]
               PROVE  clock - DayLength < g.since + Lease
    BY DEF View!InLease
  <2>1. PICK h \in held[w] : g = EarlierItem(h)
    BY DEF EarlierHeld
  <2>2. h.since \in Nat /\ g.since = Earlier(h.since)
    BY <2>1, ViewShapes DEF HeldItem, EarlierItem
  <2>3. clock < h.since + Lease
    BY DEF InLease
  <2> QED
    BY <2>2, <2>3, ViewShapes, DaysAhead, EarlierTyped
<1>2. (clock - DayLength)' = (clock - DayLength) + 1
  BY ViewShapes, DaysAhead
<1>3. EarlierRows' = EarlierRows /\ EarlierHeld' = EarlierHeld
  BY ViewOfNext DEF EarlierRows, EarlierHeld
<1> QED
  BY <1>1, <1>2, <1>3 DEF View!EndlessNext

LEMMA ViewChange ==
  ASSUME IInv, clock >= MaxTime, NEW a \in Aggregates, NEW x \in Values,
         Change(a, x)
  PROVE  View!Change(a, x)
<1> DEFINE e == EventId(a, x)
           new == Inserted(changes + 1, x)
<1>1. e \in EventIds /\ View!EventId(a, x) = e
  BY EventIdTyped DEF View!EventId, EventId, View!AnyValue, AnyValue
<1>2. changes + 1 \in Nat
  BY DEF IInv, TypeOK
<1>3. View!Inserted(changes + 1, x) = EarlierRow(new)
  BY <1>2, ViewShapes, ViewInserted
<1>4. rows' = IF rows[e].status = "absent" THEN [rows EXCEPT ![e] = new] ELSE rows
  BY DEF Change
<1> HIDE DEF e, new
<1>5. EarlierRows[e].status = rows[e].status
  BY <1>1, ViewShapes, EarlierRowTyped
<1>6. EarlierRows' = IF EarlierRows[e].status = "absent"
                     THEN [EarlierRows EXCEPT ![e] = EarlierRow(new)]
                     ELSE EarlierRows
  BY <1>1, <1>4, <1>5, ViewShapes, ViewOfNext DEF EarlierRows
<1>7. EarlierHeld' = EarlierHeld /\ (clock - DayLength)' = clock - DayLength
  BY ViewOfNext DEF Change, EarlierHeld
<1> QED
  BY <1>1, <1>3, <1>6, <1>7 DEF View!Change, Change

LEMMA ViewClaim ==
  ASSUME IInv, clock >= MaxTime, NEW w \in Workers, Claim(w)
  PROVE  View!Claim(w)
<1> DEFINE now    == clock - DayLength
           fresh  == [e \in EventIds |-> Recover(rows[e])]
           due    == {e \in EventIds : Claimable(fresh[e])}
           taken  == FirstOf(due, fresh)
           vfresh == [e \in EventIds |-> EarlierRow(fresh[e])]
<1>1. /\ clock \in Nat /\ rows \in [EventIds -> Row]
      /\ held \in [Workers -> SUBSET HeldItem]
      /\ \A e \in EventIds : EarlierRows[e] = EarlierRow(rows[e])
  BY ViewShapes
<1>2. fresh \in [EventIds -> Row]
  BY <1>1, RecoverTyped
<1>3. [e \in View!EventIds |-> View!Recover(EarlierRows[e])] = vfresh
  BY <1>1, ViewIds, ViewRecover
<1>4. /\ held[w] = {}
      /\ rows' = [e \in EventIds |->
                    IF e \in taken THEN LockedFor(fresh[e], w) ELSE fresh[e]]
      /\ held' = [held EXCEPT ![w] =
                    {[event |-> e, since |-> clock] : e \in taken}]
      /\ UNCHANGED <<clock, value, changes, crashes>>
  BY Zenon DEF Claim
<1>5. taken \subseteq due
  BY FirstOfSubset
<1> HIDE DEF fresh
<1>6. {e \in View!EventIds : View!Claimable(vfresh[e])} = due
  BY <1>1, <1>2, ViewIds, ViewDue
<1>7. View!FirstOf(due, vfresh) = taken
  BY <1>2, ViewFirst
<1> HIDE DEF taken
<1>8. EarlierRows' = [e \in View!EventIds |->
                        IF e \in taken THEN View!LockedFor(vfresh[e], w)
                                       ELSE vfresh[e]]
  <2>1. \A e \in EventIds :
          View!LockedFor(EarlierRow(fresh[e]), w)
            = EarlierRow(LockedFor(fresh[e], w))
    BY <1>1, <1>2, ViewLocked
  <2> QED
    BY <1>4, <2>1, ViewIds, ViewOfNext
<1>9. /\ EarlierHeld[w] = {}
      /\ EarlierHeld' = [EarlierHeld EXCEPT ![w] =
                           {[event |-> e, since |-> now] : e \in taken}]
  <2>1. Earlier(clock) = now
    BY <1>1, DaysAhead, EarlierTyped
  <2>2. \A e \in EventIds : EarlierItem([event |-> e, since |-> clock])
                              = [event |-> e, since |-> now]
    BY <2>1 DEF EarlierItem
  <2>3. {EarlierItem(h) : h \in {[event |-> e, since |-> clock] : e \in taken}}
          = {[event |-> e, since |-> now] : e \in taken}
    BY <1>5, <2>2
  <2> HIDE DEF now
  <2>4. held'[w] = {[event |-> e, since |-> clock] : e \in taken}
    BY <1>1, <1>4
  <2>5. \A v \in Workers : v # w => held'[v] = held[v]
    BY <1>1, <1>4
  <2>6. EarlierHeld' = [v \in Workers |-> {EarlierItem(h) : h \in held'[v]}]
    BY ViewOfNext
  <2>7. EarlierHeld' = [EarlierHeld EXCEPT ![w] =
                          {[event |-> e, since |-> now] : e \in taken}]
    BY <2>3, <2>4, <2>5, <2>6 DEF EarlierHeld
  <2>8. EarlierHeld[w] = {}
    BY <1>4 DEF EarlierHeld
  <2> QED
    BY <2>7, <2>8
<1>10. now' = now /\ UNCHANGED <<value, changes, crashes>>
  BY <1>4
<1> QED
  BY <1>3, <1>6, <1>7, <1>8, <1>9, <1>10, Zenon DEF View!Claim

LEMMA ViewOwns ==
  ASSUME IInv, NEW e \in EventIds, NEW w \in Workers
  PROVE  View!Owns(e, w) <=> Owns(e, w)
BY ViewShapes, EarlierRowTyped DEF View!Owns, Owns

\* An answer to an item is an answer to its view.
LEMMA ViewHands ==
  ASSUME IInv, NEW w \in Workers, NEW h \in held[w],
         held' = [held EXCEPT ![w] = @ \ {h}]
  PROVE  /\ h.event \in EventIds
         /\ EarlierItem(h) \in EarlierHeld[w] /\ EarlierItem(h).event = h.event
         /\ EarlierHeld' = [EarlierHeld EXCEPT ![w] = @ \ {EarlierItem(h)}]
<1>1. held \in [Workers -> SUBSET HeldItem]
  BY ViewShapes
<1>2. h.event \in EventIds
  BY <1>1 DEF HeldItem
<1>3. {EarlierItem(g) : g \in held'[w]} = EarlierHeld[w] \ {EarlierItem(h)}
  BY <1>1, ViewAnswered
<1>4. \A v \in Workers : v # w => held'[v] = held[v]
  BY <1>1
<1>5. EarlierHeld' = [v \in Workers |-> {EarlierItem(g) : g \in held'[v]}]
  BY ViewOfNext
<1>6. EarlierHeld' = [EarlierHeld EXCEPT ![w] = @ \ {EarlierItem(h)}]
  BY <1>3, <1>4, <1>5 DEF EarlierHeld
<1> QED
  BY <1>2, <1>6, ViewAnswered

\* A step that writes one row writes its view.
LEMMA ViewOneRow ==
  ASSUME IInv, NEW e \in EventIds, NEW row, rows' = [rows EXCEPT ![e] = row]
  PROVE  EarlierRows' = [EarlierRows EXCEPT ![e] = EarlierRow(row)]
BY ViewShapes, ViewOfNext DEF EarlierRows

LEMMA ViewAcknowledge ==
  ASSUME IInv, clock >= MaxTime, NEW w \in Workers, NEW h \in held[w],
         Acknowledge(w, h)
  PROVE  View!Acknowledge(w, EarlierItem(h))
<1> DEFINE e == h.event
           new == [rows[e] EXCEPT !.status = "sent", !.sentAt = clock]
           old == EarlierRow(rows[e])
           view == [old EXCEPT !.status = "sent", !.sentAt = clock - DayLength]
<1>1. /\ held' = [held EXCEPT ![w] = @ \ {h}]
      /\ rows' = IF Owns(e, w) THEN [rows EXCEPT ![e] = new] ELSE rows
      /\ UNCHANGED <<clock, value, changes, crashes>>
  BY DEF Acknowledge
<1>2. /\ e \in EventIds /\ EarlierItem(h).event = e
      /\ EarlierHeld' = [EarlierHeld EXCEPT ![w] = @ \ {EarlierItem(h)}]
  BY <1>1, ViewHands
<1> HIDE DEF e
<1>3. clock \in Nat /\ rows[e] \in Row /\ EarlierRows[e] = old
  BY <1>2, ViewShapes
<1>4. EarlierRow(new) = view
  <2>1. clock - DayLength \in Nat /\ Earlier(clock) = clock - DayLength
    BY <1>3, DaysAhead, EarlierTyped
  <2>2. new \in Row /\ new.status = "sent" /\ new.sentAt = clock
        /\ new.order = rows[e].order /\ new.payload = rows[e].payload
        /\ new.attempts = rows[e].attempts /\ new.due = rows[e].due
        /\ new.dueIso = rows[e].dueIso /\ new.lockedAt = rows[e].lockedAt
        /\ new.lockedBy = rows[e].lockedBy
    BY <1>3 DEF Row, Statuses
  <2>3. old \in Row
    BY <1>3, EarlierRowTyped
  <2> HIDE DEF new
  <2>4. /\ old.order = new.order /\ old.payload = new.payload
        /\ old.attempts = new.attempts /\ old.due = Earlier(new.due)
        /\ old.dueIso = new.dueIso /\ old.lockedAt = Earlier(new.lockedAt)
        /\ old.lockedBy = new.lockedBy
    BY <1>3, <2>2, EarlierRowTyped
  <2> HIDE DEF old
  <2>5. /\ view \in Row /\ view.status = "sent" /\ view.sentAt = clock - DayLength
        /\ view.order = new.order /\ view.payload = new.payload
        /\ view.attempts = new.attempts /\ view.due = Earlier(new.due)
        /\ view.dueIso = new.dueIso /\ view.lockedAt = Earlier(new.lockedAt)
        /\ view.lockedBy = new.lockedBy
    BY <2>1, <2>3, <2>4 DEF Row, Statuses
  <2> DEFINE q == EarlierRow(new)
  <2>6. /\ q \in Row /\ q.status = "sent" /\ q.sentAt = clock - DayLength
        /\ q.order = new.order /\ q.payload = new.payload
        /\ q.attempts = new.attempts /\ q.due = Earlier(new.due)
        /\ q.dueIso = new.dueIso /\ q.lockedAt = Earlier(new.lockedAt)
        /\ q.lockedBy = new.lockedBy
    BY <2>1, <2>2, EarlierRowTyped
  <2> HIDE DEF q, view
  <2>7. q = view
    BY <2>5, <2>6, RowsEqual
  <2> QED
    BY <2>7 DEF q
<1> HIDE DEF new
<1>5. Owns(e, w) => EarlierRows' = [EarlierRows EXCEPT ![e] = view]
  BY <1>1, <1>2, <1>4, ViewOneRow
<1>6. ~Owns(e, w) => EarlierRows' = EarlierRows
  BY <1>1, ViewOfNext DEF EarlierRows
<1>7. [EarlierRows EXCEPT ![e].status = "sent", ![e].sentAt = clock - DayLength]
        = [EarlierRows EXCEPT ![e] = view]
  BY <1>2, <1>3, ViewShapes
<1>8. EarlierRows' = IF View!Owns(e, w)
                     THEN [EarlierRows EXCEPT ![e].status = "sent",
                                              ![e].sentAt = clock - DayLength]
                     ELSE EarlierRows
  BY <1>2, <1>5, <1>6, <1>7, ViewOwns
<1>9. (clock - DayLength)' = clock - DayLength
  BY <1>1
<1> QED
  BY <1>1, <1>2, <1>8, <1>9 DEF View!Acknowledge

LEMMA ViewFail ==
  ASSUME IInv, clock >= MaxTime, NEW w \in Workers, NEW h \in held[w],
         Fail(w, h)
  PROVE  View!Fail(w, EarlierItem(h))
<1> DEFINE e == h.event
           n == rows[e].attempts + 1
           s == IF n >= MaxAttempts THEN "dead_letter" ELSE "failed"
           t == clock + Backoff(n)
           iso == TRUE
           new == Released(rows[e], s, n, t, iso)
           now == clock - DayLength
           view == View!Released(EarlierRows[e], s, n, now + View!Backoff(n), iso)
<1>1. /\ held' = [held EXCEPT ![w] = @ \ {h}]
      /\ rows' = IF Owns(e, w) THEN [rows EXCEPT ![e] = new] ELSE rows
      /\ UNCHANGED <<clock, value, changes, crashes>>
  BY Zenon DEF Fail
<1>2. /\ e \in EventIds /\ EarlierItem(h).event = e
      /\ EarlierHeld' = [EarlierHeld EXCEPT ![w] = @ \ {EarlierItem(h)}]
  BY <1>1, ViewHands
<1>3. /\ clock \in Nat /\ rows[e] \in Row /\ EarlierRows[e] = EarlierRow(rows[e])
      /\ EarlierRows[e].attempts = rows[e].attempts
  BY <1>2, ViewShapes, EarlierRowTyped
<1>4. Owns(e, w) => view = EarlierRow(new)
  <2> SUFFICES ASSUME Owns(e, w) PROVE view = EarlierRow(new)
    OBVIOUS
  <2>1. n \in 1..MaxAttempts
    BY <1>2, FailedTyped
  <2>2. MaxAttempts \in Nat /\ DayLength \in Nat
    BY AttemptsAssumption, DayAssumption
  <2>3. n \in 0..MaxAttempts /\ s \in Statuses /\ iso \in BOOLEAN
    BY <2>1, <2>2 DEF Statuses
  <2>4. Backoff(n) \in Nat /\ View!Backoff(n) = Backoff(n)
    BY <2>1, BackoffAssumption DEF View!Backoff, Backoff
  <2> HIDE DEF n, s, iso
  <2>5. t \in Nat /\ t >= clock /\ now + View!Backoff(n) = t - DayLength
    BY <1>3, <2>2, <2>4
  <2> HIDE DEF t, now
  <2>6. View!Released(EarlierRow(rows[e]), s, n, t - DayLength, iso)
          = EarlierRow(new)
    BY <1>3, <2>3, <2>5, ViewReleased
  <2> QED
    BY <1>3, <2>5, <2>6
<1> HIDE DEF new
<1>5. EarlierRows' = IF View!Owns(e, w)
                     THEN [EarlierRows EXCEPT ![e] = view] ELSE EarlierRows
  <2>1. CASE Owns(e, w)
    BY <1>1, <1>2, <1>4, <2>1, ViewOneRow, ViewOwns
  <2>2. CASE ~Owns(e, w)
    BY <1>1, <1>2, <2>2, ViewOwns, ViewOfNext DEF EarlierRows
  <2> QED
    BY <2>1, <2>2
<1>6. EarlierRows' = IF View!Owns(e, w)
                     THEN [EarlierRows EXCEPT ![e] =
                             View!Released(@, s, n, now + View!Backoff(n), iso)]
                     ELSE EarlierRows
  BY <1>2, <1>5, ViewShapes, Zenon
<1>7. now' = now
  BY <1>1
<1>8. n = EarlierRows[EarlierItem(h).event].attempts + 1
  BY <1>2, <1>3
<1> HIDE DEF e
<1> QED
  BY <1>1, <1>2, <1>6, <1>7, <1>8, Zenon DEF View!Fail

LEMMA ViewCrash ==
  ASSUME IInv, clock >= MaxTime, NEW w \in Workers, Crash(w)
  PROVE  View!Crash(w)
<1>1. held \in [Workers -> SUBSET HeldItem]
  BY ViewShapes
<1>2. /\ held[w] # {} /\ crashes < MaxCrashes /\ crashes' = crashes + 1
      /\ held' = [held EXCEPT ![w] = {}]
      /\ UNCHANGED <<clock, value, rows, changes>>
  BY DEF Crash
<1>3. EarlierHeld[w] # {}
  BY <1>2 DEF EarlierHeld
<1>4. EarlierHeld' = [EarlierHeld EXCEPT ![w] = {}]
  <2>1. held'[w] = {} /\ \A v \in Workers : v # w => held'[v] = held[v]
    BY <1>1, <1>2
  <2>2. EarlierHeld' = [v \in Workers |-> {EarlierItem(h) : h \in held'[v]}]
    BY ViewOfNext
  <2> QED
    BY <2>1, <2>2 DEF EarlierHeld
<1>5. EarlierRows' = EarlierRows
  BY <1>2, ViewOfNext DEF EarlierRows
<1>6. (clock - DayLength)' = clock - DayLength
  BY <1>2
<1> QED
  BY <1>2, <1>3, <1>4, <1>5, <1>6 DEF View!Crash
-----------------------------------------------------------------------------
\* The invariant of the table holds on a clock without a bound too.
LEMMA EndlessIInv == EndlessSpec => []IInv
<1>1. Init => IInv
  BY InitIInv
<1>2. IInv /\ [EndlessNext]_vars => IInv'
  <2> SUFFICES ASSUME IInv, [EndlessNext]_vars PROVE IInv'
    OBVIOUS
  <2>1. CASE [DrainStep]_vars
    <3>1. [Next]_vars
      BY <2>1 DEF DrainStep, Next
    <3> QED
      BY <3>1, TypeStep, ClaimPartsStep DEF IInv, ClaimParts
  <2>2. ASSUME clock' = clock + 1,
               UNCHANGED <<value, rows, held, changes, crashes>>
        PROVE  IInv'
    <3>1. clock \in Nat /\ Lease \in Nat
      BY BoundsAssumption DEF IInv, TypeOK
    <3>2. TypeOK'
      BY <2>2, <3>1 DEF IInv, TypeOK
    <3>3. \A w \in Workers : \A h \in held[w] : h.since \in Nat
      BY DEF IInv, TypeOK, HeldItem
    <3>4. \A e \in EventIds : rows[e].lockedAt \in Nat
      BY DEF IInv, TypeOK, Row
    <3>5. ClaimsLocked'
      BY <2>2, <3>1, <3>3 DEF IInv, ClaimsLocked, Live, Owns
    <3>6. ClaimsDistinct'
      BY <2>2, <3>1, <3>4 DEF IInv, ClaimsDistinct
    <3>7. AttemptsBounded'
      BY <2>2 DEF IInv, AttemptsBounded
    <3> QED
      BY <3>2, <3>5, <3>6, <3>7 DEF IInv
  <2> QED
    BY <2>1, <2>2 DEF EndlessNext
<1> QED
  BY <1>1, <1>2, PTL DEF EndlessSpec

\* Rebase leads to the view, and changes the status of no event.
LEMMA RebaseIsView ==
  ASSUME IInv, Rebase, NEW e \in EventIds
  PROVE  /\ clock' = clock - DayLength
         /\ rows' = EarlierRows /\ held' = EarlierHeld
         /\ rows'[e].status = rows[e].status
BY ViewShapes, EarlierRowTyped DEF Rebase

\* The view satisfies the invariant, so that a day may be taken off again.
LEMMA ViewIInv ==
  ASSUME IInv, clock >= MaxTime
  PROVE  View!IInv
<1>1. /\ clock \in Nat /\ DayLength \in Nat /\ Lease \in Nat
      /\ clock > DayLength + Lease /\ clock >= 2 * DayLength
  BY ViewShapes, DaysAhead
<1>2. \A w \in Workers : \A g \in EarlierHeld[w] : \E h \in held[w] :
        /\ h \in HeldItem /\ g = EarlierItem(h)
        /\ g \in HeldItem /\ g.event = h.event /\ g.since = Earlier(h.since)
  <2> SUFFICES ASSUME NEW w \in Workers, NEW h \in held[w]
               PROVE  LET g == EarlierItem(h)
                      IN  /\ h \in HeldItem /\ g \in HeldItem
                          /\ g.event = h.event /\ g.since = Earlier(h.since)
    BY DEF EarlierHeld
  <2>1. h \in HeldItem
    BY ViewShapes
  <2>2. Earlier(h.since) \in Nat
    BY <2>1, EarlierTyped DEF HeldItem
  <2> QED
    BY <2>1, <2>2 DEF HeldItem, EarlierItem
<1>3. View!TypeOK
  <2>1. View!Row = Row /\ View!HeldItem = HeldItem
    BY ViewIds DEF View!Row, Row, View!HeldItem, HeldItem, View!Statuses,
                   Statuses, View!AnyValue, AnyValue
  <2>2. EarlierHeld \in [Workers -> SUBSET HeldItem]
    BY <1>2 DEF EarlierHeld
  <2> QED
    BY <1>1, <2>1, <2>2, ViewIds, ViewShapes DEF View!TypeOK, IInv, TypeOK
<1>4. View!ClaimsLocked
  <2> SUFFICES ASSUME NEW w \in Workers, NEW g \in EarlierHeld[w]
               PROVE  /\ g.since <= clock - DayLength
                      /\ \/ /\ EarlierRows[g.event].status = "processing"
                            /\ EarlierRows[g.event].lockedBy = w
                            /\ EarlierRows[g.event].lockedAt = g.since
                         \/ ~View!Live(g)
                      /\ View!Owns(g.event, w)
                           => EarlierRows[g.event].lockedAt = g.since
    BY DEF View!ClaimsLocked
  <2>1. PICK h \in held[w] : /\ h \in HeldItem
                             /\ g.event = h.event /\ g.since = Earlier(h.since)
    BY <1>2
  <2>2. h.event \in EventIds /\ h.since \in Nat
    BY <2>1 DEF HeldItem
  <2>3. /\ h.since <= clock
        /\ \/ /\ rows[h.event].status = "processing"
              /\ rows[h.event].lockedBy = w
              /\ rows[h.event].lockedAt = h.since
           \/ ~Live(h)
        /\ Owns(h.event, w) => rows[h.event].lockedAt = h.since
    BY DEF IInv, ClaimsLocked
  <2>4. /\ EarlierRows[g.event].status = rows[h.event].status
        /\ EarlierRows[g.event].lockedBy = rows[h.event].lockedBy
        /\ EarlierRows[g.event].lockedAt = Earlier(rows[h.event].lockedAt)
    BY <2>1, <2>2, ViewShapes, EarlierRowTyped
  <2>5. g.since <= clock - DayLength
    BY <1>1, <2>1, <2>2, <2>3, EarlierTyped
  <2>6. ~Live(h) => ~View!Live(g)
    BY <1>1, <2>1, <2>2, EarlierTyped DEF Live, View!Live
  <2> QED
    BY <2>1, <2>2, <2>3, <2>4, <2>5, <2>6, ViewOwns
<1>5. View!ClaimsDistinct
  <2>1. ASSUME NEW w \in Workers, NEW f \in EarlierHeld[w],
               NEW g \in EarlierHeld[w], f.event = g.event
        PROVE  f = g
    <3>1. PICK h \in held[w] : f = EarlierItem(h) /\ f.event = h.event
      BY <1>2
    <3>2. PICK k \in held[w] : g = EarlierItem(k) /\ g.event = k.event
      BY <1>2
    <3> QED
      BY <2>1, <3>1, <3>2 DEF IInv, ClaimsDistinct
  <2>2. ASSUME NEW e \in EventIds, EarlierRows[e].status = "processing"
        PROVE  /\ EarlierRows[e].lockedBy \in Workers
               /\ EarlierRows[e].lockedAt <= clock - DayLength
    <3>1. rows[e] \in Row /\ EarlierRows[e] = EarlierRow(rows[e])
      BY ViewShapes
    <3>2. /\ EarlierRows[e].status = rows[e].status
          /\ EarlierRows[e].lockedBy = rows[e].lockedBy
          /\ EarlierRows[e].lockedAt = Earlier(rows[e].lockedAt)
      BY <3>1, EarlierRowTyped
    <3>3. rows[e].lockedBy \in Workers /\ rows[e].lockedAt <= clock
      BY <2>2, <3>2 DEF IInv, ClaimsDistinct
    <3>4. rows[e].lockedAt \in Nat
      BY <3>1 DEF Row
    <3> QED
      BY <1>1, <3>2, <3>3, <3>4, EarlierTyped
  <2> QED
    BY <2>1, <2>2, ViewIds DEF View!ClaimsDistinct
<1>6. View!AttemptsBounded
  BY ViewIds, ViewShapes, EarlierRowTyped
  DEF View!AttemptsBounded, IInv, AttemptsBounded
<1> QED
  BY <1>3, <1>4, <1>5, <1>6 DEF View!IInv

\* platform_drain: whatever the senders do on a clock that never stops, a table
\* whose clock has reached MaxTime does with all its times a day smaller: the
\* same step, of the view that Rebase leaves.  So nothing that could happen to
\* an event is lost by keeping the clock below MaxTime.
THEOREM RebaseLosesNothing ==
  EndlessSpec => /\ [](clock >= MaxTime => View!IInv)
                 /\ [][clock >= MaxTime => View!EndlessNext]_vars
<1>0. IInv => (clock >= MaxTime => View!IInv)
  BY ViewIInv
<1>1. ASSUME IInv, clock >= MaxTime, EndlessNext
      PROVE  View!EndlessNext
  <2>1. ASSUME InLease, clock' = clock + 1,
               UNCHANGED <<value, rows, held, changes, crashes>>
        PROVE  View!EndlessNext
    BY <1>1, <2>1, ViewTick
  <2>2. ASSUME NEW a \in Aggregates, NEW x \in Values, Change(a, x)
        PROVE  View!EndlessNext
    <3>1. View!Change(a, x)
      BY <1>1, <2>2, ViewChange
    <3> QED
      BY <3>1 DEF View!EndlessNext, View!DrainStep
  <2>3. ASSUME NEW w \in Workers, Claim(w)
        PROVE  View!EndlessNext
    <3>1. View!Claim(w)
      BY <1>1, <2>3, ViewClaim
    <3> QED
      BY <3>1 DEF View!EndlessNext, View!DrainStep
  <2>4. ASSUME NEW w \in Workers, NEW h \in held[w],
               Acknowledge(w, h) \/ Fail(w, h)
        PROVE  View!EndlessNext
    <3>1. \/ View!Acknowledge(w, EarlierItem(h))
          \/ View!Fail(w, EarlierItem(h))
      BY <1>1, <2>4, ViewAcknowledge, ViewFail
    <3>2. EarlierItem(h) \in EarlierHeld[w]
      BY <1>1, ViewAnswered
    <3> QED
      BY <3>1, <3>2 DEF View!EndlessNext, View!DrainStep, View!Answer
  <2>5. ASSUME NEW w \in Workers, Crash(w)
        PROVE  View!EndlessNext
    <3>1. View!Crash(w)
      BY <1>1, <2>5, ViewCrash
    <3> QED
      BY <3>1 DEF View!EndlessNext, View!DrainStep
  <2> QED
    BY <1>1, <2>1, <2>2, <2>3, <2>4, <2>5
    DEF EndlessNext, DrainStep, Answer
<1>2. IInv /\ [EndlessNext]_vars
        => [clock >= MaxTime => View!EndlessNext]_vars
  BY <1>1
<1> QED
  BY <1>0, <1>2, EndlessIInv, PTL DEF EndlessSpec

\* Rebase leads to a state of the invariant, because its view is one.
LEMMA RebaseIInv ==
  ASSUME IInv, Rebase
  PROVE  IInv'
<1>1. /\ clock' = clock - DayLength /\ rows' = EarlierRows /\ held' = EarlierHeld
      /\ UNCHANGED <<value, changes, crashes>> /\ clock >= MaxTime
  BY BoundsAssumption DEF Rebase
<1>2. View!IInv
  BY <1>1, ViewIInv
<1>3. View!Row = Row /\ View!HeldItem = HeldItem /\ EventIds' = EventIds
      /\ Row' = Row /\ HeldItem' = HeldItem
  BY ViewIds DEF View!Row, Row, View!HeldItem, HeldItem, View!Statuses,
                 Statuses, View!AnyValue, AnyValue
<1>4. TypeOK'
  BY <1>1, <1>2, <1>3, ViewIds DEF View!IInv, View!TypeOK, TypeOK
<1>5. ClaimsLocked'
  BY <1>1, <1>2 DEF View!IInv, View!ClaimsLocked, ClaimsLocked, View!Live,
                    Live, View!Owns, Owns
<1>6. ClaimsDistinct'
  BY <1>1, <1>2, ViewIds
  DEF View!IInv, View!ClaimsDistinct, ClaimsDistinct
<1>7. AttemptsBounded'
  BY <1>1, <1>2, ViewIds
  DEF View!IInv, View!AttemptsBounded, AttemptsBounded
<1> QED
  BY <1>4, <1>5, <1>6, <1>7 DEF IInv

\* platform_drain: the table satisfies its invariant in every state of the
\* drain, however many days were taken off: the run looks at tables and hands
\* that agree as they do on a clock without bound.
THEOREM DrainInvariance == DrainSpec => []IInv
<1>1. Init => IInv
  BY InitIInv
<1>2. IInv /\ [DrainNext]_vars => IInv'
  <2> SUFFICES ASSUME IInv, [DrainNext]_vars PROVE IInv'
    OBVIOUS
  <2>1. CASE Rebase
    BY <2>1, RebaseIInv
  <2>2. CASE [TickInLease \/ DrainStep]_vars
    <3>1. [Next]_vars
      BY <2>2 DEF TickInLease, DrainStep, Next
    <3> QED
      BY <3>1, TypeStep, ClaimPartsStep DEF IInv, ClaimParts
  <2> QED
    BY <2>1, <2>2 DEF DrainNext
<1> QED
  BY <1>1, <1>2, PTL DEF DrainSpec
=============================================================================
