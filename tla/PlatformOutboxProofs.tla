------------------------ MODULE PlatformOutboxProofs ------------------------
(***************************************************************************)
(* Proofs about PlatformOutbox, for any records, workers, limits, lease    *)
(* and day.  The inductive invariant is IInv of PlatformOutbox: a worker   *)
(* holds an item only while the table names it as the owner of exactly     *)
(* that claim, or after the lease of the claim is over.                    *)
(***************************************************************************)
EXTENDS PlatformOutbox, TLAPS

\* Every mutation passes an event id of the table.
LEMMA EventIdTyped ==
  ASSUME NEW a \in Aggregates, NEW v \in Values
  PROVE  EventId(a, v) \in EventIds
BY DEF EventIds

LEMMA NoRowTyped == NoRow \in Row
BY AttemptsAssumption DEF NoRow, Row, Statuses

\* The updates of a row keep its shape.
LEMMA InsertedTyped ==
  ASSUME NEW o \in Nat, NEW v \in Values, clock \in Nat
  PROVE  /\ Inserted(o, v) \in Row
         /\ Inserted(o, v).status = "pending"
         /\ Inserted(o, v).attempts = 0
<1> DEFINE r1 == [NoRow EXCEPT !.status = "pending", !.order = o]
           r  == [r1 EXCEPT !.payload = v, !.due = clock]
<1>1. r1 \in Row /\ r1.status = "pending" /\ r1.attempts = 0
  <2>1. NoRow \in Row /\ NoRow.attempts = 0
    BY NoRowTyped DEF NoRow
  <2> QED
    BY <2>1 DEF Row, Statuses
<1>2. Inserted(o, v) = r
  BY Zenon DEF Inserted
<1> HIDE DEF r1
<1>3. r \in Row /\ r.status = "pending" /\ r.attempts = 0
  BY <1>1 DEF Row
<1> QED
  BY <1>2, <1>3

LEMMA LockedTyped ==
  ASSUME NEW row \in Row, NEW w \in Workers, clock \in Nat
  PROVE  /\ LockedFor(row, w) \in Row
         /\ LockedFor(row, w).status = "processing"
         /\ LockedFor(row, w).lockedBy = w
         /\ LockedFor(row, w).lockedAt = clock
         /\ LockedFor(row, w).attempts = row.attempts
BY DEF LockedFor, Row, Statuses

LEMMA ReleasedTyped ==
  ASSUME NEW row \in Row, NEW s \in Statuses, NEW n \in 0..MaxAttempts,
         NEW t \in Nat, NEW iso \in BOOLEAN
  PROVE  /\ Released(row, s, n, t, iso) \in Row
         /\ Released(row, s, n, t, iso).status = s
         /\ Released(row, s, n, t, iso).attempts = n
<1> DEFINE r1 == [row EXCEPT !.status = s, !.attempts = n, !.due = t]
           r  == [r1 EXCEPT !.dueIso = iso, !.lockedAt = 0, !.lockedBy = Nobody]
<1>1. r1 \in Row /\ r1.status = s /\ r1.attempts = n
  BY DEF Row
<1>2. Released(row, s, n, t, iso) = r
  BY Zenon DEF Released
<1> HIDE DEF r1
<1>3. r \in Row /\ r.status = s /\ r.attempts = n
  BY <1>1 DEF Row
<1> QED
  BY <1>2, <1>3

LEMMA HeldTyped ==
  ASSUME NEW S \in SUBSET EventIds, NEW t \in Nat
  PROVE  {[event |-> e, since |-> t] : e \in S} \in SUBSET HeldItem
BY DEF HeldItem

\* Recovery keeps the shape of a row and whatever is not over its lease.
LEMMA RecoverTyped ==
  ASSUME NEW row \in Row, clock \in Nat
  PROVE  /\ Recover(row) \in Row
         /\ Recover(row).attempts = row.attempts
         /\ ~Stale(row) => Recover(row) = row
         /\ Stale(row) => /\ Recover(row).status = "failed"
                          /\ row.status = "processing"
                          /\ row.lockedAt < clock - Lease
<1>1. row.attempts \in 0..MaxAttempts /\ "failed" \in Statuses
  BY DEF Row, Statuses
<1>2. /\ Released(row, "failed", row.attempts, clock, FALSE) \in Row
      /\ Released(row, "failed", row.attempts, clock, FALSE).status = "failed"
      /\ Released(row, "failed", row.attempts, clock, FALSE).attempts
           = row.attempts
  BY <1>1, ReleasedTyped
<1> QED
  BY <1>2 DEF Recover, Stale

\* What claim_pending takes was claimable.
LEMMA FirstOfSubset ==
  ASSUME NEW due, NEW rs
  PROVE  FirstOf(due, rs) \subseteq due
BY DEF FirstOf

\* A failed attempt leaves a well-formed row with one attempt more.
LEMMA FailedTyped ==
  ASSUME IInv, NEW e \in EventIds, NEW w \in Workers, Owns(e, w)
  PROVE  LET n == rows[e].attempts + 1
             s == IF n >= MaxAttempts THEN "dead_letter" ELSE "failed"
             row == Released(rows[e], s, n, clock + Backoff(n), TRUE)
         IN  /\ row \in Row
             /\ row.status = s
             /\ row.attempts = n
             /\ n \in 1..MaxAttempts
<1> DEFINE n == rows[e].attempts + 1
           s == IF n >= MaxAttempts THEN "dead_letter" ELSE "failed"
<1>1. rows[e] \in Row /\ clock \in Nat
  BY DEF IInv, TypeOK
<1>2. n \in 1..MaxAttempts
  BY <1>1, AttemptsAssumption DEF IInv, AttemptsBounded, Owns, Row
<1> DEFINE t   == clock + Backoff(n)
           iso == TRUE
<1>3. t \in Nat
  BY <1>1, <1>2, BackoffAssumption
<1>4. s \in Statuses /\ n \in 0..MaxAttempts
  BY <1>2 DEF Statuses
<1>5. iso \in BOOLEAN
  OBVIOUS
<1> HIDE DEF n, s, t, iso
<1>6. /\ Released(rows[e], s, n, t, iso) \in Row
      /\ Released(rows[e], s, n, t, iso).status = s
      /\ Released(rows[e], s, n, t, iso).attempts = n
  BY <1>1, <1>3, <1>4, <1>5, ReleasedTyped
<1> QED
  BY <1>2, <1>6 DEF n, s, t, iso

LEMMA InitIInv == Init => IInv
<1> SUFFICES ASSUME Init PROVE IInv
  OBVIOUS
<1>1. TypeOK
  BY NoRowTyped, BoundsAssumption DEF Init, TypeOK
<1>2. ClaimsLocked /\ ClaimsDistinct /\ AttemptsBounded
  BY DEF Init, ClaimsLocked, ClaimsDistinct, AttemptsBounded, NoRow
<1> QED
  BY <1>1, <1>2 DEF IInv

LEMMA TypeStep == IInv /\ [Next]_vars => TypeOK'
<1> SUFFICES ASSUME IInv, [Next]_vars PROVE TypeOK'
  OBVIOUS
<1> USE BoundsAssumption, AttemptsAssumption DEF IInv, TypeOK
<1>1. CASE Tick
  BY <1>1 DEF Tick
<1>2. ASSUME NEW a \in Aggregates, NEW v \in Values, Change(a, v)
      PROVE  TypeOK'
  <2>1. changes + 1 \in Nat /\ Inserted(changes + 1, v) \in Row
    BY InsertedTyped
  <2>2. rows' \in [EventIds -> Row]
    BY <1>2, <2>1 DEF Change
  <2> QED
    BY <1>2, <2>2 DEF Change
<1>3. ASSUME NEW w \in Workers, Claim(w)
      PROVE  TypeOK'
  <2> DEFINE fresh == [e \in EventIds |-> Recover(rows[e])]
             taken == FirstOf({e \in EventIds : Claimable(fresh[e])}, fresh)
  <2>1. fresh \in [EventIds -> Row]
    BY RecoverTyped
  <2>2. taken \subseteq EventIds
    BY FirstOfSubset
  <2>3. \A e \in EventIds : LockedFor(fresh[e], w) \in Row
    BY <2>1, LockedTyped
  <2>4. /\ rows' = [e \in EventIds |->
                      IF e \in taken THEN LockedFor(fresh[e], w) ELSE fresh[e]]
        /\ held' = [held EXCEPT ![w] =
                      {[event |-> e, since |-> clock] : e \in taken}]
    BY <1>3 DEF Claim
  <2>5. {[event |-> e, since |-> clock] : e \in taken} \in SUBSET HeldItem
    BY <2>2, HeldTyped
  <2> HIDE DEF fresh, taken
  <2>6. rows' \in [EventIds -> Row]
    BY <2>1, <2>3, <2>4
  <2>7. held' \in [Workers -> SUBSET HeldItem]
    BY <2>4, <2>5
  <2> QED
    BY <1>3, <2>6, <2>7 DEF Claim
<1>4. ASSUME NEW w \in Workers, NEW h \in held[w], Acknowledge(w, h)
      PROVE  TypeOK'
  <2>1. rows[h.event] \in Row /\ h.event \in EventIds
    BY DEF HeldItem
  <2>2. [rows[h.event] EXCEPT !.status = "sent", !.sentAt = clock] \in Row
    BY <2>1 DEF Row, Statuses
  <2>3. rows' = IF Owns(h.event, w)
                THEN [rows EXCEPT ![h.event] =
                        [rows[h.event] EXCEPT !.status = "sent", !.sentAt = clock]]
                ELSE rows
    BY <1>4 DEF Acknowledge
  <2>4. rows' \in [EventIds -> Row]
    BY <2>1, <2>2, <2>3
  <2>5. held' \in [Workers -> SUBSET HeldItem]
    BY <1>4 DEF Acknowledge
  <2> QED
    BY <1>4, <2>4, <2>5 DEF Acknowledge
<1>5. ASSUME NEW w \in Workers, NEW h \in held[w], Fail(w, h)
      PROVE  TypeOK'
  <2> DEFINE n == rows[h.event].attempts + 1
             s == IF n >= MaxAttempts THEN "dead_letter" ELSE "failed"
             row == Released(rows[h.event], s, n, clock + Backoff(n), TRUE)
  <2>1. rows[h.event] \in Row /\ h.event \in EventIds
    BY DEF HeldItem
  <2>2. ASSUME Owns(h.event, w)
        PROVE  row \in Row
    BY <2>1, <2>2, FailedTyped
  <2>3. rows' = IF Owns(h.event, w) THEN [rows EXCEPT ![h.event] = row]
                ELSE rows
    BY <1>5 DEF Fail
  <2> HIDE DEF row
  <2>4. rows' \in [EventIds -> Row]
    BY <2>1, <2>2, <2>3
  <2>5. held' \in [Workers -> SUBSET HeldItem]
    BY <1>5 DEF Fail
  <2> QED
    BY <1>5, <2>4, <2>5 DEF Fail
<1>6. ASSUME NEW w \in Workers, Crash(w)
      PROVE  TypeOK'
  BY <1>6 DEF Crash
<1>7. CASE RecoverStaleClaims
  BY <1>7, RecoverTyped DEF RecoverStaleClaims
<1>8. ASSUME NEW e \in EventIds, RequeueDeadLetter(e)
      PROVE  TypeOK'
  <2>1. Released(rows[e], "pending", 0, clock, FALSE) \in Row
    <3>1. "pending" \in Statuses /\ 0 \in 0..MaxAttempts
      BY DEF Statuses
    <3> QED
      BY <3>1, ReleasedTyped
  <2> QED
    BY <1>8, <2>1 DEF RequeueDeadLetter
<1>9. CASE PurgeSent
  BY <1>9, NoRowTyped DEF PurgeSent
<1>10. CASE UNCHANGED vars
  BY <1>10 DEF vars
<1> QED
  BY <1>1, <1>2, <1>3, <1>4, <1>5, <1>6, <1>7, <1>8, <1>9, <1>10
  DEF Next, Answer

\* The three other parts of the invariant, named together.
ClaimParts == ClaimsLocked /\ ClaimsDistinct /\ AttemptsBounded

\* A step that ends no claim, gives nothing out and keeps the attempts of the
\* rows it does not touch keeps the invariant: touched rows were not being
\* processed, or their lease is over, and are not being processed now.
LEMMA QuietStep ==
  ASSUME IInv, clock' = clock, held' \in [Workers -> SUBSET HeldItem],
         \A w \in Workers : held'[w] \subseteq held[w],
         \A e \in EventIds :
           \/ rows'[e] = rows[e]
           \/ /\ rows[e].status = "processing"
                   => rows[e].lockedAt < clock - Lease
              /\ rows'[e].status # "processing"
              /\ rows'[e].status \in {"pending", "failed"}
                   => rows'[e].attempts < MaxAttempts
              /\ rows'[e].status # "dead_letter"
  PROVE  ClaimParts'
<1>1. ClaimsLocked'
  <2> SUFFICES ASSUME NEW w \in Workers, NEW h \in held'[w]
               PROVE  /\ h.since <= clock'
                      /\ \/ /\ rows'[h.event].status = "processing"
                            /\ rows'[h.event].lockedBy = w
                            /\ rows'[h.event].lockedAt = h.since
                         \/ ~Live(h)'
                      /\ Owns(h.event, w)' => rows'[h.event].lockedAt = h.since
    BY DEF ClaimsLocked
  <2>1. h \in held[w] /\ h.event \in EventIds /\ h.since \in Nat
    BY DEF HeldItem
  <2>2. /\ h.since <= clock
        /\ \/ /\ rows[h.event].status = "processing"
              /\ rows[h.event].lockedBy = w
              /\ rows[h.event].lockedAt = h.since
           \/ ~Live(h)
        /\ Owns(h.event, w) => rows[h.event].lockedAt = h.since
    BY <2>1 DEF IInv, ClaimsLocked
  <2>3. clock \in Nat /\ Lease \in Nat
    BY BoundsAssumption DEF IInv, TypeOK
  <2> QED
    BY <2>1, <2>2, <2>3 DEF Live, Owns
<1>2. ClaimsDistinct'
  BY DEF ClaimsDistinct, IInv
<1>3. AttemptsBounded'
  BY DEF AttemptsBounded, IInv
<1> QED
  BY <1>1, <1>2, <1>3 DEF ClaimParts

\* An answer ends one claim of the worker; the row changes only if the claim
\* is still the worker's, and then nobody else holds it within a lease.
LEMMA AnswerStep ==
  ASSUME IInv, NEW w \in Workers, NEW h \in held[w],
         clock' = clock, held' = [held EXCEPT ![w] = @ \ {h}],
         NEW row, rows' = IF Owns(h.event, w)
                          THEN [rows EXCEPT ![h.event] = row] ELSE rows,
         Owns(h.event, w) =>
           /\ row.status \in {"sent", "failed", "dead_letter"}
           /\ row.status = "failed" => row.attempts < MaxAttempts
           /\ row.status = "dead_letter" => row.attempts = MaxAttempts
  PROVE  ClaimParts'
<1> USE DEF IInv, TypeOK
<1>1. h.event \in EventIds
  BY DEF HeldItem
<1>2. \A v \in Workers : held'[v] \subseteq held[v]
  OBVIOUS
<1>3. ClaimsLocked'
  <2> SUFFICES ASSUME NEW v \in Workers, NEW g \in held'[v]
               PROVE  /\ g.since <= clock'
                      /\ \/ /\ rows'[g.event].status = "processing"
                            /\ rows'[g.event].lockedBy = v
                            /\ rows'[g.event].lockedAt = g.since
                         \/ ~Live(g)'
                      /\ Owns(g.event, v)' => rows'[g.event].lockedAt = g.since
    BY DEF ClaimsLocked
  <2>1. g \in held[v] /\ g.event \in EventIds
    BY <1>2 DEF HeldItem
  <2>2. /\ g.since <= clock
        /\ \/ /\ rows[g.event].status = "processing"
              /\ rows[g.event].lockedBy = v
              /\ rows[g.event].lockedAt = g.since
           \/ ~Live(g)
        /\ Owns(g.event, v) => rows[g.event].lockedAt = g.since
    BY <2>1 DEF ClaimsLocked
  <2>3. CASE ~Owns(h.event, w) \/ g.event # h.event
    BY <2>1, <2>2, <2>3, <1>1 DEF Live, Owns
  <2>4. CASE Owns(h.event, w) /\ g.event = h.event
    <3>1. v = w => g # h
      OBVIOUS
    <3>2. v # w
      BY <3>1, <2>1, <2>4 DEF ClaimsDistinct
    <3>3. ~Live(g)
      BY <2>2, <2>4, <3>2 DEF Owns
    <3>4. rows'[h.event].status # "processing"
      BY <1>1, <2>4
    <3> QED
      BY <2>2, <2>4, <3>3, <3>4 DEF Live, Owns
  <2> QED
    BY <2>3, <2>4
<1>4. ClaimsDistinct'
  <2>1. \A v \in Workers : \A f, g \in held'[v] : f.event = g.event => f = g
    BY <1>2 DEF ClaimsDistinct
  <2>2. \A e \in EventIds :
          rows'[e].status = "processing" => rows'[e] = rows[e]
    BY <1>1
  <2> QED
    BY <2>1, <2>2 DEF ClaimsDistinct
<1>5. AttemptsBounded'
  BY <1>1 DEF AttemptsBounded
<1> QED
  BY <1>3, <1>4, <1>5 DEF ClaimParts

\* claim_pending gives out items that are in nobody's hands within a lease.
LEMMA ClaimStep ==
  ASSUME IInv, NEW w \in Workers, Claim(w)
  PROVE  ClaimParts'
<1> DEFINE fresh == [e \in EventIds |-> Recover(rows[e])]
           taken == FirstOf({e \in EventIds : Claimable(fresh[e])}, fresh)
<1>1. /\ clock \in Nat /\ Lease \in Nat
      /\ rows \in [EventIds -> Row]
      /\ held \in [Workers -> SUBSET HeldItem]
  BY BoundsAssumption DEF IInv, TypeOK
<1>2. /\ taken \subseteq EventIds
      /\ \A e \in taken : fresh[e].status \in {"pending", "failed"}
  BY FirstOfSubset DEF Claimable
<1>3. /\ clock' = clock
      /\ rows' = [e \in EventIds |->
                    IF e \in taken THEN LockedFor(fresh[e], w) ELSE fresh[e]]
      /\ held' = [held EXCEPT ![w] =
                    {[event |-> e, since |-> clock] : e \in taken}]
      /\ held[w] = {}
  BY DEF Claim
<1>4. \A e \in EventIds :
        /\ fresh[e] \in Row
        /\ fresh[e].attempts = rows[e].attempts
        /\ \/ fresh[e] = rows[e]
           \/ /\ fresh[e].status = "failed"
              /\ rows[e].status = "processing"
              /\ rows[e].lockedAt < clock - Lease
  BY <1>1, RecoverTyped
<1>5. \A e \in EventIds :
        /\ LockedFor(fresh[e], w).status = "processing"
        /\ LockedFor(fresh[e], w).lockedBy = w
        /\ LockedFor(fresh[e], w).lockedAt = clock
        /\ LockedFor(fresh[e], w).attempts = fresh[e].attempts
  BY <1>1, <1>4, LockedTyped
<1> HIDE DEF fresh, taken
<1>6. ClaimsLocked'
  <2> SUFFICES ASSUME NEW v \in Workers, NEW h \in held'[v]
               PROVE  /\ h.since <= clock'
                      /\ \/ /\ rows'[h.event].status = "processing"
                            /\ rows'[h.event].lockedBy = v
                            /\ rows'[h.event].lockedAt = h.since
                         \/ ~Live(h)'
                      /\ Owns(h.event, v)' => rows'[h.event].lockedAt = h.since
    BY DEF ClaimsLocked
  <2>1. CASE v = w
    <3>1. PICK e \in taken : h = [event |-> e, since |-> clock]
      BY <1>1, <1>3, <2>1
    <3> QED
      BY <1>1, <1>2, <1>3, <1>5, <2>1, <3>1 DEF Owns
  <2>2. CASE v # w
    <3>1. h \in held[v] /\ h.event \in EventIds /\ h.since \in Nat
      BY <1>1, <1>3, <2>2 DEF HeldItem
    <3>2. /\ h.since <= clock
          /\ \/ /\ rows[h.event].status = "processing"
                /\ rows[h.event].lockedBy = v
                /\ rows[h.event].lockedAt = h.since
             \/ ~Live(h)
          /\ Owns(h.event, v) => rows[h.event].lockedAt = h.since
      BY <3>1 DEF IInv, ClaimsLocked
    <3>3. Owns(h.event, v)' => rows'[h.event].lockedAt = h.since
      BY <1>3, <1>4, <1>5, <2>2, <3>1, <3>2 DEF Owns
    <3>5. CASE ~Live(h)
      BY <1>3, <3>2, <3>3, <3>5 DEF Live
    <3>4. CASE Live(h)
      <4>1. fresh[h.event] = rows[h.event]
        BY <1>1, <1>4, <3>1, <3>2, <3>4 DEF Live
      <4>2. h.event \notin taken
        BY <1>2, <3>2, <3>4, <4>1
      <4> QED
        BY <1>3, <3>1, <3>2, <3>3, <3>4, <4>1, <4>2
    <3> QED
      BY <3>4, <3>5
  <2> QED
    BY <2>1, <2>2
<1>7. ClaimsDistinct'
  <2>1. ASSUME NEW v \in Workers, NEW g \in held'[v], NEW h \in held'[v],
               g.event = h.event
        PROVE  g = h
    <3>1. CASE v = w
      <4>1. PICK d \in taken : g = [event |-> d, since |-> clock]
        BY <1>1, <1>3, <3>1
      <4>2. PICK e \in taken : h = [event |-> e, since |-> clock]
        BY <1>1, <1>3, <3>1
      <4> QED
        BY <2>1, <4>1, <4>2
    <3>2. CASE v # w
      BY <1>1, <1>3, <2>1, <3>2 DEF IInv, ClaimsDistinct
    <3> QED
      BY <3>1, <3>2
  <2>2. ASSUME NEW e \in EventIds, rows'[e].status = "processing"
        PROVE  rows'[e].lockedBy \in Workers /\ rows'[e].lockedAt <= clock'
    <3>1. CASE e \in taken
      BY <1>1, <1>3, <1>5, <3>1
    <3>2. CASE e \notin taken
      BY <1>3, <1>4, <2>2, <3>2 DEF IInv, ClaimsDistinct
    <3> QED
      BY <3>1, <3>2
  <2> QED
    BY <2>1, <2>2 DEF ClaimsDistinct
<1>8. AttemptsBounded'
  <2> SUFFICES ASSUME NEW e \in EventIds
               PROVE  /\ rows'[e].status = "dead_letter"
                           => rows'[e].attempts = MaxAttempts
                      /\ rows'[e].status \in {"pending", "processing", "failed"}
                           => rows'[e].attempts < MaxAttempts
    BY DEF AttemptsBounded
  <2>1. /\ rows[e].status = "dead_letter" => rows[e].attempts = MaxAttempts
        /\ rows[e].status \in {"pending", "processing", "failed"}
             => rows[e].attempts < MaxAttempts
    BY DEF IInv, AttemptsBounded
  <2>2. fresh[e].attempts = rows[e].attempts
    BY <1>4
  <2>3. CASE e \in taken
    <3>1. rows[e].attempts < MaxAttempts
      BY <1>2, <1>4, <2>1, <2>3
    <3> QED
      BY <1>3, <1>5, <2>2, <2>3, <3>1
  <2>4. CASE e \notin taken
    BY <1>3, <1>4, <2>1, <2>4
  <2> QED
    BY <2>3, <2>4
<1> QED
  BY <1>6, <1>7, <1>8 DEF ClaimParts

LEMMA ClaimPartsStep == IInv /\ [Next]_vars => ClaimParts'
<1> SUFFICES ASSUME IInv, [Next]_vars PROVE ClaimParts'
  OBVIOUS
<1>0. /\ clock \in Nat /\ Lease \in Nat
      /\ rows \in [EventIds -> Row]
      /\ held \in [Workers -> SUBSET HeldItem]
      /\ MaxAttempts \in Nat \ {0}
  BY BoundsAssumption, AttemptsAssumption DEF IInv, TypeOK
<1>1. CASE Tick
  <2>1. \A w \in Workers : \A h \in held[w] : h.since \in Nat
    BY <1>0 DEF HeldItem
  <2>2. clock' = clock + 1 /\ UNCHANGED <<rows, held>>
    BY <1>1 DEF Tick
  <2>3. \A e \in EventIds : rows[e].lockedAt \in Nat
    BY <1>0 DEF Row
  <2>4. ClaimsLocked'
    BY <1>0, <2>1, <2>2 DEF IInv, ClaimsLocked, Live, Owns
  <2>5. ClaimsDistinct'
    BY <1>0, <2>2, <2>3 DEF IInv, ClaimsDistinct
  <2>6. AttemptsBounded'
    BY <2>2 DEF IInv, AttemptsBounded
  <2> QED
    BY <2>4, <2>5, <2>6 DEF ClaimParts
<1>2. ASSUME NEW a \in Aggregates, NEW v \in Values, Change(a, v)
      PROVE  ClaimParts'
  <2>1. changes + 1 \in Nat
    BY DEF IInv, TypeOK
  <2>2. /\ Inserted(changes + 1, v).status = "pending"
        /\ Inserted(changes + 1, v).attempts = 0
    BY <1>0, <2>1, InsertedTyped
  <2>3. \A e \in EventIds :
          \/ rows'[e] = rows[e]
          \/ /\ rows[e].status = "absent"
             /\ rows'[e] = Inserted(changes + 1, v)
    BY <1>0, <1>2 DEF Change
  <2> QED
    BY <1>0, <1>2, <2>2, <2>3, QuietStep DEF Change
<1>3. ASSUME NEW w \in Workers, Claim(w)
      PROVE  ClaimParts'
  BY <1>3, ClaimStep
<1>4. ASSUME NEW w \in Workers, NEW h \in held[w], Acknowledge(w, h)
      PROVE  ClaimParts'
  <2> DEFINE row == [rows[h.event] EXCEPT !.status = "sent", !.sentAt = clock]
  <2>1. row.status = "sent"
    BY <1>0 DEF HeldItem, Row
  <2>2. /\ clock' = clock /\ held' = [held EXCEPT ![w] = @ \ {h}]
        /\ rows' = IF Owns(h.event, w)
                   THEN [rows EXCEPT ![h.event] = row] ELSE rows
    BY <1>4 DEF Acknowledge
  <2> HIDE DEF row
  <2> QED
    BY <2>1, <2>2, AnswerStep
<1>5. ASSUME NEW w \in Workers, NEW h \in held[w], Fail(w, h)
      PROVE  ClaimParts'
  <2> DEFINE n == rows[h.event].attempts + 1
             s == IF n >= MaxAttempts THEN "dead_letter" ELSE "failed"
             row == Released(rows[h.event], s, n, clock + Backoff(n), TRUE)
  <2>1. h.event \in EventIds
    BY <1>0 DEF HeldItem
  <2>2. Owns(h.event, w) => /\ row.status = s /\ row.attempts = n
                            /\ n \in 1..MaxAttempts
    BY <2>1, FailedTyped
  <2>3. /\ clock' = clock /\ held' = [held EXCEPT ![w] = @ \ {h}]
        /\ rows' = IF Owns(h.event, w)
                   THEN [rows EXCEPT ![h.event] = row] ELSE rows
    BY <1>5 DEF Fail
  <2> HIDE DEF row, n
  <2>4. Owns(h.event, w) =>
          /\ row.status \in {"sent", "failed", "dead_letter"}
          /\ row.status = "failed" => row.attempts < MaxAttempts
          /\ row.status = "dead_letter" => row.attempts = MaxAttempts
    BY <1>0, <2>2
  <2> QED
    BY <2>3, <2>4, AnswerStep
<1>6. ASSUME NEW w \in Workers, Crash(w)
      PROVE  ClaimParts'
  BY <1>0, <1>6, QuietStep DEF Crash
<1>7. CASE RecoverStaleClaims
  <2>1. \A e \in EventIds :
          \/ rows'[e] = rows[e]
          \/ /\ rows[e].status = "processing"
             /\ rows[e].lockedAt < clock - Lease
             /\ rows'[e].status = "failed"
             /\ rows'[e].attempts = rows[e].attempts
    BY <1>0, <1>7, RecoverTyped DEF RecoverStaleClaims
  <2>2. \A e \in EventIds : rows[e].status = "processing"
                              => rows[e].attempts < MaxAttempts
    BY DEF IInv, AttemptsBounded
  <2> QED
    BY <1>0, <1>7, <2>1, <2>2, QuietStep DEF RecoverStaleClaims
<1>8. ASSUME NEW e \in EventIds, RequeueDeadLetter(e)
      PROVE  ClaimParts'
  <2> DEFINE iso == FALSE
             row == Released(rows[e], "pending", 0, clock, iso)
  <2>1. "pending" \in Statuses /\ 0 \in 0..MaxAttempts /\ iso \in BOOLEAN
    BY <1>0 DEF Statuses
  <2>2. /\ rows[e].status = "dead_letter"
        /\ rows' = [rows EXCEPT ![e] = row]
        /\ UNCHANGED <<clock, held>>
    BY <1>8 DEF RequeueDeadLetter
  <2> HIDE DEF iso
  <2>3. row.status = "pending" /\ row.attempts = 0
    BY <1>0, <2>1, ReleasedTyped
  <2> HIDE DEF row
  <2>4. \A f \in EventIds :
          \/ rows'[f] = rows[f]
          \/ /\ rows[f].status = "dead_letter"
             /\ rows'[f].status = "pending"
             /\ rows'[f].attempts = 0
    BY <1>0, <2>2, <2>3
  <2> QED
    BY <1>0, <2>2, <2>4, QuietStep
<1>9. CASE PurgeSent
  <2>1. NoRow.status = "absent"
    BY DEF NoRow
  <2> QED
    BY <1>0, <1>9, <2>1, QuietStep DEF PurgeSent, Expired
<1>10. CASE UNCHANGED vars
  BY <1>0, <1>10, QuietStep DEF vars
<1> QED
  BY <1>1, <1>2, <1>3, <1>4, <1>5, <1>6, <1>7, <1>8, <1>9, <1>10
  DEF Next, Answer

\* IInv holds in every state: the table and the workers' hands agree.
THEOREM Invariance == Spec => []IInv
<1>1. Init => IInv
  BY InitIInv
<1>2. IInv /\ [Next]_vars => IInv'
  BY TypeStep, ClaimPartsStep DEF IInv, ClaimParts
<1> QED
  BY <1>1, <1>2, PTL DEF Spec

\* The table, the clock and the workers keep their shape, for any constants.
THEOREM TypeCorrect == Spec => []TypeOK
<1>1. IInv => TypeOK
  BY DEF IInv
<1> QED
  BY <1>1, Invariance, PTL

\* claim_pending: while leases run, no two workers hold the same item.
THEOREM OneLiveClaimHolds == Spec => []OneLiveClaim
<1>1. IInv => OneLiveClaim
  BY DEF IInv, ClaimsLocked, OneLiveClaim
<1> QED
  BY <1>1, Invariance, PTL

\* acknowledge and fail: only the end of the lease or the answer of the worker
\* that holds this very claim ends a claim.
THEOREM SettledByOwnerHolds == Spec => SettledByOwner
<1> DEFINE Ends(e) == /\ rows[e].status = "processing"
                      /\ \/ rows'[e].status # "processing"
                         \/ rows'[e].lockedBy # rows[e].lockedBy
                         \/ rows'[e].lockedAt # rows[e].lockedAt
           Settled(e) == \/ rows[e].lockedAt < clock - Lease
                         \/ \E w \in Workers : \E h \in held[w] \ held'[w] :
                              /\ w = rows[e].lockedBy
                              /\ h.event = e /\ h.since = rows[e].lockedAt
<1>1. ASSUME IInv, [Next]_vars, NEW e \in EventIds, Ends(e)
      PROVE  Settled(e)
  <2>0. /\ clock \in Nat /\ rows \in [EventIds -> Row]
        /\ held \in [Workers -> SUBSET HeldItem]
    BY <1>1 DEF IInv, TypeOK
  <2>1. CASE rows' = rows
    BY <1>1, <2>1
  <2>2. ASSUME NEW a \in Aggregates, NEW v \in Values, Change(a, v)
        PROVE  Settled(e)
    BY <1>1, <2>0, <2>2 DEF Change
  <2>3. ASSUME NEW w \in Workers, Claim(w)
        PROVE  Settled(e)
    <3> DEFINE fresh == [f \in EventIds |-> Recover(rows[f])]
               taken == FirstOf({f \in EventIds : Claimable(fresh[f])}, fresh)
    <3>1. \/ fresh[e] = rows[e]
          \/ rows[e].lockedAt < clock - Lease
      BY <2>0, RecoverTyped
    <3>2. e \in taken => fresh[e].status # "processing"
      BY FirstOfSubset DEF Claimable
    <3>3. rows'[e] = IF e \in taken THEN LockedFor(fresh[e], w) ELSE fresh[e]
      BY <2>3 DEF Claim
    <3> HIDE DEF fresh, taken
    <3> QED
      BY <1>1, <3>1, <3>2, <3>3
  <2>4. ASSUME NEW w \in Workers, NEW h \in held[w],
               Acknowledge(w, h) \/ Fail(w, h)
        PROVE  Settled(e)
    <3>1. /\ held' = [held EXCEPT ![w] = @ \ {h}]
          /\ rows' # rows => Owns(h.event, w)
          /\ rows' # rows => \A f \in EventIds \ {h.event} : rows'[f] = rows[f]
      BY <2>0, <2>4 DEF Acknowledge, Fail
    <3>2. Owns(h.event, w) => rows[h.event].lockedAt = h.since
      BY <1>1 DEF IInv, ClaimsLocked
    <3>3. h.event = e /\ Owns(e, w)
      BY <1>1, <2>0, <3>1 DEF HeldItem
    <3>4. h \in held[w] \ held'[w]
      BY <2>0, <3>1
    <3> QED
      BY <3>2, <3>3, <3>4 DEF Owns
  <2>5. CASE RecoverStaleClaims
    BY <1>1, <2>0, <2>5, RecoverTyped DEF RecoverStaleClaims
  <2>6. ASSUME NEW f \in EventIds, RequeueDeadLetter(f)
        PROVE  Settled(e)
    BY <1>1, <2>0, <2>6 DEF RequeueDeadLetter
  <2>7. CASE PurgeSent
    BY <1>1, <2>7 DEF PurgeSent, Expired
  <2> QED
    BY <1>1, <2>1, <2>2, <2>3, <2>4, <2>5, <2>6, <2>7
    DEF Next, Answer, Tick, Crash, vars
<1>2. IInv /\ [Next]_vars =>
        [\A e \in EventIds : Ends(e) => Settled(e)]_vars
  BY <1>1
<1> QED
  BY <1>2, Invariance, PTL DEF Spec, SettledByOwner

\* A later day is a later time.
LEMMA DivMonotone ==
  ASSUME NEW a \in Nat, NEW b \in Nat, NEW n \in Nat, n > 0,
         a \div n < b \div n
  PROVE  a <= b
OBVIOUS

\* What is due has its time behind it, in either format.
LEMMA DueIsOver ==
  ASSUME NEW row \in Row, clock \in Nat, Due(row)
  PROVE  row.due <= clock
<1>1. row.due \in Nat /\ DayLength \in Nat /\ DayLength > 0
  BY DayAssumption DEF Row
<1> DEFINE d == row.due
<1>2. d \in Nat /\ d = row.due
  BY <1>1
<1> HIDE DEF d
<1>3. d \div DayLength < clock \div DayLength => d <= clock
  BY <1>1, <1>2, DivMonotone
<1> QED BY <1>2, <1>3 DEF Due, Day

\* fail and claim_pending: a failed item is not taken again before its backoff
\* is over, although its time is compared as text with another format.
THEOREM NeverEarlyHolds == Spec => NeverEarly
<1> DEFINE Retried(e) == rows[e].status = "failed" /\ rows'[e].status = "processing"
<1>1. ASSUME TypeOK, [Next]_vars, NEW e \in EventIds, Retried(e)
      PROVE  rows[e].due <= clock
  <2>0. clock \in Nat /\ rows \in [EventIds -> Row] /\ rows[e] \in Row
    BY <1>1 DEF TypeOK
  <2>1. Recover(rows[e]) = rows[e]
    BY <1>1, <2>0, RecoverTyped DEF Stale
  <2>2. CASE UNCHANGED vars
    BY <1>1, <2>2 DEF vars
  <2>3. CASE Tick
    BY <1>1, <2>3 DEF Tick
  <2>4. ASSUME NEW a \in Aggregates, NEW v \in Values, Change(a, v)
        PROVE  FALSE
    <3> DEFINE f == EventId(a, v)
    <3>1. f \in EventIds
      BY EventIdTyped
    <3>2. rows' = IF rows[f].status = "absent"
                  THEN [rows EXCEPT ![f] = Inserted(changes + 1, v)]
                  ELSE rows
      BY <2>4 DEF Change
    <3> HIDE DEF f
    <3> QED BY <1>1, <2>0, <3>1, <3>2
  <2>5. ASSUME NEW w \in Workers, Claim(w)
        PROVE  rows[e].due <= clock
    <3> DEFINE fresh == [f \in EventIds |-> Recover(rows[f])]
               taken == FirstOf({f \in EventIds : Claimable(fresh[f])}, fresh)
    <3>1. rows'[e] = IF e \in taken THEN LockedFor(fresh[e], w) ELSE fresh[e]
      BY <2>5 DEF Claim
    <3>2. fresh[e] = rows[e]
      BY <2>1
    <3>3. e \in taken => Claimable(fresh[e])
      BY DEF FirstOf
    <3> HIDE DEF fresh, taken
    <3>4. Due(rows[e])
      BY <1>1, <3>1, <3>2, <3>3 DEF Claimable
    <3> QED BY <2>0, <3>4, DueIsOver
  <2>6. ASSUME NEW w \in Workers, NEW h \in held[w], Acknowledge(w, h)
        PROVE  FALSE
    BY <1>1, <2>0, <2>6 DEF Acknowledge
  <2>7. ASSUME NEW w \in Workers, NEW h \in held[w], Fail(w, h)
        PROVE  FALSE
    BY <1>1, <2>0, <2>7 DEF Fail, Owns
  <2>8. ASSUME NEW w \in Workers, Crash(w)
        PROVE  FALSE
    BY <1>1, <2>8 DEF Crash
  <2>9. CASE RecoverStaleClaims
    BY <1>1, <2>1, <2>9 DEF RecoverStaleClaims
  <2>10. ASSUME NEW f \in EventIds, RequeueDeadLetter(f)
         PROVE  FALSE
    BY <1>1, <2>0, <2>10 DEF RequeueDeadLetter
  <2>11. CASE PurgeSent
    BY <1>1, <2>0, <2>11 DEF PurgeSent, Expired
  <2> QED
    BY <1>1, <2>2, <2>3, <2>4, <2>5, <2>6, <2>7, <2>8, <2>9, <2>10, <2>11
       DEF Next, Answer
<1>2. TypeOK /\ [Next]_vars => [\A e \in EventIds : Retried(e) => rows[e].due <= clock]_vars
  BY <1>1
<1> QED
  BY <1>2, TypeCorrect, PTL DEF Spec, NeverEarly
-----------------------------------------------------------------------------
\* The life of one row.
LEMMA QueuedIs ==
  ASSUME NEW row
  PROVE  /\ row.status \in {"pending", "failed"} =>
              Queued(row) = Queue!Waiting(row.attempts, row.due)
         /\ row.status = "processing" =>
              Queued(row) = Queue!Leased(row.attempts, row.lockedBy, row.lockedAt)
         /\ row.status = "sent" => Queued(row) = Queue!Sent
         /\ row.status = "dead_letter" => Queued(row) = Queue!Dead
         /\ row.status = "absent" => Queued(row) = Queue!Unknown
BY DEF Queued, Queue!Waiting, Queue!Leased, Queue!Sent, Queue!Dead, Queue!Unknown

LEMMA InsertedWaits ==
  ASSUME NEW o \in Nat, NEW v \in Values, clock \in Nat
  PROVE  Queued(Inserted(o, v)) = Queue!Waiting(0, clock)
<1> DEFINE r1 == [NoRow EXCEPT !.status = "pending", !.order = o]
           r  == [r1 EXCEPT !.payload = v, !.due = clock]
<1>1. r1 \in Row
  BY NoRowTyped DEF Row, Statuses
<1>2. Inserted(o, v) = r
  BY Zenon DEF Inserted
<1> HIDE DEF r1
<1>3. r.due = clock
  BY <1>1 DEF Row
<1> QED
  BY <1>2, <1>3, InsertedTyped, QueuedIs

LEMMA ReleasedIs ==
  ASSUME NEW row \in Row, NEW s \in Statuses, NEW n \in 0..MaxAttempts,
         NEW t \in Nat, NEW iso \in BOOLEAN
  PROVE  /\ s \in {"pending", "failed"} =>
              Queued(Released(row, s, n, t, iso)) = Queue!Waiting(n, t)
         /\ s = "dead_letter" => Queued(Released(row, s, n, t, iso)) = Queue!Dead
<1> DEFINE r1 == [row EXCEPT !.status = s, !.attempts = n, !.due = t]
           r  == [r1 EXCEPT !.dueIso = iso, !.lockedAt = 0, !.lockedBy = Nobody]
<1>1. r1 \in Row /\ r1.due = t
  BY DEF Row
<1>2. Released(row, s, n, t, iso) = r
  BY Zenon DEF Released
<1> HIDE DEF r1
<1>3. r.due = t
  BY <1>1 DEF Row
<1>4. Released(row, s, n, t, iso).due = t
  BY <1>2, <1>3
<1> QED
  BY <1>4, ReleasedTyped, QueuedIs

\* Recovery is the end of a lease.
LEMMA RecoverExpires ==
  ASSUME NEW row \in Row, clock \in Nat
  PROVE  \/ Recover(row) = row /\ ~Stale(row)
         \/ /\ Queue!Over(Queued(row))
            /\ Queued(row).attempts = row.attempts
            /\ Queued(Recover(row)) = Queue!Waiting(row.attempts, clock)
<1>1. CASE ~Stale(row)
  BY <1>1 DEF Recover
<1>2. CASE Stale(row)
  <2>1. row.status = "processing" /\ row.lockedAt < clock - Lease
    BY <1>2 DEF Stale
  <2>2. Queued(row) = Queue!Leased(row.attempts, row.lockedBy, row.lockedAt)
    BY <2>1, QueuedIs
  <2>3. row.lockedAt \in Nat /\ Lease \in Nat
    BY BoundsAssumption DEF Row
  <2>4. Queue!Over(Queued(row)) /\ Queued(row).attempts = row.attempts
    BY <2>1, <2>2, <2>3 DEF Queue!Over, Queue!Leased
  <2>5. row.attempts \in 0..MaxAttempts /\ "failed" \in Statuses /\ FALSE \in BOOLEAN
    BY DEF Row, Statuses
  <2>6. Queued(Released(row, "failed", row.attempts, clock, FALSE))
          = Queue!Waiting(row.attempts, clock)
    BY <2>5, ReleasedIs
  <2> QED
    BY <1>2, <2>4, <2>6 DEF Recover
<1> QED
  BY <1>1, <1>2

\* A lease of what waits and is due, or of what was recovered in the same
\* transaction.
LEMMA ClaimTakes ==
  ASSUME NEW row \in Row, clock \in Nat, NEW w \in Workers, Claimable(Recover(row))
  PROVE  Queue!Take(Queued(row), Queued(LockedFor(Recover(row), w)))
<1>1. Recover(row) \in Row /\ Recover(row).attempts = row.attempts
  BY RecoverTyped
<1>2. Queued(LockedFor(Recover(row), w)) = Queue!Leased(row.attempts, w, clock)
  BY <1>1, LockedTyped, QueuedIs
<1>3. CASE Recover(row) = row
  <2>1. row.status \in {"pending", "failed"} /\ row.due <= clock
    BY <1>3, DueIsOver DEF Claimable
  <2>2. Queued(row) = Queue!Waiting(row.attempts, row.due)
    BY <2>1, QueuedIs
  <2> QED
    BY <1>2, <2>1, <2>2 DEF Queue!Take, Queue!Waiting
<1>4. CASE Queue!Over(Queued(row)) /\ Queued(row).attempts = row.attempts
  BY <1>2, <1>4 DEF Queue!Take
<1> QED
  BY <1>3, <1>4, RecoverExpires

\* One step of the table, for one event.
Lives(e) ==
  Queued(rows'[e]) = Queued(rows[e]) \/ Queue!Live(Queued(rows[e]), Queued(rows'[e]))

LEMMA ClaimLives ==
  ASSUME TypeOK, NEW w \in Workers, Claim(w), NEW e \in EventIds
  PROVE  Lives(e)
<1> DEFINE fresh == [f \in EventIds |-> Recover(rows[f])]
           taken == FirstOf({f \in EventIds : Claimable(fresh[f])}, fresh)
<1>1. rows'[e] = IF e \in taken THEN LockedFor(fresh[e], w) ELSE fresh[e]
  BY DEF Claim
<1>2. fresh[e] = Recover(rows[e]) /\ (e \in taken => Claimable(fresh[e]))
  BY DEF FirstOf
<1>3. rows[e] \in Row /\ clock \in Nat
  BY DEF TypeOK
<1> HIDE DEF fresh, taken
<1>4. CASE e \in taken
  <2>1. Queue!Take(Queued(rows[e]), Queued(rows'[e]))
    BY <1>1, <1>2, <1>3, <1>4, ClaimTakes
  <2> QED
    BY <2>1 DEF Lives, Queue!Live
<1>5. CASE e \notin taken
  BY <1>1, <1>2, <1>3, <1>5, RecoverExpires DEF Lives, Queue!Live, Queue!Expire
<1> QED
  BY <1>4, <1>5

LEMMA AcknowledgeLives ==
  ASSUME TypeOK, NEW w \in Workers, NEW h \in held[w], Acknowledge(w, h),
         NEW e \in EventIds
  PROVE  Lives(e)
<1>1. rows \in [EventIds -> Row] /\ h.event \in EventIds
  BY DEF TypeOK, HeldItem
<1>2. CASE Owns(h.event, w) /\ e = h.event
  <2>1. rows'[e].status = "sent"
    BY <1>1, <1>2 DEF Acknowledge, Row
  <2>2. Queued(rows[e]).state = "leased" /\ Queued(rows'[e]) = Queue!Sent
    BY <1>2, <2>1, QueuedIs DEF Owns, Queue!Leased
  <2> QED
    BY <2>2 DEF Lives, Queue!Live, Queue!Succeed
<1>3. CASE ~(Owns(h.event, w) /\ e = h.event)
  BY <1>1, <1>3 DEF Acknowledge, Lives
<1> QED
  BY <1>2, <1>3

LEMMA FailLives ==
  ASSUME IInv, NEW w \in Workers, NEW h \in held[w], Fail(w, h), NEW e \in EventIds
  PROVE  Lives(e)
<1> DEFINE n == rows[h.event].attempts + 1
           s == IF n >= MaxAttempts THEN "dead_letter" ELSE "failed"
           t == clock + Backoff(n)
           iso == TRUE
           row == Released(rows[h.event], s, n, t, iso)
<1>1. rows \in [EventIds -> Row] /\ h.event \in EventIds /\ clock \in Nat
  BY DEF IInv, TypeOK, HeldItem
<1>2. rows' = IF Owns(h.event, w) THEN [rows EXCEPT ![h.event] = row] ELSE rows
  BY DEF Fail
<1>3. CASE Owns(h.event, w) /\ e = h.event
  <2>1. n \in 1..MaxAttempts
    BY <1>1, <1>3, FailedTyped
  <2>2. Backoff(n) \in Nat
    BY <2>1, BackoffAssumption
  <2>3. s \in Statuses /\ iso \in BOOLEAN /\ n \in 0..MaxAttempts
    BY <2>1 DEF Statuses
  <2>4. t \in Nat /\ clock <= t
    BY <1>1, <2>2
  <2>5. \/ s = "dead_letter" /\ n = MaxAttempts
        \/ s = "failed" /\ n < MaxAttempts
    BY <2>1, AttemptsAssumption
  <2>6. n = rows[e].attempts + 1 /\ rows'[e] = row /\ rows[e].status = "processing"
    BY <1>1, <1>2, <1>3 DEF Owns
  <2>7. rows[h.event] \in Row
    BY <1>1
  <2> HIDE DEF n, s, t, iso
  <2>8. /\ s = "failed" => Queued(row) = Queue!Waiting(n, t)
        /\ s = "dead_letter" => Queued(row) = Queue!Dead
    BY <2>3, <2>4, <2>7, ReleasedIs
  <2>9. Queued(rows[e]).state = "leased" /\ Queued(rows[e]).attempts = rows[e].attempts
    BY <2>6, QueuedIs DEF Queue!Leased
  <2> HIDE DEF row
  <2>10. CASE s = "failed"
    <3>1. Queued(rows'[e]) = Queue!Waiting(n, t)
      BY <2>6, <2>8, <2>10
    <3>2. Queue!Waiting(n, t).state = "waiting" /\ Queue!Waiting(n, t).from = t
      BY DEF Queue!Waiting
    <3>3. Queue!Retry(Queued(rows[e]), Queued(rows'[e]))
      BY <2>4, <2>5, <2>6, <2>9, <2>10, <3>1, <3>2 DEF Queue!Retry
    <3> QED
      BY <3>3 DEF Lives, Queue!Live
  <2>11. CASE s = "dead_letter"
    BY <2>5, <2>6, <2>8, <2>9, <2>11 DEF Lives, Queue!Live, Queue!GiveUp
  <2> QED
    BY <2>5, <2>10, <2>11
<1>4. CASE ~(Owns(h.event, w) /\ e = h.event)
  BY <1>1, <1>2, <1>4 DEF Lives
<1> QED
  BY <1>3, <1>4

LEMMA ChangeLives ==
  ASSUME TypeOK, NEW a \in Aggregates, NEW v \in Values, Change(a, v), NEW e \in EventIds
  PROVE  Lives(e)
<1>1. rows \in [EventIds -> Row] /\ changes + 1 \in Nat /\ clock \in Nat
  BY DEF TypeOK
<1>2. \/ rows'[e] = rows[e]
      \/ rows[e].status = "absent" /\ rows'[e] = Inserted(changes + 1, v)
  BY <1>1 DEF Change
<1>3. Queued(Inserted(changes + 1, v)) = Queue!Waiting(0, clock)
  BY <1>1, InsertedWaits
<1>4. rows[e].status = "absent" => Queued(rows[e]).state = "unknown"
  BY QueuedIs DEF Queue!Unknown
<1> QED
  BY <1>2, <1>3, <1>4 DEF Lives, Queue!Live, Queue!Enter

LEMMA RequeueLives ==
  ASSUME TypeOK, NEW f \in EventIds, RequeueDeadLetter(f), NEW e \in EventIds
  PROVE  Lives(e)
<1> DEFINE row == Released(rows[f], "pending", 0, clock, FALSE)
<1>1. rows \in [EventIds -> Row] /\ rows[f] \in Row /\ clock \in Nat
  BY DEF TypeOK
<1>2. "pending" \in Statuses /\ 0 \in 0..MaxAttempts /\ FALSE \in BOOLEAN
  BY AttemptsAssumption DEF Statuses
<1>3. Queued(row) = Queue!Waiting(0, clock)
  BY <1>1, <1>2, ReleasedIs
<1>4. rows[f].status = "dead_letter" /\ rows' = [rows EXCEPT ![f] = row]
  BY DEF RequeueDeadLetter
<1>5. Queued(rows[f]).state = "dead"
  BY <1>4, QueuedIs DEF Queue!Dead
<1> HIDE DEF row
<1>6. CASE e = f
  BY <1>1, <1>3, <1>4, <1>5, <1>6 DEF Lives, Queue!Live, Queue!Requeue
<1>7. CASE e # f
  BY <1>1, <1>4, <1>7 DEF Lives
<1> QED
  BY <1>6, <1>7

LEMMA PurgeLives ==
  ASSUME TypeOK, PurgeSent, NEW e \in EventIds
  PROVE  Lives(e)
<1>1. rows'[e] = rows[e] \/ (rows[e].status = "sent" /\ rows'[e] = NoRow)
  BY DEF PurgeSent, Expired
<1>2. rows[e].status = "sent" => Queued(rows[e]).state = "sent"
  BY QueuedIs DEF Queue!Sent
<1>3. Queued(NoRow) = Queue!Unknown
  BY QueuedIs DEF NoRow
<1> QED
  BY <1>1, <1>2, <1>3 DEF Lives, Queue!Live, Queue!Forget

LEMMA NextLives ==
  IInv /\ Next => \/ Tick
                  \/ UNCHANGED clock /\ \A e \in EventIds : Lives(e)
<1> SUFFICES ASSUME IInv, Next, ~Tick
             PROVE  UNCHANGED clock /\ \A e \in EventIds : Lives(e)
  OBVIOUS
<1>0. TypeOK
  BY DEF IInv
<1>1. UNCHANGED clock
  BY DEF Next, Change, Claim, Answer, Acknowledge, Fail, Crash, RecoverStaleClaims,
         RequeueDeadLetter, PurgeSent
<1>2. ASSUME NEW e \in EventIds PROVE Lives(e)
  <2>1. ASSUME NEW w \in Workers, Crash(w) PROVE Lives(e)
    BY <2>1 DEF Crash, Lives
  <2>2. CASE RecoverStaleClaims
    <3>1. rows[e] \in Row /\ clock \in Nat /\ rows'[e] = Recover(rows[e])
      BY <1>0, <2>2 DEF TypeOK, RecoverStaleClaims
    <3> QED
      BY <3>1, RecoverExpires DEF Lives, Queue!Live, Queue!Expire
  <2> QED
    BY <1>0, <2>1, <2>2, ChangeLives, ClaimLives, AcknowledgeLives, FailLives,
       RequeueLives, PurgeLives DEF Next, Answer
<1> QED
  BY <1>1, <1>2

\* Every transaction moves each event one step through its life in a queue
\* with leases, or leaves it: claim_pending, acknowledge, fail, recovery,
\* requeue_dead_letter, purge_sent and the mutations together.
THEOREM KeepsALeasedQueue == Spec => ImplementsLeasedQueue
<1> DEFINE queue == [e \in EventIds |-> Queued(rows[e])]
<1>1. Init => Queue!Init
  <2> SUFFICES ASSUME Init PROVE Queue!Init
    OBVIOUS
  <2>1. Queued(NoRow) = Queue!Unknown
    BY QueuedIs DEF NoRow
  <2>2. \A e \in EventIds : Queued(rows[e]) = Queue!Unknown
    BY <2>1 DEF Init
  <2> QED
    BY <2>2 DEF Init, Queue!Init
<1>2. IInv /\ [Next]_vars => [Queue!Next]_(Queue!vars)
  <2> SUFFICES ASSUME IInv, [Next]_vars PROVE [Queue!Next]_(Queue!vars)
    OBVIOUS
  <2>1. CASE UNCHANGED vars
    BY <2>1 DEF vars, Queue!vars
  <2>2. CASE Tick
    BY <2>2 DEF Tick, Queue!Next, Queue!Pass
  <2>3. CASE UNCHANGED clock /\ \A e \in EventIds : Lives(e)
    <3>1. queue' = [e \in EventIds |-> queue'[e]]
      OBVIOUS
    <3>2. \A e \in EventIds : queue'[e] = queue[e] \/ Queue!Live(queue[e], queue'[e])
      BY <2>3 DEF Lives
    <3> QED
      BY <2>3, <3>1, <3>2 DEF Queue!Next, Queue!Work
  <2> QED
    BY <2>1, <2>2, <2>3, NextLives
<1> QED
  BY <1>1, <1>2, Invariance, PTL DEF Spec, ImplementsLeasedQueue, Queue!Spec
=============================================================================
