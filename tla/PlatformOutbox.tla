--------------------------- MODULE PlatformOutbox ---------------------------
(***************************************************************************)
(* The table platform_outbox, the hand-off between a committed change of   *)
(* the local database and a sender: backend/services/outbox_service.py,    *)
(* with the mutations that enqueue (attendance, people and incident        *)
(* services, and main.py's EventDatabase).  Every operation is one         *)
(* BEGIN IMMEDIATE transaction, hence one step.                            *)
(*                                                                         *)
(* The sender is not part of the repository.  A worker is whoever calls    *)
(* claim_pending, works through the items it was given, answers each with  *)
(* acknowledge or fail under its own worker id, and then claims again; it  *)
(* may be arbitrarily slow and it may crash.                               *)
(*                                                                         *)
(* Time is a counter of ticks; midnight is at the multiples of DayLength.  *)
(* Timestamps are text: SQLite writes "2025-01-01 10:00:00", isoformat()   *)
(* writes "2025-01-01T10:00:00", and the two are compared as text.         *)
(***************************************************************************)
EXTENDS Integers, FiniteSets

CONSTANTS Aggregates,    \* records of the local database that change
          Values,        \* states a record can be in
          KeyedByValue,  \* aggregates whose event id names the new state too
          Workers,       \* senders
          Nobody,        \* locked_by is null
          ClaimLimit,    \* claim_pending's limit
          MaxAttempts,   \* MAX_ATTEMPTS
          MaxDelay,      \* longest backoff
          Lease,         \* DEFAULT_LEASE_SECONDS
          DayLength,     \* ticks of a day
          RetentionDays, \* purge_sent's retention
          MaxTime,       \* bound: the clock stops there
          MaxChanges,    \* bound: mutations in a behaviour
          MaxCrashes     \* bound: crashes in a behaviour

ASSUME NobodyAssumption  == Nobody \notin Workers
ASSUME KeyedAssumption   == KeyedByValue \subseteq Aggregates
ASSUME BoundsAssumption  == /\ ClaimLimit \in Nat /\ MaxDelay \in Nat
                            /\ Lease \in Nat /\ RetentionDays \in Nat
                            /\ MaxTime \in Nat /\ MaxChanges \in Nat
                            /\ MaxCrashes \in Nat
ASSUME AttemptsAssumption == MaxAttempts \in Nat \ {0}
ASSUME DayAssumption      == DayLength \in Nat \ {0}

VARIABLES clock,    \* the time
          value,    \* the committed state of each aggregate
          rows,     \* platform_outbox, by event id
          held,     \* what each worker was given and has not answered
          changes,  \* mutations so far; also the next row id
          crashes   \* crashes so far

vars == <<clock, value, rows, held, changes, crashes>>

\* The event id a mutation passes: "person-active:<id>:<new state>" for an
\* activation, "attendance-correction:<id>:<date>" for a correction.
AnyValue      == "any"
EventId(a, v) == <<a, IF a \in KeyedByValue THEN v ELSE AnyValue>>
EventIds      == {EventId(a, v) : a \in Aggregates, v \in Values}

NoRow == [status |-> "absent", order |-> 0, payload |-> AnyValue,
          attempts |-> 0, due |-> 0, dueIso |-> FALSE,
          lockedAt |-> 0, lockedBy |-> Nobody, sentAt |-> 0]
-----------------------------------------------------------------------------
Day(t) == t \div DayLength

\* min(3600, 2 ** attempts)
Backoff(n) == IF MaxDelay < 2^n THEN MaxDelay ELSE 2^n

ASSUME BackoffAssumption == \A n \in 1..MaxAttempts : Backoff(n) \in Nat

\* Mutant: a retry is taken whatever its time.
DueAtOnce(row) == TRUE

\* next_attempt_at <= datetime('now'), as text.  In an ISO time the date is
\* followed by "T", which sorts after the blank of SQLite's own format.
Due(row) == IF row.dueIso THEN Day(row.due) < Day(clock) ELSE row.due <= clock

Claimable(row) == row.status \in {"pending", "failed"} /\ Due(row)

\* Mutants: a lease never ends; a lease is over when its last tick begins; the
\* status is not looked at, although what was sent keeps its lock columns.
NeverStale(row) == FALSE
StaleByTime(row) == row.lockedBy # Nobody /\ row.lockedAt < clock - Lease
StaleEarly(row) == row.status = "processing" /\ row.lockedAt <= clock - Lease

\* locked_at < datetime('now', '-lease seconds'), both in SQLite's format.
Stale(row) == row.status = "processing" /\ row.lockedAt < clock - Lease

\* A row as it is inserted, as claim_pending locks it, and as it is released
\* (locked_at and locked_by null) for an attempt at the time due.
Inserted(order, payload) ==
  [NoRow EXCEPT !.status = "pending", !.order = order,
                !.payload = payload, !.due = clock]

LockedFor(row, w) ==
  [row EXCEPT !.status = "processing", !.lockedAt = clock, !.lockedBy = w]

Released(row, status, attempts, due, dueIso) ==
  [row EXCEPT !.status = status, !.attempts = attempts,
              !.due = due, !.dueIso = dueIso,
              !.lockedAt = 0, !.lockedBy = Nobody]

\* _recover_stale_claims_in_connection: attempts are not counted up.
Recover(row) == IF Stale(row)
                THEN Released(row, "failed", row.attempts, clock, FALSE)
                ELSE row

\* order by id limit ?
FirstOf(due, rs) ==
  {e \in due : Cardinality({f \in due : rs[f].order < rs[e].order}) < ClaimLimit}

\* Mutant: acknowledge and fail do not look at the worker id.
AnyOwner(e, w) == rows[e].status = "processing"

\* status = 'processing' and locked_by = ?
Owns(e, w) == rows[e].status = "processing" /\ rows[e].lockedBy = w
-----------------------------------------------------------------------------
Init == /\ clock = 0
        /\ value \in [Aggregates -> Values]
        /\ rows = [e \in EventIds |-> NoRow]
        /\ held = [w \in Workers |-> {}]
        /\ changes = 0
        /\ crashes = 0

Tick == /\ clock < MaxTime
        /\ clock' = clock + 1
        /\ UNCHANGED <<value, rows, held, changes, crashes>>

\* A mutation and enqueue_in_connection, in one transaction: the record takes
\* its new state, and "on conflict(event_id) do nothing" inserts the event.
Change(a, v) ==
  /\ changes < MaxChanges
  /\ changes' = changes + 1
  /\ value' = [value EXCEPT ![a] = v]
  /\ LET e == EventId(a, v)
     IN  rows' = IF rows[e].status = "absent"
                 THEN [rows EXCEPT ![e] = Inserted(changes + 1, v)]
                 ELSE rows
  /\ UNCHANGED <<clock, held, crashes>>

\* claim_pending: abandoned claims are recovered first, then the first due
\* items are locked for the worker and handed to it.
Claim(w) ==
  /\ held[w] = {}
  /\ LET fresh == [e \in EventIds |-> Recover(rows[e])]
         taken == FirstOf({e \in EventIds : Claimable(fresh[e])}, fresh)
     IN  /\ rows' = [e \in EventIds |->
                       IF e \in taken THEN LockedFor(fresh[e], w)
                                      ELSE fresh[e]]
         /\ held' = [held EXCEPT ![w] =
                       {[event |-> e, since |-> clock] : e \in taken}]
  /\ UNCHANGED <<clock, value, changes, crashes>>

\* recover_stale_claims with the default lease.
RecoverStaleClaims ==
  /\ rows' = [e \in EventIds |-> Recover(rows[e])]
  /\ UNCHANGED <<clock, value, held, changes, crashes>>

\* acknowledge(event_id, worker_id): nothing happens to an item that is no
\* longer the worker's.  The lock columns keep their values.
Acknowledge(w, h) ==
  /\ held' = [held EXCEPT ![w] = @ \ {h}]
  /\ rows' = IF Owns(h.event, w)
             THEN [rows EXCEPT ![h.event].status = "sent",
                               ![h.event].sentAt = clock]
             ELSE rows
  /\ UNCHANGED <<clock, value, changes, crashes>>

\* fail(event_id, error, worker_id): the time of the next attempt is written
\* by isoformat().
Fail(w, h) ==
  /\ held' = [held EXCEPT ![w] = @ \ {h}]
  /\ LET n == rows[h.event].attempts + 1
         status == IF n >= MaxAttempts THEN "dead_letter" ELSE "failed"
     IN  rows' = IF Owns(h.event, w)
                 THEN [rows EXCEPT ![h.event] =
                         Released(@, status, n, clock + Backoff(n), TRUE)]
                 ELSE rows
  /\ UNCHANGED <<clock, value, changes, crashes>>

\* A worker dies and forgets what it was given.
Crash(w) ==
  /\ held[w] # {}
  /\ crashes < MaxCrashes
  /\ crashes' = crashes + 1
  /\ held' = [held EXCEPT ![w] = {}]
  /\ UNCHANGED <<clock, value, rows, changes>>

\* Mutant: the attempts are not counted from zero again.
RequeueKeepsAttempts(e) ==
  /\ rows[e].status = "dead_letter"
  /\ rows' = [rows EXCEPT ![e] =
                Released(@, "pending", @.attempts, clock, FALSE)]
  /\ UNCHANGED <<clock, value, held, changes, crashes>>

\* requeue_dead_letter, by an operator.
RequeueDeadLetter(e) ==
  /\ rows[e].status = "dead_letter"
  /\ rows' = [rows EXCEPT ![e] = Released(@, "pending", 0, clock, FALSE)]
  /\ UNCHANGED <<clock, value, held, changes, crashes>>

\* sent_at < (now - retention).isoformat(), as text: the day of sent_at is
\* compared, and on the day of the cutoff the blank sorts before the "T".
Expired(row) == /\ row.status = "sent"
                /\ Day(row.sentAt) <= Day(clock) - RetentionDays

\* purge_sent with execute_delete.
PurgeSent ==
  /\ rows' = [e \in EventIds |-> IF Expired(rows[e]) THEN NoRow ELSE rows[e]]
  /\ UNCHANGED <<clock, value, held, changes, crashes>>
-----------------------------------------------------------------------------
Answer(w) == \E h \in held[w] : Acknowledge(w, h) \/ Fail(w, h)

Next == \/ Tick
        \/ \E a \in Aggregates, v \in Values : Change(a, v)
        \/ \E w \in Workers : Claim(w) \/ Answer(w) \/ Crash(w)
        \/ RecoverStaleClaims
        \/ \E e \in EventIds : RequeueDeadLetter(e)
        \/ PurgeSent

Spec == Init /\ [][Next]_vars
-----------------------------------------------------------------------------
Statuses == {"absent", "pending", "processing", "sent", "failed", "dead_letter"}

Row == [status : Statuses, order : Nat, payload : Values \cup {AnyValue},
        attempts : 0..MaxAttempts, due : Nat, dueIso : BOOLEAN,
        lockedAt : Nat, lockedBy : Workers \cup {Nobody}, sentAt : Nat]

HeldItem == [event : EventIds, since : Nat]

\* The table, the clock and the workers keep their shape; an item never has
\* more attempts than the limit that sends it to dead_letter.
TypeOK ==
  /\ clock \in Nat
  /\ value \in [Aggregates -> Values]
  /\ rows \in [EventIds -> Row]
  /\ held \in [Workers -> SUBSET HeldItem]
  /\ changes \in Nat
  /\ crashes \in 0..MaxCrashes

Live(h) == clock <= h.since + Lease

\* claim_pending: as long as leases run, an item is in the hands of one
\* worker only, whatever was recovered, failed, requeued or purged meanwhile.
OneLiveClaim ==
  \A v, w \in Workers : \A g \in held[v], h \in held[w] :
    v # w /\ g.event = h.event => ~Live(g) \/ ~Live(h)

\* acknowledge and fail: a claim ends because its lease is over or because
\* the worker that holds this very claim answers; a late answer of an earlier
\* claim never ends the claim of another worker.
SettledByOwner ==
  [][\A e \in EventIds :
       /\ rows[e].status = "processing"
       /\ \/ rows'[e].status # "processing"
          \/ rows'[e].lockedBy # rows[e].lockedBy
          \/ rows'[e].lockedAt # rows[e].lockedAt
       => \/ rows[e].lockedAt < clock - Lease
          \/ \E w \in Workers : \E h \in held[w] \ held'[w] :
               /\ w = rows[e].lockedBy
               /\ h.event = e /\ h.since = rows[e].lockedAt]_vars

\* fail and claim_pending: a failed item is not taken again before its
\* backoff is over.
NeverEarly ==
  [][\A e \in EventIds :
       rows[e].status = "failed" /\ rows'[e].status = "processing"
         => rows[e].due <= clock]_vars

\* A row as an event of a queue with leases: the lock columns of what was sent,
\* the attempts of a dead letter and the format of a time do not matter to it.
Queued(row) ==
  CASE row.status \in {"pending", "failed"} ->
         [state |-> "waiting", attempts |-> row.attempts, from |-> row.due]
    [] row.status = "processing" ->
         [state |-> "leased", attempts |-> row.attempts,
          by |-> row.lockedBy, since |-> row.lockedAt]
    [] row.status = "sent" -> [state |-> "sent"]
    [] row.status = "dead_letter" -> [state |-> "dead"]
    [] row.status = "absent" -> [state |-> "unknown"]

Queue == INSTANCE LeasedQueue WITH
           now <- clock, queue <- [e \in EventIds |-> Queued(rows[e])],
           Events <- EventIds

\* The table with its senders, however late they answer, is a queue with
\* leases: each event goes through its life on its own, is leased to one
\* worker at a time and never again once it was sent.
ImplementsLeasedQueue == Queue!Spec
-----------------------------------------------------------------------------
\* What a worker holds is locked for it in the table since it was claimed, or
\* its lease is over; and what is locked for it was locked by this very claim.
ClaimsLocked ==
  \A w \in Workers : \A h \in held[w] :
    /\ h.since <= clock
    /\ \/ /\ rows[h.event].status = "processing"
          /\ rows[h.event].lockedBy = w
          /\ rows[h.event].lockedAt = h.since
       \/ ~Live(h)
    /\ Owns(h.event, w) => rows[h.event].lockedAt = h.since

\* A worker is given an item once, and an item that is being processed is
\* locked by a worker.
ClaimsDistinct ==
  /\ \A w \in Workers : \A g, h \in held[w] : g.event = h.event => g = h
  /\ \A e \in EventIds :
       rows[e].status = "processing" => /\ rows[e].lockedBy \in Workers
                                        /\ rows[e].lockedAt <= clock

\* Below the limit an item is retried, at the limit it is a dead letter.
AttemptsBounded ==
  \A e \in EventIds :
    /\ rows[e].status = "dead_letter" => rows[e].attempts = MaxAttempts
    /\ rows[e].status \in {"pending", "processing", "failed"}
         => rows[e].attempts < MaxAttempts

IInv == TypeOK /\ ClaimsLocked /\ ClaimsDistinct /\ AttemptsBounded
=============================================================================
