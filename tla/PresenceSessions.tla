-------------------------- MODULE PresenceSessions --------------------------
(***************************************************************************)
(* Table presence_sessions: from when until when an entity was in front of *)
(* the camera.  Every operation of the database class is one transaction   *)
(* under its lock, so each is a function from the table to the table; the  *)
(* modules that own the threads say when it runs.  A table is a sequence   *)
(* of rows, its indices are the ids.                                       *)
(***************************************************************************)
EXTENDS Naturals, Sequences, FiniteSets

CONSTANT Seconds   \* an instant written as a number of seconds: not a date to
                   \* _parse_timestamp, which raises an exception

ASSUME SecondsAssumption == Seconds \notin Nat

Statuses == {"active", "occluded", "closed"}
Row(entities, times) ==
  [entity : entities, started : times, last : times, status : Statuses]

\* The comparison fails, and s stays, when either is not a date.
Later(s, t) == IF s # Seconds /\ t # Seconds /\ s < t THEN t ELSE s

IsOpen(r) == r.status \in {"active", "occluded"}
OpenRows(rows) == {i \in 1 .. Len(rows) : IsOpen(rows[i])}

\* (mutant) Only the rows marked active are looked at.
ActiveRowsOf(rows, e) ==
  {i \in 1 .. Len(rows) : rows[i].entity = e /\ rows[i].status = "active"}

OpenRowsOf(rows, e) == {i \in OpenRows(rows) : rows[i].entity = e}

\* ORDER BY id DESC LIMIT 1
Newest(ids) == CHOOSE i \in ids : \A j \in ids : j <= i

\* (mutant) Tasks are taken to arrive in the order of their frames.
SeenAt(r, at) == [r EXCEPT !.last = at, !.status = "active"]

\* An observation older than the one on record leaves last_seen_at alone.
Seen(r, at) == [r EXCEPT !.last = Later(@, at), !.status = "active"]

\* upsert_presence_session.  An entity keeps its generation as long as the
\* runtime lives, and there is one camera, so neither opens a second row.
\* The identity, liveness and frame columns are left out.
Upserted(rows, e, at, visible) ==
  LET open == OpenRowsOf(rows, e)
      i    == Newest(open)
  IN  IF open # {}
      THEN [rows EXCEPT ![i] = IF visible THEN Seen(rows[i], at)
                               ELSE [rows[i] EXCEPT !.status = "occluded"]]
      ELSE IF visible
           THEN Append(rows, [entity |-> e, started |-> at, last |-> at,
                              status |-> "active"])
           ELSE rows

\* Every closing update: ended_at is last_seen_at, so only the status changes.
ClosedRows(rows, ids) ==
  [i \in 1 .. Len(rows) |->
     IF i \in ids THEN [rows[i] EXCEPT !.status = "closed"] ELSE rows[i]]

\* close_presence_session, for the entities whose transitions are in a task
EntitiesClosed(rows, gone) ==
  ClosedRows(rows, {i \in OpenRows(rows) : rows[i].entity \in gone})

\* A row whose last_seen_at is not a date is as good as timed out.
Stale(r, now, timeout) == r.last = Seconds \/ now > r.last + timeout

\* close_stale_presence_sessions
StaleClosed(rows, now, timeout) ==
  ClosedRows(rows, {i \in OpenRows(rows) : Stale(rows[i], now, timeout)})

\* close_open_presence_sessions: startup, day rollover and shutdown
AllClosed(rows) == ClosedRows(rows, OpenRows(rows))
=============================================================================
