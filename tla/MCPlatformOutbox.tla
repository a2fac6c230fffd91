-------------------------- MODULE MCPlatformOutbox --------------------------
(***************************************************************************)
(* Instances of PlatformOutbox for TLC, and the drain of the queue over    *)
(* days.                                                                   *)
(***************************************************************************)
EXTENDS PlatformOutbox

\* A clock that never stops, in finitely many states: when it reaches MaxTime
\* all times are written one day smaller, and none below 0.  A time that is
\* floored is so old that its lease is over and its day is past.
ASSUME RebaseAssumption == MaxTime >= 2 * DayLength /\ MaxTime > DayLength + Lease

Earlier(t) == IF t < DayLength THEN 0 ELSE t - DayLength

EarlierRow(row) ==
  [row EXCEPT !.due = Earlier(@), !.lockedAt = Earlier(@), !.sentAt = Earlier(@)]
EarlierItem(h) == [h EXCEPT !.since = Earlier(@)]

EarlierRows == [e \in EventIds |-> EarlierRow(rows[e])]
EarlierHeld == [w \in Workers |-> {EarlierItem(h) : h \in held[w]}]

Rebase ==
  /\ clock = MaxTime
  /\ clock' = clock - DayLength
  /\ rows' = EarlierRows
  /\ held' = EarlierHeld
  /\ UNCHANGED <<value, changes, crashes>>

\* A worker that lives answers within its lease.  (Workers that are always
\* slower than the lease take items from each other for ever: every answer
\* comes too late and is discarded.)
InLease == \A w \in Workers : \A h \in held[w] : clock < h.since + Lease

TickInLease == InLease /\ Tick

\* Time passes, workers keep claiming, and a worker that is given an item
\* answers or dies.  Nobody requeues, purges or calls recover_stale_claims.
DrainStep ==
  \/ \E a \in Aggregates, v \in Values : Change(a, v)
  \/ \E w \in Workers : Claim(w) \/ Answer(w) \/ Crash(w)

DrainNext == TickInLease \/ Rebase \/ DrainStep

\* What DrainNext stands for: the same steps, on a clock without a bound.
EndlessNext ==
  \/ /\ InLease
     /\ clock' = clock + 1
     /\ UNCHANGED <<value, rows, held, changes, crashes>>
  \/ DrainStep

DrainSpec ==
  /\ Init /\ [][DrainNext]_vars
  /\ WF_vars(TickInLease \/ Rebase)
  /\ \A w \in Workers : WF_vars(Claim(w)) /\ WF_vars(Answer(w))

\* claim_pending and fail: every event that is queued is sent or becomes a
\* dead letter, although workers die and calls fail: no claim is stranded.
EveryEventSettles ==
  \A e \in EventIds :
    rows[e].status # "absent" ~> rows[e].status \in {"sent", "dead_letter"}
=============================================================================
