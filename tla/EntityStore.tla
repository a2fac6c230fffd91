----------------------------- MODULE EntityStore -----------------------------
(***************************************************************************)
(* EntityStateStore: the entities behind the tracks of one camera.  An     *)
(* entity has a number that is never used again while the runtime lives.   *)
(* It is active while its track is reported, missing (STALE or OCCLUDED)   *)
(* afterwards, and closed when it has been missing for CloseAfter or when  *)
(* its track jumps to somebody else (tracker_switch).  The instant it was  *)
(* seen is that of its last track; the instant on record for the database  *)
(* is that of its last observation, and a track without an observation has *)
(* none.  Left out: the eviction beyond 128 entities.                      *)
(***************************************************************************)
EXTENDS Naturals

CONSTANTS MaxEntities,    \* bound: entities one process creates
          CloseAfter,     \* ENTITY_CLOSE_AFTER_SEC, in instants
          Never           \* last_observed_wallclock before any observation

ASSUME EntityAssumption ==
  /\ MaxEntities \in Nat \ {0}
  /\ CloseAfter \in Nat \ {0}
  /\ Never \notin Nat

Entities == 1 .. MaxEntities
Lives == {"unused", "active", "missing", "closed"}

EmptyStore == [e \in Entities |-> [life |-> "unused", seen |-> 0, wall |-> Never]]

Live(store) == {e \in Entities : store[e].life \in {"active", "missing"}}

\* New entities take the next numbers, one for each new track.
TakesNextNumbers(store, new) ==
  /\ \A e \in new : store[e].life = "unused"
  /\ \A e \in new, f \in Entities :
       f < e /\ f \notin new => store[f].life # "unused"

\* What one frame may report: the tracks still followed, new tracks, and
\* the entities whose track jumped after a gap and now shows someone new.
Reported(store, tracked, switched, now) ==
  /\ TakesNextNumbers(store, tracked \ Live(store))
  /\ switched \subseteq Live(store) \ tracked
  /\ \A e \in switched : store[e].life = "missing" \/ store[e].seen < now
  /\ \E f \in [switched -> tracked \ Live(store)] :
       \A d, e \in switched : f[d] = f[e] => d = e

\* Entities closed by the update, for a switch or for their timeout.
Lost(store, tracked, switched, now) ==
  switched \cup {e \in Live(store) \ tracked : now >= store[e].seen + CloseAfter}

Updated(store, tracked, switched, now) ==
  [e \in Entities |->
     IF e \in tracked
     THEN [store[e] EXCEPT !.life = "active", !.seen = IF @ < now THEN now ELSE @]
     ELSE IF e \in Lost(store, tracked, switched, now)
          THEN [store[e] EXCEPT !.life = "closed"]
          ELSE IF e \in Live(store) THEN [store[e] EXCEPT !.life = "missing"]
               ELSE store[e]]

\* attach, for the entities with an observation of this frame.  An observation
\* that has expired by then, or is older than the track, records no instant.
Attached(store, fresh, now) ==
  [e \in Entities |-> IF e \in fresh /\ store[e].seen <= now
                      THEN [store[e] EXCEPT !.seen = now, !.wall = now]
                      ELSE store[e]]
=============================================================================
