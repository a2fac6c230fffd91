---------------------------- MODULE PresenceLog ----------------------------
(***************************************************************************)
(* What the threads of a runtime promise together, without threads, queues *)
(* or tasks: a log of visits.  A visit opens at an instant no later than   *)
(* an observation of its entity, or without a date, and only while the     *)
(* entity has no other; one with a date is extended to later observations, *)
(* one visit at a time, and once over it is history.  A process that dies  *)
(* forgets what it observed; its visits end, where they were, before the   *)
(* next process has observed anything, for its entities are other ones     *)
(* under the same numbers.                                                 *)
(***************************************************************************)
EXTENDS Naturals, Sequences

CONSTANTS Entities,   \* numbers of the entities of one process
          Never,      \* instead of an instant: not observed
          Seconds     \* instead of an instant: not a date

VARIABLES log,      \* visits: [entity, from, to, over]
          seen,     \* latest observation of each entity, by this process
          running   \* there is a process

vars == <<log, seen, running>>

Visits == 1 .. Len(log)
Current == {i \in Visits : ~log[i].over}

Unseen == [e \in Entities |-> Never]

\* The instants at which an entity may have been observed.
Seen(e) == IF seen[e] = Never THEN {} ELSE 0 .. seen[e]

\* No visit yet, whatever has been observed.
Init == /\ log = <<>>
        /\ seen \in [Entities -> Nat \cup {Never}]
        /\ running = TRUE

\* Entities are observed; nothing is written yet.
Observe == /\ running
           /\ seen' \in [Entities -> Nat \cup {Never}]
           /\ \A e \in Entities :
                seen[e] # Never => seen'[e] # Never /\ seen[e] <= seen'[e]
           /\ UNCHANGED <<log, running>>

\* A visit opens.
Arrive(e, t) ==
  /\ running
  /\ \A i \in Current : log[i].entity # e
  /\ log' = Append(log, [entity |-> e, from |-> t, to |-> t, over |-> FALSE])
  /\ UNCHANGED <<seen, running>>

\* A current visit that has a date is extended to a later one.
Stay(i, t) ==
  /\ running
  /\ log[i].to # Seconds /\ log[i].to < t
  /\ log' = [log EXCEPT ![i].to = t]
  /\ UNCHANGED <<seen, running>>

Over(ended) ==
  [i \in Visits |-> IF i \in ended THEN [log[i] EXCEPT !.over = TRUE] ELSE log[i]]

\* Visits end, as of their last observation.
Leave(ended) ==
  /\ running
  /\ log' = Over(ended)
  /\ UNCHANGED <<seen, running>>

\* The process ends, perhaps in the middle of visits.
Stop == /\ running /\ ~running'
        /\ seen' = Unseen
        /\ UNCHANGED log

\* The next process ends them before it observes anything.
Start == /\ ~running /\ running'
         /\ seen' = Unseen
         /\ log' = Over(Current)

Next ==
  \/ Observe
  \/ \E e \in Entities : \E t \in Seen(e) \cup {Seconds} : Arrive(e, t)
  \/ \E i \in Current : \E t \in Seen(log[i].entity) : Stay(i, t)
  \/ \E ended \in SUBSET Current : Leave(ended)
  \/ Stop \/ Start

Spec == Init /\ [][Next]_vars
=============================================================================
