-------------------------- MODULE OrderedDelivery --------------------------
(***************************************************************************)
(* What edge synchronisation promises, without files, hashes or requests:  *)
(* one edge queues events, each at most once, and the control plane holds  *)
(* a prefix of that queue which only ever grows.  No event is skipped, no  *)
(* event arrives twice and none is reordered.                              *)
(***************************************************************************)
EXTENDS Naturals, Sequences

CONSTANT Events   \* identities of the events the edge may queue

VARIABLES queued,     \* events in the order the edge queued them
          delivered   \* events in the order the control plane stored them

vars == <<queued, delivered>>

Init == /\ queued = <<>>
        /\ delivered = <<>>

\* The edge queues an event it has not queued before.
Queue(e) == /\ \A i \in 1..Len(queued) : queued[i] # e
            /\ queued' = Append(queued, e)
            /\ UNCHANGED delivered

\* The control plane stores the next n events, all or none of them.
Deliver(n) == /\ n > Len(delivered)
              /\ delivered' = SubSeq(queued, 1, n)
              /\ UNCHANGED queued

Next == \/ \E e \in Events : Queue(e)
        \/ \E n \in 1..Len(queued) : Deliver(n)

Spec == Init /\ [][Next]_vars
=============================================================================
