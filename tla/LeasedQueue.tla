---------------------------- MODULE LeasedQueue ----------------------------
(***************************************************************************)
(* What a queue with leases promises of each of its events, without a      *)
(* table, senders or formats of time.  An event waits until an instant and *)
(* is then leased to one worker; the lease ends by an answer or by its     *)
(* time.  A failed answer is an attempt: the last of MaxAttempts makes the *)
(* event a dead letter, which waits again only if it is put back.  What    *)
(* was sent is not leased again; it may be forgotten.                      *)
(***************************************************************************)
EXTENDS Naturals

CONSTANTS Events, Workers, Lease, MaxAttempts

VARIABLES now,   \* the time
          queue  \* the life of each event

vars == <<now, queue>>

Unknown == [state |-> "unknown"]
Sent    == [state |-> "sent"]
Dead    == [state |-> "dead"]
Waiting(attempts, from) ==
  [state |-> "waiting", attempts |-> attempts, from |-> from]
Leased(attempts, by, since) ==
  [state |-> "leased", attempts |-> attempts, by |-> by, since |-> since]

Init == now \in Nat /\ queue = [e \in Events |-> Unknown]

Over(q) == q.state = "leased" /\ q.since + Lease < now

\* What may become of an event at one instant: q before, n after.
Enter(q, n)   == q.state = "unknown" /\ n = Waiting(0, now)
Take(q, n)    == /\ (q.state = "waiting" /\ q.from <= now) \/ Over(q)
                 /\ \E w \in Workers : n = Leased(q.attempts, w, now)
Expire(q, n)  == Over(q) /\ n = Waiting(q.attempts, now)
Succeed(q, n) == q.state = "leased" /\ n = Sent
Retry(q, n)   == /\ q.state = "leased" /\ q.attempts + 1 < MaxAttempts
                 /\ n.state = "waiting" /\ now <= n.from
                 /\ n = Waiting(q.attempts + 1, n.from)
GiveUp(q, n)  == /\ q.state = "leased" /\ q.attempts + 1 = MaxAttempts
                 /\ n = Dead
Requeue(q, n) == q.state = "dead" /\ n = Waiting(0, now)
Forget(q, n)  == q.state = "sent" /\ n = Unknown

Live(q, n) == \/ Enter(q, n) \/ Take(q, n) \/ Expire(q, n) \/ Succeed(q, n)
              \/ Retry(q, n) \/ GiveUp(q, n) \/ Requeue(q, n) \/ Forget(q, n)

\* Time passes, or each event goes one step or none: a transaction may touch
\* many of them.
Pass == /\ now' = now + 1
        /\ UNCHANGED queue

Work == /\ queue' = [e \in Events |-> queue'[e]]
        /\ \A e \in Events : queue'[e] = queue[e] \/ Live(queue[e], queue'[e])
        /\ UNCHANGED now

Next == Pass \/ Work

Spec == Init /\ [][Next]_vars
=============================================================================
