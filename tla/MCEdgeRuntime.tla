--------------------------- MODULE MCEdgeRuntime ---------------------------
(***************************************************************************)
(* Instances of EdgeRuntime for TLC: two starts, each a state that the     *)
(* first two frames may have led to.                                       *)
(***************************************************************************)
EXTENDS EdgeRuntime

\* Between two frames, with no session yet, at instant now.
Waiting(now, entities, tasks) ==
  /\ clock = now
  /\ date = Day(0)
  /\ clean = FALSE
  /\ sessions = <<>>
  /\ buffer = {}
  /\ frames = 2
  /\ inference = InferenceWaiting
  /\ store = entities
  /\ regular = tasks
  /\ critical = <<>>
  /\ ops = OpsIdle
  /\ main = "running"

\* Both frames were replaced or too old.
NothingSeen == Waiting(MaxTime - 1, EmptyStore, <<>>)

\* Someone was observed at 0, in a round that ended with an exception, and is
\* tracked now, in a round whose observation has expired: its task is queued.
SomeoneTracked ==
  Waiting(MaxTime,
          [EmptyStore EXCEPT ![1] = [life |-> "active", seen |-> MaxTime, wall |-> 0]],
          <<[at |-> [Unobserved EXCEPT ![1] = 0], visible |-> {1}, hidden |-> {},
             closed |-> {}]>>)

MCInit == NothingSeen \/ SomeoneTracked

MCSpec == MCInit /\ [][Next]_vars /\ Fairness
=============================================================================
