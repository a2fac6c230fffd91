----------------------------- MODULE MCEdgeSync -----------------------------
(***************************************************************************)
(* Instances of EdgeSync for TLC, with a statement of the documentation    *)
(* that the code does not keep and the drain of a backlog.                 *)
(***************************************************************************)
EXTENDS EdgeSync

\* edge_sync.py:3-4 says that a connector "can consume" the queue: without a
\* fault, and with a device that stays active, every enqueued event should be
\* acknowledged some day.
QueueIsConsumed ==
  <>[](status = "active") => \A e \in Events : e \in EventIds ~> e \in acks

-----------------------------------------------------------------------------
\* The deployment README.md:752-758 describes first: events are queued, and
\* signed, long before a synchronisation endpoint is configured.  Any backlog
\* that enqueue can have written; from then on nothing is enqueued.
BacklogInit ==
  \E n \in 1..Cardinality(Events), ids \in [1..Cardinality(Events) -> Events] :
    /\ \A i, j \in 1..n : ids[i] = ids[j] => i = j
    /\ log = [i \in 1..n |-> [id |-> ids[i], sequence |-> i,
                              previousHash |-> i - 1]]
    /\ meta = [FreshMeta EXCEPT !.nextSequence = n + 1, !.previousHash = n]
    /\ torn = FALSE /\ unreadable = FALSE /\ acks = {}
    /\ enqPc = "idle" /\ enqMeta = FreshMeta
    /\ syncPc = "idle" /\ batch = NoBatch /\ reply = NoReply
    /\ requests = {}
    /\ status = "active" /\ devSequence = 0 /\ devHash = NoHash
    /\ received = {} /\ receipts = {}
    /\ faults = 0

BacklogSpec == BacklogInit /\ [][SyncStep \/ ReceiverStep]_vars /\ Fairness

\* sync_once and ingest_batch: once enqueuing has stopped, lost, delayed and
\* repeated calls, lost answers and a device revoked for a while do not keep a
\* backlog from being delivered and acknowledged to its end.
BacklogDrains ==
  <>[](status = "active") => <>(/\ Pending = {}
                                /\ received = Positions
                                /\ IsCheckpoint(meta.ackSequence, meta.ackHash)
                                /\ meta.ackSequence = Len(log))
=============================================================================
