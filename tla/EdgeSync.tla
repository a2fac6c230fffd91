------------------------------ MODULE EdgeSync ------------------------------
(***************************************************************************)
(* Synchronisation of one edge device with the control plane:              *)
(*   - core/edge_sync.py   EdgeEventOutbox, three files of the edge: the   *)
(*     append-only event log, the acknowledged ids and the metadata;       *)
(*   - core/sync_transport.py EdgeSyncClient.sync_once, called in a loop   *)
(*     by main.py's EdgeSyncWorker thread;                                 *)
(*   - backend/services/sync_service.py ingest_batch and                   *)
(*     set_device_status, each one database transaction.                   *)
(*                                                                         *)
(* The thread that enqueues and the thread that sends share the files.     *)
(* The outbox lock covers enqueue and acknowledge; verify_chain, pending   *)
(* and checkpoint read without it, so they are steps of their own.  A      *)
(* crash, or a write that raises OSError, may separate two file writes.    *)
(*                                                                         *)
(* Abstractions.  The record hash is the position of the record in the     *)
(* log: the log only grows and sha256 is taken as injective.  A batch is   *)
(* the set of positions it holds, in log order.  Device, site and          *)
(* organisation are fixed and signatures valid: nobody tampers here.       *)
(***************************************************************************)
EXTENDS Integers, Sequences, FiniteSets

CONSTANTS Events,      \* event ids the runtime may enqueue
          BatchSize,   \* EdgeSyncClient.batch_size
          MaxFaults    \* bound: crashes and failed writes in a behaviour

ASSUME BatchSizeAssumption == BatchSize \in Nat \ {0}
ASSUME MaxFaultsAssumption == MaxFaults \in Nat

VARIABLES
  log,         \* readable records of sync_outbox.ndjson, in file order
  torn,        \* the file ends in the middle of a line
  unreadable,  \* some line of the file is not valid JSON
  acks,        \* event ids in the .acks file
  meta,        \* the .meta file
  enqPc,       \* enqueue: "idle", or "appended" inside its critical section
  enqMeta,     \* the metadata that enqueue is about to write
  syncPc,      \* where sync_once stands
  batch,       \* its local records, then the request body
  reply,       \* response of the receiver to the call it waits for
  requests,    \* bodies ever sent: each may be delivered, late, again, never
  status,      \* edge_sync_devices.status
  devSequence, \* edge_sync_devices.last_sequence
  devHash,     \* edge_sync_devices.last_hash
  received,    \* rows of edge_sync_events, as positions of the log
  receipts,    \* edge_sync_batches, as the bodies accepted
  faults       \* faults so far

fileVars == <<log, torn, unreadable, acks, meta>>
enqVars  == <<enqPc, enqMeta>>
syncVars == <<syncPc, batch, reply>>
recvVars == <<status, devSequence, devHash, received, receipts>>
vars     == <<fileVars, enqVars, syncVars, requests, recvVars, faults>>

NoHash   == 0     \* the empty previous_hash
LostHash == -1    \* hash of a record whose line cannot be read back
Hashes   == Nat \cup {NoHash, LostHash}

Statuses == {"active", "revoked", "disabled"}

\* Mutant: sequences counted from zero.
FreshMetaFromZero == [nextSequence |-> 0, previousHash |-> NoHash,
                      ackSequence |-> 0, ackHash |-> NoHash]

FreshMeta == [nextSequence |-> 1, previousHash |-> NoHash,
              ackSequence |-> 0, ackHash |-> NoHash]
NoBatch   == [first |-> 0, last |-> 0, base |-> 0, records |-> {}]
NoReply   == [sequence |-> 0, hash |-> NoHash]
-----------------------------------------------------------------------------
Positions   == 1..Len(log)
Pending     == {i \in Positions : log[i].id \notin acks}

\* Mutant: duplicates are looked for among the pending records only.
PendingIds  == {log[i].id : i \in Pending}
EventIds    == {log[i].id : i \in Positions}
WithSequence(s) == {i \in Positions : log[i].sequence = s}

IsFirst(i, S) == i \in S /\ \A j \in S : i <= j
IsLast(i, S)  == i \in S /\ \A j \in S : j <= i

\* Mutant: only the event ids of a batch are looked at.
VerifyIdsOnly(records, lastSequence, lastHash) ==
  \A i, j \in records : log[i].id = log[j].id => i = j

\* verify_sync_batch: the records continue a chain that ends at the given
\* sequence and hash: consecutive numbers, each linked to the record before it,
\* no event id twice.
VerifySyncBatch(records, lastSequence, lastHash) ==
  /\ \A i \in records :
       LET before == {j \in records : j < i}
       IN  /\ log[i].sequence = lastSequence + Cardinality(before) + 1
           /\ IF before = {} THEN log[i].previousHash = lastHash
              ELSE IsLast(log[i].previousHash, before)
  /\ \A i, j \in records : log[i].id = log[j].id => i = j

\* verify_chain: the log against the metadata, the checkpoint against the
\* acknowledged ids, and the whole log as one batch from the start.
ChainValid ==
  /\ ~unreadable
  /\ log # <<>> => /\ meta.nextSequence = log[Len(log)].sequence + 1
                   /\ meta.previousHash = Len(log)
  /\ meta.ackSequence > 0 =>
       /\ IsFirst(meta.ackHash, WithSequence(meta.ackSequence))
       /\ \A i \in Positions : log[i].sequence <= meta.ackSequence
                                 => log[i].id \in acks
  /\ VerifySyncBatch(Positions, 0, NoHash)

\* The loop of acknowledge over the records sorted by sequence: up to c every
\* sequence is there and acknowledged, and below c it is there only once.
AckedUpTo(c) ==
  \A s \in 1..c :
    /\ \E i \in WithSequence(s) : IsFirst(i, WithSequence(s))
                                  /\ log[i].id \in acks
    /\ s < c => \A i, j \in WithSequence(s) : i = j

\* Mutants: the end of the log taken for the checkpoint; a checkpoint dropped.
IsLogEnd(c, h)     == c = Len(log) /\ h = Len(log)
IsForgotten(c, h)  == c = 0 /\ h = NoHash

\* The last contiguous acknowledged record: sequence c at position h.
IsCheckpoint(c, h) ==
  /\ AckedUpTo(c)
  /\ \A d \in 0..Len(log) : AckedUpTo(d) => d <= c
  /\ IF c = 0 THEN h = NoHash ELSE IsFirst(h, WithSequence(c))

\* The outbox lock is held by enqueue or by acknowledge.
LockFree == enqPc = "idle" /\ syncPc # "acked"
-----------------------------------------------------------------------------
Init ==
  /\ log = <<>> /\ torn = FALSE /\ unreadable = FALSE
  /\ acks = {} /\ meta = FreshMeta
  /\ enqPc = "idle" /\ enqMeta = FreshMeta
  /\ syncPc = "idle" /\ batch = NoBatch /\ reply = NoReply
  /\ requests = {}
  /\ status = "active" /\ devSequence = 0 /\ devHash = NoHash
  /\ received = {} /\ receipts = {}
  /\ faults = 0

Fault == /\ faults < MaxFaults
         /\ faults' = faults + 1

\* enqueue, an event id that read_all does not show: append one line and
\* fsync.  After a torn line the new record shares its line and is lost to
\* every reader.
EnqueueAppend(e) ==
  /\ LockFree
  /\ e \notin EventIds
  /\ LET record == [id |-> e, sequence |-> meta.nextSequence,
                    previousHash |-> meta.previousHash]
     IN  /\ log' = IF torn THEN log ELSE Append(log, record)
         /\ enqMeta' = [nextSequence |-> meta.nextSequence + 1,
                        previousHash |-> IF torn THEN LostHash
                                         ELSE Len(log) + 1,
                        ackSequence |-> 0, ackHash |-> NoHash]
  /\ torn' = FALSE
  /\ enqPc' = "appended"
  /\ UNCHANGED <<unreadable, acks, meta, syncVars, requests, recvVars, faults>>

\* The append fails half way (OSError): part of a line stays in the file.
EnqueueTears(e) ==
  /\ LockFree
  /\ e \notin EventIds
  /\ Fault
  /\ torn' = TRUE /\ unreadable' = TRUE
  /\ UNCHANGED <<log, acks, meta, enqVars, syncVars, requests, recvVars>>

\* The end of enqueue: the metadata is replaced by a record that names the
\* next sequence and hash only, and carries no acknowledged checkpoint.
EnqueueWriteMeta ==
  /\ enqPc = "appended"
  /\ meta' = enqMeta
  /\ enqPc' = "idle" /\ enqMeta' = FreshMeta
  /\ UNCHANGED <<log, torn, unreadable, acks, syncVars, requests, recvVars,
                 faults>>

\* _write_meta raises; the caller prints the error and goes on.
EnqueueMetaFails ==
  /\ enqPc = "appended"
  /\ Fault
  /\ enqPc' = "idle" /\ enqMeta' = FreshMeta
  /\ UNCHANGED <<fileVars, syncVars, requests, recvVars>>
-----------------------------------------------------------------------------
SyncIdle == syncPc' = "idle" /\ batch' = NoBatch /\ reply' = NoReply

\* sync_once starts only from a chain that verifies; otherwise it returns
\* BLOCKED and nothing has changed.
VerifyChain ==
  /\ syncPc = "idle"
  /\ ChainValid
  /\ syncPc' = "verified"
  /\ UNCHANGED <<fileVars, enqVars, batch, reply, requests, recvVars, faults>>

\* pending(batch_size): the first records, in file order, not acknowledged.
ReadPending ==
  /\ syncPc = "verified"
  /\ \/ /\ Pending = {}
        /\ SyncIdle
     \/ \E first, last \in Pending :
          LET records == {i \in Pending : i <= last}
          IN  /\ IsFirst(first, Pending)
              /\ Cardinality(records) <= BatchSize
              /\ Cardinality(records) = BatchSize \/ IsLast(last, Pending)
              /\ batch' = [first |-> first, last |-> last, base |-> 0,
                           records |-> records]
              /\ syncPc' = "read"
              /\ UNCHANGED reply
  /\ UNCHANGED <<fileVars, enqVars, requests, recvVars, faults>>

\* The batch must continue the checkpoint; otherwise BLOCKED.
VerifyBatch ==
  /\ syncPc = "read"
  /\ IF VerifySyncBatch(batch.records, meta.ackSequence, meta.ackHash)
     THEN syncPc' = "checked" /\ UNCHANGED <<batch, reply>>
     ELSE SyncIdle
  /\ UNCHANGED <<fileVars, enqVars, requests, recvVars, faults>>

\* build_sync_request reads the checkpoint once more for the base fields,
\* and the transport puts the body on the wire.
Send ==
  /\ syncPc = "checked"
  /\ batch' = [batch EXCEPT !.base = meta.ackSequence]
  /\ requests' = requests \cup {batch'}
  /\ syncPc' = "waiting"
  /\ UNCHANGED <<fileVars, enqVars, reply, recvVars, faults>>

\* Mutant: a request that left is taken for a request that arrived.
SentIsEnough == syncPc = "waiting"

\* The response names the last record of the batch.
ReplyMatches == /\ reply.hash = batch.last
                /\ reply.sequence = log[batch.last].sequence

\* Timeout, refused connection, lost response, HTTP error or a response for
\* another record: FAILED or REJECTED, and nothing is acknowledged.
CallFails ==
  /\ syncPc = "waiting"
  /\ ~ReplyMatches
  /\ SyncIdle
  /\ UNCHANGED <<fileVars, enqVars, requests, recvVars, faults>>

\* acknowledge, first write: the ids of the batch go to the .acks file.
AcknowledgeAppend ==
  /\ syncPc = "waiting"
  /\ LockFree
  /\ ReplyMatches
  /\ acks' = acks \cup {log[i].id : i \in batch.records}
  /\ syncPc' = "acked"
  /\ UNCHANGED <<log, torn, unreadable, meta, enqVars, batch, reply, requests,
                 recvVars, faults>>

\* acknowledge, second write: the new checkpoint goes to the metadata.
AcknowledgeMeta ==
  /\ syncPc = "acked"
  /\ \E c \in 0..Len(log), h \in 0..Len(log) :
       /\ IsCheckpoint(c, h)
       /\ meta' = [meta EXCEPT !.ackSequence = c, !.ackHash = h]
  /\ SyncIdle
  /\ UNCHANGED <<log, torn, unreadable, acks, enqVars, requests, recvVars,
                 faults>>

\* _write_meta raises inside acknowledge; the worker counts a failure.
AcknowledgeMetaFails ==
  /\ syncPc = "acked"
  /\ Fault
  /\ SyncIdle
  /\ UNCHANGED <<fileVars, enqVars, requests, recvVars>>

\* The edge process dies and starts again: files and network survive.
Crash ==
  /\ Fault
  /\ enqPc' = "idle" /\ enqMeta' = FreshMeta
  /\ SyncIdle
  /\ UNCHANGED <<fileVars, requests, recvVars>>
-----------------------------------------------------------------------------
BatchId(b) == <<log[b.first].sequence, b.last>>
SameBatch(b) == {r \in receipts : BatchId(r) = BatchId(b)}

\* The receiver's answer reaches the call that waits for this body, or is
\* lost.
Respond(b, answer) ==
  /\ \/ UNCHANGED reply
     \/ /\ syncPc = "waiting" /\ batch = b
        /\ reply' = answer
  /\ UNCHANGED <<syncPc, batch>>

\* ingest_batch with a batch id not seen before: continuity is verified and
\* events, receipt and device row are written in one transaction.  The
\* uniqueness constraints of edge_sync_events would roll it back.
IngestNew(b) ==
  /\ status = "active"
  /\ SameBatch(b) = {}
  /\ VerifySyncBatch(b.records, devSequence, devHash)
  /\ \A i \in b.records, k \in received :
       /\ log[i].id # log[k].id
       /\ log[i].sequence # log[k].sequence
  /\ received' = received \cup b.records
  /\ receipts' = receipts \cup {b}
  /\ devSequence' = log[b.last].sequence
  /\ devHash' = b.last
  /\ Respond(b, [sequence |-> log[b.last].sequence, hash |-> b.last])
  /\ UNCHANGED <<fileVars, enqVars, requests, status, faults>>

\* Mutant: a stored receipt answers before the device status is read.
IngestRepeatUnguarded(b) ==
  /\ b \in receipts
  /\ Respond(b, [sequence |-> log[b.last].sequence, hash |-> b.last])
  /\ UNCHANGED <<fileVars, enqVars, requests, recvVars, faults>>

\* ingest_batch with a batch id and a body checksum already stored: the
\* stored receipt answers and nothing is written.
IngestRepeat(b) ==
  /\ status = "active"
  /\ b \in receipts
  /\ Respond(b, [sequence |-> log[b.last].sequence, hash |-> b.last])
  /\ UNCHANGED <<fileVars, enqVars, requests, recvVars, faults>>

\* set_device_status: the status changes, the chain position does not.
SetDeviceStatus(s) ==
  /\ status # s
  /\ status' = s
  /\ UNCHANGED <<fileVars, enqVars, syncVars, requests, devSequence, devHash,
                 received, receipts, faults>>
-----------------------------------------------------------------------------
SyncStep == \/ VerifyChain \/ ReadPending \/ VerifyBatch \/ Send
            \/ CallFails \/ AcknowledgeAppend \/ AcknowledgeMeta

ReceiverStep == \/ \E b \in requests : IngestNew(b) \/ IngestRepeat(b)
                \/ \E s \in Statuses : SetDeviceStatus(s)

Next == \/ \E e \in Events : EnqueueAppend(e) \/ EnqueueTears(e)
        \/ EnqueueWriteMeta \/ EnqueueMetaFails
        \/ SyncStep \/ AcknowledgeMetaFails \/ Crash
        \/ ReceiverStep

Spec == Init /\ [][Next]_vars

\* EdgeSyncWorker loops for ever, enqueue runs to its end, a call ends at its
\* timeout, and the network does not lose every answer to a repeated call.
Answered == \E b \in requests : /\ IngestNew(b) \/ IngestRepeat(b)
                                /\ reply' # reply

Fairness == /\ WF_vars(EnqueueWriteMeta)
            /\ WF_vars(SyncStep)
            /\ SF_vars(Answered)

FairSpec == Spec /\ Fairness
-----------------------------------------------------------------------------
Record == [id : Events, sequence : Nat \ {0}, previousHash : Hashes]
Meta   == [nextSequence : Nat \ {0}, previousHash : Hashes,
           ackSequence : Nat, ackHash : Nat]
Batch  == [first : Nat, last : Nat, base : Nat, records : SUBSET Nat]

\* The state of the edge files, of both threads and of the receiver keeps its
\* shape, and positions named anywhere are positions of the log.
TypeOK ==
  /\ log \in Seq(Record)
  /\ torn \in BOOLEAN /\ unreadable \in BOOLEAN
  /\ acks \subseteq Events
  /\ meta \in Meta
  /\ enqPc \in {"idle", "appended"} /\ enqMeta \in Meta
  /\ syncPc \in {"idle", "verified", "read", "checked", "waiting", "acked"}
  /\ batch \in Batch /\ batch.records \subseteq Positions
  /\ syncPc \in {"read", "checked", "waiting", "acked"}
       => batch.first \in batch.records /\ batch.last \in batch.records
  /\ reply \in [sequence : Nat, hash : Nat]
  /\ requests \subseteq Batch
  /\ \A b \in requests : /\ b.records \subseteq Positions
                         /\ b.first \in b.records /\ b.last \in b.records
  /\ status \in Statuses
  /\ devSequence \in Nat /\ devHash \in Nat
  /\ received \subseteq Positions
  /\ receipts \subseteq requests
  /\ faults \in 0..MaxFaults

\* ingest_batch: whatever is delayed, repeated, torn or crashed on the edge,
\* the events stored are the first records of the edge log, none skipped and
\* none out of place, and the device row points at the last of them.
ReceivedIsLogPrefix ==
  /\ received = 1..devSequence
  /\ devHash = devSequence
  /\ \A k \in received : log[k].sequence = k

\* sync_once and acknowledge: the edge never takes an event for delivered
\* that the receiver has not stored, so no event is dropped from both sides.
AcknowledgedIsReceived ==
  \A i \in Positions : log[i].id \in acks => i \in received

\* checkpoint: the sequence the edge sends as its base is one the receiver
\* has reached, so the metadata never runs ahead of the control plane.
CheckpointNotAhead == meta.ackSequence <= devSequence

\* set_device_status: while a device is not active nothing it sends changes
\* the receiver's tables or is answered as accepted, new or repeated.
InactiveIsBlocked ==
  [][status # "active" => /\ UNCHANGED <<devSequence, devHash, received,
                                         receipts>>
                          /\ reply' \in {reply, NoReply}]_vars

\* The event ids of the log, in file order.
Queued == [i \in 1..Len(log) |-> log[i].id]

\* Rows, as positions of the log l, read in the order of their sequence
\* numbers 1..n: what edge_sync_events holds.
InOrder(l, n, rows) ==
  [k \in 1..n |-> l[CHOOSE i \in rows : l[i].sequence = k].id]
Delivered == InOrder(log, devSequence, received)

Abstract == INSTANCE OrderedDelivery
              WITH queued <- Queued, delivered <- Delivered

\* The three parts together deliver the edge's queue exactly once, in order.
ImplementsOrderedDelivery == Abstract!Spec
-----------------------------------------------------------------------------
\* A body cuts the log: it begins at its first record, ends at its last, and
\* leaves out before its end only records that are acknowledged.
IsCut(b) == /\ IsFirst(b.first, b.records)
            /\ IsLast(b.last, b.records)
            /\ \A j \in 1..b.last : j \in b.records \/ log[j].id \in acks

\* enqueue never logs an event id that the log shows already.
EventIdsDistinct == \A i, j \in Positions : log[i].id = log[j].id => i = j

\* Every body sent, and the one sync_once is working on, cuts the log.
BodiesCutLog ==
  /\ \A b \in requests : IsCut(b)
  /\ syncPc \in {"read", "checked", "waiting", "acked"} => IsCut(batch)

\* What a stored receipt or a response confirms is stored, and a response is
\* there only during a call.
ConfirmedIsReceived ==
  /\ syncPc \notin {"waiting", "acked"} => reply = NoReply
  /\ \A b \in receipts : b.records \subseteq received
  /\ reply.hash # NoHash => batch.records \subseteq received

\* The inductive invariant: the safety properties and what they rest on.
IInv ==
  /\ TypeOK
  /\ ReceivedIsLogPrefix
  /\ AcknowledgedIsReceived
  /\ CheckpointNotAhead
  /\ EventIdsDistinct
  /\ acks \subseteq EventIds
  /\ BodiesCutLog
  /\ ConfirmedIsReceived
  /\ enqMeta.ackSequence = 0
=============================================================================
