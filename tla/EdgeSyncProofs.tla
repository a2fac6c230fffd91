--------------------------- MODULE EdgeSyncProofs ---------------------------
(***************************************************************************)
(* Proofs about EdgeSync, for every set of events, every batch size and    *)
(* every number of faults.                                                 *)
(***************************************************************************)
EXTENDS EdgeSync, FiniteSetTheorems, SequenceTheorems, TLAPS

\* How many numbers lie strictly between two numbers.
LEMMA IntervalSize ==
  ASSUME NEW m \in Nat, NEW k \in Nat, k > m
  PROVE  Cardinality((m + 1)..(k - 1)) = k - 1 - m
<1>1. \A a, c \in Int : Cardinality(a..c) = IF a > c THEN 0 ELSE c - a + 1
  BY FS_Interval
<1>2. m + 1 \in Int /\ k - 1 \in Int
  OBVIOUS
<1>3. Cardinality((m + 1)..(k - 1))
        = IF m + 1 > k - 1 THEN 0 ELSE (k - 1) - (m + 1) + 1
  BY <1>1, <1>2, Zenon
<1>4. QED
  BY <1>3

\* A body that cuts the log and that ingest_batch finds continuous holds just
\* the records after the stored ones, in the places their numbers name.
LEMMA ContinuousCutIsNext ==
  ASSUME IInv, NEW b \in requests,
         VerifySyncBatch(b.records, devSequence, devHash)
  PROVE  /\ b.records = (devSequence + 1)..b.last
         /\ \A k \in b.records : log[k].sequence = k
         /\ b.last \in Positions /\ b.last > devSequence
<1>1. /\ b.records \subseteq Positions
      /\ b.first \in b.records /\ b.last \in b.records
      /\ b.first \in Nat /\ b.last \in Nat /\ b.last \in Positions
      /\ Len(log) \in Nat /\ devSequence \in Nat
      /\ \A i \in b.records : i \in Nat /\ b.first <= i /\ i <= b.last
  BY DEF IInv, BodiesCutLog, TypeOK, Positions, IsCut, IsFirst, IsLast, Batch
<1>2. \A j \in 1..b.last : j \in b.records \/ j <= devSequence
  BY <1>1 DEF IInv, BodiesCutLog, IsCut, AcknowledgedIsReceived, ReceivedIsLogPrefix,
              Positions
<1>3. log[b.first].sequence = devSequence + 1
  <2>1. {j \in b.records : j < b.first} = {}
    BY <1>1
  <2>2. log[b.first].sequence
          = devSequence + Cardinality({j \in b.records : j < b.first}) + 1
    BY <1>1 DEF VerifySyncBatch
  <2>3. Cardinality({j \in b.records : j < b.first}) = 0
    BY <2>1, FS_EmptySet
  <2>4. QED
    BY <1>1, <2>2, <2>3
<1>4. b.first > devSequence
  BY <1>1, <1>3 DEF IInv, ReceivedIsLogPrefix, Positions
<1>5. b.records = (devSequence + 1)..b.last
  <2>1. ASSUME NEW k \in b.records
        PROVE  k \in (devSequence + 1)..b.last
    BY <1>1, <1>4
  <2>2. ASSUME NEW k \in (devSequence + 1)..b.last
        PROVE  k \in b.records
    BY <1>1, <1>2
  <2>3. QED
    BY <2>1, <2>2
<1>6. ASSUME NEW k \in b.records
      PROVE  log[k].sequence = k
  <2>1. {j \in b.records : j < k} = (devSequence + 1)..(k - 1)
    BY <1>1, <1>5
  <2>2. Cardinality((devSequence + 1)..(k - 1)) = k - 1 - devSequence
    <3>1. /\ devSequence + 1 \in Int /\ k - 1 \in Int
          /\ devSequence \in Nat /\ k \in Nat /\ k > devSequence
      BY <1>1, <1>4
    <3>2. QED
      BY <3>1, IntervalSize
  <2>3. log[k].sequence
          = devSequence + Cardinality({j \in b.records : j < k}) + 1
    BY DEF VerifySyncBatch
  <2>4. Cardinality({j \in b.records : j < k}) = k - 1 - devSequence
    BY <2>1, <2>2
  <2>5. QED
    BY <1>1, <2>3, <2>4
<1>7. QED
  BY <1>1, <1>4, <1>5, <1>6

\* The record a body ends with is in the log.
LEMMA BodyEndsInLog ==
  ASSUME TypeOK, NEW b \in requests
  PROVE  b.last \in Nat /\ log[b.last].sequence \in Nat
<1>1. b.last \in 1..Len(log)
  BY DEF TypeOK, Positions
<1>2. log[b.last] \in Record
  BY <1>1 DEF TypeOK
<1>3. QED
  BY <1>1, <1>2 DEF Record, TypeOK

\* The records of EdgeSync have the fields their types say, and every step
\* keeps them so: the typing half of the inductive invariant.
LEMMA TypeStep == TypeOK /\ [Next]_vars => TypeOK'
<1> SUFFICES ASSUME TypeOK, [Next]_vars
             PROVE  TypeOK'
  OBVIOUS
<1> USE DEF Positions, Hashes, NoHash, LostHash
<1>1. ASSUME NEW e \in Events, EnqueueAppend(e)
      PROVE  TypeOK'
  <2> DEFINE record == [id |-> e, sequence |-> meta.nextSequence,
                        previousHash |-> meta.previousHash]
  <2>1. record \in Record
    BY DEF TypeOK, Meta, Record
  <2>2. log' \in Seq(Record) /\ Len(log) \in Nat /\ Len(log') >= Len(log)
    BY <1>1, <2>1 DEF EnqueueAppend, TypeOK
  <2>3. enqMeta' \in Meta
    BY <1>1, <2>2 DEF EnqueueAppend, TypeOK, Meta, FreshMeta
  <2>4. Positions \subseteq Positions'
    BY <2>2
  <2>5. QED
    BY <1>1, <2>2, <2>3, <2>4
       DEF EnqueueAppend, TypeOK, syncVars, recvVars, LockFree
<1>2. ASSUME NEW e \in Events, EnqueueTears(e)
      PROVE  TypeOK'
  BY <1>2, MaxFaultsAssumption
     DEF EnqueueTears, Fault, TypeOK, enqVars, syncVars, recvVars
<1>3. CASE EnqueueWriteMeta
  BY <1>3 DEF EnqueueWriteMeta, TypeOK, Meta, FreshMeta, syncVars, recvVars
<1>4. CASE EnqueueMetaFails
  BY <1>4, MaxFaultsAssumption
     DEF EnqueueMetaFails, Fault, TypeOK, Meta, FreshMeta, fileVars, syncVars,
         recvVars
<1>5. CASE VerifyChain
  BY <1>5 DEF VerifyChain, TypeOK, fileVars, enqVars, recvVars
<1>6. CASE ReadPending
  <2>1. CASE SyncIdle
    BY <1>6, <2>1 DEF ReadPending, SyncIdle, TypeOK, Batch, NoBatch, NoReply,
                      fileVars, enqVars, recvVars
  <2>2. CASE ~SyncIdle
    <3>1. PICK first \in Pending, last \in Pending :
            /\ IsFirst(first, Pending)
            /\ batch' = [first |-> first, last |-> last, base |-> 0,
                         records |-> {i \in Pending : i <= last}]
            /\ syncPc' = "read" /\ UNCHANGED reply
      BY <1>6, <2>2 DEF ReadPending
    <3>2. /\ Pending \subseteq Positions
          /\ first \in {i \in Pending : i <= last}
          /\ last \in {i \in Pending : i <= last}
          /\ first \in Nat /\ last \in Nat
      BY <3>1 DEF Pending, IsFirst
    <3>3. {i \in Pending : i <= last} \subseteq Positions
      BY <3>2
    <3>4. batch' \in Batch
      <4>1. {i \in Pending : i <= last} \in SUBSET Nat
        BY <3>3
      <4>2. QED
        BY <3>1, <3>2, <4>1 DEF Batch
    <3>5. QED
      BY <1>6, <3>1, <3>2, <3>3, <3>4
         DEF ReadPending, TypeOK, fileVars, enqVars, recvVars
  <2>3. QED
    BY <2>1, <2>2
<1>7. CASE VerifyBatch
  BY <1>7 DEF VerifyBatch, SyncIdle, TypeOK, Batch, NoBatch, NoReply, fileVars,
              enqVars, recvVars
<1>8. CASE Send
  BY <1>8 DEF Send, TypeOK, Batch, Meta, fileVars, enqVars, recvVars
<1>9. CASE CallFails
  BY <1>9 DEF CallFails, SyncIdle, TypeOK, Batch, NoBatch, NoReply, fileVars,
              enqVars, recvVars
<1>10. CASE AcknowledgeAppend
  <2>1. ASSUME NEW i \in Positions
        PROVE  log[i].id \in Events
    <3>1. log[i] \in Record
      BY DEF TypeOK
    <3>2. QED
      BY <3>1 DEF Record
  <2>2. acks' \subseteq Events
    BY <1>10, <2>1 DEF AcknowledgeAppend, TypeOK
  <2>3. QED
    BY <1>10, <2>2 DEF AcknowledgeAppend, TypeOK, enqVars, recvVars
<1>11. CASE AcknowledgeMeta
  <2>1. PICK c \in 0..Len(log), h \in 0..Len(log) :
          meta' = [meta EXCEPT !.ackSequence = c, !.ackHash = h]
    BY <1>11 DEF AcknowledgeMeta
  <2>2. meta' \in Meta
    <3>1. meta \in Meta /\ c \in Nat /\ h \in Nat
      BY DEF TypeOK
    <3>2. QED
      BY <2>1, <3>1 DEF Meta
  <2>3. QED
    BY <1>11, <2>2 DEF AcknowledgeMeta, SyncIdle, TypeOK, Batch, NoBatch,
                       NoReply, enqVars, recvVars
<1>12. CASE AcknowledgeMetaFails
  BY <1>12, MaxFaultsAssumption
     DEF AcknowledgeMetaFails, Fault, SyncIdle, TypeOK, Batch, NoBatch,
         NoReply, fileVars, enqVars, recvVars
<1>13. CASE Crash
  BY <1>13, MaxFaultsAssumption
     DEF Crash, Fault, SyncIdle, TypeOK, Meta, FreshMeta, Batch, NoBatch,
         NoReply, fileVars, recvVars
<1>14. ASSUME NEW b \in requests, IngestNew(b)
       PROVE  TypeOK'
  <2>1. b.last \in Nat /\ log[b.last].sequence \in Nat
    BY BodyEndsInLog
  <2>2. received' \subseteq Positions /\ receipts' \subseteq requests
    BY <1>14 DEF IngestNew, TypeOK
  <2>3. reply' \in [sequence : Nat, hash : Nat]
    BY <1>14, <2>1 DEF IngestNew, Respond, TypeOK
  <2>4. QED
    BY <1>14, <2>1, <2>2, <2>3
       DEF IngestNew, Respond, TypeOK, fileVars, enqVars
<1>15. ASSUME NEW b \in requests, IngestRepeat(b)
       PROVE  TypeOK'
  <2>1. b.last \in Nat /\ log[b.last].sequence \in Nat
    BY BodyEndsInLog
  <2>2. QED
    BY <1>15, <2>1
       DEF IngestRepeat, Respond, TypeOK, fileVars, enqVars, recvVars
<1>16. ASSUME NEW s \in Statuses, SetDeviceStatus(s)
       PROVE  TypeOK'
  BY <1>16 DEF SetDeviceStatus, TypeOK, fileVars, enqVars, syncVars
<1>17. CASE UNCHANGED vars
  BY <1>17 DEF vars, fileVars, enqVars, syncVars, recvVars, TypeOK
<1>18. QED
  BY <1>1, <1>2, <1>3, <1>4, <1>5, <1>6, <1>7, <1>8, <1>9, <1>10, <1>11,
     <1>12, <1>13, <1>14, <1>15, <1>16, <1>17
     DEF Next, SyncStep, ReceiverStep

\* The initial files, threads and tables have their types.
LEMMA InitTypeOK == Init => TypeOK
<1> SUFFICES ASSUME Init
             PROVE  TypeOK
  OBVIOUS
<1>1. log = <<>> /\ Positions = {}
  BY DEF Init, Positions
<1>2. FreshMeta \in Meta /\ NoBatch \in Batch
  BY DEF FreshMeta, Meta, NoBatch, Batch, NoHash, Hashes
<1>3. NoReply \in [sequence : Nat, hash : Nat] /\ NoBatch.records = {}
  BY DEF NoReply, NoBatch, NoHash
<1>4. log \in Seq(Record)
  BY <1>1
<1>5. /\ requests = {} /\ receipts = {} /\ received = {} /\ acks = {}
      /\ batch = NoBatch /\ reply = NoReply /\ syncPc = "idle"
      /\ meta = FreshMeta /\ enqMeta = FreshMeta /\ enqPc = "idle"
      /\ torn = FALSE /\ unreadable = FALSE /\ status \in Statuses
      /\ devSequence \in Nat /\ devHash \in Nat /\ faults \in 0..MaxFaults
  BY MaxFaultsAssumption DEF Init, NoHash, Statuses
<1>6. QED
  BY <1>1, <1>2, <1>3, <1>4, <1>5 DEF TypeOK

\* TypeOK holds in every state: no step of the edge, the network or the
\* receiver names a record that the log does not hold.
THEOREM TypeCorrect == Spec => []TypeOK
  BY InitTypeOK, TypeStep, PTL DEF Spec
-----------------------------------------------------------------------------
\* Steps that write neither the log nor the acknowledged ids nor the tables of
\* the receiver: it is enough that the bodies still cut the log and that no
\* response appears.
LEMMA QuietStep ==
  ASSUME IInv, TypeOK', BodiesCutLog', UNCHANGED <<log, acks, received>>,
         UNCHANGED <<receipts, devSequence, devHash>>,
         meta'.ackSequence <= devSequence, enqMeta'.ackSequence = 0,
         reply' = NoReply \/ UNCHANGED <<syncPc, batch, reply>>
  PROVE  IInv'
<1>1. ConfirmedIsReceived'
  BY DEF IInv, ConfirmedIsReceived, NoReply, NoHash
<1>2. ReceivedIsLogPrefix' /\ AcknowledgedIsReceived' /\ CheckpointNotAhead'
  BY DEF IInv, ReceivedIsLogPrefix, AcknowledgedIsReceived,
         CheckpointNotAhead, Positions
<1>3. EventIdsDistinct' /\ (acks \subseteq EventIds)'
  BY DEF IInv, EventIdsDistinct, EventIds, Positions
<1>4. QED
  BY <1>1, <1>2, <1>3 DEF IInv

\* enqueue keeps the invariant: a new record comes after everything stored,
\* acknowledged or sent, under an id the log does not hold.
LEMMA EnqueueAppendStep ==
  ASSUME IInv, TypeOK', NEW e \in Events, EnqueueAppend(e)
  PROVE  IInv'
<1>1. /\ Len(log) \in Nat
      /\ Positions \subseteq Positions'
      /\ \A i \in Positions : log'[i] = log[i]
      /\ \A i \in Positions' \ Positions : log'[i].id = e
      /\ \A i, j \in Positions' \ Positions : i = j
  <2>1. log \in Seq(Record)
    BY DEF IInv, TypeOK
  <2>2. CASE torn
    BY <2>1, <2>2 DEF EnqueueAppend, Positions
  <2>3. CASE ~torn
    <3>1. log' = Append(log, [id |-> e, sequence |-> meta.nextSequence,
                              previousHash |-> meta.previousHash])
      BY <2>3 DEF EnqueueAppend
    <3>2. QED
      BY <2>1, <3>1 DEF Positions
  <2>4. QED
    BY <2>2, <2>3
<1>2. UNCHANGED <<acks, meta, syncPc, batch, reply, requests, devSequence,
                  devHash, received, receipts>>
  BY DEF EnqueueAppend, syncVars, recvVars
<1>3. e \notin EventIds
  BY DEF EnqueueAppend
<1>4. ReceivedIsLogPrefix' /\ CheckpointNotAhead' /\ ConfirmedIsReceived'
  BY <1>1, <1>2 DEF IInv, TypeOK, ReceivedIsLogPrefix, CheckpointNotAhead,
                    ConfirmedIsReceived
<1>5. AcknowledgedIsReceived' /\ EventIdsDistinct'
  BY <1>1, <1>2, <1>3 DEF IInv, AcknowledgedIsReceived, EventIdsDistinct,
                          EventIds
<1>6. (acks \subseteq EventIds)'
  BY <1>1, <1>2 DEF IInv, EventIds
<1>7. BodiesCutLog'
  <2>1. ASSUME NEW b, IsCut(b), b.last \in Positions
        PROVE  IsCut(b)'
    BY <1>1, <1>2, <2>1 DEF IsCut, IsFirst, IsLast, Positions
  <2>2. QED
    BY <1>2, <2>1 DEF IInv, TypeOK, BodiesCutLog
<1>8. enqMeta'.ackSequence = 0
  BY DEF EnqueueAppend
<1>9. QED
  BY <1>4, <1>5, <1>6, <1>7, <1>8 DEF IInv

\* ReadPending keeps the invariant: the first pending records cut the log.
LEMMA ReadPendingStep ==
  ASSUME IInv, TypeOK', ReadPending
  PROVE  IInv'
<1>1. UNCHANGED <<log, acks, meta, enqMeta, requests, received, receipts,
                  devSequence, devHash>>
  BY DEF ReadPending, fileVars, enqVars, recvVars
<1>2. BodiesCutLog'
  <2>1. \A b \in requests' : IsCut(b)'
    BY <1>1 DEF IInv, BodiesCutLog, IsCut, IsFirst, IsLast
  <2>2. CASE SyncIdle
    BY <2>1, <2>2 DEF SyncIdle, BodiesCutLog
  <2>3. CASE ~SyncIdle
    <3>1. PICK first \in Pending, last \in Pending :
            /\ IsFirst(first, Pending)
            /\ batch' = [first |-> first, last |-> last, base |-> 0,
                         records |-> {i \in Pending : i <= last}]
      BY <2>3 DEF ReadPending
    <3>2. /\ Pending \subseteq Positions /\ first \in Nat /\ last \in Nat
          /\ last \in Positions /\ Len(log) \in Nat
      BY DEF Pending, Positions, IInv, TypeOK
    <3>3. IsFirst(first, {i \in Pending : i <= last})
          /\ IsLast(last, {i \in Pending : i <= last})
      BY <3>1, <3>2 DEF IsFirst, IsLast, Positions
    <3>4. \A j \in 1..last : j \in {i \in Pending : i <= last}
                             \/ log[j].id \in acks
      BY <3>2 DEF Pending, Positions
    <3>5. IsCut(batch)'
      BY <1>1, <3>1, <3>3, <3>4 DEF IsCut, IsFirst, IsLast
    <3>6. QED
      BY <2>1, <3>5 DEF BodiesCutLog
  <2>4. QED
    BY <2>2, <2>3
<1>3. reply' = NoReply
  BY DEF ReadPending, SyncIdle, IInv, ConfirmedIsReceived
<1>4. QED
  BY <1>1, <1>2, <1>3, QuietStep DEF IInv, CheckpointNotAhead

\* Send keeps the invariant: the body that leaves is the batch with its base.
LEMMA SendStep ==
  ASSUME IInv, TypeOK', Send
  PROVE  IInv'
<1>1. UNCHANGED <<log, acks, meta, enqMeta, reply, received, receipts,
                  devSequence, devHash>>
  BY DEF Send, fileVars, enqVars, recvVars
<1>2. BodiesCutLog'
  <2>1. /\ IsCut(batch)
        /\ batch'.records = batch.records
        /\ batch'.first = batch.first /\ batch'.last = batch.last
    BY DEF Send, IInv, BodiesCutLog, TypeOK, Batch
  <2>2. IsCut(batch)'
    BY <1>1, <2>1 DEF IsCut, IsFirst, IsLast
  <2>3. ASSUME NEW b \in requests
        PROVE  IsCut(b)'
    BY <1>1 DEF IInv, BodiesCutLog, IsCut, IsFirst, IsLast
  <2>4. requests' = requests \cup {batch'}
    BY DEF Send
  <2>5. ASSUME NEW b \in requests'
        PROVE  IsCut(b)'
    <3>1. CASE b \in requests
      BY <2>3, <3>1
    <3>2. CASE b = batch'
      BY <2>2, <3>2 DEF IsCut, IsFirst, IsLast
    <3>3. QED
      BY <2>4, <3>1, <3>2
  <2>6. QED
    BY <2>2, <2>5 DEF BodiesCutLog
<1>3. reply' = NoReply
  BY <1>1 DEF Send, IInv, ConfirmedIsReceived
<1>4. QED
  BY <1>1, <1>2, <1>3, QuietStep DEF IInv, CheckpointNotAhead

\* acknowledge, first write: the response proves that the batch is stored, so
\* every id that becomes acknowledged names a stored event.
LEMMA AcknowledgeAppendStep ==
  ASSUME IInv, TypeOK', AcknowledgeAppend
  PROVE  IInv'
<1>1. /\ UNCHANGED <<log, meta, enqMeta, batch, reply, requests, received,
                     receipts, devSequence, devHash>>
      /\ syncPc = "waiting" /\ syncPc' = "acked"
      /\ acks' = acks \cup {log[i].id : i \in batch.records}
  BY DEF AcknowledgeAppend, enqVars, recvVars
<1>2. /\ batch.records \subseteq received
      /\ batch.records \subseteq Positions
  <2>1. batch.last \in Positions /\ reply.hash = batch.last
    BY DEF AcknowledgeAppend, ReplyMatches, IInv, TypeOK
  <2>2. reply.hash # NoHash
    BY <2>1 DEF Positions, NoHash, IInv, TypeOK
  <2>3. QED
    BY <2>2 DEF IInv, ConfirmedIsReceived, TypeOK
<1>3. AcknowledgedIsReceived'
  <2>1. ASSUME NEW i \in Positions, log[i].id \in acks'
        PROVE  i \in received
    <3>1. CASE log[i].id \in acks
      BY <3>1 DEF IInv, AcknowledgedIsReceived
    <3>2. CASE \E j \in batch.records : log[i].id = log[j].id
      BY <1>2, <3>2 DEF IInv, EventIdsDistinct
    <3>3. QED
      BY <1>1, <2>1, <3>1, <3>2
  <2>2. QED
    BY <1>1, <2>1 DEF AcknowledgedIsReceived, Positions
<1>4. (acks \subseteq EventIds)'
  BY <1>1, <1>2 DEF IInv, EventIds, Positions
<1>5. BodiesCutLog'
  <2>1. ASSUME NEW b, IsCut(b)
        PROVE  IsCut(b)'
    BY <1>1, <2>1 DEF IsCut, IsFirst, IsLast
  <2>2. QED
    BY <1>1, <2>1 DEF IInv, BodiesCutLog
<1>6. ReceivedIsLogPrefix' /\ CheckpointNotAhead' /\ EventIdsDistinct'
      /\ ConfirmedIsReceived'
  BY <1>1 DEF IInv, ReceivedIsLogPrefix, CheckpointNotAhead, EventIdsDistinct,
              ConfirmedIsReceived, Positions
<1>7. QED
  BY <1>1, <1>3, <1>4, <1>5, <1>6 DEF IInv

\* acknowledge, second write: the checkpoint ends at an acknowledged record,
\* hence at a stored one.
LEMMA AcknowledgeMetaStep ==
  ASSUME IInv, TypeOK', AcknowledgeMeta
  PROVE  IInv'
<1>1. /\ UNCHANGED <<log, acks, enqMeta, requests, received, receipts,
                     devSequence, devHash>>
      /\ SyncIdle
  BY DEF AcknowledgeMeta, enqVars, recvVars
<1>2. PICK c \in 0..Len(log), h \in 0..Len(log) :
        /\ IsCheckpoint(c, h)
        /\ meta' = [meta EXCEPT !.ackSequence = c, !.ackHash = h]
  BY DEF AcknowledgeMeta
<1>3. c <= devSequence
  <2>1. c \in Nat /\ devSequence \in Nat
    BY DEF IInv, TypeOK
  <2>2. CASE c = 0
    BY <2>1, <2>2
  <2>3. CASE c > 0
    <3>1. PICK i \in Positions : log[i].sequence = c /\ log[i].id \in acks
      <4>1. c \in 1..c
        BY <2>1, <2>3
      <4>2. QED
        BY <1>2, <4>1 DEF IsCheckpoint, AckedUpTo, WithSequence
    <3>2. i \in received
      BY <3>1 DEF IInv, AcknowledgedIsReceived
    <3>3. QED
      BY <2>1, <3>1, <3>2 DEF IInv, ReceivedIsLogPrefix
  <2>4. QED
    BY <2>1, <2>2, <2>3
<1>4. meta'.ackSequence <= devSequence
  BY <1>2, <1>3 DEF IInv, TypeOK, Meta
<1>5. BodiesCutLog'
  BY <1>1 DEF SyncIdle, IInv, BodiesCutLog, IsCut, IsFirst, IsLast
<1>6. QED
  BY <1>1, <1>4, <1>5, QuietStep DEF SyncIdle, IInv

\* ingest_batch keeps the invariant: a continuous body is the next stretch of
\* the log.
LEMMA IngestNewStep ==
  ASSUME IInv, TypeOK', NEW b \in requests, IngestNew(b)
  PROVE  IInv'
<1>1. /\ UNCHANGED <<log, acks, meta, enqMeta, syncPc, batch, requests>>
      /\ received' = received \cup b.records
      /\ receipts' = receipts \cup {b}
      /\ devSequence' = log[b.last].sequence /\ devHash' = b.last
      /\ reply' = reply \/ (syncPc = "waiting" /\ batch = b)
  BY DEF IngestNew, Respond, fileVars, enqVars
<1>2. /\ b.records = (devSequence + 1)..b.last
      /\ \A k \in b.records : log[k].sequence = k
      /\ b.last \in Positions /\ b.last > devSequence
      /\ b.last \in b.records
  BY ContinuousCutIsNext DEF IngestNew, IInv, TypeOK
<1>3. devSequence \in Nat /\ b.last \in Nat /\ devSequence' = b.last
  BY <1>1, <1>2 DEF IInv, TypeOK, Positions
<1>4. ReceivedIsLogPrefix'
  <2>1. received' = 1..b.last
    BY <1>1, <1>2, <1>3 DEF IInv, ReceivedIsLogPrefix
  <2>2. QED
    BY <1>1, <1>2, <1>3, <2>1 DEF IInv, ReceivedIsLogPrefix
<1>5. CheckpointNotAhead'
  BY <1>1, <1>2, <1>3 DEF IInv, CheckpointNotAhead, TypeOK, Meta
<1>6. AcknowledgedIsReceived' /\ EventIdsDistinct' /\ (acks \subseteq EventIds)'
  BY <1>1 DEF IInv, AcknowledgedIsReceived, EventIdsDistinct, EventIds,
              Positions
<1>7. BodiesCutLog'
  BY <1>1 DEF IInv, BodiesCutLog, IsCut, IsFirst, IsLast
<1>8. ConfirmedIsReceived'
  BY <1>1 DEF IInv, ConfirmedIsReceived
<1>9. QED
  BY <1>1, <1>4, <1>5, <1>6, <1>7, <1>8 DEF IInv

\* Every step keeps the inductive invariant, one case per action of Next.
LEMMA InvariantStep == IInv /\ [Next]_vars => IInv'
<1> SUFFICES ASSUME IInv, [Next]_vars
             PROVE  IInv'
  OBVIOUS
<1>0. TypeOK'
  BY TypeStep DEF IInv
<1>1. ASSUME NEW e \in Events, EnqueueAppend(e)
      PROVE  IInv'
  BY <1>0, <1>1, EnqueueAppendStep
<1>2. ASSUME NEW e \in Events, EnqueueTears(e)
      PROVE  IInv'
  <2>1. UNCHANGED <<log, acks, meta, enqMeta, syncPc, batch, reply, requests,
                    received, receipts, devSequence, devHash>>
    BY <1>2 DEF EnqueueTears, enqVars, syncVars, recvVars
  <2>2. BodiesCutLog'
    BY <2>1 DEF IInv, BodiesCutLog, IsCut, IsFirst, IsLast
  <2>3. QED
    BY <1>0, <2>1, <2>2, QuietStep DEF IInv, CheckpointNotAhead
<1>3. CASE EnqueueWriteMeta
  <2>1. /\ UNCHANGED <<log, acks, syncPc, batch, reply, requests, received,
                       receipts, devSequence, devHash>>
        /\ meta' = enqMeta /\ enqMeta' = FreshMeta
    BY <1>3 DEF EnqueueWriteMeta, syncVars, recvVars
  <2>2. BodiesCutLog'
    BY <2>1 DEF IInv, BodiesCutLog, IsCut, IsFirst, IsLast
  <2>3. meta'.ackSequence <= devSequence /\ enqMeta'.ackSequence = 0
    BY <2>1 DEF IInv, TypeOK, FreshMeta
  <2>4. QED
    BY <1>0, <2>1, <2>2, <2>3, QuietStep
<1>4. CASE EnqueueMetaFails
  <2>1. /\ UNCHANGED <<log, acks, meta, syncPc, batch, reply, requests,
                       received, receipts, devSequence, devHash>>
        /\ enqMeta'.ackSequence = 0
    BY <1>4 DEF EnqueueMetaFails, FreshMeta, fileVars, syncVars, recvVars
  <2>2. BodiesCutLog'
    BY <2>1 DEF IInv, BodiesCutLog, IsCut, IsFirst, IsLast
  <2>3. QED
    BY <1>0, <2>1, <2>2, QuietStep DEF IInv, CheckpointNotAhead
<1>5. CASE VerifyChain
  <2>1. /\ UNCHANGED <<log, acks, meta, enqMeta, batch, reply, requests,
                       received, receipts, devSequence, devHash>>
        /\ syncPc = "idle" /\ syncPc' = "verified"
    BY <1>5 DEF VerifyChain, fileVars, enqVars, recvVars
  <2>2. BodiesCutLog'
    BY <2>1 DEF IInv, BodiesCutLog, IsCut, IsFirst, IsLast
  <2>3. reply' = NoReply
    BY <2>1 DEF IInv, ConfirmedIsReceived
  <2>4. QED
    BY <1>0, <2>1, <2>2, <2>3, QuietStep DEF IInv, CheckpointNotAhead
<1>6. CASE ReadPending
  BY <1>0, <1>6, ReadPendingStep
<1>7. CASE VerifyBatch
  <2>1. UNCHANGED <<log, acks, meta, enqMeta, requests, received, receipts,
                    devSequence, devHash>>
    BY <1>7 DEF VerifyBatch, fileVars, enqVars, recvVars
  <2>2. \/ SyncIdle
        \/ syncPc = "read" /\ syncPc' = "checked" /\ UNCHANGED <<batch, reply>>
    BY <1>7 DEF VerifyBatch
  <2>3. BodiesCutLog'
    BY <2>1, <2>2 DEF SyncIdle, IInv, BodiesCutLog, IsCut, IsFirst, IsLast
  <2>4. reply' = NoReply
    BY <2>2 DEF SyncIdle, IInv, ConfirmedIsReceived
  <2>5. QED
    BY <1>0, <2>1, <2>3, <2>4, QuietStep DEF IInv, CheckpointNotAhead
<1>8. CASE Send
  BY <1>0, <1>8, SendStep
<1>9. CASE CallFails \/ AcknowledgeMetaFails
  <2>1. /\ UNCHANGED <<log, acks, meta, enqMeta, requests, received, receipts,
                       devSequence, devHash>>
        /\ SyncIdle
    BY <1>9 DEF CallFails, AcknowledgeMetaFails, fileVars, enqVars, recvVars
  <2>2. BodiesCutLog'
    BY <2>1 DEF SyncIdle, IInv, BodiesCutLog, IsCut, IsFirst, IsLast
  <2>3. QED
    BY <1>0, <2>1, <2>2, QuietStep DEF SyncIdle, IInv, CheckpointNotAhead
<1>10. CASE AcknowledgeAppend
  BY <1>0, <1>10, AcknowledgeAppendStep
<1>11. CASE AcknowledgeMeta
  BY <1>0, <1>11, AcknowledgeMetaStep
<1>12. CASE Crash
  <2>1. /\ UNCHANGED <<log, acks, meta, requests, received, receipts,
                       devSequence, devHash>>
        /\ SyncIdle /\ enqMeta'.ackSequence = 0
    BY <1>12 DEF Crash, FreshMeta, fileVars, recvVars
  <2>2. BodiesCutLog'
    BY <2>1 DEF SyncIdle, IInv, BodiesCutLog, IsCut, IsFirst, IsLast
  <2>3. QED
    BY <1>0, <2>1, <2>2, QuietStep DEF SyncIdle, IInv, CheckpointNotAhead
<1>13. ASSUME NEW b \in requests, IngestNew(b)
       PROVE  IInv'
  BY <1>0, <1>13, IngestNewStep
<1>14. ASSUME NEW b \in requests, IngestRepeat(b)
       PROVE  IInv'
  <2>1. /\ UNCHANGED <<log, acks, meta, enqMeta, syncPc, batch, requests,
                       received, receipts, devSequence, devHash>>
        /\ reply' = reply \/ (syncPc = "waiting" /\ batch = b)
        /\ b \in receipts
    BY <1>14 DEF IngestRepeat, Respond, fileVars, enqVars, recvVars
  <2>2. BodiesCutLog' /\ ConfirmedIsReceived'
    BY <2>1 DEF IInv, BodiesCutLog, ConfirmedIsReceived, IsCut, IsFirst, IsLast
  <2>3. /\ ReceivedIsLogPrefix' /\ AcknowledgedIsReceived'
        /\ CheckpointNotAhead' /\ EventIdsDistinct' /\ (acks \subseteq EventIds)'
    BY <2>1 DEF IInv, ReceivedIsLogPrefix, AcknowledgedIsReceived,
                CheckpointNotAhead, EventIdsDistinct, EventIds, Positions
  <2>4. QED
    BY <1>0, <2>1, <2>2, <2>3 DEF IInv
<1>15. ASSUME NEW s \in Statuses, SetDeviceStatus(s)
       PROVE  IInv'
  <2>1. UNCHANGED <<log, acks, meta, enqMeta, syncPc, batch, reply, requests,
                    received, receipts, devSequence, devHash>>
    BY <1>15 DEF SetDeviceStatus, fileVars, enqVars, syncVars
  <2>2. BodiesCutLog'
    BY <2>1 DEF IInv, BodiesCutLog, IsCut, IsFirst, IsLast
  <2>3. QED
    BY <1>0, <2>1, <2>2, QuietStep DEF IInv, CheckpointNotAhead
<1>16. CASE UNCHANGED vars
  <2>1. UNCHANGED <<log, acks, meta, enqMeta, syncPc, batch, reply, requests,
                    received, receipts, devSequence, devHash>>
    BY <1>16 DEF vars, fileVars, enqVars, syncVars, recvVars
  <2>2. BodiesCutLog'
    BY <2>1 DEF IInv, BodiesCutLog, IsCut, IsFirst, IsLast
  <2>3. QED
    BY <1>0, <2>1, <2>2, QuietStep DEF IInv, CheckpointNotAhead
<1>17. QED
  BY <1>1, <1>2, <1>3, <1>4, <1>5, <1>6, <1>7, <1>8, <1>9, <1>10, <1>11,
     <1>12, <1>13, <1>14, <1>15, <1>16
     DEF Next, SyncStep, ReceiverStep

\* The inductive invariant holds in every state.
THEOREM Invariance == Spec => []IInv
<1>1. Init => IInv
  <2>1. ASSUME Init
        PROVE  TypeOK
    BY <2>1, InitTypeOK
  <2>2. ASSUME Init
        PROVE  /\ ReceivedIsLogPrefix /\ AcknowledgedIsReceived
               /\ CheckpointNotAhead /\ EventIdsDistinct
               /\ acks \subseteq EventIds
               /\ BodiesCutLog /\ ConfirmedIsReceived
               /\ enqMeta.ackSequence = 0
    BY <2>2 DEF Init, ReceivedIsLogPrefix, AcknowledgedIsReceived,
                CheckpointNotAhead, EventIdsDistinct, BodiesCutLog,
                ConfirmedIsReceived, Positions, NoHash, FreshMeta, NoReply
  <2>3. QED
    BY <2>1, <2>2 DEF IInv
<1>2. QED
  BY <1>1, InvariantStep, PTL DEF Spec

\* ReceivedIsLogPrefix: late, repeated and lost calls, torn lines, failed
\* writes and crashes never make the receiver skip or misplace an event.
THEOREM ReceivedIsLogPrefixHolds == Spec => []ReceivedIsLogPrefix
  BY Invariance, PTL DEF IInv

\* AcknowledgedIsReceived: no event is acknowledged on the edge before the
\* receiver has stored it.
THEOREM AcknowledgedIsReceivedHolds == Spec => []AcknowledgedIsReceived
  BY Invariance, PTL DEF IInv

\* CheckpointNotAhead: the base of a request is a sequence the receiver holds.
THEOREM CheckpointNotAheadHolds == Spec => []CheckpointNotAhead
  BY Invariance, PTL DEF IInv

\* InactiveIsBlocked: a revoked or disabled device changes no table of the
\* receiver and gets no acceptance, whatever is still on its way.
THEOREM InactiveIsBlockedHolds == Spec => InactiveIsBlocked
<1> DEFINE Blocked == status # "active" =>
                        /\ UNCHANGED <<devSequence, devHash, received, receipts>>
                        /\ reply' \in {reply, NoReply}
<1>1. [Next]_vars => [Blocked]_vars
  BY DEF Next, vars, fileVars, enqVars, syncVars, recvVars, SyncStep, SyncIdle,
         ReceiverStep, EnqueueAppend, EnqueueTears, EnqueueWriteMeta,
         EnqueueMetaFails, VerifyChain, ReadPending, VerifyBatch, Send,
         CallFails, AcknowledgeAppend, AcknowledgeMeta, AcknowledgeMetaFails,
         Crash, IngestNew, IngestRepeat, SetDeviceStatus
<1>2. QED
  BY <1>1, PTL DEF Spec, InactiveIsBlocked
-----------------------------------------------------------------------------
\* Rows that carry the numbers of their positions are read in log order.
LEMMA ReadInOrder ==
  ASSUME NEW l, NEW n \in Nat, NEW rows,
         rows = 1..n, \A k \in rows : l[k].sequence = k
  PROVE  InOrder(l, n, rows) = [k \in 1..n |-> l[k].id]
<1> DEFINE Row(k) == CHOOSE i \in rows : l[i].sequence = k
<1>1. ASSUME NEW k \in 1..n
      PROVE  Row(k) = k
  <2>1. k \in rows /\ l[k].sequence = k
    OBVIOUS
  <2>2. \A i \in rows : l[i].sequence = k => i = k
    OBVIOUS
  <2>3. QED
    BY <2>1, <2>2
<1> HIDE DEF Row
<1>2. [k \in 1..n |-> l[Row(k)].id] = [k \in 1..n |-> l[k].id]
  BY <1>1
<1>3. QED
  BY <1>2 DEF Row, InOrder

\* What the receiver holds, read in order, is the beginning of the log.
LEMMA DeliveredIsPrefix ==
  ReceivedIsLogPrefix /\ devSequence \in Nat
    => Delivered = [k \in 1..devSequence |-> log[k].id]
<1> SUFFICES ASSUME ReceivedIsLogPrefix, devSequence \in Nat
             PROVE  Delivered = [k \in 1..devSequence |-> log[k].id]
  OBVIOUS
<1>1. received = 1..devSequence /\ \A k \in received : log[k].sequence = k
  BY DEF ReceivedIsLogPrefix
<1>2. InOrder(log, devSequence, received)
        = [k \in 1..devSequence |-> log[k].id]
  BY <1>1, ReadInOrder
<1>3. QED
  BY <1>2 DEF Delivered

\* An enqueue queues an event, or, after a torn line, changes nothing that the
\* promise speaks of.
LEMMA EnqueueQueues ==
  ASSUME IInv, NEW e \in Events, EnqueueAppend(e), IInv'
  PROVE  Abstract!Queue(e) \/ UNCHANGED <<Queued, Delivered>>
<1>1. log \in Seq(Record) /\ Len(log) \in Nat
  BY DEF IInv, TypeOK
<1>2. UNCHANGED <<received, devSequence>>
  BY DEF EnqueueAppend, recvVars
<1>3. CASE torn
  BY <1>2, <1>3 DEF EnqueueAppend, Queued, Delivered
<1>4. CASE ~torn
  <2> DEFINE record == [id |-> e, sequence |-> meta.nextSequence,
                        previousHash |-> meta.previousHash]
  <2>1. log' = Append(log, record)
    BY <1>4 DEF EnqueueAppend
  <2>2. record.id = e
    OBVIOUS
  <2>3. /\ Len(log') = Len(log) + 1
        /\ \A i \in 1..Len(log) : log'[i] = log[i]
        /\ log'[Len(log) + 1] = record
    BY <1>1, <2>1
  <2>4. Queued' = Append(Queued, e)
    <3>1. /\ Queued \in Seq(Events) /\ Len(Queued) = Len(log)
          /\ \A i \in 1..Len(log) : Queued[i] = log[i].id
      <4>1. \A i \in 1..Len(log) : log[i].id \in Events
        <5>1. \A i \in 1..Len(log) : log[i] \in Record
          BY <1>1
        <5>2. QED
          BY <5>1 DEF Record
      <4>2. QED
        BY <1>1, <4>1 DEF Queued
    <3>2. Queued' = [i \in 1..(Len(log) + 1) |-> log'[i].id]
      BY <2>3 DEF Queued
    <3>3. ASSUME NEW i \in 1..(Len(log) + 1)
          PROVE  log'[i].id = Append(Queued, e)[i] /\ log'[i].id \in Events
      BY <1>1, <2>2, <2>3, <3>1
    <3>4. /\ Append(Queued, e) \in Seq(Events)
          /\ Len(Append(Queued, e)) = Len(log) + 1
      BY <1>1, <3>1
    <3>5. Queued' \in Seq(Events) /\ Len(Queued') = Len(log) + 1
      BY <1>1, <3>2, <3>3
    <3>6. QED
      BY <3>2, <3>3, <3>4, <3>5, SeqEqual
  <2>5. \A i \in 1..Len(Queued) : Queued[i] # e
    BY <1>1 DEF EnqueueAppend, EventIds, Positions, Queued
  <2>6. UNCHANGED Delivered
    <3>1. 1..devSequence \subseteq 1..Len(log)
      BY DEF IInv, TypeOK, ReceivedIsLogPrefix, Positions
    <3>2. Delivered' = [k \in 1..devSequence |-> log'[k].id]
      <4>1. /\ received' = 1..devSequence
            /\ \A k \in received' : log'[k].sequence = k
        BY <1>2 DEF IInv, ReceivedIsLogPrefix
      <4>2. InOrder(log', devSequence, received')
              = [k \in 1..devSequence |-> log'[k].id]
        <5>1. devSequence \in Nat
          BY DEF IInv, TypeOK
        <5>2. QED
          BY <4>1, <5>1, ReadInOrder
      <4>3. QED
        BY <1>2, <4>2 DEF Delivered
    <3>3. Delivered = [k \in 1..devSequence |-> log[k].id]
      BY DeliveredIsPrefix DEF IInv, TypeOK
    <3>4. QED
      BY <2>3, <3>1, <3>2, <3>3
  <2>7. QED
    BY <2>4, <2>5, <2>6 DEF Abstract!Queue
<1>5. QED
  BY <1>3, <1>4

\* A batch that ingest_batch stores delivers the next stretch of the queue.
LEMMA IngestDelivers ==
  ASSUME IInv, NEW b \in requests, IngestNew(b), IInv'
  PROVE  \E n \in 1..Len(Queued) : Abstract!Deliver(n)
<1>1. /\ UNCHANGED log
      /\ devSequence' = log[b.last].sequence
  BY DEF IngestNew, fileVars
<1>2. /\ \A k \in b.records : log[k].sequence = k
      /\ b.last \in Positions /\ b.last > devSequence
      /\ b.last \in b.records
  BY ContinuousCutIsNext DEF IngestNew, IInv, TypeOK
<1>3. /\ log \in Seq(Record) /\ Len(log) \in Nat
      /\ devSequence \in Nat /\ b.last \in Nat
      /\ devSequence' = b.last /\ Len(Queued) = Len(log)
      /\ UNCHANGED Queued
  BY <1>1, <1>2 DEF IInv, TypeOK, Positions, Queued
<1>4. Delivered = [k \in 1..devSequence |-> log[k].id]
  BY DeliveredIsPrefix DEF IInv, TypeOK
<1>5. Delivered' = [k \in 1..b.last |-> log[k].id]
  <2>1. received' = 1..b.last /\ \A k \in received' : log[k].sequence = k
    BY <1>1, <1>3 DEF IInv, ReceivedIsLogPrefix
  <2>2. InOrder(log, b.last, received') = [k \in 1..b.last |-> log[k].id]
    BY <1>3, <2>1, ReadInOrder
  <2>3. QED
    BY <1>1, <1>3, <2>2 DEF Delivered
<1>6. Len(Delivered) = devSequence
  BY <1>3, <1>4
<1>7. Delivered' = SubSeq(Queued, 1, b.last)
  <2>1. \A k \in 1..b.last : log[k].id \in Events /\ Queued[k] = log[k].id
    <3>1. \A k \in 1..b.last : log[k] \in Record
      BY <1>2, <1>3 DEF Positions
    <3>2. QED
      BY <1>2, <1>3, <3>1 DEF Record, Queued, Positions
  <2>2. Delivered' \in Seq(Events) /\ Len(Delivered') = b.last
    BY <1>3, <1>5, <2>1
  <2>3. /\ SubSeq(Queued, 1, b.last) \in Seq(Events)
        /\ Len(SubSeq(Queued, 1, b.last)) = b.last
        /\ \A k \in 1..b.last : SubSeq(Queued, 1, b.last)[k] = Queued[k]
    <3>1. b.last \in Int /\ 1 \in Int /\ 1 <= b.last
      BY <1>2, <1>3 DEF Positions
    <3>2. \A k \in 1..b.last : Queued[k] \in Events
      BY <2>1
    <3>3. QED
      BY <1>3, <3>1, <3>2, SubSeqProperties
  <2>4. QED
    BY <1>5, <2>1, <2>2, <2>3, SeqEqual
<1>8. b.last \in 1..Len(Queued) /\ b.last > Len(Delivered)
  BY <1>2, <1>3, <1>6 DEF Positions
<1>9. QED
  BY <1>3, <1>7, <1>8 DEF Abstract!Deliver

\* ImplementsOrderedDelivery: the outbox, the client and the receiver together
\* deliver a growing prefix of the edge's queue, every event once, in order.
THEOREM Refinement == Spec => ImplementsOrderedDelivery
<1>1. Init => Abstract!Init
  <2>1. ASSUME Init
        PROVE  Queued = <<>> /\ Delivered = <<>>
    BY <2>1 DEF Init, Queued, Delivered, InOrder
  <2>2. QED
    BY <2>1 DEF Abstract!Init
<1>2. IInv /\ IInv' /\ [Next]_vars => [Abstract!Next]_(Abstract!vars)
  <2> SUFFICES ASSUME IInv, IInv', [Next]_vars
               PROVE  Abstract!Next \/ UNCHANGED <<Queued, Delivered>>
    BY DEF Abstract!vars
  <2>1. ASSUME NEW e \in Events, EnqueueAppend(e)
        PROVE  Abstract!Next \/ UNCHANGED <<Queued, Delivered>>
    BY <2>1, EnqueueQueues DEF Abstract!Next
  <2>2. ASSUME NEW b \in requests, IngestNew(b)
        PROVE  Abstract!Next
    BY <2>2, IngestDelivers DEF Abstract!Next
  <2>3. ASSUME UNCHANGED <<log, devSequence, received>>
        PROVE  UNCHANGED <<Queued, Delivered>>
    BY <2>3 DEF Queued, Delivered, InOrder
  <2>4. \/ \E e \in Events : EnqueueAppend(e)
        \/ \E b \in requests : IngestNew(b)
        \/ UNCHANGED <<log, devSequence, received>>
    BY DEF Next, vars, fileVars, recvVars, SyncStep, ReceiverStep,
           EnqueueTears, EnqueueWriteMeta, EnqueueMetaFails, VerifyChain,
           ReadPending, VerifyBatch, Send, CallFails, AcknowledgeAppend,
           AcknowledgeMeta, AcknowledgeMetaFails, Crash, IngestRepeat,
           SetDeviceStatus
  <2>5. QED
    BY <2>1, <2>2, <2>3, <2>4
<1>3. QED
  BY <1>1, <1>2, Invariance, PTL
     DEF Spec, ImplementsOrderedDelivery, Abstract!Spec
=============================================================================
