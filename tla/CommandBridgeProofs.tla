------------------------- MODULE CommandBridgeProofs -------------------------
(***************************************************************************)
(* Proofs about CommandBridge, for any keys, windows and bounds and on     *)
(* both hosts.  The inductive invariant is IInv of CommandBridge: in every *)
(* list of commands, on disk or in the memory of a process, a command is   *)
(* completed only if its result was written.  The order of execution rests *)
(* on OrderIInv: while nothing fails, no list that may be put in place     *)
(* brings back a command older than one that is already being taken.       *)
(***************************************************************************)
EXTENDS CommandBridge, TLAPS

LEMMA ReadTyped ==
  ASSUME NEW c \in Content \cup {Absent}
  PROVE  Read(c) \in SUBSET Entry
BY DEF Read, Content

LEMMA PendingTyped ==
  ASSUME NEW S \in SUBSET Entry
  PROVE  /\ Pending(S) \in SUBSET Entry
         /\ IdsOf(S) \in SUBSET Ids
         /\ Answered(Pending(S))
BY DEF Pending, IdsOf, Entry, Answered

LEMMA NewestSubset ==
  ASSUME NEW n, NEW S
  PROVE  Newest(n, S) \subseteq S
BY DEF Newest

\* What create_command writes: unfinished commands and a new one.
LEMMA KeptTyped ==
  ASSUME NEW S \in SUBSET Entry, NEW id \in Ids, NEW k \in Keys \cup {NoKey}
  PROVE  LET kept == Newest(Window, Pending(S))
                       \cup {[id |-> id, key |-> k, status |-> "pending"]}
         IN  kept \in SUBSET Entry /\ Answered(kept)
<1>1. [id |-> id, key |-> k, status |-> "pending"] \in Entry
  BY DEF Entry
<1>2. Newest(Window, Pending(S)) \subseteq Pending(S)
  BY NewestSubset
<1> QED
  BY <1>1, <1>2, PendingTyped DEF Answered

\* What the engine writes: what it handled is completed, and was answered.
LEMMA MarkedTyped ==
  ASSUME NEW S \in SUBSET Entry, Answered(S), handled \subseteq answers
  PROVE  Marked(S) \in SUBSET Entry /\ Answered(Marked(S))
<1>1. ASSUME NEW c \in S
      PROVE  /\ [c EXCEPT !.status = "completed"] \in Entry
             /\ [c EXCEPT !.status = "completed"].id = c.id
  BY DEF Entry
<1>2. Marked(S) \in SUBSET Entry
  BY <1>1 DEF Marked
<1>3. ASSUME NEW d \in Marked(S), d.status = "completed"
      PROVE  d.id \in answers
  <2>1. PICK c \in S : d = IF c.id \in handled
                           THEN [c EXCEPT !.status = "completed"] ELSE c
    BY DEF Marked
  <2> QED
    BY <1>1, <1>3, <2>1 DEF Answered
<1> QED
  BY <1>2, <1>3 DEF Answered

\* A file that is written holds the list, or is torn.
LEMMA OverwrittenTyped ==
  ASSUME NEW old, NEW new \in SUBSET Entry, Answered(new),
         NEW c \in Overwritten(old, new)
  PROVE  c \in Content /\ Answered(Read(c))
BY DEF Overwritten, Content, Read, Answered

LEMMA RankedTyped ==
  ASSUME NEW id \in Ids, results \in [Ids -> 0..ResultsKept + 1]
  PROVE  Ranked(id) \in [Ids -> 0..ResultsKept + 1]
<1> DEFINE rank(j) ==
      CASE j = id                              -> 1
        [] j # id /\ results[j] = 0            -> 0
        [] j # id /\ 0 < results[id] /\ results[id] < results[j] -> results[j]
        [] OTHER -> IF results[j] <= ResultsKept THEN results[j] + 1 ELSE 0
<1>1. ASSUME NEW j \in Ids
      PROVE  rank(j) \in 0..ResultsKept + 1
  <2>1. /\ ResultsKept \in Nat
        /\ results[j] \in 0..ResultsKept + 1 /\ results[id] \in 0..ResultsKept + 1
    BY BoundsAssumption
  <2>2. CASE j = id
    BY <2>1, <2>2
  <2>3. CASE j # id
    BY <2>1, <2>3
  <2> QED
    BY <2>2, <2>3
<1>2. Ranked(id) = [j \in Ids |-> rank(j)]
  BY DEF Ranked
<1> HIDE DEF rank
<1> QED
  BY <1>1, <1>2
-----------------------------------------------------------------------------
LEMMA InitIInv == Init => IInv
<1> SUFFICES ASSUME Init PROVE IInv
  OBVIOUS
<1>1. TypeOK
  BY BoundsAssumption DEF Init, TypeOK, Content, Places, None
<1>2. CopiesAnswered
  BY DEF Init, CopiesAnswered, Answered, Read
<1>3. AnswersExecuted /\ CreateInProgress /\ KeyLeadsToLast
  BY DEF Init, AnswersExecuted, CreateInProgress, KeyLeadsToLast, None
<1> QED
  BY <1>1, <1>2, <1>3 DEF IInv

\* Steps of create_command.
LEMMA BackendSteps ==
  ASSUME IInv, UNCHANGED host,
         \/ \E k \in Keys \cup {NoKey} : StartCreate(k)
         \/ BackendStep \/ BackendWriteFails \/ BackendCrash
  PROVE  IInv'
<1> USE DEF IInv, TypeOK, CopiesAnswered, AnswersExecuted, CreateInProgress,
            KeyLeadsToLast
<1>0. /\ Read(file) \in SUBSET Entry /\ MaxFaults \in Nat /\ MaxCommands \in Nat
      /\ {} \in SUBSET Entry /\ Answered({})
      /\ NoKey \in Keys \cup {NoKey} /\ NoKey \notin Keys /\ "closed" \in Places
      /\ "gone" \in Places /\ "tmp" \in Places /\ None = 0
  BY ReadTyped, BoundsAssumption, KeysAssumption
  DEF Answered, Places, None
<1>1. ASSUME NEW k \in Keys \cup {NoKey}, StartCreate(k)
      PROVE  IInv'
  <2>1. /\ mapped' \in [Keys -> Ids \cup {None}]
        /\ k \in Keys => mapped'[k] = None
        /\ \A j \in Keys : mapped'[j] \in {mapped[j], None}
    BY <1>0, <1>1 DEF StartCreate
  <2>2. /\ bpc = "idle" /\ bpc' = "read" /\ bkey' = k /\ next <= MaxCommands
        /\ UNCHANGED <<disk, results, next, bcopy, bfile, engine,
                       executed, answers, returned, faults>>
    BY <1>1 DEF StartCreate
  <2>3. TypeOK' /\ CopiesAnswered' /\ AnswersExecuted'
    BY <2>1, <2>2 DEF engine, disk, Answered, FirstOf
  <2>4. CreateInProgress' /\ KeyLeadsToLast'
    BY <2>1, <2>2
  <2> QED
    BY <2>3, <2>4
<1>2. CASE ReadCommands
  <2>1. next \in Ids
    BY <1>0, <1>2 DEF ReadCommands, Ids
  <2>2. bcopy' \in SUBSET Entry /\ Answered(bcopy')
    BY <1>0, <1>2, <2>1, KeptTyped DEF ReadCommands
  <2>3. Answered(bcopy)'
    BY <1>2, <2>2 DEF ReadCommands, Answered
  <2>4. next' \in 1..MaxCommands + 1 /\ next' > 1
    BY <1>0, <1>2, <2>1 DEF ReadCommands, Ids
  <2> QED
    BY <1>0, <1>2, <2>2, <2>3, <2>4 DEF ReadCommands, engine, disk, Answered
<1>3. CASE BackendOpen
  BY <1>0, <1>3 DEF BackendOpen, engine, Content, Answered, Read
<1>4. CASE BackendWrite
  BY <1>0, <1>4, OverwrittenTyped DEF BackendWrite, engine, WriteTo, disk, Answered
<1>5. CASE BackendReplace
  BY <1>0, <1>5 DEF BackendReplace, disk, Moved, Places, Answered, Read
<1>6. CASE BackendWriteFails
  BY <1>0, <1>6 DEF BackendWriteFails, disk, engine, Answered
<1>7. CASE Unlink
  BY <1>0, <1>7 DEF Unlink, BackendIdle, Answered, Read
<1>8. CASE Return
  BY <1>0, <1>8 DEF Return, BackendIdle, disk, engine, Answered, Ids
<1>9. CASE BackendCrash
  BY <1>0, <1>9 DEF BackendCrash, BackendIdle, disk, engine, Answered
<1> QED
  BY <1>1, <1>2, <1>3, <1>4, <1>5, <1>6, <1>7, <1>8, <1>9 DEF BackendStep

\* Steps of _process_runtime_commands.
LEMMA EngineSteps ==
  ASSUME IInv, UNCHANGED host,
         EngineStep \/ WriteResultFails \/ EngineCrash
  PROVE  IInv'
<1> USE DEF IInv, TypeOK, CopiesAnswered, AnswersExecuted, CreateInProgress,
            KeyLeadsToLast
<1>0. /\ Read(file) \in SUBSET Entry /\ MaxFaults \in Nat
      /\ {} \in SUBSET Entry /\ Answered({}) /\ FirstOf(todo) \subseteq todo
      /\ "closed" \in Places /\ "gone" \in Places /\ "tmp" \in Places
  BY ReadTyped, BoundsAssumption DEF Answered, Places, FirstOf
<1>1. CASE ReadPending
  BY <1>0, <1>1, PendingTyped DEF ReadPending, backend, disk, Answered
<1>2. CASE Execute
  BY <1>0, <1>2 DEF Execute, backend, disk, Answered
<1>3. CASE WriteResult
  <2>1. PICK id \in FirstOf(todo) :
          /\ results' = Ranked(id) /\ answers' = answers \cup {id}
          /\ handled' = handled \cup {id} /\ todo' = todo \ {id}
    BY <1>3 DEF WriteResult
  <2>2. id \in Ids /\ id \in executed
    BY <1>0, <1>3, <2>1 DEF WriteResult
  <2>3. results' \in [Ids -> 0..ResultsKept + 1]
    BY <2>1, <2>2, RankedTyped
  <2> QED
    BY <1>0, <1>3, <2>1, <2>2, <2>3 DEF WriteResult, backend, disk, Answered
<1>4. CASE WriteResultFails
  BY <1>0, <1>4 DEF WriteResultFails, EngineIdle, backend, disk, Answered
<1>5. CASE MarkRead
  <2>1. Marked(Read(file)) \in SUBSET Entry /\ Answered(Marked(Read(file)))
    BY <1>0, MarkedTyped
  <2> QED
    BY <1>0, <1>5, <2>1 DEF MarkRead, EngineIdle, backend, disk, Answered
<1>6. CASE EngineOpen
  BY <1>0, <1>6 DEF EngineOpen, backend, Content, Answered, Read
<1>7. CASE EngineWrite
  BY <1>0, <1>7, OverwrittenTyped DEF EngineWrite, backend, WriteTo, disk, Answered
<1>8. CASE EngineReplace
  BY <1>0, <1>8 DEF EngineReplace, EngineIdle, disk, Moved, Places, Answered, Read
<1>9. CASE EngineCrash
  BY <1>0, <1>9 DEF EngineCrash, EngineIdle, backend, disk, Answered
<1> QED
  BY <1>1, <1>2, <1>3, <1>4, <1>5, <1>6, <1>7, <1>8, <1>9 DEF EngineStep

\* IInv holds in every state, whatever the two processes overwrite.
THEOREM Invariance == Spec => []IInv
<1>1. Init => IInv
  BY InitIInv
<1>2. IInv /\ [Next]_vars => IInv'
  <2>1. IInv /\ Next => IInv'
    BY BackendSteps, EngineSteps DEF Next
  <2>2. IInv /\ UNCHANGED vars => IInv'
    BY DEF vars, disk, backend, engine, IInv, TypeOK, CopiesAnswered, Answered,
           AnswersExecuted, CreateInProgress, KeyLeadsToLast, Read, FirstOf
  <2> QED
    BY <2>1, <2>2
<1> QED
  BY <1>1, <1>2, PTL DEF Spec

\* The files, the locals of both processes and the history keep their shape;
\* the results never exceed their number.
THEOREM TypeCorrect == Spec => []TypeOK
<1>1. IInv => TypeOK
  BY DEF IInv
<1> QED
  BY <1>1, Invariance, PTL

\* A command that commands.json shows as completed was executed and answered.
THEOREM CompletedIsAnsweredHolds == Spec => []CompletedIsAnswered
<1>1. IInv => CompletedIsAnswered
  BY DEF IInv, CopiesAnswered, AnswersExecuted, Answered, CompletedIsAnswered
<1> QED
  BY <1>1, Invariance, PTL

\* A key leads to the last command that was returned for it, or to none.
THEOREM KeyLeadsToLastHolds == Spec => []KeyLeadsToLast
<1>1. IInv => KeyLeadsToLast
  BY DEF IInv
<1> QED
  BY <1>1, Invariance, PTL
-----------------------------------------------------------------------------
(* The order of execution.  Ordering is Ordered over any sets: F waits in the
   file, B in the backend's copy, E in the engine's copy and D in its pass; X
   is executed, and n is the next id. *)
Older(S, L, X) == \A d \in S, c \in L \ X : c < d => c \in S

Ordering(F, B, E, D, X, n) ==
  /\ Older(F, B, X) /\ Older(E, B, X) /\ Older(E, F, X)
  /\ Older(D, F, X) /\ Older(D, B, X)
  /\ Older(X, F, X) /\ Older(X, B, X) /\ Older(X, E, X) /\ Older(X, D, X)
  /\ \A c \in F \cup B \cup E \cup D \cup X : c < n

\* The file is replaced by a copy, or by nothing that can be read.
LEMMA OrderingReplaced ==
  ASSUME NEW F, NEW B, NEW E, NEW D, NEW X, NEW n, NEW F2,
         F2 = F \/ F2 = B \/ F2 = E \/ F2 = {},
         Ordering(F, B, E, D, X, n), D = {} \/ E = {}
  PROVE  Ordering(F2, B, E, D, X, n)
<1>1. CASE F2 = F
  BY <1>1
<1>2. CASE F2 = B
  BY <1>2 DEF Ordering, Older
<1>3. CASE F2 = E
  BY <1>3 DEF Ordering, Older
<1>4. CASE F2 = {}
  BY <1>4 DEF Ordering, Older
<1> QED BY <1>1, <1>2, <1>3, <1>4

\* create_command copies from the file and adds the next command.
LEMMA OrderingCreated ==
  ASSUME NEW F \in SUBSET Nat, NEW B, NEW E \in SUBSET Nat, NEW D \in SUBSET Nat,
         NEW X \in SUBSET Nat, NEW n \in Nat, NEW B2 \in SUBSET (F \cup {n}),
         Ordering(F, B, E, D, X, n)
  PROVE  Ordering(F, B2, E, D, X, n + 1)
<1>1. ASSUME NEW S \in SUBSET Nat, Older(S, F, X), \A d \in S : d < n
      PROVE  Older(S, B2, X)
  BY <1>1 DEF Older
<1>2. Older(F, F, X)
  BY DEF Older
<1>3. Older(F, B2, X) /\ Older(E, B2, X) /\ Older(D, B2, X) /\ Older(X, B2, X)
  BY <1>1, <1>2 DEF Ordering
<1>4. \A c \in F \cup B2 \cup E \cup D \cup X : c < n + 1
  <2>1. \A c \in F \cup E \cup D \cup X : c < n /\ c \in Nat
    BY DEF Ordering
  <2> QED BY <2>1
<1> QED BY <1>3, <1>4 DEF Ordering

\* A copy or the pass is forgotten.
LEMMA OrderingForgotten ==
  ASSUME NEW F, NEW B, NEW E, NEW D, NEW X, NEW n, Ordering(F, B, E, D, X, n),
         NEW B2 \in {B, {}}, NEW E2 \in {E, {}}, NEW D2 \in {D, {}}
  PROVE  Ordering(F, B2, E2, D2, X, n)
BY DEF Ordering, Older

\* The engine reads what is pending.
LEMMA OrderingRead ==
  ASSUME NEW F, NEW B, NEW D, NEW X, NEW n, Ordering(F, B, {}, D, X, n)
  PROVE  Ordering(F, B, {}, F, X, n)
BY DEF Ordering, Older

\* The engine executes the first of its pass.
LEMMA OrderingExecuted ==
  ASSUME NEW F \in SUBSET Nat, NEW B \in SUBSET Nat, NEW D \in SUBSET Nat, NEW X,
         NEW n, NEW M \in SUBSET D, \A m \in M : \A d \in D : m <= d,
         Ordering(F, B, {}, D, X, n)
  PROVE  Ordering(F, B, {}, D, X \cup M, n)
<1>1. ASSUME NEW S, NEW L, Older(S, L, X)
      PROVE  Older(S, L, X \cup M)
  BY <1>1 DEF Older
<1>2. ASSUME NEW L \in SUBSET Nat, Older(X, L, X), Older(D, L, X)
      PROVE  Older(X \cup M, L, X \cup M)
  <2> SUFFICES ASSUME NEW d \in X \cup M, NEW c \in L \ (X \cup M), c < d
               PROVE  FALSE
    BY DEF Older
  <2>1. d \notin X
    BY <1>2 DEF Older
  <2>2. d \in M /\ c \in D
    BY <1>2, <2>1 DEF Older
  <2>3. c \in Nat /\ d \in Nat /\ d <= c
    BY <2>2
  <2> QED BY <2>3
<1>3. Older(D, D, X) /\ Older(D, {}, X)
  BY DEF Older
<1>4. /\ Older(X \cup M, F, X \cup M) /\ Older(X \cup M, B, X \cup M)
      /\ Older(X \cup M, {}, X \cup M) /\ Older(X \cup M, D, X \cup M)
  BY <1>2, <1>3 DEF Ordering
<1> QED BY <1>1, <1>4 DEF Ordering

\* What was executed leaves the pass.
LEMMA OrderingAnswered ==
  ASSUME NEW F, NEW B, NEW E, NEW D, NEW X, NEW n, NEW m \in X,
         Ordering(F, B, E, D, X, n)
  PROVE  Ordering(F, B, E, D \ {m}, X, n)
BY DEF Ordering, Older

\* The engine copies the file, less what it has executed.
LEMMA OrderingMarked ==
  ASSUME NEW F, NEW B, NEW E, NEW X, NEW n, NEW H \in SUBSET X,
         Ordering(F, B, E, {}, X, n)
  PROVE  Ordering(F, B, F \ H, {}, X, n)
BY DEF Ordering, Older

LEMMA OrderedIs ==
  Ordered <=> Ordering(InFile, InB, InE, todo, executed, next)
BY DEF Ordered, Ordering, Keeps, Older

LEMMA OrderedIsPrimed ==
  Ordered' <=> Ordering(InFile', InB', InE', todo', executed', next')
BY DEF Ordered, Ordering, Keeps, Older

-----------------------------------------------------------------------------
LEMMA WaitingEmpty == Waiting({}) = {} /\ Read(Torn) = {} /\ Read(Absent) = {}
BY DEF Waiting, Pending, IdsOf, Read

LEMMA WaitingTyped ==
  ASSUME IInv
  PROVE  /\ InFile \in SUBSET Nat /\ InB \in SUBSET Nat /\ InE \in SUBSET Nat
         /\ todo \in SUBSET Nat /\ executed \in SUBSET Nat /\ next \in Nat
         /\ faults \in Nat
<1>1. \A S \in SUBSET Entry : Waiting(S) \in SUBSET Nat
  BY BoundsAssumption DEF Waiting, Pending, IdsOf, Entry, Ids
<1>2. Read(file) \in SUBSET Entry /\ bcopy \in SUBSET Entry /\ ecopy \in SUBSET Entry
  BY ReadTyped DEF IInv, TypeOK
<1> QED BY <1>1, <1>2, BoundsAssumption DEF InFile, InB, InE, IInv, TypeOK, Ids

LEMMA WrittenRead ==
  ASSUME NEW old, NEW new \in SUBSET Entry, NEW c \in Overwritten(old, new)
  PROVE  Read(c) \in {new, {}}
BY DEF Overwritten, Read

LEMMA MarkedWaiting ==
  ASSUME NEW S \in SUBSET Entry
  PROVE  Waiting(Marked(S)) = Waiting(S) \ handled
<1>1. ASSUME NEW c \in S
      PROVE  /\ [c EXCEPT !.status = "completed"].status = "completed"
             /\ c.status = "pending" => c.status # "completed"
  BY DEF Entry
<1>2. Pending(Marked(S)) = {c \in Pending(S) : c.id \notin handled}
  BY <1>1 DEF Marked, Pending
<1> QED BY <1>2 DEF Waiting, IdsOf

LEMMA CreatedWaiting ==
  ASSUME NEW S \in SUBSET Entry, NEW id, NEW k
  PROVE  Waiting(Newest(Window, Pending(S))
                   \cup {[id |-> id, key |-> k, status |-> "pending"]})
           \in SUBSET (Waiting(S) \cup {id})
<1> DEFINE new == [id |-> id, key |-> k, status |-> "pending"]
<1>1. Newest(Window, Pending(S)) \subseteq Pending(S) /\ Pending(S) \subseteq S
  BY NewestSubset DEF Pending
<1>2. \A T \in SUBSET (Pending(S) \cup {new}) : IdsOf(T) \subseteq IdsOf(Pending(S)) \cup {id}
  <2>1. new.id = id
    OBVIOUS
  <2> HIDE DEF new
  <2> QED BY <2>1 DEF IdsOf
<1>3. Pending(Newest(Window, Pending(S)) \cup {new}) \subseteq Pending(S) \cup {new}
  BY <1>1 DEF Pending
<1> QED BY <1>2, <1>3 DEF Waiting

\* What each process has at a step.
LEMMA PhasesKeep ==
  ASSUME IInv, Phases, Next
  PROVE  Phases'
<1> USE DEF Phases, IInv, TypeOK, BackendIdle, EngineIdle, Held, Moved
<1>0. UNCHANGED host
  BY DEF Next
<1>1. ASSUME NEW k \in Keys \cup {NoKey}, StartCreate(k)
      PROVE  Phases'
  BY <1>0, <1>1 DEF StartCreate, engine
<1>2. CASE ReadCommands
  BY <1>0, <1>2 DEF ReadCommands, engine
<1>3. CASE BackendOpen
  BY <1>0, <1>3 DEF BackendOpen, engine
<1>4. CASE BackendWrite
  BY <1>0, <1>4 DEF BackendWrite, engine
<1>5. CASE BackendReplace
  BY <1>0, <1>5 DEF BackendReplace
<1>6. CASE Unlink
  BY <1>0, <1>6 DEF Unlink
<1>7. CASE Return
  BY <1>0, <1>7 DEF Return, engine
<1>8. CASE BackendWriteFails
  BY <1>0, <1>8 DEF BackendWriteFails, engine
<1>9. CASE BackendCrash
  BY <1>0, <1>9 DEF BackendCrash, engine
<1>10. CASE ReadPending
  BY <1>0, <1>10 DEF ReadPending, backend
<1>11. CASE Execute
  BY <1>0, <1>11 DEF Execute, backend
<1>12. CASE WriteResult
  BY <1>0, <1>12 DEF WriteResult, backend
<1>13. CASE WriteResultFails
  BY <1>0, <1>13 DEF WriteResultFails, backend
<1>14. CASE MarkRead
  BY <1>0, <1>14 DEF MarkRead, backend
<1>15. CASE EngineOpen
  BY <1>0, <1>15 DEF EngineOpen, backend
<1>16. CASE EngineWrite
  BY <1>0, <1>16 DEF EngineWrite, backend
<1>17. CASE EngineReplace
  BY <1>0, <1>17 DEF EngineReplace
<1>18. CASE EngineCrash
  BY <1>0, <1>18 DEF EngineCrash, backend
<1> QED
  BY <1>1, <1>2, <1>3, <1>4, <1>5, <1>6, <1>7, <1>8, <1>9, <1>10, <1>11, <1>12,
     <1>13, <1>14, <1>15, <1>16, <1>17, <1>18 DEF Next, BackendStep, EngineStep

\* Without a fault, no fault step is taken.
LEMMA NoFault ==
  ASSUME IInv, Next, faults' = 0
  PROVE  /\ faults = 0 /\ UNCHANGED host
         /\ \/ \E k \in Keys \cup {NoKey} : StartCreate(k)
            \/ BackendStep \/ EngineStep
<1>1. faults \in Nat
  BY WaitingTyped
<1>2. ~(faults' = faults + 1)
  BY <1>1
<1>3. ~BackendWriteFails /\ ~BackendCrash /\ ~WriteResultFails /\ ~EngineCrash
  BY <1>2 DEF BackendWriteFails, BackendCrash, WriteResultFails, EngineCrash
<1>4. faults' = faults
  BY <1>3 DEF Next, StartCreate, BackendStep, EngineStep, ReadCommands, BackendOpen,
     BackendWrite, BackendReplace, Unlink, Return, ReadPending, Execute, WriteResult,
     MarkRead, EngineOpen, EngineWrite, EngineReplace
<1> QED BY <1>3, <1>4 DEF Next

\* What the temporary file holds.
LEMMA TmpKeeps ==
  ASSUME IInv, Phases, TmpKnown, Next, faults' = 0
  PROVE  TmpKnown'
<1> USE DEF Phases, TmpKnown, BackendIdle, EngineIdle, Held
<1>0. /\ UNCHANGED host /\ Read(Torn) = {} /\ Read(Absent) = {}
      /\ bcopy \in SUBSET Entry /\ ecopy \in SUBSET Entry
      /\ host \in {"posix", "windows"}
  BY WaitingEmpty, NoFault DEF IInv, TypeOK
<1>1. ASSUME NEW k \in Keys \cup {NoKey}, StartCreate(k)
      PROVE  TmpKnown'
  BY <1>0, <1>1 DEF StartCreate, engine, disk, Read
<1>2. CASE ReadCommands
  BY <1>0, <1>2 DEF ReadCommands, engine, disk, Read
<1>3. CASE BackendOpen
  BY <1>0, <1>3 DEF BackendOpen, engine, Read
<1>4. CASE BackendWrite
  <2>1. bpc' = "replace" /\ UNCHANGED <<ecopy, epc, efile, bcopy>> /\ bpc = "write"
    BY <1>4 DEF BackendWrite, engine
  <2>2. CASE bfile = "tmp"
    <3>1. Read(tmp') \in {bcopy, {}}
      BY <1>0, <1>4, <2>2, WrittenRead DEF BackendWrite, WriteTo
    <3> QED BY <2>1, <3>1 DEF Read
  <2>3. CASE bfile # "tmp"
    <3>1. UNCHANGED tmp
      BY <1>4, <2>3 DEF BackendWrite, WriteTo, disk
    <3>2. host # "windows"
      BY <2>1, <2>3
    <3> QED BY <1>0, <2>1, <3>1, <3>2 DEF Read
  <2> QED BY <2>2, <2>3
<1>5. CASE BackendReplace
  <2>1. bpc = "replace" /\ bpc' \in {"refuse", "accept"} /\ UNCHANGED <<ecopy, epc>>
    BY <1>5 DEF BackendReplace
  <2>2. CASE tmp = Absent
    BY <1>0, <1>5, <2>1, <2>2 DEF BackendReplace, disk, Read
  <2>3. CASE host = "windows" /\ efile = "tmp"
    <3>1. epc' = "write" /\ host' = "windows" /\ bpc' # "replace"
      BY <1>0, <2>1, <2>3
    <3> QED BY <3>1
  <2>4. CASE tmp # Absent /\ ~Held(efile)
    <3>1. tmp' = Absent
      BY <1>5, <2>4 DEF BackendReplace
    <3> QED BY <3>1 DEF Read
  <2> QED BY <2>2, <2>3, <2>4
<1>6. CASE Unlink
  BY <1>0, <1>6 DEF Unlink, Read
<1>7. CASE Return
  BY <1>0, <1>7 DEF Return, engine, disk, Read
<1>10. CASE ReadPending
  BY <1>0, <1>10 DEF ReadPending, backend, disk, Read
<1>11. CASE Execute
  BY <1>0, <1>11 DEF Execute, backend, disk, Read
<1>12. CASE WriteResult
  BY <1>0, <1>12 DEF WriteResult, backend, disk, Read
<1>14. CASE MarkRead
  BY <1>0, <1>14 DEF MarkRead, backend, disk, Read
<1>15. CASE EngineOpen
  BY <1>0, <1>15 DEF EngineOpen, backend, Read
<1>16. CASE EngineWrite
  <2>1. /\ epc = "write" /\ epc' = "replace"
        /\ UNCHANGED <<bpc, bfile, ecopy, bcopy>>
    BY <1>16 DEF EngineWrite, backend
  <2>2. CASE efile = "tmp"
    <3>1. Read(tmp') \in {ecopy, {}}
      BY <1>0, <1>16, <2>2, WrittenRead DEF EngineWrite, WriteTo
    <3> QED BY <2>1, <3>1 DEF Read
  <2>3. CASE efile # "tmp"
    <3>1. UNCHANGED tmp
      BY <1>16, <2>3 DEF EngineWrite, WriteTo, disk
    <3>2. host # "windows"
      BY <2>1, <2>3
    <3> QED BY <1>0, <2>1, <3>1, <3>2 DEF Read
  <2> QED BY <2>2, <2>3
<1>17. CASE EngineReplace
  BY <1>0, <1>17 DEF EngineReplace, disk, Read
<1> QED
  BY NoFault, <1>1, <1>2, <1>3, <1>4, <1>5, <1>6, <1>7, <1>10, <1>11, <1>12,
     <1>14, <1>15, <1>16, <1>17 DEF BackendStep, EngineStep

\* What the file waits for, after it was replaced or written: what it did, or
\* what one of the copies does, or nothing.
LEMMA FileKnown ==
  ASSUME IInv, Phases, TmpKnown, BackendWrite \/ BackendReplace \/ EngineWrite \/ EngineReplace
  PROVE  Waiting(Read(file')) \in {InFile, InB, InE, {}}
<1> USE DEF InFile, InB, InE
<1>0. /\ Waiting({}) = {} /\ Read(Torn) = {} /\ Read(Absent) = {}
      /\ bcopy \in SUBSET Entry /\ ecopy \in SUBSET Entry
  BY WaitingEmpty DEF IInv, TypeOK
<1>1. CASE BackendWrite
  <2>1. UNCHANGED file \/ file' \in Overwritten(file, bcopy)
    BY <1>1 DEF BackendWrite, WriteTo, disk
  <2>2. Read(file') \in {Read(file), bcopy, {}}
    BY <1>0, <2>1, WrittenRead
  <2> QED BY <1>0, <2>2
<1>2. CASE EngineWrite
  <2>1. UNCHANGED file \/ file' \in Overwritten(file, ecopy)
    BY <1>2 DEF EngineWrite, WriteTo, disk
  <2>2. Read(file') \in {Read(file), ecopy, {}}
    BY <1>0, <2>1, WrittenRead
  <2> QED BY <1>0, <2>2
<1>3. CASE BackendReplace
  <2>1. UNCHANGED file \/ (file' = tmp /\ ~(host = "windows" /\ efile = "tmp"))
    BY <1>3 DEF BackendReplace, disk, Held
  <2>2. bpc = "replace"
    BY <1>3 DEF BackendReplace
  <2>3. host = "windows" /\ epc = "write" => efile = "tmp"
    BY DEF Phases
  <2>4. UNCHANGED file \/ (file' = tmp /\ Read(tmp) \in {bcopy, ecopy, {}})
    BY <2>1, <2>2, <2>3 DEF TmpKnown
  <2> QED BY <1>0, <2>4
<1>4. CASE EngineReplace
  <2>1. UNCHANGED file \/ (file' = tmp /\ ~(host = "windows" /\ bfile = "tmp"))
    BY <1>4 DEF EngineReplace, disk, Held
  <2>2. epc = "replace"
    BY <1>4 DEF EngineReplace
  <2>3. host = "windows" /\ bpc = "write" => bfile = "tmp"
    BY DEF Phases
  <2>4. UNCHANGED file \/ (file' = tmp /\ Read(tmp) \in {bcopy, ecopy, {}})
    BY <2>1, <2>2, <2>3 DEF TmpKnown
  <2> QED BY <1>0, <2>4
<1> QED BY <1>1, <1>2, <1>3, <1>4

LEMMA OrderKeeps ==
  ASSUME IInv, Phases, TmpKnown, Ordered, Next, faults' = 0
  PROVE  Ordered'
<1> DEFINE F == InFile
           B == InB
           E == InE
           F2 == Waiting(Read(file'))
           B2 == Waiting(bcopy')
           E2 == Waiting(ecopy')
<1>0. /\ Ordering(F, B, E, todo, executed, next)
      /\ F \in SUBSET Nat /\ B \in SUBSET Nat /\ E \in SUBSET Nat
      /\ todo \in SUBSET Nat /\ executed \in SUBSET Nat /\ next \in Nat
      /\ Waiting({}) = {}
  BY OrderedIs, WaitingTyped, WaitingEmpty
<1>a. /\ file' = file => F2 = F
      /\ bcopy' = bcopy => B2 = B
      /\ ecopy' = ecopy => E2 = E
  BY DEF InFile, InB, InE
<1>b. /\ bcopy = {} => B = {}
      /\ ecopy = {} => E = {}
      /\ bcopy' = {} => B2 = {}
      /\ ecopy' = {} => E2 = {}
  BY <1>0 DEF InB, InE
<1>c. SUFFICES Ordering(F2, B2, E2, todo', executed', next')
  BY OrderedIsPrimed DEF InFile, InB, InE
<1>d. /\ epc \in {"idle", "run", "answer"} => E = {}
      /\ epc \in {"open", "write", "replace", "idle"} => todo = {}
      /\ todo = {} \/ E = {}
  BY <1>b DEF Phases, IInv, TypeOK
<1> HIDE DEF F, B, E, F2, B2, E2
<1>1. ASSUME NEW k \in Keys \cup {NoKey}, StartCreate(k)
      PROVE  Ordering(F2, B2, E2, todo', executed', next')
  BY <1>0, <1>a, <1>1 DEF StartCreate, engine, disk
<1>2. CASE ReadCommands
  <2>1. B2 \in SUBSET (F \cup {next})
    <3>1. Read(file) \in SUBSET Entry
      BY ReadTyped DEF IInv, TypeOK
    <3> QED BY <1>2, <3>1, CreatedWaiting DEF ReadCommands, B2, F, InFile
  <2>2. F2 = F /\ E2 = E /\ UNCHANGED <<todo, executed>> /\ next' = next + 1
    BY <1>2, <1>a DEF ReadCommands, engine, disk
  <2> QED BY <1>0, <2>1, <2>2, OrderingCreated
<1>3. CASE BackendOpen
  BY <1>0, <1>a, <1>3 DEF BackendOpen, engine
<1>4. CASE BackendWrite
  <2>1. F2 \in {F, B, E, {}}
    BY <1>4, FileKnown DEF F2, F, B, E
  <2>2. B2 = B /\ E2 = E /\ UNCHANGED <<todo, executed, next>>
    BY <1>4, <1>a DEF BackendWrite, engine
  <2> QED BY <1>0, <1>d, <2>1, <2>2, OrderingReplaced
<1>5. CASE BackendReplace
  <2>1. F2 \in {F, B, E, {}}
    BY <1>5, FileKnown DEF F2, F, B, E
  <2>2. B2 = B /\ E2 = E /\ UNCHANGED <<todo, executed, next>>
    BY <1>5, <1>a DEF BackendReplace
  <2> QED BY <1>0, <1>d, <2>1, <2>2, OrderingReplaced
<1>6. CASE Unlink
  <2>1. /\ F2 = F /\ E2 = E /\ B2 \in {B, {}} /\ UNCHANGED <<todo, executed, next>>
    BY <1>6, <1>a, <1>b DEF Unlink, BackendIdle
  <2> QED BY <1>0, <2>1, OrderingForgotten
<1>7. CASE Return
  <2>1. /\ F2 = F /\ E2 = E /\ B2 \in {B, {}} /\ UNCHANGED <<todo, executed, next>>
    BY <1>7, <1>a, <1>b DEF Return, BackendIdle, engine, disk
  <2> QED BY <1>0, <2>1, OrderingForgotten
<1>8. CASE ReadPending
  <2>1. /\ F2 = F /\ B2 = B /\ E2 = E /\ E = {}
        /\ UNCHANGED <<executed, next>>
    BY <1>8, <1>a, <1>d DEF ReadPending, backend, disk
  <2>2. todo' = F
    BY <1>8 DEF ReadPending, F, InFile, Waiting
  <2> QED BY <1>0, <2>1, <2>2, OrderingRead
<1>9. CASE Execute
  <2>1. /\ F2 = F /\ B2 = B /\ E2 = E /\ E = {} /\ UNCHANGED <<todo, next>>
        /\ executed' = executed \cup FirstOf(todo)
    BY <1>9, <1>a, <1>d DEF Execute, backend, disk
  <2>2. FirstOf(todo) \subseteq todo /\ \A m \in FirstOf(todo) : \A d \in todo : m <= d
    BY DEF FirstOf
  <2> HIDE DEF FirstOf
  <2>3. Ordering(F, B, {}, todo, executed \cup FirstOf(todo), next)
    BY <1>0, <2>1, <2>2, OrderingExecuted
  <2> QED BY <2>1, <2>3
<1>10. CASE WriteResult
  <2>1. /\ F2 = F /\ B2 = B /\ E2 = E /\ UNCHANGED <<executed, next>>
    BY <1>10, <1>a DEF WriteResult, backend, disk
  <2>2. PICK id \in FirstOf(todo) : todo' = todo \ {id}
    BY <1>10 DEF WriteResult
  <2>3. id \in executed
    BY <1>10, <2>2 DEF WriteResult, IInv, AnswersExecuted
  <2> QED BY <1>0, <2>1, <2>2, <2>3, OrderingAnswered
<1>11. CASE MarkRead
  <2>1. /\ F2 = F /\ B2 = B /\ todo = {} /\ todo' = {} /\ UNCHANGED <<executed, next>>
    BY <1>11, <1>a DEF MarkRead, EngineIdle, backend, disk
  <2>2. CASE file = Torn
    <3>1. E2 = {}
      BY <1>11, <1>b, <2>2 DEF MarkRead, EngineIdle
    <3> QED BY <1>0, <2>1, <3>1, OrderingForgotten
  <2>3. CASE file # Torn
    <3>1. E2 = F \ handled
      <4>1. Read(file) \in SUBSET Entry
        BY ReadTyped DEF IInv, TypeOK
      <4> QED BY <1>11, <2>3, <4>1, MarkedWaiting DEF MarkRead, E2, F, InFile
    <3>2. handled \in SUBSET executed
      BY DEF IInv, AnswersExecuted
    <3> QED BY <1>0, <2>1, <3>1, <3>2, OrderingMarked
  <2> QED BY <2>2, <2>3
<1>12. CASE EngineOpen
  BY <1>0, <1>a, <1>12 DEF EngineOpen, backend
<1>13. CASE EngineWrite
  <2>1. F2 \in {F, B, E, {}}
    BY <1>13, FileKnown DEF F2, F, B, E
  <2>2. B2 = B /\ E2 = E /\ UNCHANGED <<todo, executed, next>>
    BY <1>13, <1>a DEF EngineWrite, backend
  <2> QED BY <1>0, <1>d, <2>1, <2>2, OrderingReplaced
<1>14. CASE EngineReplace
  <2>1. F2 \in {F, B, E, {}}
    BY <1>14, FileKnown DEF F2, F, B, E
  <2>2. /\ B2 = B /\ E2 = {} /\ todo' = {} /\ UNCHANGED <<executed, next>>
    BY <1>14, <1>a, <1>b DEF EngineReplace, EngineIdle
  <2>3. Ordering(F2, B, E, todo, executed, next)
    BY <1>0, <1>d, <2>1, OrderingReplaced
  <2> QED BY <2>2, <2>3, OrderingForgotten
<1> QED
  BY NoFault, <1>1, <1>2, <1>3, <1>4, <1>5, <1>6, <1>7, <1>8, <1>9, <1>10, <1>11,
     <1>12, <1>13, <1>14 DEF BackendStep, EngineStep

LEMMA InitOrder == Init => OrderIInv
<1> SUFFICES ASSUME Init PROVE OrderIInv
  OBVIOUS
<1>1. Phases
  BY DEF Init, Phases
<1>2. InFile = {} /\ InB = {} /\ InE = {}
  BY WaitingEmpty DEF Init, InFile, InB, InE, Read
<1>3. Ordered /\ TmpKnown
  BY <1>2, WaitingEmpty DEF Init, Ordered, Keeps, TmpKnown
<1> QED BY <1>1, <1>3, InitIInv DEF OrderIInv

\* As long as nothing fails, what either process may put back has every older
\* command that is still to be executed.
THEOREM OrderInvariance == Spec => []OrderIInv
<1>1. OrderIInv /\ Next => OrderIInv'
  <2> SUFFICES ASSUME OrderIInv, Next PROVE OrderIInv'
    OBVIOUS
  <2>1. IInv'
    BY BackendSteps, EngineSteps DEF Next, OrderIInv
  <2>2. Phases'
    BY PhasesKeep DEF OrderIInv
  <2>3. ASSUME faults' = 0
        PROVE  Ordered' /\ TmpKnown'
    <3>1. faults = 0
      BY <2>3, NoFault DEF OrderIInv
    <3> QED BY <2>3, <3>1, OrderKeeps, TmpKeeps DEF OrderIInv
  <2> QED BY <2>1, <2>2, <2>3 DEF OrderIInv
<1>2. OrderIInv /\ UNCHANGED vars => OrderIInv'
  <2> SUFFICES ASSUME OrderIInv, UNCHANGED vars PROVE OrderIInv'
    OBVIOUS
  <2>1. IInv'
    BY DEF OrderIInv, vars, disk, backend, engine, IInv, TypeOK, CopiesAnswered,
       Answered, AnswersExecuted, CreateInProgress, KeyLeadsToLast, Read, FirstOf
  <2>2. Phases' /\ faults' = faults
    BY DEF OrderIInv, vars, disk, backend, engine, Phases
  <2>3. Ordered => Ordered'
    BY DEF vars, disk, backend, engine, Ordered, Keeps, InFile, InB, InE
  <2>4. TmpKnown => TmpKnown'
    BY DEF vars, disk, backend, engine, TmpKnown, Read
  <2> QED BY <2>1, <2>2, <2>3, <2>4 DEF OrderIInv
<1> QED BY <1>1, <1>2, InitOrder, PTL DEF Spec

\* create_command and _process_runtime_commands: as long as neither process has
\* crashed and no write has failed, commands are executed in the order of their
\* creation, on both hosts and for any window.
THEOREM ExecutedInOrderHolds == Spec => ExecutedInOrder
<1>1. ASSUME OrderIInv, [Next]_vars, faults = 0,
             NEW c \in executed' \ executed, NEW d \in executed
      PROVE  d < c
  <2>1. Execute
    BY <1>1 DEF Next, StartCreate, BackendStep, EngineStep, ReadCommands, BackendOpen,
       BackendWrite, BackendReplace, Unlink, Return, ReadPending, WriteResult,
       MarkRead, EngineOpen, EngineWrite, EngineReplace, BackendWriteFails,
       BackendCrash, WriteResultFails, EngineCrash, vars
  <2>2. c \in todo
    BY <1>1, <2>1 DEF Execute, FirstOf
  <2>3. Keeps(executed, todo)
    BY <1>1 DEF OrderIInv, Ordered
  <2>4. c \in Nat /\ d \in Nat /\ c # d
    BY <1>1, <2>2, WaitingTyped DEF OrderIInv
  <2>5. ~(c < d)
    BY <1>1, <2>2, <2>3 DEF Keeps
  <2> QED BY <2>4, <2>5
<1>2. OrderIInv /\ [Next]_vars =>
        [faults = 0 =>
           \A c \in executed' \ executed : \A d \in executed : d < c]_vars
  BY <1>1
<1> QED BY <1>2, OrderInvariance, PTL DEF Spec, ExecutedInOrder
=============================================================================
