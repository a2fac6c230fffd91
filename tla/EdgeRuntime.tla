----------------------------- MODULE EdgeRuntime -----------------------------
(***************************************************************************)
(* The threads between the camera and table presence_sessions:             *)
(*                                                                         *)
(*   camera      CameraCaptureWorker   frames into a one-slot buffer       *)
(*   inference   InferenceWorker       a frame through the entity store,   *)
(*                                     its result submitted                *)
(*   operations  OperationalWorker     submitted tasks, critical ones      *)
(*                                     first, into the database            *)
(*   main        main()                startup, shutdown                   *)
(*                                                                         *)
(* Any of them may be overtaken by the others between two steps, the       *)
(* process may die at any time, and it is started again.                   *)
(*                                                                         *)
(* The entity store and the table are operators of EntityStore and         *)
(* PresenceSessions.                                                       *)
(***************************************************************************)
EXTENDS EntityStore, PresenceSessions

CONSTANTS MaxTime,        \* bound: the last instant
          MaxFrames,      \* bound: frames captured
          MaxAge,         \* AI_FRAME_MAX_AGE_MS, in instants
          RegularSize,    \* capacity of the regular queue
          CriticalSize,   \* capacity of the critical queue
          DayLength       \* instants in a day

ASSUME RuntimeAssumption ==
  /\ {MaxTime, MaxFrames, MaxAge} \subseteq Nat
  /\ {RegularSize, CriticalSize, DayLength} \subseteq Nat \ {0}

VARIABLES clock,      \* the wall clock
          buffer,     \* capture time of the frame inference has not taken, if any
          frames,     \* frames captured so far
          inference,  \* InferenceWorker: [pc, at]
          store,      \* vision.correlation.entities
          regular,    \* regular_queue
          critical,   \* critical_queue
          ops,        \* OperationalWorker: [pc, at, visible, todo]
          date,       \* AttendanceManager._date
          main,       \* main(), as far as it starts and stops
          clean,      \* the last shutdown saw its threads end
          sessions    \* table presence_sessions

queues == <<regular, critical>>
vars == <<clock, buffer, frames, inference, store, queues, ops, date, main,
          clean, sessions>>

Times == 0 .. MaxTime
Day(t) == t \div DayLength

\* An instant of the store, and one of the table.
Walls == Times \cup {Never}
Stamps == Times \cup {Seconds}

\* What a task says of presence: the entities seen, and when they were last
\* observed; those missing, and those closed by the frame.
Tasks ==
  [at : [Entities -> Walls], visible : SUBSET Entities, hidden : SUBSET Entities,
   closed : SUBSET Entities]

InferenceWaiting == [pc |-> "waiting", at |-> 0]
Unobserved == [e \in Entities |-> Never]
OpsIdle == [pc |-> "idle", at |-> Unobserved, visible |-> {}, todo |-> {}]

Init ==
  /\ clock = 0
  /\ date = Day(0)
  /\ clean = FALSE
  /\ sessions = <<>>
  /\ buffer = {}
  /\ frames = 0
  /\ inference = InferenceWaiting
  /\ store = EmptyStore
  /\ regular = <<>> /\ critical = <<>>
  /\ ops = OpsIdle
  /\ main = "running"

Up == main # "down"

\* (mutant) stop_event is set after the joins.
StoppingLate == main = "exiting"

\* stop_event of the runtime
Stopping == main \in {"stopping", "joining", "exiting"}

\* stop_event of the operations thread, set just before the buffer closes
OpsStopped == main \in {"joining", "exiting"}
BufferClosed == OpsStopped

-----------------------------------------------------------------------------
(* The camera thread.  It may deliver many frames in an instant, or none:  *)
(* its reads fail, or it has died of an exception and stays dead.  After   *)
(* stop_event it still finishes its round.                                 *)

\* A frame is read and takes the one slot of the buffer.
Capture ==
  /\ Up /\ ~BufferClosed /\ frames < MaxFrames
  /\ buffer' = {clock}
  /\ frames' = frames + 1
  /\ UNCHANGED <<clock, inference, store, queues, ops, date, main, clean, sessions>>

Tick ==
  /\ clock < MaxTime
  /\ clock' = clock + 1
  /\ UNCHANGED <<buffer, frames, inference, store, queues, ops, date, main, clean, sessions>>

-----------------------------------------------------------------------------
(* The inference thread looks at stop_event after every round.             *)

\* (mutant) The loop does not look at stop_event.
NextRoundAnyway == InferenceWaiting

NextRound == [InferenceWaiting EXCEPT !.pc = IF Stopping THEN "ended" ELSE "waiting"]

\* Takes the newest frame; one that waited too long is dropped for good.
TakeFrame ==
  /\ Up /\ inference.pc = "waiting" /\ buffer # {}
  /\ buffer' = {}
  /\ inference' = IF \A t \in buffer : clock > t + MaxAge THEN NextRound
                  ELSE [pc |-> "busy", at |-> clock]
  /\ UNCHANGED <<clock, frames, store, queues, ops, date, main, clean, sessions>>

InferenceEnds ==
  /\ inference.pc = "waiting" /\ Stopping /\ buffer = {}
  /\ inference' = NextRound
  /\ UNCHANGED <<clock, buffer, frames, store, queues, ops, date, main, clean, sessions>>

\* submit: a result with neither entities nor events is not queued, and
\* neither are the transitions it carries; a full queue drops the task.
Worthwhile(task, events) == task.visible \cup task.hidden # {} \/ events # "none"

\* (mutant) put() on a queue without a size.
PutAnyway(queue, size, task) == Append(queue, task)

Put(queue, size, task) == IF Len(queue) < size THEN Append(queue, task) ELSE queue

\* One round: the frame shows `tracked`, `switched` lost their tracks to
\* somebody else, and `fresh` have an observation that did not expire before
\* it was attached.  The task is a copy of the store before the security
\* signals of the frame, about `late`, are attached too.  No other thread
\* writes the store, so its update and the submission are one step.
Process(tracked, switched, fresh, late, events) ==
  LET now  == inference.at
      next == Attached(Updated(store, tracked, switched, now), fresh, now)
      task == [at |-> [e \in Entities |-> IF e \in tracked THEN next[e].wall ELSE Never],
               visible |-> tracked, hidden |-> Live(next) \ tracked,
               closed |-> Lost(store, tracked, switched, now)]
  IN
  /\ Up /\ inference.pc = "busy"
  /\ Reported(store, tracked, switched, now)
  /\ store' = Attached(next, late, now)
  /\ regular' = IF Worthwhile(task, events) /\ events # "severe"
                THEN Put(regular, RegularSize, task) ELSE regular
  /\ critical' = IF events = "severe" THEN Put(critical, CriticalSize, task)
                 ELSE critical
  /\ inference' = NextRound
  /\ UNCHANGED <<clock, buffer, frames, ops, date, main, clean, sessions>>

\* An exception after the store was updated: its transitions are gone.
ProcessFails(tracked, switched, fresh) ==
  /\ Up /\ inference.pc = "busy"
  /\ Reported(store, tracked, switched, inference.at)
  /\ store' = Attached(Updated(store, tracked, switched, inference.at), fresh,
                        inference.at)
  /\ inference' = NextRound
  /\ UNCHANGED <<clock, buffer, frames, queues, ops, date, main, clean, sessions>>

-----------------------------------------------------------------------------
(* The operations thread.  A task is three kinds of transaction: its       *)
(* closing transitions, here together with taking it; one upsert for each  *)
(* entity; the sweep by the clock.                                         *)

Begin(task) ==
  /\ ops' = [pc |-> "updating", at |-> task.at, visible |-> task.visible,
             todo |-> task.visible \cup task.hidden]
  /\ sessions' = EntitiesClosed(sessions, task.closed)

TakeTask ==
  /\ Up /\ ops.pc = "idle"
  /\ \/ critical # <<>> /\ Begin(Head(critical)) /\ critical' = Tail(critical)
        /\ UNCHANGED regular
     \/ critical = <<>> /\ regular # <<>>
        /\ Begin(Head(regular)) /\ regular' = Tail(regular)
        /\ UNCHANGED critical
  /\ UNCHANGED <<clock, buffer, frames, inference, store, date, main, clean>>

\* (mutant) A missing instant is that of the write, as a date.
ObservedNow(wall) == IF wall = Never THEN clock ELSE wall

\* The instant an upsert writes.  Without an observation it is completed_at,
\* which the inference thread gives as a number of seconds.
ObservedAt(wall) == IF wall = Never THEN Seconds ELSE wall

UpsertEntity(e) ==
  /\ Up /\ ops.pc = "updating"
  /\ e \in ops.todo /\ \A f \in ops.todo : e <= f
  /\ sessions' = Upserted(sessions, e, ObservedAt(ops.at[e]), e \in ops.visible)
  /\ ops' = [ops EXCEPT !.todo = @ \ {e}]
  /\ UNCHANGED <<clock, buffer, frames, inference, store, queues, date, main, clean>>

Sweep ==
  /\ Up /\ ops.pc = "updating" /\ ops.todo = {}
  /\ sessions' = StaleClosed(sessions, clock, CloseAfter)
  /\ ops' = OpsIdle
  /\ UNCHANGED <<clock, buffer, frames, inference, store, queues, date, main, clean>>

\* (mutant) get() without a timeout: the flag is seen only after a task.
OpsEndsAfterTask ==
  /\ Up /\ ops.pc = "updating" /\ ops.todo = {} /\ OpsStopped
  /\ regular = <<>> /\ critical = <<>>
  /\ ops' = [ops EXCEPT !.pc = "ended"]
  /\ UNCHANGED <<clock, buffer, frames, inference, store, queues, date, main, clean, sessions>>

\* The loop ends with both queues empty; inference may not have ended yet.
OpsEnds ==
  /\ Up /\ ops.pc = "idle" /\ OpsStopped
  /\ regular = <<>> /\ critical = <<>>
  /\ ops' = [ops EXCEPT !.pc = "ended"]
  /\ UNCHANGED <<clock, buffer, frames, inference, store, queues, date, main, clean, sessions>>

\* _maybe_rollover, by reconcile() of this thread or a clock-in of main.  An
\* attendance row that cannot be closed keeps the sessions from it (Attendance).
Rollover ==
  /\ Up /\ date # Day(clock)
  /\ ops.pc = "idle" \/ main = "running"
  /\ sessions' \in {sessions, AllClosed(sessions)}
  /\ date' = Day(clock)
  /\ UNCHANGED <<clock, buffer, frames, inference, store, queues, ops, main, clean>>

-----------------------------------------------------------------------------
(* The main thread.                                                        *)

\* stop_event is set, and then the loop of the operations thread stopped
\* and the buffer closed.
StopWorkers ==
  /\ main = "running"
  /\ main' = "stopping"
  /\ UNCHANGED <<clock, buffer, frames, inference, store, queues, ops, date, clean, sessions>>

StopOperations ==
  /\ main = "stopping"
  /\ main' = "joining"
  /\ UNCHANGED <<clock, buffer, frames, inference, store, queues, ops, date, clean, sessions>>

\* (mutant) The operations thread is not in the list of workers to join.
InferenceEnded == inference.pc = "ended"

WritersEnded == inference.pc = "ended" /\ ops.pc = "ended"

\* Each join() gives up after five seconds, and the shutdown goes on: the
\* open sessions are closed.  What a thread that is not waited for writes
\* before the close, it may as well have written before its join gave up.
CloseForShutdown ==
  /\ main = "joining"
  /\ main' = "exiting"
  /\ clean' \in {FALSE, WritersEnded}
  /\ sessions' = AllClosed(sessions)
  /\ UNCHANGED <<clock, buffer, frames, inference, store, queues, ops, date>>

\* What a process holds in memory: gone with it, and new with the next.
MemoryReset ==
  /\ buffer' = {}
  /\ inference' = InferenceWaiting
  /\ store' = EmptyStore
  /\ regular' = <<>> /\ critical' = <<>>
  /\ ops' = OpsIdle
  /\ UNCHANGED <<clock, frames>>

Gone ==
  /\ main' = "down"
  /\ MemoryReset
  /\ UNCHANGED <<date, sessions>>

\* The threads are daemons: they end with the process, wherever they are.
Exit == main = "exiting" /\ Gone /\ UNCHANGED clean

Crash == Up /\ Gone /\ clean' = FALSE

\* (mutant) What an earlier process left open is left to the sweep.
StartSweeps ==
  /\ main = "down"
  /\ sessions' = StaleClosed(sessions, clock, CloseAfter)
  /\ date' = Day(clock)
  /\ clean' = FALSE
  /\ main' = "running"
  /\ MemoryReset

\* The start closes what an earlier process left open.
Start ==
  /\ main = "down"
  /\ sessions' = AllClosed(sessions)
  /\ date' = Day(clock)
  /\ clean' = FALSE
  /\ main' = "running"
  /\ MemoryReset
-----------------------------------------------------------------------------
InferenceStep ==
  \/ TakeFrame \/ InferenceEnds
  \/ \E tracked, switched \in SUBSET Entities : \E fresh \in SUBSET tracked :
       \/ \E late \in SUBSET tracked, events \in {"none", "plain", "severe"} :
            Process(tracked, switched, fresh, late, events)
       \/ ProcessFails(tracked, switched, fresh)

OperationsStep ==
  \/ TakeTask \/ Sweep \/ OpsEnds
  \/ \E e \in Entities : UpsertEntity(e)

ShutdownStep ==
  StopOperations \/ CloseForShutdown \/ Exit

Next ==
  \/ Capture \/ Tick
  \/ InferenceStep
  \/ OperationsStep \/ Rollover
  \/ StopWorkers \/ ShutdownStep
  \/ Crash \/ Start

Spec == Init /\ [][Next]_vars

\* The operations thread is scheduled, and a main thread that has set the
\* first flag of the shutdown sets the others.  Nothing makes the camera
\* deliver, inference finish, the user quit, the report be mailed before
\* the exit, or a dead process start.
Fairness == WF_ops(OperationsStep) /\ WF_main(StopOperations)
-----------------------------------------------------------------------------
(* Properties.                                                             *)

\* Every variable keeps its type, and the queues keep to their sizes.
TypeOK ==
  /\ clock \in Times
  /\ buffer \in {{}} \cup {{t} : t \in Times}
  /\ frames \in 0 .. MaxFrames
  /\ inference \in [pc : {"waiting", "busy", "ended"}, at : Times]
  /\ store \in [Entities -> [life : Lives, seen : Times, wall : Walls]]
  /\ regular \in Seq(Tasks) /\ Len(regular) <= RegularSize
  /\ critical \in Seq(Tasks) /\ Len(critical) <= CriticalSize
  /\ ops \in [pc : {"idle", "updating", "ended"}, at : [Entities -> Walls],
              visible : SUBSET Entities, todo : SUBSET Entities]
  /\ date \in {Day(t) : t \in Times}
  /\ main \in {"running", "stopping", "joining", "exiting", "down"}
  /\ clean \in BOOLEAN
  /\ sessions \in Seq(Row(Entities, Stamps))

\* An entity has at most one open session, whichever thread writes it, in
\* whatever order its tasks arrive, and whether it is visible or not.
OneOpenSession ==
  \A i, j \in OpenRows(sessions) : sessions[i].entity = sessions[j].entity => i = j

Undated(r) == r.started = Seconds /\ r.last = Seconds

Dated(r) ==
  /\ r.started # Seconds /\ r.last # Seconds
  /\ r.started <= r.last

NotAfter(t, wall) == wall # Never /\ t <= wall

\* An open session never claims a later presence than the entity store has
\* observed, so attendance, which is closed by it, is not stretched: not
\* by an occlusion or by a late task.  One of an entity that was tracked
\* and never observed carries no date, and does not outlive its own task.
NeverSeenLater ==
  Up => \A i \in OpenRows(sessions) :
          \/ Undated(sessions[i]) /\ ops.pc = "updating"
          \/ Dated(sessions[i]) /\ NotAfter(sessions[i].last, store[sessions[i].entity].wall)

\* A row only moves forward: tasks that were overtaken do not take back
\* the last observation, and a closed session is history.
SessionsMoveForward ==
  [][\A i \in 1 .. Len(sessions) :
       /\ i <= Len(sessions')
       /\ sessions'[i].entity = sessions[i].entity
       /\ sessions'[i].started = sessions[i].started
       /\ \/ sessions'[i].last = sessions[i].last
          \/ /\ Seconds \notin {sessions[i].last, sessions'[i].last}
             /\ sessions'[i].last > sessions[i].last
       /\ ~IsOpen(sessions[i]) => sessions'[i] = sessions[i]]_sessions

\* stop_event is set before operations.stop(): when the operations thread
\* ends with empty queues, inference can submit the result in its hand
\* and no other, so a shutdown leaves at most one task unhandled.
AtMostOneLeftBehind == ops.pc = "ended" => Len(regular) + Len(critical) <= 1

\* A shutdown that has joined all threads leaves no session open, although
\* they write until they end.
CleanExitClosesAll ==
  clean /\ main \in {"exiting", "down"} => OpenRows(sessions) = {}

\* Once the shutdown has begun, the operations thread works off what is
\* queued and ends, unless the process is gone first.
ShutdownDrains == Stopping ~> (ops.pc = "ended" \/ ~Up)

\* What the operations thread has before it, as a number: a task costs its
\* upserts, of which there are at most MaxEntities, and its sweep.
TaskCost == MaxEntities + 2

\* Tasks queued, and the one inference may still submit in a shutdown.
TasksLeft ==
  Len(regular) + Len(critical) + (IF inference.pc = "ended" THEN 0 ELSE 1)

CostOfTask ==
  CASE ops.pc = "updating" -> 2 + Cardinality(ops.todo)
    [] ops.pc = "idle" -> 1
    [] ops.pc = "ended" -> 0

Work == TasksLeft * TaskCost + CostOfTask

\* From the first flag of the shutdown until the process is gone, no thread
\* makes more work for the operations thread, and each of its own steps
\* leaves less: it needs at most Work steps, whatever the others do.
WorksDown ==
  [][Stopping /\ Up' => /\ Work' <= Work
                        /\ ops' # ops => Work' < Work]_<<main, inference, queues, ops>>

\* Table, entity store and process as a log of visits.
Visit(r) ==
  [entity |-> r.entity, from |-> r.started, to |-> r.last, over |-> ~IsOpen(r)]
VisitsOf(rows) == [i \in 1 .. Len(rows) |-> Visit(rows[i])]
SeenOf(st) == [e \in Entities |-> st[e].wall]

Log == INSTANCE PresenceLog WITH
         log <- VisitsOf(sessions), seen <- SeenOf(store), running <- Up

\* Camera, inference, operations and main thread, with their queues, their
\* crashes and their restarts, keep a log of visits.
ImplementsPresenceLog == Log!Spec
-----------------------------------------------------------------------------
(* The inductive invariant: why the properties hold.                       *)

\* A task says of an entity it shows no more than the store has observed.
Observed(task) ==
  \A e \in task.visible : task.at[e] # Never => NotAfter(task.at[e], store[e].wall)

TasksObserved ==
  /\ \A i \in 1 .. Len(regular) : Observed(regular[i])
  /\ \A i \in 1 .. Len(critical) : Observed(critical[i])
  /\ Observed(ops)

\* An observation belongs to a track: it is not later than the track's.
TrackedFirst ==
  \A e \in Entities : store[e].wall # Never => store[e].wall <= store[e].seen

\* The operations thread ends in a shutdown with empty queues, and inference
\* ends with the one task it may still submit.
EndsEmpty ==
  ops.pc = "ended" =>
    /\ OpsStopped
    /\ inference.pc # "ended" => regular = <<>> /\ critical = <<>>

\* A clean shutdown is one whose writers are gone.
CleanIsEnded ==
  clean => main = "down" \/ (main = "exiting" /\ WritersEnded)

IInv ==
  /\ TypeOK
  /\ OneOpenSession
  /\ NeverSeenLater
  /\ TasksObserved
  /\ TrackedFirst
  /\ EndsEmpty
  /\ AtMostOneLeftBehind
  /\ CleanIsEnded
  /\ CleanExitClosesAll
=============================================================================
