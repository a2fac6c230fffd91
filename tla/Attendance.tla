----------------------------- MODULE Attendance -----------------------------
(***************************************************************************)
(* One person's attendance row per day, written by three threads of the    *)
(* edge runtime and by the backend.                                        *)
(*                                                                         *)
(*   "ops"   OperationalWorker: presence refresh, automatic clock-in, and  *)
(*           once a second reconcile()                                     *)
(*   "main"  the main loop: centre-mode clock-in, clicks on the roster,    *)
(*           and the close at shutdown                                     *)
(*   "cmd"   RuntimeWorker: manual clock-in and clock-out commands         *)
(*   backend clock_in, clock_out and correct_attendance, each a            *)
(*           transaction that also reads inside it                         *)
(*                                                                         *)
(* The engine reads a row, decides, and writes in a later transaction, so  *)
(* every operation of a thread is split at that point.  Day and time of    *)
(* day are two readings of the clock, and time may pass before, between    *)
(* and after them.  attendance_lock orders automatic and centre-mode       *)
(* clock-ins only.                                                         *)
(***************************************************************************)
EXTENDS Naturals, FiniteSets

CONSTANTS People,          \* the roster
          Threads,         \* the threads of the runtime that take part
          Never,           \* SQL NULL
          DayLength,       \* instants in a day
          Timeout,         \* AUTO_CLOCKOUT_TIMEOUT_MIN, in instants
          LockWait,        \* instants the backend may wait for the write lock
          MaxTime,         \* bound: the last instant
          MaxCorrections   \* bound: corrections by an operator

ASSUME ConstantsAssumption ==
  /\ Never \notin Nat
  /\ Never \notin People
  /\ {"ops", "main"} \subseteq Threads /\ Threads \subseteq {"ops", "main", "cmd"}
  /\ DayLength \in Nat \ {0}
  /\ Timeout \in Nat \ {0}
  /\ {LockWait, MaxTime, MaxCorrections} \subseteq Nat

VARIABLES clock,        \* the wall clock
          rows,         \* table attendance: rows[person][day]
          cache,        \* AttendanceManager._today_clocked_in
          date,         \* AttendanceManager._date
          engine,       \* the edge runtime's process
          local,        \* what each thread of it is doing
          corrections,  \* corrections made so far
          witnessed,    \* history: the latest presence a row ever recorded
          straddled     \* history: rows whose day was read before a midnight
                        \* and the time to write into them after it

table == <<rows, witnessed>>
history == <<witnessed, straddled>>
vars == <<clock, rows, cache, date, engine, local, corrections, history>>

Times == 0 .. MaxTime
Day(t) == t \div DayLength
Days == {Day(t) : t \in Times}
Today == Day(clock)

NoRow == [in |-> Never, out |-> Never, seen |-> Never]
Row == [in : Times \cup {Never}, out : Times \cup {Never}, seen : Times \cup {Never}]

Open(r) == r.in # Never /\ r.out = Never

\* last_seen_at or clock_in, where an open row is closed.
LastPresence(r) == IF r.seen = Never THEN r.in ELSE r.seen

\* The trigger of the schema: a write that breaks this is aborted.
Chronological(r) == (r.in # Never /\ r.out # Never) => r.in <= r.out

\* (mutant) The insert overwrites the row instead of keeping its clock-in.
InsertedAnew(r, t) == [in |-> t, out |-> r.out, seen |-> t]

\* INSERT ... ON CONFLICT DO UPDATE of an engine clock-in decided at t.
Inserted(r, t) ==
  [in |-> IF r.in = Never THEN t ELSE r.in, out |-> r.out, seen |-> t]

\* UPDATE ... SET clock_out, with COALESCE(last_seen_at, clock_out).
ClosedAt(r, t) ==
  [r EXCEPT !.out = t, !.seen = IF r.seen = Never THEN t ELSE r.seen]

\* Of two times that may be missing, the later; and whether t is backed by w.
LaterOf(a, b) == IF a = Never \/ (b # Never /\ a < b) THEN b ELSE a
NotAfter(t, w) == w # Never /\ t <= w

\* A row is written; what it says of the person's presence is remembered.
Write(p, d, r) ==
  /\ rows' = [rows EXCEPT ![p][d] = r]
  /\ witnessed' =
       [witnessed EXCEPT ![p][d] = LaterOf(@, LaterOf(r.in, r.seen))]

Close == [who : People, day : Days, out : Times]

\* A day and a time were read for the row of p; midnight may have passed.
Remembered(p, d, t) ==
  straddled' = IF Day(t) = d THEN straddled ELSE straddled \cup {<<p, d>>}

Ops == {"none", "reconcile", "recognise", "centre", "manualIn", "manualOut", "shutdown"}
Pcs == {"idle", "collect", "rollover", "touch", "list", "look", "insert", "remember",
        "read", "stamp", "update", "forget"}

\* at: the time decided on in "insert" and "update", the clock-in read in
\* "stamp", and before that the instant of the thread's last step.
Local == [op : Ops, pc : Pcs, who : People \cup {Never}, day : Days, at : Times,
          todo : SUBSET Close, done : SUBSET People]
Idle == [op |-> "none", pc |-> "idle", who |-> Never, day |-> 0, at |-> 0,
         todo |-> {}, done |-> {}]

IsIdle(t) == local[t] = Idle
Become(t, l) == local' = [local EXCEPT ![t] = l]
Finish(t) == Become(t, Idle)

\* The process is gone, and with it what it kept in memory.
Stop ==
  /\ engine' = "down"
  /\ cache' = {}
  /\ local' = [t \in Threads |-> Idle]

At(t, pc) == local[t].pc = pc

\* attendance_lock: the recogniser's clock-ins and the close at shutdown take
\* it, reconcile and the manual operations do not.
Locked == {"recognise", "centre", "shutdown"}

\* (mutant) The recogniser's clock-in does not take the lock.
LockFreeForCentre == \A t \in Threads : local[t].op # "centre"

LockFree == \A t \in Threads : local[t].op \notin Locked

----------------------------------------------------------------------------
Init ==
  /\ clock = 0
  /\ rows = [p \in People |-> [d \in Days |-> NoRow]]
  /\ cache = {}
  /\ date = 0
  /\ engine = "up"
  /\ local = [t \in Threads |-> Idle]
  /\ corrections = 0
  /\ witnessed = [p \in People |-> [d \in Days |-> Never]]
  /\ straddled = {}

Tick ==
  /\ clock < MaxTime
  /\ clock' = clock + 1
  /\ UNCHANGED <<rows, history, cache, date, engine, local, corrections>>

----------------------------------------------------------------------------
\* Where an operation goes once the day is current.
FirstPc(op) == CASE op \in {"reconcile", "shutdown"}   -> "list"
                 [] op = "manualOut"                   -> "read"
                 [] op = "recognise"                   -> "touch"
                 [] OTHER                              -> "look"

\* _maybe_rollover starts the recogniser's operations and reconcile: it reads
\* the day, and a new one is noticed.
Begin(t, op, p) ==
  /\ IsIdle(t)
  /\ engine = "up" \/ (engine = "stopping" /\ t = "ops")
  /\ op \in Locked => LockFree
  /\ LET l == [Idle EXCEPT !.op = op, !.who = p] IN
     IF op \in {"reconcile", "recognise", "centre"} /\ date # Today
     THEN Become(t, [l EXCEPT !.pc = "collect", !.day = Today])
     ELSE Become(t, [l EXCEPT !.pc = FirstPc(op), !.at = clock])
  /\ UNCHANGED <<clock, rows, history, cache, date, engine, corrections>>

\* The rows of days before d that close_open_attendance_before reads.
LeftOpen(d) ==
  {c \in Close : /\ c.day < d
                 /\ Open(rows[c.who][c.day])
                 /\ c.out = LastPresence(rows[c.who][c.day])}

Collect(t) ==
  /\ At(t, "collect")
  /\ Become(t, [local[t] EXCEPT !.pc = "rollover", !.todo = LeftOpen(local[t].day)])
  /\ UNCHANGED <<clock, rows, history, cache, date, engine, corrections>>

\* What a set of closes leaves in the table: UPDATE ... WHERE clock_out IS NULL.
Reconciled(closes) ==
  [p \in People |-> [d \in Days |->
     IF rows[p][d].out = Never /\ \E c \in closes : c.who = p /\ c.day = d
     THEN [rows[p][d] EXCEPT
             !.out = (CHOOSE c \in closes : c.who = p /\ c.day = d).out]
     ELSE rows[p][d]]]

Accepted(c) ==
  rows[c.who][c.day].out = Never =>
    Chronological([rows[c.who][c.day] EXCEPT !.out = c.out])

\* The rest of _maybe_rollover.  A close that the trigger refuses ends the
\* loop, and the exception is swallowed: the closes before it may be
\* committed later or be lost, and the day counts as reconciled either way.
Rollover(t) ==
  /\ At(t, "rollover")
  /\ IF \A c \in local[t].todo : Accepted(c)
     THEN rows' = Reconciled(local[t].todo)
     ELSE \E closes \in SUBSET {c \in local[t].todo : Accepted(c)} :
            rows' = Reconciled(closes)
  /\ cache' = {}
  /\ date' = local[t].day
  /\ Become(t, [local[t] EXCEPT !.pc = FirstPc(local[t].op), !.day = 0, !.at = clock,
                                !.todo = {}])
  /\ UNCHANGED <<clock, engine, corrections, history>>

----------------------------------------------------------------------------
\* The instants at which a thread may have read the clock since its last step.
Readings(t) == local[t].at .. clock

\* The instants at which a transaction that commits now may have read the clock.
Recently == {t \in 0 .. clock : clock <= t + LockWait}

\* The row of p for day d was selected before the clock was read at u.
SelectedBy(p, d, u) == rows[p][d].seen \in {Never} \cup 0 .. u

\* touch_attendance_presence: SELECT on day d and UPDATE on day e, the same
\* unless midnight falls between; seen never moves back what was selected.
Refresh(p, seen, d, e) ==
  IF Open(rows[p][d]) /\ Open(rows[p][e])
  THEN Write(p, e, [rows[p][e] EXCEPT !.seen = LaterOf(seen, rows[p][d].seen)])
  ELSE UNCHANGED table

\* A task of the operations queue refreshes the row; what it observed may be
\* older than the observations of tasks already handled.
Observe(p, seen, d, e) ==
  /\ engine # "down"
  /\ IsIdle("ops")
  /\ Refresh(p, seen, d, e)
  /\ UNCHANGED <<clock, straddled, cache, date, engine, local, corrections>>

\* The recogniser refreshes the row with the present time and looks in the cache.
Touch(t) ==
  LET l == local[t] IN
  /\ At(t, "touch")
  /\ \E seen, s, u \in Readings(t) :
       /\ seen <= s /\ s <= u
       /\ SelectedBy(l.who, Day(s), u)
       /\ Refresh(l.who, seen, Day(s), Day(u))
  /\ IF l.who \in cache
     THEN Finish(t)
     ELSE Become(t, [l EXCEPT !.pc = "look", !.at = clock])
  /\ UNCHANGED <<clock, straddled, cache, date, engine, corrections>>

\* A clock-in reads the day, then the time, then the row of that day.
LookAt(t, d, now) ==
  LET l == local[t]
      r == rows[l.who][d] IN
  /\ IF r.in # Never
     THEN Finish(t) /\ UNCHANGED straddled
     ELSE /\ Become(t, [l EXCEPT !.pc = "insert", !.day = d, !.at = now])
          /\ Remembered(l.who, d, now)
  /\ cache' = IF r.in # Never /\ l.op # "manualIn" THEN cache \cup {l.who} ELSE cache
  /\ UNCHANGED <<clock, table, date, engine, corrections>>

Look(t) ==
  /\ At(t, "look")
  /\ \E s, u \in Readings(t) : s <= u /\ LookAt(t, Day(s), u)

\* (mutant) The day is computed again when the row is written.
InsertToday(t) ==
  LET l == local[t]
      r == Inserted(rows[l.who][Today], l.at) IN
  /\ At(t, "insert")
  /\ Chronological(r)
  /\ Write(l.who, Today, r)
  /\ IF l.op = "manualIn"
     THEN Finish(t)
     ELSE Become(t, [l EXCEPT !.pc = "remember", !.day = 0, !.at = 0])
  /\ UNCHANGED <<clock, straddled, cache, date, engine, corrections>>

\* The transaction of attendance_clock_in.
Insert(t) ==
  LET l == local[t]
      r == Inserted(rows[l.who][l.day], l.at) IN
  /\ At(t, "insert")
  /\ Chronological(r)
  /\ Write(l.who, l.day, r)
  /\ IF l.op = "manualIn"
     THEN Finish(t)
     ELSE Become(t, [l EXCEPT !.pc = "remember", !.day = 0, !.at = 0])
  /\ UNCHANGED <<clock, straddled, cache, date, engine, corrections>>

\* Schedule, calendar or provenance refuse the clock-in, or the transaction
\* fails: nothing is written.
ClockInRefused(t) ==
  /\ At(t, "insert")
  /\ Finish(t)
  /\ UNCHANGED <<clock, rows, history, cache, date, engine, corrections>>

Remember(t) ==
  /\ At(t, "remember")
  /\ cache' = cache \cup {local[t].who}
  /\ Finish(t)
  /\ UNCHANGED <<clock, rows, history, date, engine, corrections>>

----------------------------------------------------------------------------
\* The rows of day d a loop closes: those stale at `now`
\* (close_stale_attendance) or all (close_open_attendance_for_shutdown).
Stale(p, d, now) ==
  /\ Open(rows[p][d])
  /\ LastPresence(rows[p][d]) + Timeout <= now

\* (mutant) A row is closed at the time of the sweep.
ToCloseNow(op, d, now) ==
  {c \in Close : /\ c.day = d
                 /\ IF op = "shutdown" THEN Open(rows[c.who][d]) ELSE Stale(c.who, d, now)
                 /\ c.out = now}

ToClose(op, d, now) ==
  {c \in Close : /\ c.day = d
                 /\ IF op = "shutdown" THEN Open(rows[c.who][d]) ELSE Stale(c.who, d, now)
                 /\ c.out = LastPresence(rows[c.who][d])}

\* The time against which rows are stale is read first, then the day.
List(t) ==
  /\ At(t, "list")
  /\ \E now, s \in Readings(t) :
       /\ now <= s
       /\ Become(t, [local[t] EXCEPT !.pc = "read", !.at = clock,
                                     !.todo = ToClose(local[t].op, Day(s), now)])
  /\ UNCHANGED <<clock, rows, history, cache, date, engine, corrections>>

\* (mutant) A time before the clock-in is written as it is.
ReadUnadjusted(t, d, c) ==
  LET r == rows[c.who][d]
      l == [local[t] EXCEPT !.todo = @ \ {c}] IN
  IF r.in = Never
  THEN Become(t, [l EXCEPT !.at = clock])
  ELSE Become(t, [l EXCEPT !.pc = "update", !.who = c.who, !.day = d, !.at = c.out])

\* attendance_clock_out for a loop: it reads the day anew and the row of that
\* day again, and moves a time before the clock-in up to it.
ReadToClose(t, d, c) ==
  LET r == rows[c.who][d]
      l == [local[t] EXCEPT !.todo = @ \ {c}] IN
  IF r.in = Never
  THEN Become(t, [l EXCEPT !.at = clock])
  ELSE Become(t, [l EXCEPT !.pc = "update", !.who = c.who, !.day = d,
                           !.at = IF c.out < r.in THEN r.in ELSE c.out])

\* attendance_clock_out by hand: the time is read after the row.
ReadByHand(t, d) ==
  LET r == rows[local[t].who][d] IN
  IF r.in = Never
  THEN Finish(t)
  ELSE Become(t, [local[t] EXCEPT !.pc = "stamp", !.day = d, !.at = r.in])

Read(t) ==
  /\ At(t, "read")
  /\ \E s \in Readings(t) :
       IF local[t].op = "manualOut"
       THEN ReadByHand(t, Day(s))
       ELSE \E c \in local[t].todo : ReadToClose(t, Day(s), c)
  /\ UNCHANGED <<clock, rows, history, cache, date, engine, corrections>>

Stamp(t) ==
  LET l == local[t]
      now == IF clock < l.at THEN l.at ELSE clock IN
  /\ At(t, "stamp")
  /\ Become(t, [l EXCEPT !.pc = "update", !.at = now])
  /\ Remembered(l.who, l.day, now)
  /\ UNCHANGED <<clock, table, cache, date, engine, corrections>>

\* What the loop does once a row is dealt with.
Resume(t, closed) ==
  LET l == local[t] IN
  Become(t, [l EXCEPT !.pc = IF l.op = "manualOut" THEN "forget" ELSE "read",
                      !.who = Never, !.day = 0,
                      !.at = IF l.op = "manualOut" THEN 0 ELSE clock,
                      !.done = @ \cup closed])

\* (mutant) The update forgets AND clock_out IS NULL.
UpdateAnyway(t) ==
  LET l == local[t]
      r == rows[l.who][l.day] IN
  /\ At(t, "update")
  /\ Chronological(ClosedAt(r, l.at))
  /\ Write(l.who, l.day, ClosedAt(r, l.at))
  /\ Resume(t, {l.who})
  /\ UNCHANGED <<clock, straddled, cache, date, engine, corrections>>

\* The transaction of attendance_clock_out.
Update(t) ==
  LET l == local[t]
      r == rows[l.who][l.day] IN
  /\ At(t, "update")
  /\ r.out = Never
  /\ Chronological(ClosedAt(r, l.at))
  /\ Write(l.who, l.day, ClosedAt(r, l.at))
  /\ Resume(t, {l.who})
  /\ UNCHANGED <<clock, straddled, cache, date, engine, corrections>>

\* Another writer closed the row since it was read.
UpdateFindsClosed(t) ==
  LET l == local[t] IN
  /\ At(t, "update")
  /\ rows[l.who][l.day].out # Never
  /\ Resume(t, {})
  /\ UNCHANGED <<clock, rows, history, cache, date, engine, corrections>>

\* A correction moved the clock-in past the time decided on: the trigger
\* aborts, and the exception ends the whole loop.
UpdateAborts(t) ==
  LET l == local[t]
      r == rows[l.who][l.day] IN
  /\ At(t, "update")
  /\ r.out = Never
  /\ ~Chronological(ClosedAt(r, l.at))
  /\ IF l.op = "shutdown" THEN Stop ELSE Finish(t) /\ UNCHANGED <<cache, engine>>
  /\ UNCHANGED <<clock, rows, history, date, corrections>>

\* The manager drops the people it closed from its cache; after the close at
\* shutdown the process ends.
Forget(t) ==
  LET l == local[t] IN
  /\ At(t, "forget") \/ (At(t, "read") /\ l.op # "manualOut" /\ l.todo = {})
  /\ IF l.op = "shutdown"
     THEN Stop
     ELSE Finish(t) /\ cache' = cache \ l.done /\ UNCHANGED engine
  /\ UNCHANGED <<clock, rows, history, date, corrections>>

----------------------------------------------------------------------------
\* main()'s finally block stops the threads.  OperationalWorker first empties
\* its queues, and the join does not wait longer than its timeout, so
\* operations of the other threads may go on.
Shutdown ==
  /\ engine = "up"
  /\ IsIdle("main")
  /\ engine' = "stopping"
  /\ UNCHANGED <<clock, rows, history, cache, date, local, corrections>>

CloseForShutdown ==
  /\ engine = "stopping"
  /\ IsIdle("main")
  /\ LockFree
  /\ Become("main", [Idle EXCEPT !.op = "shutdown", !.pc = "list", !.at = clock])
  /\ UNCHANGED <<clock, rows, history, cache, date, engine, corrections>>

Crash ==
  /\ engine # "down"
  /\ Stop
  /\ UNCHANGED <<clock, rows, history, date, corrections>>

\* AttendanceManager.__init__
Start ==
  /\ engine = "down"
  /\ engine' = "up"
  /\ date' = Today
  /\ UNCHANGED <<clock, rows, history, cache, local, corrections>>

----------------------------------------------------------------------------
\* The backend's transactions.  Day and time are read before the transaction
\* waits for the write lock.
ClockIn(p, d, now) ==
  LET r == [rows[p][d] EXCEPT !.in = now] IN
  /\ rows[p][d].in = Never
  /\ Chronological(r)
  /\ Write(p, d, r)
  /\ Remembered(p, d, now)
  /\ UNCHANGED <<clock, cache, date, engine, local, corrections>>

ClockOut(p, d, now) ==
  LET r == [rows[p][d] EXCEPT !.out = now] IN
  /\ rows[p][d].in # Never
  /\ Chronological(r)
  /\ Write(p, d, r)
  /\ Remembered(p, d, now)
  /\ UNCHANGED <<clock, cache, date, engine, local, corrections>>

\* correct_attendance: an operator gives times of that day, or leaves them out.
Correct(p, d, in, out) ==
  LET r == [rows[p][d] EXCEPT !.in = in, !.out = out] IN
  /\ corrections < MaxCorrections
  /\ Chronological(r)
  /\ Write(p, d, r)
  /\ corrections' = corrections + 1
  /\ UNCHANGED <<clock, straddled, cache, date, engine, local>>

TimesOf(d) == {t \in 0 .. clock : Day(t) = d} \cup {Never}

BackendStep ==
  \/ \E p \in People, s, u \in Recently :
       s <= u /\ (ClockIn(p, Day(s), u) \/ ClockOut(p, Day(s), u))
  \/ \E p \in People, d \in 0 .. Today :
       \E in, out \in TimesOf(d) : Correct(p, d, in, out)

Proceed(t) ==
  \/ Collect(t) \/ Rollover(t) \/ Touch(t)
  \/ Look(t) \/ Insert(t) \/ ClockInRefused(t) \/ Remember(t)
  \/ List(t) \/ Read(t) \/ Stamp(t)
  \/ Update(t) \/ UpdateFindsClosed(t) \/ UpdateAborts(t) \/ Forget(t)

Reconcile == Begin("ops", "reconcile", Never)

EngineStep ==
  \/ Reconcile
  \/ \E p \in People :
       \/ \E seen, s, u \in 0 .. clock :
            /\ {s, u} \subseteq Recently /\ s <= u /\ SelectedBy(p, Day(s), u)
            /\ seen <= s /\ Observe(p, seen, Day(s), Day(u))
       \/ Begin("ops", "recognise", p)
       \/ Begin("main", "centre", p)
       \/ \E t \in Threads \ {"ops"} :
            Begin(t, "manualIn", p) \/ Begin(t, "manualOut", p)
  \/ \E t \in Threads : Proceed(t)
  \/ Shutdown \/ CloseForShutdown
  \/ Crash
  \/ Start

Next == Tick \/ BackendStep \/ EngineStep

Spec == Init /\ [][Next]_vars

\* OperationalWorker goes on with what it has begun, and its loop calls
\* reconcile once a second however many tasks are queued.
Fairness == WF_vars(Proceed("ops")) /\ SF_vars(Reconcile)

----------------------------------------------------------------------------
\* The variables have their types, a thread's operation and place agree, and
\* attendance_lock has at most one holder.
TypeOK ==
  /\ clock \in Times
  /\ rows \in [People -> [Days -> Row]]
  /\ cache \in SUBSET People
  /\ date \in Days
  /\ engine \in {"up", "stopping", "down"}
  /\ local \in [Threads -> Local]
  /\ \A t \in Threads : local[t].op = "none" <=> local[t] = Idle
  /\ \A t, u \in Threads : local[t].op \in Locked /\ local[u].op \in Locked => t = u
  /\ corrections \in 0 .. MaxCorrections
  /\ witnessed \in [People -> [Days -> Times \cup {Never}]]
  /\ straddled \in SUBSET (People \X Days)

\* A time is not of a later day than the row's, unless a writer of the row
\* read the day before a midnight and the time after it; and a time fits the
\* row if it is not of an earlier day either.
Within(p, d, t, late) == Day(t) <= d \/ <<p, d>> \in late
Fits(p, d, t, late) == d <= Day(t) /\ Within(p, d, t, late)

\* The interval of a row is in order and belongs to the row's day, although
\* the writer chose the day and the time before its transaction and midnight,
\* a late observation or a correction may come between.  It reaches past the
\* day only after a writer read the two on different sides of a midnight.
IntervalOnItsDay ==
  \A p \in People, d \in Days :
    LET r == rows[p][d] IN
    r.in # Never =>
      /\ Fits(p, d, r.in, straddled)
      /\ r.out # Never => r.in <= r.out /\ Fits(p, d, r.out, straddled)

\* No time of a row lies in the future or reaches past the row's day.
PastTimes ==
  \A p \in People, d \in Days :
    LET r == rows[p][d] IN
    \A t \in {r.in, r.out, r.seen} \ {Never} :
      t <= clock /\ Within(p, d, t, straddled)

\* What a thread is about to write is a past time that fits the day it chose.
DecidedInTime(l, now, late) ==
  /\ l.pc \in {"collect", "rollover"} =>
       l.op = "reconcile" \/ (l.op \in {"recognise", "centre"} /\ l.who \in People)
  /\ l.pc \in {"touch", "look", "insert", "remember", "stamp", "update"} =>
       l.who \in People
  /\ l.pc = "list" => l.op # "manualOut"
  /\ l.pc = "stamp" => l.op = "manualOut"
  /\ l.op = "manualOut" /\ l.pc = "read" => l.who \in People
  /\ l.at <= now
  /\ l.day <= Day(now)
  /\ l.pc \in {"insert", "stamp", "update"} => Fits(l.who, l.day, l.at, late)
  /\ \A c \in l.todo :
       /\ c.out <= now /\ c.day <= Day(now)
       /\ Within(c.who, c.day, c.out, late)
       /\ l.pc = "read" => c.out <= l.at /\ c.day <= Day(l.at)

\* The presence recorded in a row of p, of day d or before, reaches t.
Backed(p, d, t) == \E e \in Days : e <= d /\ NotAfter(t, witnessed[p][e])

\* Rows, and what threads are about to close them with, claim no presence
\* after the last one recorded: a clock-in that takes last_seen_at back leaves
\* closes behind that were decided on the later value.
Witnessed ==
  /\ \A p \in People, d \in Days :
       \A t \in {rows[p][d].in, rows[p][d].seen} \ {Never} :
         NotAfter(t, witnessed[p][d])
  /\ \A t \in Threads :
       LET l == local[t] IN
       /\ \A c \in l.todo : NotAfter(c.out, witnessed[c.who][c.day])
       /\ l.pc = "update" /\ l.op # "manualOut" => Backed(l.who, l.day, l.at)

IInv ==
  /\ TypeOK
  /\ IntervalOnItsDay
  /\ PastTimes
  /\ \A t \in Threads : DecidedInTime(local[t], clock, straddled)
  /\ Witnessed

\* A recorded clock-in is moved by an operator's correction only: a second
\* clock-in that read the table before the first one leaves it alone.
FirstClockInKept ==
  [][\A p \in People, d \in Days :
       (rows[p][d].in # Never /\ rows'[p][d].in # rows[p][d].in)
         => corrections' # corrections]_vars

\* No thread of the engine changes a recorded clock-out, even one that read
\* the row while it was open: only the backend's operators do.
ClosedStaysClosed ==
  [][\A p \in People, d \in Days :
       (rows[p][d].out # Never /\ rows'[p][d].out # rows[p][d].out)
         => UNCHANGED <<local, engine, cache>>]_vars

\* An operator's clock-out: a transaction of the backend, or the write of a
\* manual command.
ByHand ==
  \/ UNCHANGED <<local, engine, cache>>
  \/ \E t \in Threads : /\ At(t, "update") /\ local[t].op = "manualOut"
                        /\ local'[t] # local[t]

\* A clock-out nobody asked for (the sweep, the rollover, the shutdown) claims
\* no presence after the last one recorded of the person, although it was
\* decided before the write, perhaps before midnight, and last_seen_at may be
\* moved back.
NotStretched ==
  [][\A p \in People, d \in Days :
       rows'[p][d].out \notin {rows[p][d].out, Never} =>
         ByHand \/ Backed(p, d, rows'[p][d].out)]_vars

\* While the runtime is up, a row whose person has not been seen for the
\* timeout does not stay open for ever, whatever the other writers do to it.
AbsentIsClosed ==
  \A p \in People : ~<>[](engine = "up" /\ Stale(p, Today, clock))

============================================================================
