-------------------------- MODULE AttendanceProofs --------------------------
(***************************************************************************)
(* IInv is inductive, and the properties that only look at one step follow *)
(* from it.  A row is good (RowOK) and a thread's state is good (LocalOK)  *)
(* at an instant c, given the set s of rows whose day and time were read   *)
(* on two sides of a midnight; every operator that makes a row or a        *)
(* thread's state has a lemma, and one lemma per action puts them together.*)
(***************************************************************************)
EXTENDS Attendance, TLAPS

\* The day of a time is a natural number and grows with the time.
LEMMA DayIsNat == \A t \in Nat : Day(t) \in Nat
  BY ConstantsAssumption, SMT DEF Day

LEMMA ProductGrows ==
  ASSUME NEW n \in Nat \ {0}, NEW p \in Nat, NEW q \in Nat, p < q
  PROVE  n * p + n <= n * q
  BY SMT

LEMMA DayDivides ==
  ASSUME NEW t \in Nat
  PROVE  DayLength * Day(t) <= t /\ t < DayLength * Day(t) + DayLength
  BY ConstantsAssumption, SMT DEF Day

LEMMA DayMonotone ==
  ASSUME NEW s \in Nat, NEW t \in Nat, s <= t
  PROVE  Day(s) <= Day(t)
<1> DEFINE n == DayLength
<1> DEFINE a == Day(s)
<1> DEFINE b == Day(t)
<1>1. n \in Nat \ {0} /\ a \in Nat /\ b \in Nat
  BY ConstantsAssumption, DayIsNat
<1>2. n * a <= s /\ t < n * b + n
  BY DayDivides
<1>3. b < a => n * b + n <= n * a
  BY <1>1, ProductGrows
<1>4. n * a \in Nat /\ n * b + n \in Nat
  BY <1>1
<1> HIDE DEF n, a, b
<1>5. a <= b
  BY <1>1, <1>2, <1>3, <1>4
<1> QED BY <1>5 DEF a, b

LEMMA Calendar ==
  /\ \A t \in Times : t \in Nat /\ Day(t) \in Days /\ Day(t) \in Nat /\ t # Never
  /\ \A s, t \in Times : s <= t => Day(s) <= Day(t)
  /\ \A d \in Days : d \in Nat
  /\ 0 \in Times /\ 0 \in Days
<1>1. Times \subseteq Nat /\ 0 \in Times
  BY ConstantsAssumption DEF Times
<1>2. \A t \in Times : Day(t) \in Days
  BY DEF Days
<1>3. Day(0) = 0
  BY ConstantsAssumption DEF Day
<1>4. 0 \in Days
  BY <1>1, <1>2, <1>3
<1> QED BY <1>1, <1>2, <1>4, DayIsNat, DayMonotone, ConstantsAssumption DEF Days

-----------------------------------------------------------------------------
\* A row of p for day d that IInv admits at instant c.
RowOK(r, p, d, c, s) ==
  /\ r \in Row
  /\ \A t \in {r.in, r.out, r.seen} \ {Never} : t <= c /\ Within(p, d, t, s)
  /\ r.in # Never => d <= Day(r.in)
  /\ Chronological(r)

LEMMA NoRowOK ==
  ASSUME NEW p, NEW d, NEW c, NEW s
  PROVE  RowOK(NoRow, p, d, c, s)
  BY ConstantsAssumption DEF RowOK, NoRow, Row, Chronological

LEMMA LaterRowOK ==
  ASSUME NEW r, NEW p \in People, NEW d \in Days, NEW c \in Times, NEW e \in Times, c <= e,
         NEW s, NEW u, s \subseteq u, RowOK(r, p, d, c, s)
  PROVE  RowOK(r, p, d, e, u)
<1>1. \A t \in {r.in, r.out, r.seen} \ {Never} : t \in Times
  BY DEF RowOK, Row
<1> QED BY <1>1, Calendar DEF RowOK, Within

LEMMA InsertedOK ==
  ASSUME NEW r, NEW p, NEW d \in Days, NEW c \in Times, NEW s, RowOK(r, p, d, c, s),
         NEW t \in Times, t <= c, Fits(p, d, t, s), Chronological(Inserted(r, t))
  PROVE  RowOK(Inserted(r, t), p, d, c, s)
<1>1. Inserted(r, t) \in Row
  BY DEF Inserted, RowOK, Row
<1>2. /\ Inserted(r, t).in \in {r.in, t} /\ (Inserted(r, t).in = r.in => r.in # Never \/ t = r.in)
      /\ Inserted(r, t).out = r.out
      /\ Inserted(r, t).seen = t
  BY DEF Inserted
<1> QED BY <1>1, <1>2 DEF RowOK, Fits

LEMMA OutOK ==
  ASSUME NEW r, NEW p, NEW d \in Days, NEW c \in Times, NEW s, RowOK(r, p, d, c, s),
         NEW t \in Times, t <= c, Within(p, d, t, s),
         Chronological([r EXCEPT !.out = t])
  PROVE  RowOK([r EXCEPT !.out = t], p, d, c, s)
<1>1. [r EXCEPT !.out = t] \in Row
  BY DEF RowOK, Row
<1>2. /\ [r EXCEPT !.out = t].in = r.in
      /\ [r EXCEPT !.out = t].out = t
      /\ [r EXCEPT !.out = t].seen = r.seen
  BY DEF RowOK, Row
<1> QED BY <1>1, <1>2 DEF RowOK

LEMMA ClosedOK ==
  ASSUME NEW r, NEW p, NEW d \in Days, NEW c \in Times, NEW s, RowOK(r, p, d, c, s),
         NEW t \in Times, t <= c, Within(p, d, t, s), Chronological(ClosedAt(r, t))
  PROVE  RowOK(ClosedAt(r, t), p, d, c, s)
<1>1. ClosedAt(r, t) \in Row
  BY DEF RowOK, Row, ClosedAt
<1>2. /\ ClosedAt(r, t).in = r.in
      /\ ClosedAt(r, t).out = t
      /\ ClosedAt(r, t).seen \in {r.seen, t}
  BY DEF ClosedAt, RowOK, Row
<1> QED BY <1>1, <1>2 DEF RowOK

LEMMA SeenOK ==
  ASSUME NEW r, NEW p, NEW d \in Days, NEW c \in Times, NEW s, RowOK(r, p, d, c, s),
         NEW t \in Times, t <= c, Within(p, d, t, s)
  PROVE  /\ RowOK([r EXCEPT !.seen = t], p, d, c, s)
         /\ [r EXCEPT !.seen = t].in = r.in
         /\ [r EXCEPT !.seen = t].out = r.out
<1>1. [r EXCEPT !.seen = t] \in Row
  BY DEF RowOK, Row
<1>2. /\ [r EXCEPT !.seen = t].in = r.in
      /\ [r EXCEPT !.seen = t].out = r.out
      /\ [r EXCEPT !.seen = t].seen = t
  BY DEF RowOK, Row
<1> QED BY <1>1, <1>2 DEF RowOK, Chronological

LEMMA CorrectedOK ==
  ASSUME NEW r, NEW p, NEW d \in Days, NEW c \in Times, NEW s, RowOK(r, p, d, c, s),
         NEW in \in Times \cup {Never}, NEW out \in Times \cup {Never},
         in # Never => in <= c /\ Fits(p, d, in, s),
         out # Never => out <= c /\ Within(p, d, out, s),
         Chronological([r EXCEPT !.in = in, !.out = out])
  PROVE  RowOK([r EXCEPT !.in = in, !.out = out], p, d, c, s)
<1>1. PICK n : n = [r EXCEPT !.in = in, !.out = out]
  OBVIOUS
<1>2. n \in Row /\ n.in = in /\ n.out = out /\ n.seen = r.seen
  BY <1>1 DEF RowOK, Row
<1>3. Chronological(n)
  BY <1>1
<1>4. RowOK(n, p, d, c, s)
  BY <1>2, <1>3 DEF RowOK, Fits
<1> QED BY <1>1, <1>4

LEMMA PresenceOK ==
  ASSUME NEW r, NEW p, NEW d \in Days, NEW c \in Times, NEW s, RowOK(r, p, d, c, s), Open(r)
  PROVE  /\ LastPresence(r) \in Times
         /\ LastPresence(r) <= c
         /\ Within(p, d, LastPresence(r), s)
  BY DEF RowOK, Row, Open, LastPresence
-----------------------------------------------------------------------------
\* The state of a thread that IInv admits at instant c.
LocalOK(l, c, s) ==
  /\ l \in Local
  /\ l.op = "none" <=> l = Idle
  /\ DecidedInTime(l, c, s)

LEMMA IdleOK ==
  ASSUME NEW c \in Times, NEW s
  PROVE  LocalOK(Idle, c, s) /\ Idle.op = "none" /\ Idle.pc = "idle"
<1>1. 0 <= c /\ 0 <= Day(c) /\ 0 \in Times /\ 0 \in Days
  BY Calendar
<1> QED BY <1>1 DEF LocalOK, Idle, Local, DecidedInTime, Ops, Pcs

LEMMA LaterLocalOK ==
  ASSUME NEW l, NEW c \in Times, NEW e \in Times, c <= e, NEW s, NEW u, s \subseteq u,
         LocalOK(l, c, s)
  PROVE  LocalOK(l, e, u)
<1>1. /\ l.at \in Times /\ l.day \in Days
      /\ \A x \in l.todo : x.out \in Times /\ x.day \in Days
  BY DEF LocalOK, Local, Close
<1>2. \A x \in Days : x <= Day(c) => x <= Day(e)
  BY Calendar
<1>3. \A x \in Times : x <= c => x <= e
  BY Calendar
<1>4. \A p, d, t : /\ Within(p, d, t, s) => Within(p, d, t, u)
                   /\ Fits(p, d, t, s) => Fits(p, d, t, u)
  BY DEF Within, Fits
<1> QED BY <1>1, <1>2, <1>3, <1>4 DEF LocalOK, DecidedInTime

\* A thread that goes on with its operation.
LEMMA GoesOn ==
  ASSUME NEW l \in Local, NEW m \in Local, NEW c \in Times, NEW s,
         l.op # "none", m.op = l.op, DecidedInTime(m, c, s)
  PROVE  LocalOK(m, c, s)
  BY IdleOK DEF LocalOK
-----------------------------------------------------------------------------
RowsGood(rs, c, s) ==
  /\ rs \in [People -> [Days -> Row]]
  /\ \A p \in People, d \in Days : RowOK(rs[p][d], p, d, c, s)

LocalsGood(ls, c, s) ==
  /\ ls \in [Threads -> Local]
  /\ \A t \in Threads : LocalOK(ls[t], c, s)
  /\ \A t, u \in Threads : ls[t].op \in Locked /\ ls[u].op \in Locked => t = u

Typed(w) == w \in [People -> [Days -> Times \cup {Never}]]

RestGood(now, ca, da, en, co, s) ==
  /\ now \in Times
  /\ ca \in SUBSET People
  /\ da \in Days
  /\ en \in {"up", "stopping", "down"}
  /\ co \in 0 .. MaxCorrections
  /\ s \in SUBSET (People \X Days)

Good ==
  /\ RowsGood(rows, clock, straddled)
  /\ LocalsGood(local, clock, straddled)
  /\ RestGood(clock, cache, date, engine, corrections, straddled)

LEMMA RowOKMeans ==
  ASSUME NEW r \in Row, NEW p, NEW d \in Days, NEW c \in Times, NEW s
  PROVE  RowOK(r, p, d, c, s) <=>
           /\ r.in # Never =>
                /\ Fits(p, d, r.in, s)
                /\ r.out # Never => r.in <= r.out /\ Fits(p, d, r.out, s)
           /\ \A t \in {r.in, r.out, r.seen} \ {Never} : t <= c /\ Within(p, d, t, s)
<1>1. \A t, u \in Times : t <= u /\ d <= Day(t) => d <= Day(u)
  BY Calendar
<1>2. r.in \in Times \cup {Never} /\ r.out \in Times \cup {Never}
  BY DEF Row
<1> QED BY <1>1, <1>2 DEF RowOK, Fits, Chronological

LEMMA GoodIsSafe ==
  Good /\ Typed(witnessed) <=>
    /\ TypeOK /\ IntervalOnItsDay /\ PastTimes
    /\ \A t \in Threads : DecidedInTime(local[t], clock, straddled)
<1>1. ASSUME TypeOK
      PROVE  RowsGood(rows, clock, straddled) <=> IntervalOnItsDay /\ PastTimes
  <2>1. \A p \in People, d \in Days : rows[p][d] \in Row
    BY <1>1 DEF TypeOK
  <2>2. clock \in Times /\ rows \in [People -> [Days -> Row]]
    BY <1>1 DEF TypeOK
  <2> QED BY <2>1, <2>2, RowOKMeans DEF RowsGood, IntervalOnItsDay, PastTimes
<1>2. ASSUME TypeOK
      PROVE  LocalsGood(local, clock, straddled) <=>
               \A t \in Threads : DecidedInTime(local[t], clock, straddled)
  BY <1>2 DEF TypeOK, LocalsGood, LocalOK
<1>3. Good /\ Typed(witnessed) => TypeOK
  BY DEF Typed, Good, TypeOK, RowsGood, LocalsGood, RestGood, LocalOK
<1>4. TypeOK => /\ RestGood(clock, cache, date, engine, corrections, straddled)
                /\ Typed(witnessed)
  BY DEF TypeOK, RestGood, Typed
<1> QED BY <1>1, <1>2, <1>3, <1>4 DEF Good

\* A step that writes one row.
LEMMA WriteOK ==
  ASSUME NEW rs, NEW c \in Times, NEW s, RowsGood(rs, c, s),
         NEW p \in People, NEW d \in Days, NEW r, RowOK(r, p, d, c, s)
  PROVE  RowsGood([rs EXCEPT ![p][d] = r], c, s)
<1>1. PICK n : n = [rs EXCEPT ![p][d] = r]
  OBVIOUS
<1>2. /\ n \in [People -> [Days -> Row]]
      /\ \A q \in People, e \in Days : n[q][e] = IF q = p /\ e = d THEN r ELSE rs[q][e]
  BY <1>1 DEF RowsGood, RowOK
<1>3. RowsGood(n, c, s)
  BY <1>2 DEF RowsGood
<1> QED BY <1>1, <1>3

\* A step that changes the state of one thread.
LEMMA BecomeOK ==
  ASSUME NEW ls, NEW c \in Times, NEW s, LocalsGood(ls, c, s),
         NEW t \in Threads, NEW l, LocalOK(l, c, s), l.op \in {ls[t].op, "none"}
  PROVE  LocalsGood([ls EXCEPT ![t] = l], c, s)
<1> DEFINE n == [ls EXCEPT ![t] = l]
<1>1. n \in [Threads -> Local] /\ n[t] = l /\ \A u \in Threads \ {t} : n[u] = ls[u]
  BY DEF LocalsGood, LocalOK
<1>2. "none" \notin Locked
  BY DEF Locked
<1>3. \A u \in Threads : n[u].op \in Locked => ls[u].op \in Locked
  BY <1>1, <1>2
<1> HIDE DEF n
<1>4. LocalsGood(n, c, s)
  BY <1>1, <1>3 DEF LocalsGood
<1> QED BY <1>4 DEF n

LEMMA FinishOK ==
  ASSUME NEW ls, NEW c \in Times, NEW s, LocalsGood(ls, c, s), NEW t \in Threads
  PROVE  LocalsGood([ls EXCEPT ![t] = Idle], c, s)
  BY BecomeOK, IdleOK

\* What Good says of a thread that is at some place of its operation.
LEMMA Busy ==
  ASSUME NEW ls, NEW c \in Times, NEW s, LocalsGood(ls, c, s), NEW t \in Threads,
         ls[t].pc # "idle"
  PROVE  /\ ls[t] \in Local
         /\ ls[t].op # "none"
         /\ DecidedInTime(ls[t], c, s)
  BY DEF LocalsGood, LocalOK, Idle

\* Time passes, and more rows may be straddled.
LEMMA LaterGood ==
  ASSUME NEW c \in Times, NEW e \in Times, c <= e, NEW s, NEW u, s \subseteq u
  PROVE  /\ \A rs : RowsGood(rs, c, s) => RowsGood(rs, e, u)
         /\ \A ls : LocalsGood(ls, c, s) => LocalsGood(ls, e, u)
<1>1. ASSUME NEW rs, RowsGood(rs, c, s) PROVE RowsGood(rs, e, u)
  BY <1>1, LaterRowOK DEF RowsGood
<1>2. ASSUME NEW ls, LocalsGood(ls, c, s) PROVE LocalsGood(ls, e, u)
  BY <1>2, LaterLocalOK DEF LocalsGood
<1> QED BY <1>1, <1>2

-----------------------------------------------------------------------------
LEMMA InitGood == Init => Good
<1> SUFFICES ASSUME Init PROVE Good
  OBVIOUS
<1>1. RowsGood(rows, clock, straddled)
  BY NoRowOK, Calendar DEF Init, RowsGood, RowOK
<1>2. LocalsGood(local, clock, straddled)
  BY IdleOK, Calendar DEF Init, LocalsGood, LocalOK, Locked
<1>3. RestGood(clock, cache, date, engine, corrections, straddled)
  BY ConstantsAssumption, Calendar DEF Init, RestGood
<1> QED BY <1>1, <1>2, <1>3 DEF Good

LEMMA TickGood == Good /\ Tick => Good'
<1> SUFFICES ASSUME Good, Tick PROVE Good'
  OBVIOUS
<1>1. clock \in Times /\ clock' \in Times /\ clock <= clock'
  BY ConstantsAssumption DEF Good, RestGood, Tick, Times
<1>2. RowsGood(rows, clock', straddled) /\ LocalsGood(local, clock', straddled)
  BY <1>1, LaterGood DEF Good
<1> QED BY <1>1, <1>2 DEF Good, RestGood, Tick, history

LEMMA Now ==
  ASSUME Good
  PROVE  /\ clock \in Times
         /\ Today \in Days
         /\ Day(clock) = Today
         /\ \A p \in People, d \in Days : RowOK(rows[p][d], p, d, clock, straddled)
         /\ LocalsGood(local, clock, straddled)
  BY Calendar DEF Good, RestGood, RowsGood, Today

\* The instants of the past, and their days.
LEMMA Past ==
  ASSUME Good, NEW t, t \in 0 .. clock
  PROVE  t \in Times /\ t <= clock /\ Day(t) \in Days /\ Day(t) <= Day(clock)
<1>1. clock \in Times
  BY Now
<1>2. t \in Times /\ t <= clock
  BY <1>1, ConstantsAssumption DEF Times
<1> QED BY <1>1, <1>2, Calendar

LEMMA ReadingsPast ==
  ASSUME Good, NEW t \in Threads, local[t] \in Local, NEW s \in Readings(t)
  PROVE  /\ s \in Times /\ s <= clock /\ Day(s) \in Days /\ Day(s) <= Day(clock)
         /\ local[t].at <= s
<1>1. local[t].at \in Nat /\ clock \in Nat
  BY Now, Calendar DEF Local
<1>2. s \in 0 .. clock /\ local[t].at <= s
  BY <1>1 DEF Readings
<1> QED BY <1>2, Past

\* Closes are good when their times are past and within the days of the rows.
ClosesGood(closes) ==
  /\ closes \in SUBSET Close
  /\ \A c \in closes : /\ c.out <= clock /\ c.day <= Day(clock)
                       /\ Within(c.who, c.day, c.out, straddled)

LEMMA OpenClosesGood ==
  ASSUME Good, NEW closes \in SUBSET Close,
         \A c \in closes : /\ Open(rows[c.who][c.day])
                           /\ c.out = LastPresence(rows[c.who][c.day])
                           /\ c.day <= Day(clock)
  PROVE  ClosesGood(closes)
<1>1. \A c \in closes : c.who \in People /\ c.day \in Days
  BY DEF Close
<1>2. \A c \in closes : RowOK(rows[c.who][c.day], c.who, c.day, clock, straddled)
  BY <1>1, Now
<1>3. \A c \in closes : c.out <= clock /\ Within(c.who, c.day, c.out, straddled)
  BY <1>1, <1>2, Now, PresenceOK
<1> QED BY <1>3 DEF ClosesGood

LEMMA LeftOpenOK ==
  ASSUME Good, NEW d \in Days, d <= Day(clock)
  PROVE  ClosesGood(LeftOpen(d))
<1>1. \A c \in LeftOpen(d) : c \in Close /\ c.day \in Days /\ c.day < d
  BY DEF LeftOpen, Close
<1>2. \A c \in LeftOpen(d) : c.day <= Day(clock)
  BY <1>1, Now, Calendar
<1> QED BY <1>1, <1>2, OpenClosesGood DEF LeftOpen

LEMMA ToCloseOK ==
  ASSUME Good, NEW op, NEW now, NEW d \in Days, d <= Day(clock)
  PROVE  ClosesGood(ToClose(op, d, now)) /\ \A c \in ToClose(op, d, now) : c.day = d
<1>1. \A c \in ToClose(op, d, now) :
        /\ c \in Close /\ c.day = d /\ Open(rows[c.who][c.day])
        /\ c.out = LastPresence(rows[c.who][c.day])
  BY DEF ToClose, Stale
<1> QED BY <1>1, OpenClosesGood

LEMMA FirstPcOK ==
  ASSUME NEW op
  PROVE  /\ FirstPc(op) \in {"list", "read", "touch", "look"}
         /\ op = "reconcile" => FirstPc(op) = "list"
         /\ FirstPc(op) = "list" => op # "manualOut"
         /\ op \in {"reconcile", "shutdown"} <=> FirstPc(op) = "list"
  BY DEF FirstPc
-----------------------------------------------------------------------------
\* A thread goes on with its operation, and its next state is m.
LEMMA GoesOnGood ==
  ASSUME Good, NEW s, straddled \subseteq s,
         NEW t \in Threads, local[t].pc # "idle", NEW m \in Local,
         m.op = local[t].op, DecidedInTime(m, clock, s), Become(t, m)
  PROVE  LocalsGood(local', clock, s)
<1>1. clock \in Times /\ clock <= clock
  BY Now, Calendar
<1>2. LocalsGood(local, clock, s)
  BY <1>1, Now, LaterGood
<1>3. LocalOK(m, clock, s)
  BY <1>1, <1>2, Busy, GoesOn
<1> QED BY <1>1, <1>2, <1>3, BecomeOK DEF Become

LEMMA FinishGood ==
  ASSUME Good, NEW t \in Threads, Finish(t)
  PROVE  LocalsGood(local', clock, straddled)
  BY Now, FinishOK DEF Finish, Become

LEMMA WriteGood ==
  ASSUME Good, NEW s, straddled \subseteq s, NEW p \in People, NEW d \in Days, NEW r,
         RowOK(r, p, d, clock, s), Write(p, d, r)
  PROVE  RowsGood(rows', clock, s)
<1>1. clock \in Times /\ clock <= clock
  BY Now, Calendar
<1>2. RowsGood(rows, clock, s)
  BY <1>1, LaterGood DEF Good
<1> QED BY <1>1, <1>2, WriteOK DEF Write

\* The day and the time that a writer has read fit the row it is to write.
LEMMA RememberedOK ==
  ASSUME Good, NEW p \in People, NEW d \in Days, NEW t \in Times, d <= Day(t),
         Remembered(p, d, t)
  PROVE  /\ straddled \subseteq straddled'
         /\ straddled' \in SUBSET (People \X Days)
         /\ Fits(p, d, t, straddled')
<1>1. Day(t) = d => Day(t) <= d
  BY Calendar
<1> QED BY <1>1 DEF Remembered, Fits, Within, Good, RestGood

LEMMA StopGood ==
  ASSUME Good, Stop
  PROVE  /\ LocalsGood(local', clock, straddled)
         /\ cache' \in SUBSET People
         /\ engine' \in {"up", "stopping", "down"}
<1>1. local' = [t \in Threads |-> Idle] /\ clock \in Times
  BY Now DEF Stop
<1>2. LocalsGood(local', clock, straddled)
  BY <1>1, IdleOK DEF LocalsGood, LocalOK, Locked
<1> QED BY <1>2 DEF Stop

\* What is known of a thread at some place of its operation.
LEMMA Here ==
  ASSUME Good, NEW t \in Threads, NEW pc, At(t, pc), pc # "idle"
  PROVE  /\ local[t] \in Local /\ local[t].pc = pc /\ local[t].pc # "idle"
         /\ DecidedInTime(local[t], clock, straddled)
         /\ local[t].todo \in SUBSET Close
         /\ local[t].day \in Days /\ local[t].at \in Times
<1>1. local[t].pc = pc /\ local[t].pc # "idle"
  BY DEF At
<1>2. local[t] \in Local /\ DecidedInTime(local[t], clock, straddled)
  BY <1>1, Now, Busy
<1> QED BY <1>1, <1>2 DEF Local

-----------------------------------------------------------------------------
\* One lemma per action of a thread.
LEMMA BeginGood ==
  ASSUME Good, NEW t \in Threads, NEW op \in Ops \ {"none", "shutdown"},
         NEW p \in People \cup {Never}, op = "reconcile" \/ p \in People,
         Begin(t, op, p)
  PROVE  Good'
<1>0. PICK l : l = [Idle EXCEPT !.op = op, !.who = p]
  OBVIOUS
<1>1. /\ l \in Local /\ l.op = op /\ l.pc = "idle" /\ l.who = p
      /\ l.day = 0 /\ l.at = 0 /\ l.todo = {}
  BY <1>0, Calendar DEF Local, Idle, Pcs
<1>2. /\ clock \in Times /\ Today \in Days /\ Day(clock) = Today
      /\ 0 <= clock /\ clock <= clock /\ 0 <= Day(clock) /\ Today <= Day(clock)
      /\ LocalsGood(local, clock, straddled)
  BY Now, Calendar
<1>3. \E m \in Local : /\ local' = [local EXCEPT ![t] = m] /\ m.op = op
                       /\ DecidedInTime(m, clock, straddled)
  <2>1. CASE op \in {"reconcile", "recognise", "centre"} /\ date # Today
    <3>0. PICK m : m = [l EXCEPT !.pc = "collect", !.day = Today]
      OBVIOUS
    <3>1. local' = [local EXCEPT ![t] = m]
      BY <1>0, <2>1, <3>0 DEF Begin, Become
    <3>2. "collect" \in Pcs
      BY DEF Pcs
    <3>3. /\ m \in Local /\ m.op = l.op /\ m.pc = "collect" /\ m.todo = {} /\ m.who = l.who
          /\ m.day = Today /\ m.at = 0
      BY <1>1, <1>2, <3>0, <3>2 DEF Local
    <3>4. DecidedInTime(m, clock, straddled)
      BY <1>1, <1>2, <2>1, <3>3 DEF DecidedInTime
    <3> QED BY <1>1, <3>1, <3>3, <3>4
  <2>2. CASE ~(op \in {"reconcile", "recognise", "centre"} /\ date # Today)
    <3>0. PICK m : m = [l EXCEPT !.pc = FirstPc(op), !.at = clock]
      OBVIOUS
    <3>1. local' = [local EXCEPT ![t] = m]
      BY <1>0, <2>2, <3>0 DEF Begin, Become
    <3>2. FirstPc(op) \in Pcs
      BY FirstPcOK DEF Pcs
    <3>3. /\ m \in Local /\ m.op = l.op /\ m.pc = FirstPc(op) /\ m.todo = {}
          /\ m.who = l.who /\ m.day = 0 /\ m.at = clock
      BY <1>1, <1>2, <3>0, <3>2 DEF Local
    <3>4. DecidedInTime(m, clock, straddled)
      BY <1>1, <1>2, <3>3, FirstPcOK DEF DecidedInTime
    <3> QED BY <1>1, <3>1, <3>3, <3>4
  <2> QED BY <2>1, <2>2
<1>4. PICK m \in Local : /\ local' = [local EXCEPT ![t] = m] /\ m.op = op
                         /\ DecidedInTime(m, clock, straddled)
  BY <1>3
<1>5. LocalOK(m, clock, straddled)
  BY <1>1, <1>2, <1>4, GoesOn
<1>6. LocalsGood(local', clock, straddled)
  <2> DEFINE n == [local EXCEPT ![t] = m]
  <2>1. n \in [Threads -> Local] /\ n[t] = m /\ \A u \in Threads \ {t} : n[u] = local[u]
    BY <1>2, <1>4 DEF LocalsGood
  <2>2. op \in Locked => \A u \in Threads : local[u].op \notin Locked
    BY DEF Begin, LockFree
  <2> HIDE DEF n
  <2>3. LocalsGood(n, clock, straddled)
    BY <1>2, <1>4, <1>5, <2>1, <2>2 DEF LocalsGood
  <2> QED BY <1>4, <2>3 DEF n
<1> QED BY <1>6 DEF Good, RestGood, Begin, history

LEMMA CollectGood ==
  ASSUME Good, NEW t \in Threads, Collect(t)
  PROVE  Good'
<1>1. /\ local[t] \in Local /\ local[t].pc = "collect" /\ local[t].pc # "idle"
      /\ DecidedInTime(local[t], clock, straddled) /\ local[t].day \in Days
  BY Here DEF Collect
<1>2. PICK l : l = local[t]
  OBVIOUS
<1>3. PICK todo : todo = LeftOpen(l.day)
  OBVIOUS
<1>4. ClosesGood(todo)
  BY <1>1, <1>2, <1>3, LeftOpenOK DEF DecidedInTime
<1>5. PICK m : m = [l EXCEPT !.pc = "rollover", !.todo = todo]
  OBVIOUS
<1>6. "rollover" \in Pcs
  BY DEF Pcs
<1>7. /\ m \in Local /\ m.op = l.op /\ m.pc = "rollover" /\ m.todo = todo /\ m.who = l.who
      /\ m.day = l.day /\ m.at = l.at
  BY <1>1, <1>2, <1>4, <1>5, <1>6 DEF Local, ClosesGood
<1>8. DecidedInTime(m, clock, straddled)
  BY <1>1, <1>2, <1>4, <1>7 DEF DecidedInTime, ClosesGood
<1>9. Become(t, m)
  BY <1>2, <1>3, <1>5 DEF Collect
<1>10. LocalsGood(local', clock, straddled)
  BY <1>1, <1>2, <1>7, <1>8, <1>9, GoesOnGood
<1> QED BY <1>10 DEF Good, RestGood, Collect, history

LEMMA ReconciledGood ==
  ASSUME Good, NEW closes \in SUBSET Close, ClosesGood(closes),
         \A c \in closes : Accepted(c)
  PROVE  RowsGood(Reconciled(closes), clock, straddled)
<1>1. ASSUME NEW p \in People, NEW d \in Days
      PROVE  RowOK(Reconciled(closes)[p][d], p, d, clock, straddled)
  <2> DEFINE r == rows[p][d]
  <2>1. RowOK(r, p, d, clock, straddled) /\ clock \in Times
    BY Now
  <2>2. CASE r.out = Never /\ \E c \in closes : c.who = p /\ c.day = d
    <3> DEFINE c == CHOOSE c \in closes : c.who = p /\ c.day = d
    <3>1. c \in closes /\ c.who = p /\ c.day = d
      BY <2>2
    <3>2. Reconciled(closes)[p][d] = [r EXCEPT !.out = c.out]
      BY <2>2 DEF Reconciled
    <3> HIDE DEF c
    <3>3. c.out \in Times /\ c.out <= clock /\ Within(p, d, c.out, straddled)
      BY <3>1 DEF Close, ClosesGood
    <3>4. Chronological([r EXCEPT !.out = c.out])
      BY <2>2, <3>1 DEF Accepted
    <3> QED BY <2>1, <3>2, <3>3, <3>4, OutOK
  <2>3. CASE ~(r.out = Never /\ \E c \in closes : c.who = p /\ c.day = d)
    <3>1. Reconciled(closes)[p][d] = r
      BY <2>3 DEF Reconciled
    <3> QED BY <2>1, <3>1
  <2> QED BY <2>2, <2>3
<1>2. \A p \in People, d \in Days : Reconciled(closes)[p][d] \in Row
  BY <1>1 DEF RowOK
<1>3. Reconciled(closes) = [p \in People |-> [d \in Days |-> Reconciled(closes)[p][d]]]
  BY DEF Reconciled
<1>4. Reconciled(closes) \in [People -> [Days -> Row]]
  BY <1>2, <1>3
<1> QED BY <1>1, <1>4 DEF RowsGood

LEMMA RolloverGood ==
  ASSUME Good, NEW t \in Threads, Rollover(t)
  PROVE  Good'
<1> DEFINE l == local[t]
<1>1. /\ l \in Local /\ l.pc = "rollover" /\ l.pc # "idle"
      /\ DecidedInTime(l, clock, straddled)
      /\ l.todo \in SUBSET Close /\ l.day \in Days
  BY Here DEF Rollover
<1>2. PICK closes \in SUBSET {c \in l.todo : Accepted(c)} : rows' = Reconciled(closes)
  BY DEF Rollover
<1>3. closes \in SUBSET Close
  BY <1>1, <1>2
<1>4. ClosesGood(closes) /\ \A c \in closes : Accepted(c)
  BY <1>1, <1>2, <1>3 DEF DecidedInTime, ClosesGood
<1>5. RowsGood(rows', clock, straddled)
  BY <1>2, <1>3, <1>4, ReconciledGood
<1>a. PICK m : m = [l EXCEPT !.pc = FirstPc(l.op), !.day = 0, !.at = clock, !.todo = {}]
  OBVIOUS
<1>6. Become(t, m) /\ date' = l.day
  BY <1>a DEF Rollover
<1> HIDE DEF l
<1>7. /\ FirstPc(l.op) \in Pcs /\ 0 \in Days /\ {} \in SUBSET Close
      /\ clock \in Times /\ clock <= clock /\ 0 <= Day(clock)
  BY FirstPcOK, Now, Calendar DEF Pcs
<1>8. /\ m \in Local /\ m.op = l.op /\ m.pc = FirstPc(l.op) /\ m.todo = {} /\ m.who = l.who
      /\ m.day = 0 /\ m.at = clock
  <2>1. PICK k : k = [l EXCEPT !.pc = FirstPc(l.op), !.day = 0]
    OBVIOUS
  <2>2. k \in Local /\ k.op = l.op /\ k.pc = FirstPc(l.op) /\ k.who = l.who /\ k.day = 0
    BY <1>1, <1>7, <2>1 DEF Local
  <2>3. m = [k EXCEPT !.at = clock, !.todo = {}]
    BY <1>1, <1>a, <2>1 DEF Local
  <2> QED BY <1>7, <2>2, <2>3 DEF Local
<1>9. l.op = "reconcile" \/ (l.op \in {"recognise", "centre"} /\ l.who \in People)
  BY <1>1 DEF DecidedInTime
<1>10. DecidedInTime(m, clock, straddled)
  BY <1>7, <1>8, <1>9, FirstPcOK DEF DecidedInTime
<1>11. LocalsGood(local', clock, straddled)
  <2>1. m \in Local /\ m.op = local[t].op /\ local[t].pc # "idle"
    BY <1>1, <1>8 DEF l
  <2> QED BY <1>6, <1>10, <2>1, GoesOnGood
<1> QED BY <1>1, <1>5, <1>6, <1>11 DEF Good, RestGood, Rollover, history

\* A refresh writes a time of the past to the row of the day it is of.
LEMMA RefreshGood ==
  ASSUME Good, NEW p \in People, NEW d \in Days, NEW seen \in Times, NEW u \in Times,
         u <= clock, seen <= u, SelectedBy(p, d, u), Refresh(p, seen, d, Day(u))
  PROVE  RowsGood(rows', clock, straddled)
<1>1. CASE Open(rows[p][d]) /\ Open(rows[p][Day(u)])
  <2>1. PICK v : v = LaterOf(seen, rows[p][d].seen)
    OBVIOUS
  <2>2. rows[p][d].seen \in Times \cup {Never}
    BY Now DEF RowOK, Row
  <2>3. v \in Times /\ v <= u
    BY <2>1, <2>2, Calendar DEF LaterOf, SelectedBy
  <2>4. v <= clock /\ Day(v) <= Day(u) /\ Day(u) \in Days
    BY <2>3, Now, Calendar
  <2>5. RowOK([rows[p][Day(u)] EXCEPT !.seen = v], p, Day(u), clock, straddled)
    BY <2>3, <2>4, Now, SeenOK DEF Within
  <2> QED BY <1>1, <2>1, <2>4, <2>5, WriteGood DEF Refresh
<1>2. CASE ~(Open(rows[p][d]) /\ Open(rows[p][Day(u)]))
  BY <1>2 DEF Refresh, Good, table
<1> QED BY <1>1, <1>2

LEMMA ObserveGood ==
  ASSUME Good, NEW p \in People, NEW seen \in 0 .. clock, NEW s \in 0 .. clock,
         NEW u \in 0 .. clock, s <= u, SelectedBy(p, Day(s), u), seen <= s,
         Observe(p, seen, Day(s), Day(u))
  PROVE  Good'
<1>1. seen \in Times /\ s \in Times /\ u \in Times /\ u <= clock /\ Day(s) \in Days
  BY Past
<1>2. seen <= u
  BY <1>1, Calendar
<1>3. RowsGood(rows', clock, straddled)
  BY <1>1, <1>2, RefreshGood DEF Observe
<1> QED BY <1>3 DEF Good, RestGood, Observe

LEMMA TouchGood ==
  ASSUME Good, NEW t \in Threads, Touch(t)
  PROVE  Good'
<1>1. /\ local[t] \in Local /\ local[t].pc = "touch" /\ local[t].pc # "idle"
      /\ DecidedInTime(local[t], clock, straddled)
  BY Here DEF Touch
<1>2. PICK l : l = local[t]
  OBVIOUS
<1>3. RowsGood(rows', clock, straddled)
  <2>1. PICK seen \in Readings(t), s \in Readings(t), u \in Readings(t) :
          /\ seen <= s /\ s <= u /\ SelectedBy(l.who, Day(s), u)
          /\ Refresh(l.who, seen, Day(s), Day(u))
    BY <1>2 DEF Touch
  <2>2. l.who \in People
    BY <1>1, <1>2 DEF DecidedInTime
  <2>3. seen \in Times /\ s \in Times /\ u \in Times /\ u <= clock /\ Day(s) \in Days
    BY <1>1, ReadingsPast
  <2>4. seen <= u
    BY <2>1, <2>3, Calendar
  <2> QED BY <2>1, <2>2, <2>3, <2>4, RefreshGood
<1>4. LocalsGood(local', clock, straddled)
  <2>1. CASE Finish(t)
    BY <2>1, FinishGood
  <2>2. CASE Become(t, [l EXCEPT !.pc = "look", !.at = clock])
    <3>1. PICK m : m = [l EXCEPT !.pc = "look", !.at = clock]
      OBVIOUS
    <3>2. "look" \in Pcs /\ clock \in Times /\ clock <= clock
      BY Now, Calendar DEF Pcs
    <3>3. /\ m \in Local /\ m.op = l.op /\ m.pc = "look" /\ m.who = l.who
          /\ m.day = l.day /\ m.at = clock /\ m.todo = l.todo
      BY <1>1, <1>2, <3>1, <3>2 DEF Local
    <3>4. DecidedInTime(m, clock, straddled)
      BY <1>1, <1>2, <3>2, <3>3 DEF DecidedInTime
    <3> QED BY <1>1, <1>2, <2>2, <3>1, <3>3, <3>4, GoesOnGood
  <2> QED BY <1>2, <2>1, <2>2 DEF Touch
<1> QED BY <1>3, <1>4 DEF Good, RestGood, Touch

\* A step that leaves the rows alone may straddle some.
LEMMA QuietGood ==
  ASSUME Good, UNCHANGED <<clock, rows, date, engine, corrections>>,
         straddled \subseteq straddled', straddled' \in SUBSET (People \X Days),
         LocalsGood(local', clock, straddled'), cache' \in SUBSET People
  PROVE  Good'
<1>1. clock \in Times /\ clock <= clock
  BY Now, Calendar
<1>2. RowsGood(rows, clock, straddled')
  BY <1>1, LaterGood DEF Good
<1> QED BY <1>2 DEF Good, RestGood

LEMMA LookGood ==
  ASSUME Good, NEW t \in Threads, Look(t)
  PROVE  Good'
<1>1. /\ local[t] \in Local /\ local[t].pc = "look" /\ local[t].pc # "idle"
      /\ DecidedInTime(local[t], clock, straddled)
  BY Here DEF Look
<1>2. PICK l : l = local[t]
  OBVIOUS
<1>3. PICK s \in Readings(t), u \in Readings(t) : s <= u /\ LookAt(t, Day(s), u)
  BY DEF Look
<1>4. PICK d : d = Day(s)
  OBVIOUS
<1>5. /\ d \in Days /\ u \in Times /\ u <= clock /\ d <= Day(u) /\ d <= Day(clock)
      /\ l.who \in People
  <2>1. s \in Times /\ u \in Times /\ u <= clock /\ Day(s) \in Days /\ Day(s) <= Day(clock)
    BY <1>1, ReadingsPast
  <2>2. Day(s) <= Day(u)
    BY <1>3, <2>1, Calendar
  <2> QED BY <1>1, <1>2, <1>4, <2>1, <2>2 DEF DecidedInTime
<1>6. cache' \in SUBSET People /\ UNCHANGED <<clock, rows, date, engine, corrections>>
  BY <1>2, <1>3, <1>5 DEF LookAt, table, Good, RestGood
<1>7. CASE Finish(t) /\ UNCHANGED straddled
  BY <1>6, <1>7, FinishGood, QuietGood DEF Good, RestGood
<1>8. CASE /\ Become(t, [l EXCEPT !.pc = "insert", !.day = d, !.at = u])
           /\ Remembered(l.who, d, u)
  <2>1. /\ straddled \subseteq straddled' /\ straddled' \in SUBSET (People \X Days)
        /\ Fits(l.who, d, u, straddled')
    BY <1>5, <1>8, RememberedOK
  <2>2. PICK m : m = [l EXCEPT !.pc = "insert", !.day = d, !.at = u]
    OBVIOUS
  <2>3. "insert" \in Pcs
    BY DEF Pcs
  <2>4. /\ m \in Local /\ m.op = l.op /\ m.pc = "insert" /\ m.who = l.who
        /\ m.day = d /\ m.at = u /\ m.todo = l.todo
    BY <1>1, <1>2, <1>5, <2>2, <2>3 DEF Local
  <2>5. DecidedInTime(m, clock, straddled')
    BY <1>1, <1>2, <1>5, <2>1, <2>4 DEF DecidedInTime, Within
  <2>6. LocalsGood(local', clock, straddled')
    BY <1>1, <1>2, <1>8, <2>1, <2>2, <2>4, <2>5, GoesOnGood
  <2> QED BY <1>6, <2>1, <2>6, QuietGood
<1> QED BY <1>2, <1>3, <1>4, <1>7, <1>8 DEF LookAt

LEMMA InsertGood ==
  ASSUME Good, NEW t \in Threads, Insert(t)
  PROVE  Good'
<1> DEFINE l == local[t]
<1> DEFINE r == Inserted(rows[l.who][l.day], l.at)
<1>1. /\ l \in Local /\ l.pc = "insert" /\ l.pc # "idle"
      /\ DecidedInTime(l, clock, straddled)
  BY Here DEF Insert
<1>2. /\ l.who \in People /\ l.day \in Days /\ l.at \in Times
      /\ l.at <= clock /\ Fits(l.who, l.day, l.at, straddled)
  BY <1>1 DEF DecidedInTime, Local
<1>3. RowOK(r, l.who, l.day, clock, straddled)
  BY <1>2, Now, InsertedOK DEF Insert
<1>4. RowsGood(rows', clock, straddled)
  <2>1. Write(l.who, l.day, r)
    BY DEF Insert
  <2> QED BY <1>2, <1>3, <2>1, WriteGood
<1>5. LocalsGood(local', clock, straddled)
  <2>1. CASE Finish(t)
    BY <2>1, FinishGood
  <2>2. CASE Become(t, [l EXCEPT !.pc = "remember", !.day = 0, !.at = 0])
    <3>0. PICK m : m = [l EXCEPT !.pc = "remember", !.day = 0, !.at = 0]
      OBVIOUS
    <3>1. "remember" \in Pcs /\ 0 \in Days /\ 0 \in Times /\ 0 <= clock /\ 0 <= Day(clock)
      BY Now, Calendar DEF Pcs
    <3>2. /\ m \in Local /\ m.op = l.op /\ m.pc = "remember" /\ m.who = l.who
          /\ m.day = 0 /\ m.at = 0 /\ m.todo = l.todo
      BY <1>1, <3>0, <3>1 DEF Local
    <3>3. DecidedInTime(m, clock, straddled)
      BY <1>1, <1>2, <3>1, <3>2 DEF DecidedInTime
    <3>4. Become(t, m)
      BY <2>2, <3>0
    <3> QED BY <1>1, <3>2, <3>3, <3>4, GoesOnGood
  <2> QED BY <2>1, <2>2 DEF Insert
<1> QED BY <1>4, <1>5 DEF Good, RestGood, Insert

LEMMA ClockInRefusedGood ==
  ASSUME Good, NEW t \in Threads, ClockInRefused(t)
  PROVE  Good'
  BY FinishGood DEF Good, RestGood, ClockInRefused, history

LEMMA RememberGood ==
  ASSUME Good, NEW t \in Threads, Remember(t)
  PROVE  Good'
<1>1. DecidedInTime(local[t], clock, straddled) /\ local[t].pc = "remember"
  BY Here DEF Remember
<1>2. local[t].who \in People
  BY <1>1 DEF DecidedInTime
<1>3. LocalsGood(local', clock, straddled)
  BY FinishGood DEF Remember
<1> QED BY <1>2, <1>3 DEF Good, RestGood, Remember, history

LEMMA ListGood ==
  ASSUME Good, NEW t \in Threads, List(t)
  PROVE  Good'
<1>1. /\ local[t] \in Local /\ local[t].pc = "list" /\ local[t].pc # "idle"
      /\ DecidedInTime(local[t], clock, straddled)
  BY Here DEF List
<1>2. PICK l : l = local[t]
  OBVIOUS
<1>3. PICK now \in Readings(t), s \in Readings(t) :
        Become(t, [l EXCEPT !.pc = "read", !.at = clock, !.todo = ToClose(l.op, Day(s), now)])
  BY <1>2 DEF List
<1>4. PICK todo : todo = ToClose(l.op, Day(s), now)
  OBVIOUS
<1>5. ClosesGood(todo)
  BY <1>1, <1>4, ReadingsPast, ToCloseOK
<1>6. PICK m : m = [l EXCEPT !.pc = "read", !.at = clock, !.todo = todo]
  OBVIOUS
<1>7. "read" \in Pcs /\ clock \in Times /\ clock <= clock
  BY Now, Calendar DEF Pcs
<1>8. /\ m \in Local /\ m.op = l.op /\ m.pc = "read" /\ m.who = l.who /\ m.todo = todo
      /\ m.day = l.day /\ m.at = clock
  BY <1>1, <1>2, <1>5, <1>6, <1>7 DEF Local, ClosesGood
<1>9. DecidedInTime(m, clock, straddled)
  BY <1>1, <1>2, <1>5, <1>7, <1>8 DEF DecidedInTime, ClosesGood
<1>10. LocalsGood(local', clock, straddled)
  BY <1>1, <1>2, <1>3, <1>4, <1>6, <1>8, <1>9, GoesOnGood
<1> QED BY <1>10 DEF Good, RestGood, List, history

\* The time that attendance_clock_out settles on fits the day it has read:
\* the clock-in does, and a listed time is not before the clock-in and not
\* after the reading.
LEMMA ReadToCloseGood ==
  ASSUME Good, NEW t \in Threads, At(t, "read"), local[t].op # "manualOut",
         NEW s \in Readings(t), NEW c \in local[t].todo, ReadToClose(t, Day(s), c)
  PROVE  LocalsGood(local', clock, straddled)
<1>1. /\ local[t] \in Local /\ local[t].pc = "read" /\ local[t].pc # "idle"
      /\ DecidedInTime(local[t], clock, straddled)
      /\ c \in Close /\ local[t].at \in Times
  BY Here
<1>2. PICK l : l = local[t]
  OBVIOUS
<1>3. PICK d : d = Day(s)
  OBVIOUS
<1>4. /\ c.who \in People /\ c.out \in Times
      /\ s \in Times /\ s <= clock /\ d \in Days /\ d <= Day(clock) /\ l.at <= s
      /\ c.out <= l.at
  BY <1>1, <1>2, <1>3, ReadingsPast DEF Close, DecidedInTime
<1>5. Day(c.out) <= d /\ c.out <= clock
  BY <1>1, <1>2, <1>3, <1>4, Now, Calendar
<1>6. PICK r : r = rows[c.who][d]
  OBVIOUS
<1>7. RowOK(r, c.who, d, clock, straddled) /\ clock \in Times /\ clock <= clock
  BY <1>4, <1>6, Now, Calendar
<1>8. PICK k : k = [l EXCEPT !.todo = @ \ {c}]
  OBVIOUS
<1>9. /\ k \in Local /\ k.op = l.op /\ k.pc = "read" /\ k.who = l.who /\ k.todo \subseteq l.todo
      /\ k.day = l.day /\ k.at = l.at
  BY <1>1, <1>2, <1>8 DEF Local
<1>10. CASE Become(t, [k EXCEPT !.at = clock])
  <2>1. PICK m : m = [k EXCEPT !.at = clock]
    OBVIOUS
  <2>2. /\ m \in Local /\ m.op = l.op /\ m.pc = "read" /\ m.who = l.who
        /\ m.todo \subseteq l.todo /\ m.day = l.day /\ m.at = clock
    BY <1>7, <1>9, <2>1 DEF Local
  <2>3. DecidedInTime(m, clock, straddled)
    BY <1>1, <1>2, <1>7, <2>2 DEF DecidedInTime
  <2> QED BY <1>1, <1>2, <1>10, <2>1, <2>2, <2>3, GoesOnGood
<1>11. ASSUME NEW at, at = (IF c.out < r.in THEN r.in ELSE c.out), r.in # Never,
              Become(t, [k EXCEPT !.pc = "update", !.who = c.who, !.day = d, !.at = at])
       PROVE  LocalsGood(local', clock, straddled)
  <2>1. /\ r.in \in Times /\ r.in <= clock /\ d <= Day(r.in)
        /\ Within(c.who, d, r.in, straddled)
    BY <1>7, <1>11 DEF RowOK, Row
  <2>2. at \in Times /\ at <= clock /\ Fits(c.who, d, at, straddled)
    <3>1. CASE c.out < r.in
      BY <1>11, <2>1, <3>1 DEF Fits
    <3>2. CASE ~(c.out < r.in)
      <4>1. d <= Day(c.out)
        BY <1>4, <2>1, <3>2, Calendar
      <4> QED BY <1>4, <1>5, <1>11, <3>2, <4>1 DEF Fits, Within
    <3> QED BY <3>1, <3>2
  <2>3. PICK m : m = [k EXCEPT !.pc = "update", !.who = c.who, !.day = d, !.at = at]
    OBVIOUS
  <2>4. "update" \in Pcs
    BY DEF Pcs
  <2>5. /\ m \in Local /\ m.op = l.op /\ m.pc = "update" /\ m.who = c.who
        /\ m.day = d /\ m.at = at /\ m.todo \subseteq l.todo
    BY <1>4, <1>9, <2>2, <2>3, <2>4 DEF Local
  <2>6. DecidedInTime(m, clock, straddled)
    BY <1>1, <1>2, <1>4, <2>2, <2>5 DEF DecidedInTime
  <2> QED BY <1>1, <1>2, <1>11, <2>3, <2>5, <2>6, GoesOnGood
<1> QED BY <1>2, <1>3, <1>6, <1>8, <1>10, <1>11 DEF ReadToClose

LEMMA ReadByHandGood ==
  ASSUME Good, NEW t \in Threads, At(t, "read"), local[t].op = "manualOut",
         NEW d \in Days, d <= Day(clock), ReadByHand(t, d)
  PROVE  LocalsGood(local', clock, straddled)
<1>1. /\ local[t] \in Local /\ local[t].pc = "read" /\ local[t].pc # "idle"
      /\ DecidedInTime(local[t], clock, straddled)
  BY Here
<1>2. PICK l : l = local[t]
  OBVIOUS
<1>3. PICK r : r = rows[l.who][d]
  OBVIOUS
<1>4. l.who \in People /\ RowOK(r, l.who, d, clock, straddled)
  BY <1>1, <1>2, <1>3, Now DEF DecidedInTime
<1>5. CASE Finish(t)
  BY <1>5, FinishGood
<1>6. CASE r.in # Never /\ Become(t, [l EXCEPT !.pc = "stamp", !.day = d, !.at = r.in])
  <2>1. r.in \in Times /\ r.in <= clock /\ Fits(l.who, d, r.in, straddled)
    BY <1>4, <1>6 DEF RowOK, Row, Fits
  <2>2. PICK m : m = [l EXCEPT !.pc = "stamp", !.day = d, !.at = r.in]
    OBVIOUS
  <2>3. "stamp" \in Pcs
    BY DEF Pcs
  <2>4. /\ m \in Local /\ m.op = l.op /\ m.pc = "stamp" /\ m.who = l.who
        /\ m.day = d /\ m.at = r.in /\ m.todo = l.todo
    BY <1>1, <1>2, <2>1, <2>2, <2>3 DEF Local
  <2>5. DecidedInTime(m, clock, straddled)
    BY <1>1, <1>2, <1>4, <2>1, <2>4 DEF DecidedInTime
  <2> QED BY <1>1, <1>2, <1>6, <2>2, <2>4, <2>5, GoesOnGood
<1> QED BY <1>2, <1>3, <1>5, <1>6 DEF ReadByHand

LEMMA ReadGood ==
  ASSUME Good, NEW t \in Threads, Read(t)
  PROVE  Good'
<1>1. At(t, "read") /\ local[t] \in Local
  BY Here DEF Read
<1>2. LocalsGood(local', clock, straddled)
  <2>1. PICK s \in Readings(t) :
          IF local[t].op = "manualOut"
          THEN ReadByHand(t, Day(s))
          ELSE \E c \in local[t].todo : ReadToClose(t, Day(s), c)
    BY DEF Read
  <2>2. Day(s) \in Days /\ Day(s) <= Day(clock)
    BY <1>1, ReadingsPast
  <2> QED BY <1>1, <2>1, <2>2, ReadByHandGood, ReadToCloseGood
<1> QED BY <1>2 DEF Good, RestGood, Read, history

LEMMA StampGood ==
  ASSUME Good, NEW t \in Threads, Stamp(t)
  PROVE  Good'
<1>1. /\ local[t] \in Local /\ local[t].pc = "stamp" /\ local[t].pc # "idle"
      /\ DecidedInTime(local[t], clock, straddled)
  BY Here DEF Stamp
<1>2. PICK l : l = local[t]
  OBVIOUS
<1>3. /\ l.who \in People /\ l.day \in Days /\ l.at \in Times /\ l.at <= clock
      /\ l.day <= Day(l.at) /\ clock \in Times /\ clock <= clock
  BY <1>1, <1>2, Now, Calendar DEF DecidedInTime, Local, Fits
<1>4. PICK now : now = (IF clock < l.at THEN l.at ELSE clock)
  OBVIOUS
<1>5. now = clock
  BY <1>3, <1>4, Calendar
<1>6. l.day <= Day(clock)
  BY <1>1, <1>2 DEF DecidedInTime
<1>7. /\ Become(t, [l EXCEPT !.pc = "update", !.at = clock])
      /\ Remembered(l.who, l.day, clock)
  BY <1>2, <1>4, <1>5 DEF Stamp
<1>8. /\ straddled \subseteq straddled' /\ straddled' \in SUBSET (People \X Days)
      /\ Fits(l.who, l.day, clock, straddled')
  BY <1>3, <1>6, <1>7, RememberedOK
<1>9. PICK m : m = [l EXCEPT !.pc = "update", !.at = clock]
  OBVIOUS
<1>10. "update" \in Pcs
  BY DEF Pcs
<1>11. /\ m \in Local /\ m.op = l.op /\ m.pc = "update" /\ m.who = l.who
       /\ m.day = l.day /\ m.at = clock /\ m.todo = l.todo
  BY <1>1, <1>2, <1>3, <1>9, <1>10 DEF Local
<1>12. DecidedInTime(m, clock, straddled')
  BY <1>1, <1>2, <1>3, <1>8, <1>11 DEF DecidedInTime, Within
<1>13. LocalsGood(local', clock, straddled')
  BY <1>1, <1>2, <1>7, <1>8, <1>9, <1>11, <1>12, GoesOnGood
<1> QED BY <1>8, <1>13, QuietGood DEF Stamp, table, Good, RestGood

LEMMA ResumeGood ==
  ASSUME Good, NEW t \in Threads, At(t, "update"), NEW closed \in SUBSET People,
         Resume(t, closed)
  PROVE  LocalsGood(local', clock, straddled)
<1> DEFINE l == local[t]
<1> DEFINE pc == IF l.op = "manualOut" THEN "forget" ELSE "read"
<1> DEFINE at == IF l.op = "manualOut" THEN 0 ELSE clock
<1>1. l \in Local /\ l.pc = "update" /\ l.pc # "idle" /\ DecidedInTime(l, clock, straddled)
  BY Here
<1>2. /\ pc \in Pcs /\ pc \in {"forget", "read"} /\ (l.op = "manualOut" <=> pc = "forget")
      /\ at \in Times /\ at <= clock /\ (pc = "read" => at = clock)
      /\ 0 \in Days /\ 0 <= Day(clock)
  BY Now, Calendar DEF Pcs
<1>0. PICK m : m = [l EXCEPT !.pc = pc, !.who = Never, !.day = 0, !.at = at,
                             !.done = @ \cup closed]
  OBVIOUS
<1>3. Become(t, m)
  BY <1>0 DEF Resume
<1> HIDE DEF pc, at
<1>4. /\ m \in Local /\ m.op = l.op /\ m.pc = pc /\ m.todo = l.todo /\ m.day = 0 /\ m.at = at
  BY <1>0, <1>1, <1>2 DEF Local
<1>5. DecidedInTime(m, clock, straddled)
  BY <1>1, <1>2, <1>4 DEF DecidedInTime
<1> QED BY <1>1, <1>3, <1>4, <1>5, GoesOnGood

LEMMA UpdateGood ==
  ASSUME Good, NEW t \in Threads, Update(t)
  PROVE  Good'
<1> DEFINE l == local[t]
<1> DEFINE r == ClosedAt(rows[l.who][l.day], l.at)
<1>1. l \in Local /\ l.pc = "update" /\ l.pc # "idle" /\ DecidedInTime(l, clock, straddled)
  BY Here DEF Update
<1>2. /\ l.who \in People /\ l.day \in Days /\ l.at \in Times
      /\ l.at <= clock /\ Within(l.who, l.day, l.at, straddled)
  BY <1>1 DEF DecidedInTime, Local, Fits
<1>3. RowOK(r, l.who, l.day, clock, straddled)
  BY <1>2, Now, ClosedOK DEF Update
<1>4. RowsGood(rows', clock, straddled)
  <2>1. Write(l.who, l.day, r)
    BY DEF Update
  <2> QED BY <1>2, <1>3, <2>1, WriteGood
<1>5. LocalsGood(local', clock, straddled)
  BY <1>2, ResumeGood DEF Update
<1> QED BY <1>4, <1>5 DEF Good, RestGood, Update

LEMMA UpdateFindsClosedGood ==
  ASSUME Good, NEW t \in Threads, UpdateFindsClosed(t)
  PROVE  Good'
<1>1. LocalsGood(local', clock, straddled)
  BY ResumeGood DEF UpdateFindsClosed
<1> QED BY <1>1 DEF Good, RestGood, UpdateFindsClosed, history

LEMMA UpdateAbortsGood ==
  ASSUME Good, NEW t \in Threads, UpdateAborts(t)
  PROVE  Good'
<1>1. CASE Stop
  BY <1>1, StopGood DEF Good, RestGood, UpdateAborts, history
<1>2. CASE Finish(t) /\ UNCHANGED <<cache, engine>>
  BY <1>2, FinishGood DEF Good, RestGood, UpdateAborts, history
<1> QED BY <1>1, <1>2 DEF UpdateAborts

LEMMA ForgetGood ==
  ASSUME Good, NEW t \in Threads, Forget(t)
  PROVE  Good'
<1>1. CASE Stop
  BY <1>1, StopGood DEF Good, RestGood, Forget, history
<1>2. CASE Finish(t) /\ cache' = cache \ local[t].done /\ UNCHANGED engine
  BY <1>2, FinishGood DEF Good, RestGood, Forget, history
<1> QED BY <1>1, <1>2 DEF Forget

-----------------------------------------------------------------------------
\* The life of the process, and the backend.
LEMMA CloseForShutdownGood ==
  ASSUME Good, CloseForShutdown
  PROVE  Good'
<1>0. PICK m : m = [Idle EXCEPT !.op = "shutdown", !.pc = "list", !.at = clock]
  OBVIOUS
<1>1. "shutdown" \in Ops /\ "list" \in Pcs /\ "main" \in Threads
  BY ConstantsAssumption DEF Ops, Pcs
<1>2. clock \in Times /\ LocalsGood(local, clock, straddled)
  BY Now
<1>3. /\ m \in Local /\ m.op = "shutdown" /\ m.pc = "list" /\ m.todo = {}
      /\ m.day = 0 /\ m.at = clock
  BY <1>0, <1>1, <1>2, Calendar DEF Local, Idle
<1>4. LocalOK(m, clock, straddled)
  <2>1. clock <= clock /\ 0 <= Day(clock)
    BY <1>2, Calendar
  <2>2. DecidedInTime(m, clock, straddled)
    BY <1>3, <2>1 DEF DecidedInTime
  <2>3. m # Idle
    BY <1>2, <1>3, IdleOK
  <2> QED BY <1>3, <2>2, <2>3 DEF LocalOK
<1> DEFINE n == [local EXCEPT !["main"] = m]
<1>5. n \in [Threads -> Local] /\ n["main"] = m /\ \A u \in Threads \ {"main"} : n[u] = local[u]
  BY <1>1, <1>2, <1>3 DEF LocalsGood
<1>6. local' = n /\ \A u \in Threads : local[u].op \notin Locked
  BY <1>0 DEF CloseForShutdown, Become, LockFree
<1> HIDE DEF n
<1>7. LocalsGood(local', clock, straddled)
  BY <1>2, <1>4, <1>5, <1>6 DEF LocalsGood
<1> QED BY <1>7 DEF Good, RestGood, CloseForShutdown, history

LEMMA LifeGood ==
  ASSUME Good, Shutdown \/ CloseForShutdown \/ Crash \/ Start
  PROVE  Good'
<1>1. CASE Shutdown
  BY <1>1 DEF Good, RestGood, Shutdown, history
<1>2. CASE CloseForShutdown
  BY <1>2, CloseForShutdownGood
<1>3. CASE Crash
  BY <1>3, StopGood DEF Good, RestGood, Crash, history
<1>4. CASE Start
  BY <1>4, Now DEF Good, RestGood, Start, history
<1> QED BY <1>1, <1>2, <1>3, <1>4

\* A transaction of the backend that writes the row of p for the day it read
\* with the time it read.
LEMMA ByBackendGood ==
  ASSUME Good, NEW p \in People, NEW d \in Days, NEW now \in Times, NEW r,
         d <= Day(now), Remembered(p, d, now),
         RowOK(r, p, d, clock, straddled'), Write(p, d, r),
         UNCHANGED <<clock, cache, date, engine, local, corrections>>
  PROVE  Good'
<1>1. straddled \subseteq straddled' /\ straddled' \in SUBSET (People \X Days)
  BY RememberedOK
<1>2. clock \in Times /\ clock <= clock
  BY Now, Calendar
<1>3. RowsGood(rows', clock, straddled')
  BY <1>1, WriteGood
<1>4. LocalsGood(local, clock, straddled')
  BY <1>1, <1>2, Now, LaterGood
<1> QED BY <1>1, <1>3, <1>4 DEF Good, RestGood

LEMMA ClockInGood ==
  ASSUME Good, NEW p \in People, NEW d \in Days, NEW now \in Times, d <= Day(now),
         now <= clock, ClockIn(p, d, now)
  PROVE  Good'
<1>1. PICK r : r = [rows[p][d] EXCEPT !.in = now]
  OBVIOUS
<1>2. /\ straddled \subseteq straddled' /\ Fits(p, d, now, straddled')
      /\ clock \in Times /\ clock <= clock
  BY RememberedOK, Now, Calendar DEF ClockIn
<1>3. RowOK(rows[p][d], p, d, clock, straddled')
  BY <1>2, Now, LaterRowOK
<1>4. r \in Row /\ r.in = now /\ r.out = rows[p][d].out /\ r.seen = rows[p][d].seen
  BY <1>1, <1>3 DEF RowOK, Row
<1>5. Chronological(r) /\ Write(p, d, r) /\ Remembered(p, d, now)
  BY <1>1 DEF ClockIn
<1>6. RowOK(r, p, d, clock, straddled')
  BY <1>2, <1>3, <1>4, <1>5 DEF RowOK, Fits
<1> QED BY <1>5, <1>6, ByBackendGood DEF ClockIn

LEMMA ClockOutGood ==
  ASSUME Good, NEW p \in People, NEW d \in Days, NEW now \in Times, d <= Day(now),
         now <= clock, ClockOut(p, d, now)
  PROVE  Good'
<1>1. PICK r : r = [rows[p][d] EXCEPT !.out = now]
  OBVIOUS
<1>2. /\ straddled \subseteq straddled' /\ Fits(p, d, now, straddled')
      /\ clock \in Times /\ clock <= clock
  BY RememberedOK, Now, Calendar DEF ClockOut
<1>3. RowOK(rows[p][d], p, d, clock, straddled')
  BY <1>2, Now, LaterRowOK
<1>4. Chronological(r) /\ Write(p, d, r) /\ Remembered(p, d, now)
  BY <1>1 DEF ClockOut
<1>5. RowOK(r, p, d, clock, straddled')
  BY <1>1, <1>2, <1>3, <1>4, OutOK DEF Fits
<1> QED BY <1>4, <1>5, ByBackendGood DEF ClockOut

LEMMA CorrectGood ==
  ASSUME Good, NEW p \in People, NEW d \in 0 .. Today,
         NEW in \in TimesOf(d), NEW out \in TimesOf(d), Correct(p, d, in, out)
  PROVE  Good'
<1>1. clock \in Times /\ Today \in Days /\ clock \in Nat /\ Today \in Nat
  BY Now, Calendar
<1>2. corrections' \in 0 .. MaxCorrections
  BY ConstantsAssumption DEF Good, RestGood, Correct
<1>3. CASE d \in Days
  <2>1. RowOK(rows[p][d], p, d, clock, straddled)
    BY <1>3, Now
  <2>2. \A x \in TimesOf(d) : /\ x \in Times \cup {Never}
                              /\ x # Never => x <= clock /\ Day(x) = d
    BY <1>1, ConstantsAssumption DEF TimesOf, Times
  <2>3. \A x \in TimesOf(d) : x # Never => Fits(p, d, x, straddled) /\ Within(p, d, x, straddled)
    BY <1>3, <2>2, Calendar DEF Fits, Within
  <2>4. RowOK([rows[p][d] EXCEPT !.in = in, !.out = out], p, d, clock, straddled)
    BY <1>1, <1>3, <2>1, <2>2, <2>3, CorrectedOK DEF Correct
  <2>5. RowsGood(rows', clock, straddled)
    BY <1>3, <2>4, WriteGood DEF Correct
  <2> QED BY <1>2, <2>5 DEF Good, RestGood, Correct
<1>4. CASE d \notin Days
  <2>1. [rows[p] EXCEPT ![d] = [rows[p][d] EXCEPT !.in = in, !.out = out]] = rows[p]
    BY <1>4 DEF Good, RowsGood
  <2>2. rows' = rows
    BY <2>1 DEF Good, RowsGood, Correct, Write
  <2> QED BY <1>2, <2>2 DEF Good, RestGood, Correct
<1> QED BY <1>3, <1>4

LEMMA RecentlyPast ==
  ASSUME Good, NEW s \in Recently, NEW u \in Recently, s <= u
  PROVE  /\ Day(s) \in Days /\ u \in Times /\ Day(s) <= Day(u) /\ u <= clock
         /\ s \in 0 .. clock /\ u \in 0 .. clock
<1>1. s \in 0 .. clock /\ u \in 0 .. clock
  BY DEF Recently
<1> QED BY <1>1, Past, Calendar

LEMMA ProceedGood ==
  ASSUME Good, NEW t \in Threads, Proceed(t)
  PROVE  Good'
  BY CollectGood, RolloverGood, TouchGood, LookGood, InsertGood, ClockInRefusedGood,
     RememberGood, ListGood, ReadGood, StampGood, UpdateGood, UpdateFindsClosedGood,
     UpdateAbortsGood, ForgetGood DEF Proceed

LEMMA NextGood == Good /\ [Next]_vars => Good'
<1> SUFFICES ASSUME Good, [Next]_vars PROVE Good'
  OBVIOUS
<1>1. CASE UNCHANGED vars
  BY <1>1 DEF vars, history, Good
<1>2. CASE Tick
  BY <1>2, TickGood
<1>3. CASE BackendStep
  BY <1>3, RecentlyPast, ClockInGood, ClockOutGood, CorrectGood DEF BackendStep
<1>4. CASE EngineStep
  <2>1. {"reconcile", "recognise", "centre", "manualIn", "manualOut"}
          \subseteq Ops \ {"none", "shutdown"}
    BY DEF Ops
  <2>2. "ops" \in Threads /\ "main" \in Threads
    BY ConstantsAssumption
  <2>3. CASE Reconcile
    BY <2>1, <2>2, <2>3, BeginGood DEF Reconcile
  <2>4. ASSUME NEW p \in People, Begin("ops", "recognise", p) \/ Begin("main", "centre", p)
        PROVE  Good'
    BY <2>1, <2>2, <2>4, BeginGood
  <2>5. ASSUME NEW p \in People, NEW t \in Threads,
               Begin(t, "manualIn", p) \/ Begin(t, "manualOut", p)
        PROVE  Good'
    BY <2>1, <2>5, BeginGood
  <2>6. ASSUME NEW p \in People, NEW seen \in 0 .. clock, NEW s \in 0 .. clock,
               NEW u \in 0 .. clock, s <= u, SelectedBy(p, Day(s), u), seen <= s,
               Observe(p, seen, Day(s), Day(u))
        PROVE  Good'
    BY <2>6, ObserveGood
  <2>7. CASE \E t \in Threads : Proceed(t)
    BY <2>7, ProceedGood
  <2>8. CASE Shutdown \/ CloseForShutdown \/ Crash \/ Start
    BY <2>8, LifeGood
  <2> QED BY <1>4, <2>3, <2>4, <2>5, <2>6, <2>7, <2>8 DEF EngineStep
<1> QED BY <1>1, <1>2, <1>3, <1>4 DEF Next

-----------------------------------------------------------------------------
\* The history keeps what it has witnessed, and every row and every close that
\* a thread has decided is backed by it (the conjunct Witnessed).
RowsBacked(rs, w) ==
  \A p \in People, d \in Days :
    \A t \in {rs[p][d].in, rs[p][d].seen} \ {Never} : NotAfter(t, w[p][d])

BackedBy(p, d, t, w) == \E e \in Days : e <= d /\ NotAfter(t, w[p][e])

LocalBacked(l, w) ==
  /\ \A c \in l.todo : NotAfter(c.out, w[c.who][c.day])
  /\ l.pc = "update" /\ l.op # "manualOut" => BackedBy(l.who, l.day, l.at, w)

Recorded ==
  /\ Typed(witnessed)
  /\ RowsBacked(rows, witnessed)
  /\ \A t \in Threads : LocalBacked(local[t], witnessed)

LEMMA LaterOfBacks ==
  ASSUME NEW a \in Times \cup {Never}, NEW b \in Times \cup {Never}
  PROVE  /\ LaterOf(a, b) \in Times \cup {Never}
         /\ \A t \in Times : NotAfter(t, a) \/ NotAfter(t, b) => NotAfter(t, LaterOf(a, b))
         /\ b # Never => NotAfter(b, LaterOf(a, b))
<1>1. CASE a = Never
  BY <1>1, Calendar DEF LaterOf, NotAfter
<1>2. CASE a # Never /\ b = Never
  BY <1>2, Calendar DEF LaterOf, NotAfter
<1>3. CASE a # Never /\ b # Never
  <2>1. a \in Nat /\ b \in Nat /\ \A t \in Times : t \in Nat
    BY <1>3, Calendar
  <2>2. CASE a < b
    BY <1>3, <2>1, <2>2 DEF LaterOf, NotAfter
  <2>3. CASE ~(a < b)
    BY <1>3, <2>1, <2>3 DEF LaterOf, NotAfter
  <2> QED BY <2>2, <2>3
<1> QED BY <1>1, <1>2, <1>3

\* What a row says of a presence, as the history takes it.
LEMMA RowBacks ==
  ASSUME NEW r \in Row, NEW w \in Times \cup {Never}
  PROVE  LET n == LaterOf(w, LaterOf(r.in, r.seen))
         IN  /\ n \in Times \cup {Never}
             /\ \A t \in Times : NotAfter(t, w) => NotAfter(t, n)
             /\ \A t \in {r.in, r.seen} \ {Never} : NotAfter(t, n)
<1>1. /\ r.in \in Times \cup {Never} /\ r.seen \in Times \cup {Never}
      /\ \A t \in Times : NotAfter(t, t)
  BY Calendar DEF Row, NotAfter
<1>2. PICK b : b = LaterOf(r.in, r.seen)
  OBVIOUS
<1>3. /\ b \in Times \cup {Never}
      /\ \A t \in Times : NotAfter(t, r.in) \/ NotAfter(t, r.seen) => NotAfter(t, b)
  BY <1>1, <1>2, LaterOfBacks
<1>4. \A t \in {r.in, r.seen} \ {Never} : t \in Times /\ NotAfter(t, b)
  BY <1>1, <1>3
<1>5. /\ LaterOf(w, b) \in Times \cup {Never}
      /\ \A t \in Times : NotAfter(t, w) \/ NotAfter(t, b) => NotAfter(t, LaterOf(w, b))
  BY <1>3, LaterOfBacks
<1> QED BY <1>2, <1>4, <1>5

\* A later history backs what an earlier one did.
Keeps(w, n) ==
  \A p \in People, d \in Days, t \in Times : NotAfter(t, w[p][d]) => NotAfter(t, n[p][d])

LEMMA StillBacked ==
  ASSUME NEW l \in Local, NEW c \in Times, NEW s, DecidedInTime(l, c, s), NEW w, NEW n,
         Keeps(w, n), LocalBacked(l, w)
  PROVE  LocalBacked(l, n)
<1>1. \A x \in l.todo : x.who \in People /\ x.day \in Days /\ x.out \in Times
  BY DEF Local, Close
<1>2. l.pc = "update" => l.who \in People /\ l.day \in Days /\ l.at \in Times
  BY DEF Local, DecidedInTime
<1>3. \A p \in People, d \in Days, t \in Times : BackedBy(p, d, t, w) => BackedBy(p, d, t, n)
  BY DEF Keeps, BackedBy
<1> QED BY <1>1, <1>2, <1>3 DEF Keeps, LocalBacked

LEMMA WriteBacked ==
  ASSUME Good, Recorded, NEW p \in People, NEW d \in Days, NEW r \in Row, Write(p, d, r)
  PROVE  /\ Typed(witnessed')
         /\ RowsBacked(rows', witnessed')
         /\ \A t \in Threads : LocalBacked(local[t], witnessed')
<1> DEFINE w == witnessed[p][d]
<1>1. PICK n : n = LaterOf(w, LaterOf(r.in, r.seen))
  OBVIOUS
<1>2. /\ witnessed \in [People -> [Days -> Times \cup {Never}]]
      /\ rows \in [People -> [Days -> Row]]
      /\ w \in Times \cup {Never}
  BY DEF Recorded, Typed, Good, RowsGood
<1>3. /\ n \in Times \cup {Never}
      /\ \A t \in Times : NotAfter(t, w) => NotAfter(t, n)
      /\ \A t \in {r.in, r.seen} \ {Never} : NotAfter(t, n)
  BY <1>1, <1>2, RowBacks
<1>4. rows' = [rows EXCEPT ![p][d] = r] /\ witnessed' = [witnessed EXCEPT ![p][d] = n]
  BY <1>1 DEF Write
<1>5. \A q \in People, e \in Days :
        /\ rows'[q][e] = IF q = p /\ e = d THEN r ELSE rows[q][e]
        /\ witnessed'[q][e] = IF q = p /\ e = d THEN n ELSE witnessed[q][e]
  BY <1>2, <1>4
<1>6. Typed(witnessed')
  BY <1>2, <1>3, <1>4 DEF Typed
<1>7. RowsBacked(rows', witnessed')
  BY <1>3, <1>5 DEF RowsBacked, Recorded
<1>8. Keeps(witnessed, witnessed')
  BY <1>3, <1>5 DEF Keeps
<1>9. \A t \in Threads : local[t] \in Local /\ DecidedInTime(local[t], clock, straddled)
  BY DEF Good, LocalsGood, LocalOK
<1> QED BY <1>6, <1>7, <1>8, <1>9, StillBacked, Now DEF Recorded

\* A row of which only the clock-out changes.
LEMMA SameRowsBacked ==
  ASSUME Good, Recorded, UNCHANGED witnessed,
         \A p \in People, d \in Days :
           rows'[p][d].in = rows[p][d].in /\ rows'[p][d].seen = rows[p][d].seen
  PROVE  /\ Typed(witnessed')
         /\ RowsBacked(rows', witnessed')
         /\ \A t \in Threads : LocalBacked(local[t], witnessed')
  BY DEF Recorded, RowsBacked

LEMMA QuietBacked ==
  ASSUME Good, Recorded, UNCHANGED table
  PROVE  /\ Typed(witnessed')
         /\ RowsBacked(rows', witnessed')
         /\ \A t \in Threads : LocalBacked(local[t], witnessed')
  BY DEF Recorded, table

LEMMA IdleBacked == \A w : LocalBacked(Idle, w)
  BY DEF LocalBacked, Idle

\* A thread goes on, and what it has left to close becomes no more.
LEMMA LessBacked ==
  ASSUME NEW l, NEW m, NEW w, LocalBacked(l, w), m.todo \subseteq l.todo, m.pc # "update"
  PROVE  LocalBacked(m, w)
  BY DEF LocalBacked

LEMMA BecomeBacked ==
  ASSUME Good, NEW w, \A t \in Threads : LocalBacked(local[t], w),
         NEW t \in Threads, NEW m, LocalBacked(m, w), Become(t, m)
  PROVE  \A u \in Threads : LocalBacked(local'[u], w)
<1>1. \A u \in Threads : local'[u] = IF u = t THEN m ELSE local[u]
  BY DEF Good, LocalsGood, Become
<1> QED BY <1>1

LEMMA FinishBacked ==
  ASSUME Good, NEW w, \A t \in Threads : LocalBacked(local[t], w),
         NEW t \in Threads, Finish(t)
  PROVE  \A u \in Threads : LocalBacked(local'[u], w)
  BY BecomeBacked, IdleBacked DEF Finish

LEMMA StopBacked ==
  ASSUME Stop, NEW w
  PROVE  \A u \in Threads : LocalBacked(local'[u], w)
  BY IdleBacked DEF Stop

\* Where an open row is closed, its presence is recorded.
LEMMA PresenceBacked ==
  ASSUME Good, Recorded, NEW p \in People, NEW d \in Days, Open(rows[p][d])
  PROVE  NotAfter(LastPresence(rows[p][d]), witnessed[p][d])
<1>1. LastPresence(rows[p][d]) \in {rows[p][d].in, rows[p][d].seen} \ {Never}
  BY DEF Open, LastPresence
<1> QED BY <1>1 DEF Recorded, RowsBacked

LEMMA BeginBacked ==
  ASSUME Good, Recorded, NEW t \in Threads, NEW op, NEW p, Begin(t, op, p)
  PROVE  Recorded'
<1>1. PICK l : l = [Idle EXCEPT !.op = op, !.who = p]
  OBVIOUS
<1>2. /\ l.todo = {} /\ l.pc = "idle"
      /\ DOMAIN l = {"op", "pc", "who", "day", "at", "todo", "done"}
  BY <1>1 DEF Idle
<1>3. PICK m : Become(t, m) /\ m.pc # "update" /\ m.todo = {}
  <2>1. CASE op \in {"reconcile", "recognise", "centre"} /\ date # Today
    <3>1. PICK m : m = [l EXCEPT !.pc = "collect", !.day = Today]
      OBVIOUS
    <3>2. m.pc = "collect" /\ m.todo = {}
      BY <1>2, <3>1
    <3> QED BY <1>1, <2>1, <3>1, <3>2 DEF Begin
  <2>2. CASE ~(op \in {"reconcile", "recognise", "centre"} /\ date # Today)
    <3>1. PICK m : m = [l EXCEPT !.pc = FirstPc(op), !.at = clock]
      OBVIOUS
    <3>2. m.pc = FirstPc(op) /\ m.todo = {}
      BY <1>2, <3>1
    <3> QED BY <1>1, <2>2, <3>1, <3>2, FirstPcOK DEF Begin
  <2> QED BY <2>1, <2>2
<1>4. LocalBacked(m, witnessed)
  BY <1>3 DEF LocalBacked
<1>5. UNCHANGED <<rows, witnessed>>
  BY DEF Begin, history
<1>6. \A u \in Threads : LocalBacked(local'[u], witnessed)
  BY <1>3, <1>4, BecomeBacked DEF Recorded
<1> QED BY <1>5, <1>6 DEF Recorded

\* Open rows that are listed are closed where their presence is recorded.
LEMMA ListedBacked ==
  ASSUME Good, Recorded, NEW t \in Threads, NEW m, Become(t, m), m.pc # "update",
         m.todo \in SUBSET Close,
         \A c \in m.todo : /\ Open(rows[c.who][c.day])
                           /\ c.out = LastPresence(rows[c.who][c.day]),
         UNCHANGED <<rows, witnessed>>
  PROVE  Recorded'
<1>1. \A c \in m.todo : NotAfter(c.out, witnessed[c.who][c.day])
  BY PresenceBacked DEF Close
<1>2. LocalBacked(m, witnessed)
  BY <1>1 DEF LocalBacked
<1>3. \A u \in Threads : LocalBacked(local'[u], witnessed)
  BY <1>2, BecomeBacked DEF Recorded
<1> QED BY <1>3 DEF Recorded

LEMMA CollectBacked ==
  ASSUME Good, Recorded, NEW t \in Threads, Collect(t)
  PROVE  Recorded'
<1>1. local[t] \in Local
  BY Here DEF Collect
<1>2. PICK todo : todo = LeftOpen(local[t].day)
  OBVIOUS
<1>3. PICK m : m = [local[t] EXCEPT !.pc = "rollover", !.todo = todo]
  OBVIOUS
<1>4. m.pc = "rollover" /\ m.todo = todo /\ Become(t, m)
  BY <1>1, <1>2, <1>3 DEF Local, Collect
<1>5. todo \in SUBSET Close /\ \A c \in todo : /\ Open(rows[c.who][c.day])
                                               /\ c.out = LastPresence(rows[c.who][c.day])
  BY <1>2 DEF LeftOpen
<1> QED BY <1>4, <1>5, ListedBacked DEF Collect, history

LEMMA RolloverBacked ==
  ASSUME Good, Recorded, NEW t \in Threads, Rollover(t)
  PROVE  Recorded'
<1> DEFINE l == local[t]
<1>1. l \in Local
  BY Here DEF Rollover
<1>2. PICK closes : rows' = Reconciled(closes)
  BY DEF Rollover
<1>3. \A p \in People, d \in Days :
        rows'[p][d].in = rows[p][d].in /\ rows'[p][d].seen = rows[p][d].seen
  <2> SUFFICES ASSUME NEW p \in People, NEW d \in Days
               PROVE  /\ Reconciled(closes)[p][d].in = rows[p][d].in
                      /\ Reconciled(closes)[p][d].seen = rows[p][d].seen
    BY <1>2
  <2>1. rows[p][d] \in Row
    BY DEF Good, RowsGood
  <2> QED BY <2>1 DEF Reconciled, Row
<1>4. PICK m : m = [l EXCEPT !.pc = FirstPc(l.op), !.day = 0, !.at = clock, !.todo = {}]
  OBVIOUS
<1>5. Become(t, m)
  BY <1>4 DEF Rollover
<1> HIDE DEF l
<1>6. m.todo = {} /\ m.pc # "update"
  BY <1>1, <1>4, FirstPcOK DEF Local
<1>7. LocalBacked(m, witnessed')
  BY <1>6 DEF LocalBacked
<1>8. /\ Typed(witnessed') /\ RowsBacked(rows', witnessed')
      /\ \A u \in Threads : LocalBacked(local[u], witnessed')
  BY <1>3, SameRowsBacked DEF Rollover, history
<1>9. \A u \in Threads : LocalBacked(local'[u], witnessed')
  BY <1>5, <1>7, <1>8, BecomeBacked
<1> QED BY <1>8, <1>9 DEF Recorded

LEMMA RefreshBacked ==
  ASSUME Good, Recorded, NEW p \in People, NEW seen \in Times, NEW d \in Days, NEW e \in Days,
         Refresh(p, seen, d, e)
  PROVE  /\ Typed(witnessed')
         /\ RowsBacked(rows', witnessed')
         /\ \A t \in Threads : LocalBacked(local[t], witnessed')
<1>1. PICK v : v = LaterOf(seen, rows[p][d].seen)
  OBVIOUS
<1>2. rows[p][d] \in Row /\ rows[p][e] \in Row
  BY DEF Good, RowsGood
<1>3. v \in Times \cup {Never}
  BY <1>1, <1>2 DEF LaterOf, Row
<1>4. PICK r : r = [rows[p][e] EXCEPT !.seen = v]
  OBVIOUS
<1>5. r \in Row
  BY <1>2, <1>3, <1>4 DEF Row
<1>6. Write(p, e, r) \/ UNCHANGED table
  BY <1>1, <1>4 DEF Refresh
<1> QED BY <1>5, <1>6, WriteBacked, QuietBacked

LEMMA ObserveBacked ==
  ASSUME Good, Recorded, NEW p \in People, NEW seen \in 0 .. clock, NEW s \in 0 .. clock,
         NEW u \in 0 .. clock, Observe(p, seen, Day(s), Day(u))
  PROVE  Recorded'
<1>1. seen \in Times /\ Day(s) \in Days /\ Day(u) \in Days
  BY Past
<1> QED BY <1>1, RefreshBacked DEF Recorded, Observe

LEMMA TouchBacked ==
  ASSUME Good, Recorded, NEW t \in Threads, Touch(t)
  PROVE  Recorded'
<1>1. local[t] \in Local /\ local[t].who \in People
  BY Here DEF Touch, DecidedInTime
<1>2. PICK l : l = local[t]
  OBVIOUS
<1>3. /\ Typed(witnessed') /\ RowsBacked(rows', witnessed')
      /\ \A u \in Threads : LocalBacked(local[u], witnessed')
  <2>1. PICK seen \in Readings(t), s \in Readings(t), u \in Readings(t) :
          Refresh(l.who, seen, Day(s), Day(u))
    BY <1>2 DEF Touch
  <2>2. seen \in Times /\ Day(s) \in Days /\ Day(u) \in Days
    BY <1>1, ReadingsPast
  <2> QED BY <1>1, <1>2, <2>1, <2>2, RefreshBacked
<1>4. \A u \in Threads : LocalBacked(local'[u], witnessed')
  <2>1. CASE Finish(t)
    BY <1>3, <2>1, FinishBacked
  <2>2. CASE Become(t, [l EXCEPT !.pc = "look", !.at = clock])
    <3>1. PICK m : m = [l EXCEPT !.pc = "look", !.at = clock]
      OBVIOUS
    <3>2. m.pc = "look" /\ m.todo = l.todo
      BY <1>1, <1>2, <3>1 DEF Local
    <3>3. LocalBacked(m, witnessed')
      BY <1>2, <1>3, <3>2, LessBacked
    <3> QED BY <1>3, <2>2, <3>1, <3>3, BecomeBacked
  <2> QED BY <1>2, <2>1, <2>2 DEF Touch
<1> QED BY <1>3, <1>4 DEF Recorded

LEMMA LookBacked ==
  ASSUME Good, Recorded, NEW t \in Threads, Look(t)
  PROVE  Recorded'
<1>1. local[t] \in Local
  BY Here DEF Look
<1>2. PICK l : l = local[t]
  OBVIOUS
<1>3. PICK d, u : LookAt(t, d, u)
  BY DEF Look
<1>4. UNCHANGED table
  BY <1>3 DEF LookAt
<1>5. \A v \in Threads : LocalBacked(local'[v], witnessed)
  <2>1. CASE Finish(t)
    BY <2>1, FinishBacked DEF Recorded
  <2>2. CASE Become(t, [l EXCEPT !.pc = "insert", !.day = d, !.at = u])
    <3>1. PICK m : m = [l EXCEPT !.pc = "insert", !.day = d, !.at = u]
      OBVIOUS
    <3>2. m.pc = "insert" /\ m.todo = l.todo
      BY <1>1, <1>2, <3>1 DEF Local
    <3>3. LocalBacked(m, witnessed)
      BY <1>2, <3>2, LessBacked DEF Recorded
    <3> QED BY <2>2, <3>1, <3>3, BecomeBacked DEF Recorded
  <2> QED BY <1>2, <1>3, <2>1, <2>2 DEF LookAt
<1> QED BY <1>4, <1>5 DEF Recorded, table

LEMMA InsertBacked ==
  ASSUME Good, Recorded, NEW t \in Threads, Insert(t)
  PROVE  Recorded'
<1> DEFINE l == local[t]
<1> DEFINE r == Inserted(rows[l.who][l.day], l.at)
<1>1. l \in Local /\ DecidedInTime(l, clock, straddled) /\ l.pc = "insert"
  BY Here DEF Insert
<1>2. /\ l.who \in People /\ l.day \in Days /\ l.at \in Times
      /\ l.at <= clock /\ Fits(l.who, l.day, l.at, straddled)
  BY <1>1 DEF DecidedInTime, Local
<1>3. r \in Row /\ Write(l.who, l.day, r)
  BY <1>2, Now, InsertedOK DEF Insert, RowOK
<1>4. /\ Typed(witnessed') /\ RowsBacked(rows', witnessed')
      /\ \A u \in Threads : LocalBacked(local[u], witnessed')
  BY <1>2, <1>3, WriteBacked
<1>5. \A u \in Threads : LocalBacked(local'[u], witnessed')
  <2>1. CASE Finish(t)
    BY <1>4, <2>1, FinishBacked
  <2>2. CASE Become(t, [l EXCEPT !.pc = "remember", !.day = 0, !.at = 0])
    <3>1. PICK m : m = [l EXCEPT !.pc = "remember", !.day = 0, !.at = 0]
      OBVIOUS
    <3>2. m.pc = "remember" /\ m.todo = l.todo
      BY <1>1, <3>1 DEF Local
    <3>3. LocalBacked(m, witnessed') /\ Become(t, m)
      BY <1>4, <2>2, <3>1, <3>2, LessBacked
    <3> QED BY <1>4, <3>3, BecomeBacked
  <2> QED BY <2>1, <2>2 DEF Insert
<1> QED BY <1>4, <1>5 DEF Recorded

LEMMA ListBacked ==
  ASSUME Good, Recorded, NEW t \in Threads, List(t)
  PROVE  Recorded'
<1>1. local[t] \in Local
  BY Here DEF List
<1>2. PICK now, s : Become(t, [local[t] EXCEPT !.pc = "read", !.at = clock,
                                               !.todo = ToClose(local[t].op, Day(s), now)])
  BY DEF List
<1>3. PICK todo : todo = ToClose(local[t].op, Day(s), now)
  OBVIOUS
<1>4. PICK m : m = [local[t] EXCEPT !.pc = "read", !.at = clock, !.todo = todo]
  OBVIOUS
<1>5. m.pc = "read" /\ m.todo = todo /\ Become(t, m)
  BY <1>1, <1>2, <1>3, <1>4 DEF Local
<1>6. todo \in SUBSET Close /\ \A c \in todo : /\ Open(rows[c.who][c.day])
                                               /\ c.out = LastPresence(rows[c.who][c.day])
  BY <1>3 DEF ToClose, Stale
<1> QED BY <1>5, <1>6, ListedBacked DEF List, history

\* The time that attendance_clock_out settles on is a presence recorded in
\* the row it has read or in the one it was listed from: the listed time, or
\* the clock-in, which midnight may have made the later of the two.
LEMMA ReadToCloseBacked ==
  ASSUME Good, Recorded, NEW t \in Threads, At(t, "read"), local[t].op # "manualOut",
         NEW s \in Readings(t), NEW c \in local[t].todo, ReadToClose(t, Day(s), c)
  PROVE  \A u \in Threads : LocalBacked(local'[u], witnessed)
<1>1. /\ local[t] \in Local /\ local[t].pc = "read" /\ c \in Close
      /\ DecidedInTime(local[t], clock, straddled) /\ local[t].at \in Times
  BY Here
<1>2. PICK l : l = local[t]
  OBVIOUS
<1>3. PICK d : d = Day(s)
  OBVIOUS
<1>4. /\ s \in Times /\ l.at <= s /\ d \in Days
      /\ c.who \in People /\ c.day \in Days /\ c.day <= Day(l.at)
  BY <1>1, <1>2, <1>3, ReadingsPast DEF Close, DecidedInTime
<1>5. c.day <= d
  <2>1. Day(l.at) <= d /\ Day(l.at) \in Nat /\ d \in Nat /\ c.day \in Nat
    BY <1>1, <1>2, <1>3, <1>4, Calendar
  <2> QED BY <1>4, <2>1
<1>6. LocalBacked(l, witnessed) /\ \A u \in Threads : LocalBacked(local[u], witnessed)
  BY <1>2 DEF Recorded
<1>7. PICK r : r = rows[c.who][d]
  OBVIOUS
<1>8. PICK k : k = [l EXCEPT !.todo = @ \ {c}]
  OBVIOUS
<1>9. k \in Local /\ k.op = l.op /\ k.pc = "read" /\ k.todo \subseteq l.todo
  BY <1>1, <1>2, <1>8 DEF Local
<1>10. CASE Become(t, [k EXCEPT !.at = clock])
  <2>1. PICK m : m = [k EXCEPT !.at = clock]
    OBVIOUS
  <2>2. m.pc = "read" /\ m.todo \subseteq l.todo
    BY <1>9, <2>1 DEF Local
  <2>3. LocalBacked(m, witnessed)
    BY <1>6, <2>2, LessBacked
  <2> QED BY <1>6, <1>10, <2>1, <2>3, BecomeBacked
<1>11. ASSUME NEW at, at = (IF c.out < r.in THEN r.in ELSE c.out), r.in # Never,
              Become(t, [k EXCEPT !.pc = "update", !.who = c.who, !.day = d, !.at = at])
       PROVE  \A u \in Threads : LocalBacked(local'[u], witnessed)
  <2>1. NotAfter(r.in, witnessed[c.who][d]) /\ NotAfter(c.out, witnessed[c.who][c.day])
    BY <1>4, <1>6, <1>7, <1>11, <1>2 DEF Recorded, RowsBacked, LocalBacked
  <2>2. d <= d
    BY <1>4, Calendar
  <2>3. BackedBy(c.who, d, at, witnessed)
    BY <1>4, <1>5, <1>11, <2>1, <2>2 DEF BackedBy
  <2>4. PICK m : m = [k EXCEPT !.pc = "update", !.who = c.who, !.day = d, !.at = at]
    OBVIOUS
  <2>5. /\ m.who = c.who /\ m.day = d /\ m.at = at /\ m.todo = k.todo
    BY <1>9, <2>4 DEF Local
  <2>6. LocalBacked(m, witnessed)
    BY <1>6, <1>9, <2>3, <2>5 DEF LocalBacked
  <2> QED BY <1>6, <1>11, <2>4, <2>6, BecomeBacked
<1> QED BY <1>2, <1>3, <1>7, <1>8, <1>10, <1>11 DEF ReadToClose

LEMMA ReadByHandBacked ==
  ASSUME Good, Recorded, NEW t \in Threads, At(t, "read"), NEW d, ReadByHand(t, d)
  PROVE  \A u \in Threads : LocalBacked(local'[u], witnessed)
<1>1. local[t] \in Local
  BY Here
<1>2. PICK l : l = local[t]
  OBVIOUS
<1>3. CASE Finish(t)
  BY <1>3, FinishBacked DEF Recorded
<1>4. ASSUME NEW at, Become(t, [l EXCEPT !.pc = "stamp", !.day = d, !.at = at])
      PROVE  \A u \in Threads : LocalBacked(local'[u], witnessed)
  <2>1. PICK m : m = [l EXCEPT !.pc = "stamp", !.day = d, !.at = at]
    OBVIOUS
  <2>2. m.pc = "stamp" /\ m.todo = l.todo
    BY <1>1, <1>2, <2>1 DEF Local
  <2>3. LocalBacked(m, witnessed)
    BY <1>2, <2>2, LessBacked DEF Recorded
  <2> QED BY <1>4, <2>1, <2>3, BecomeBacked DEF Recorded
<1> QED BY <1>2, <1>3, <1>4 DEF ReadByHand

LEMMA ReadBacked ==
  ASSUME Good, Recorded, NEW t \in Threads, Read(t)
  PROVE  Recorded'
<1>1. At(t, "read")
  BY DEF Read
<1>2. PICK s \in Readings(t) :
        IF local[t].op = "manualOut"
        THEN ReadByHand(t, Day(s))
        ELSE \E c \in local[t].todo : ReadToClose(t, Day(s), c)
  BY DEF Read
<1>3. \A u \in Threads : LocalBacked(local'[u], witnessed)
  BY <1>1, <1>2, ReadByHandBacked, ReadToCloseBacked
<1> QED BY <1>3 DEF Recorded, Read, history

\* Nobody asks the history for a clock-out by hand.
LEMMA StampBacked ==
  ASSUME Good, Recorded, NEW t \in Threads, Stamp(t)
  PROVE  Recorded'
<1>1. local[t] \in Local /\ local[t].op = "manualOut"
  BY Here DEF Stamp, DecidedInTime
<1>2. PICK l : l = local[t]
  OBVIOUS
<1>3. PICK now : Become(t, [l EXCEPT !.pc = "update", !.at = now])
  BY <1>2 DEF Stamp
<1>4. PICK m : m = [l EXCEPT !.pc = "update", !.at = now]
  OBVIOUS
<1>5. m.op = "manualOut" /\ m.todo = l.todo
  BY <1>1, <1>2, <1>4 DEF Local
<1>6. LocalBacked(m, witnessed)
  BY <1>2, <1>5 DEF LocalBacked, Recorded
<1>7. \A u \in Threads : LocalBacked(local'[u], witnessed)
  BY <1>3, <1>4, <1>6, BecomeBacked DEF Recorded
<1> QED BY <1>7 DEF Recorded, Stamp, table

LEMMA ResumeBacked ==
  ASSUME Good, NEW w, \A u \in Threads : LocalBacked(local[u], w),
         NEW t \in Threads, At(t, "update"), NEW closed, Resume(t, closed)
  PROVE  \A u \in Threads : LocalBacked(local'[u], w)
<1> DEFINE l == local[t]
<1> DEFINE pc == IF l.op = "manualOut" THEN "forget" ELSE "read"
<1> DEFINE at == IF l.op = "manualOut" THEN 0 ELSE clock
<1>1. l \in Local /\ pc # "update"
  BY Here
<1>2. PICK m : m = [l EXCEPT !.pc = pc, !.who = Never, !.day = 0, !.at = at,
                             !.done = @ \cup closed]
  OBVIOUS
<1>3. Become(t, m)
  BY <1>2 DEF Resume
<1> HIDE DEF pc, at
<1>4. m.pc = pc /\ m.todo = l.todo
  BY <1>1, <1>2 DEF Local
<1>5. LocalBacked(m, w)
  BY <1>1, <1>4, LessBacked
<1> QED BY <1>3, <1>5, BecomeBacked

LEMMA UpdateBacked ==
  ASSUME Good, Recorded, NEW t \in Threads, Update(t)
  PROVE  Recorded'
<1> DEFINE l == local[t]
<1> DEFINE r == ClosedAt(rows[l.who][l.day], l.at)
<1>1. l \in Local /\ DecidedInTime(l, clock, straddled) /\ l.pc = "update"
  BY Here DEF Update
<1>2. /\ l.who \in People /\ l.day \in Days /\ l.at \in Times
      /\ l.at <= clock /\ Within(l.who, l.day, l.at, straddled)
  BY <1>1 DEF DecidedInTime, Local, Fits
<1>3. r \in Row /\ Write(l.who, l.day, r)
  BY <1>2, Now, ClosedOK DEF Update, RowOK
<1>4. /\ Typed(witnessed') /\ RowsBacked(rows', witnessed')
      /\ \A u \in Threads : LocalBacked(local[u], witnessed')
  BY <1>2, <1>3, WriteBacked
<1>5. \A u \in Threads : LocalBacked(local'[u], witnessed')
  BY <1>4, ResumeBacked DEF Update
<1> QED BY <1>4, <1>5 DEF Recorded

LEMMA UpdateEndsBacked ==
  ASSUME Good, Recorded, NEW t \in Threads, UpdateFindsClosed(t) \/ UpdateAborts(t)
  PROVE  Recorded'
<1>1. UNCHANGED <<rows, witnessed>>
  BY DEF UpdateFindsClosed, UpdateAborts, history
<1>2. CASE UpdateFindsClosed(t)
  <2>1. \A u \in Threads : LocalBacked(local'[u], witnessed)
    BY <1>2, ResumeBacked DEF UpdateFindsClosed, Recorded
  <2> QED BY <1>1, <2>1 DEF Recorded
<1>3. CASE UpdateAborts(t)
  <2>1. \A u \in Threads : LocalBacked(local'[u], witnessed)
    BY <1>3, FinishBacked, StopBacked DEF UpdateAborts, Recorded
  <2> QED BY <1>1, <2>1 DEF Recorded
<1> QED BY <1>2, <1>3

LEMMA FinishesBacked ==
  ASSUME Good, Recorded, NEW t \in Threads, ClockInRefused(t) \/ Remember(t) \/ Forget(t)
  PROVE  Recorded'
<1>1. UNCHANGED <<rows, witnessed>> /\ (Finish(t) \/ Stop)
  BY DEF ClockInRefused, Remember, Forget, history
<1>2. \A u \in Threads : LocalBacked(local'[u], witnessed)
  BY <1>1, FinishBacked, StopBacked DEF Recorded
<1> QED BY <1>1, <1>2 DEF Recorded

LEMMA LifeBacked ==
  ASSUME Good, Recorded, Shutdown \/ CloseForShutdown \/ Crash \/ Start
  PROVE  Recorded'
<1>1. UNCHANGED <<rows, witnessed>>
  BY DEF Shutdown, CloseForShutdown, Crash, Start, history
<1>2. CASE Shutdown \/ Start
  BY <1>2 DEF Shutdown, Start, Recorded, history
<1>3. CASE CloseForShutdown
  <2>1. PICK m : m = [Idle EXCEPT !.op = "shutdown", !.pc = "list", !.at = clock]
    OBVIOUS
  <2>2. m.todo = {} /\ m.pc = "list"
    BY <2>1 DEF Idle
  <2>3. LocalBacked(m, witnessed) /\ Become("main", m) /\ "main" \in Threads
    BY <1>3, <2>1, <2>2, ConstantsAssumption DEF LocalBacked, CloseForShutdown
  <2>4. \A u \in Threads : LocalBacked(local'[u], witnessed)
    BY <2>3, BecomeBacked DEF Recorded
  <2> QED BY <1>1, <2>4 DEF Recorded
<1>4. CASE Crash
  <2>1. \A u \in Threads : LocalBacked(local'[u], witnessed)
    BY <1>4, StopBacked DEF Crash
  <2> QED BY <1>1, <2>1 DEF Recorded
<1> QED BY <1>2, <1>3, <1>4

LEMMA BackendBacked ==
  ASSUME Good, Recorded, BackendStep
  PROVE  Recorded'
<1>1. UNCHANGED local
  BY DEF BackendStep, ClockIn, ClockOut, Correct
<1>2. clock \in Times /\ Today \in Days
      /\ \A p \in People, d \in Days : rows[p][d] \in Row
  BY Now DEF RowOK
<1>3. ASSUME NEW p \in People, NEW d \in Days, NEW r \in Row, Write(p, d, r) PROVE Recorded'
  BY <1>1, <1>3, WriteBacked DEF Recorded
<1>4. ASSUME NEW p \in People, NEW d \in Days, NEW now \in Times,
             ClockIn(p, d, now) \/ ClockOut(p, d, now)
      PROVE  Recorded'
  <2>1. [rows[p][d] EXCEPT !.in = now] \in Row /\ [rows[p][d] EXCEPT !.out = now] \in Row
    BY <1>2 DEF Row
  <2> QED BY <1>3, <1>4, <2>1 DEF ClockIn, ClockOut
<1>5. ASSUME NEW p \in People, NEW d \in 0 .. Today, NEW in \in TimesOf(d), NEW out \in TimesOf(d),
             Correct(p, d, in, out)
      PROVE  Recorded'
  <2>1. PICK r : r = [rows[p][d] EXCEPT !.in = in, !.out = out]
    OBVIOUS
  <2>2. Write(p, d, r)
    BY <1>5, <2>1 DEF Correct
  <2>3. CASE d \in Days
    <3>1. TimesOf(d) \subseteq Times \cup {Never}
      BY <1>2, ConstantsAssumption DEF TimesOf, Times
    <3>2. r \in Row
      BY <1>2, <2>1, <2>3, <3>1 DEF Row
    <3> QED BY <1>3, <2>2, <2>3, <3>2
  <2>4. CASE d \notin Days
    <3>1. rows' = rows /\ witnessed' = witnessed
      BY <2>2, <2>4 DEF Write, Good, RowsGood, Recorded, Typed
    <3> QED BY <1>1, <3>1 DEF Recorded
  <2> QED BY <2>3, <2>4
<1> QED BY <1>4, <1>5, RecentlyPast DEF BackendStep

LEMMA NextBacked == Good /\ Recorded /\ [Next]_vars => Recorded'
<1> SUFFICES ASSUME Good, Recorded, [Next]_vars PROVE Recorded'
  OBVIOUS
<1>1. CASE UNCHANGED vars \/ Tick
  BY <1>1 DEF vars, history, Tick, Recorded
<1>2. ASSUME NEW t \in Threads, Proceed(t) PROVE Recorded'
  BY <1>2, CollectBacked, RolloverBacked, TouchBacked, LookBacked, InsertBacked,
     FinishesBacked, ListBacked, ReadBacked, StampBacked, UpdateBacked,
     UpdateEndsBacked DEF Proceed
<1>3. CASE EngineStep
  <2>1. ASSUME NEW t \in Threads, NEW op, NEW p, Begin(t, op, p) PROVE Recorded'
    BY <2>1, BeginBacked
  <2>2. "ops" \in Threads /\ "main" \in Threads
    BY ConstantsAssumption
  <2> QED BY <1>2, <1>3, <2>1, <2>2, ObserveBacked, LifeBacked DEF EngineStep, Reconcile
<1> QED BY <1>1, <1>3, BackendBacked DEF Next

LEMMA InitBacked == Init => Recorded
<1> SUFFICES ASSUME Init PROVE Recorded
  OBVIOUS
<1>1. \A p \in People, d \in Days : rows[p][d] = NoRow
  BY DEF Init
<1>2. RowsBacked(rows, witnessed)
  BY <1>1 DEF RowsBacked, NoRow
<1>3. \A t \in Threads : LocalBacked(local[t], witnessed)
  BY IdleBacked DEF Init
<1> QED BY <1>2, <1>3 DEF Init, Recorded, Typed

LEMMA RecordedIsWitnessed == Recorded <=> Typed(witnessed) /\ Witnessed
  BY DEF Recorded, Witnessed, RowsBacked, LocalBacked, Backed, BackedBy

LEMMA GoodIsIInv == IInv <=> Good /\ Recorded
<1>1. IInv <=> /\ TypeOK /\ IntervalOnItsDay /\ PastTimes
               /\ \A t \in Threads : DecidedInTime(local[t], clock, straddled)
               /\ Witnessed
  BY DEF IInv
<1>2. TypeOK => Typed(witnessed)
  BY DEF TypeOK, Typed
<1> QED BY <1>1, <1>2, RecordedIsWitnessed, GoodIsSafe

-----------------------------------------------------------------------------
\* IInv holds in every reachable state: what a thread of the engine has
\* decided stays a past time until it is written, and it fits the day the
\* thread read, or midnight fell between its two readings of the clock and
\* the row is remembered as straddled.
THEOREM Invariance == Spec => []IInv
<1>1. Init => IInv
  BY InitGood, InitBacked, GoodIsIInv
<1>2. IInv /\ [Next]_vars => IInv'
  <2>1. Good' /\ Recorded' => IInv'
    BY GoodIsIInv, PTL
  <2> QED BY <2>1, NextGood, NextBacked, GoodIsIInv
<1> QED BY <1>1, <1>2, PTL DEF Spec

\* The variables keep their types, a thread's operation and place agree, and
\* attendance_lock has one holder.
THEOREM TypeCorrect == Spec => []TypeOK
<1>1. IInv => TypeOK
  BY DEF IInv
<1> QED BY <1>1, Invariance, PTL

\* Every recorded interval is in order and does not begin before the day of
\* its row; it leaves that day only if a writer of the row read the day
\* before a midnight and the time after it.
THEOREM IntervalHolds == Spec => []IntervalOnItsDay
<1>1. IInv => IntervalOnItsDay
  BY DEF IInv
<1> QED BY <1>1, Invariance, PTL

-----------------------------------------------------------------------------
\* What one step does to one row.
LEMMA WriteReads ==
  ASSUME rows \in [People -> [Days -> Row]], NEW q \in People, NEW e \in Days,
         NEW r, Write(q, e, r), NEW p \in People, NEW d \in Days
  PROVE  rows'[p][d] = IF p = q /\ d = e THEN r ELSE rows[p][d]
  BY DEF Write

\* A refresh changes last_seen_at only.
LEMMA RefreshKeeps ==
  ASSUME Good, NEW q \in People, NEW seen, NEW e \in Days, NEW f \in Days,
         Refresh(q, seen, e, f), NEW p \in People, NEW d \in Days
  PROVE  rows'[p][d].in = rows[p][d].in /\ rows'[p][d].out = rows[p][d].out
<1>1. rows \in [People -> [Days -> Row]] /\ rows[p][d] \in Row
  BY DEF Good, RowsGood
<1>2. PICK v : v = LaterOf(seen, rows[q][e].seen)
  OBVIOUS
<1>3. CASE Write(q, f, [rows[q][f] EXCEPT !.seen = v])
  <2>1. rows'[p][d] = IF p = q /\ d = f THEN [rows[p][d] EXCEPT !.seen = v] ELSE rows[p][d]
    BY <1>1, <1>3, WriteReads
  <2> QED BY <1>1, <2>1 DEF Row
<1>4. CASE UNCHANGED table
  BY <1>4 DEF table
<1> QED BY <1>2, <1>3, <1>4 DEF Refresh

LEMMA TouchKeeps ==
  ASSUME Good, NEW t \in Threads, Touch(t), NEW p \in People, NEW d \in Days
  PROVE  rows'[p][d].in = rows[p][d].in /\ rows'[p][d].out = rows[p][d].out
<1>1. local[t] \in Local /\ local[t].who \in People
  BY Here DEF Touch, DecidedInTime
<1>2. PICK seen \in Readings(t), s \in Readings(t), u \in Readings(t) :
        Refresh(local[t].who, seen, Day(s), Day(u))
  BY DEF Touch
<1>3. Day(s) \in Days /\ Day(u) \in Days
  BY <1>1, ReadingsPast
<1> QED BY <1>1, <1>2, <1>3, RefreshKeeps

LEMMA ObserveKeeps ==
  ASSUME Good, NEW q \in People, NEW seen, NEW s \in 0 .. clock, NEW u \in 0 .. clock,
         Observe(q, seen, Day(s), Day(u)), NEW p \in People, NEW d \in Days
  PROVE  rows'[p][d].in = rows[p][d].in /\ rows'[p][d].out = rows[p][d].out
<1>1. Day(s) \in Days /\ Day(u) \in Days
  BY Past
<1> QED BY <1>1, RefreshKeeps DEF Observe

\* The steps of a thread that leave every row alone.
LEMMA QuietSteps ==
  ASSUME NEW t \in Threads,
         \/ Collect(t) \/ Look(t) \/ ClockInRefused(t) \/ Remember(t) \/ List(t) \/ Read(t)
         \/ Stamp(t) \/ UpdateFindsClosed(t) \/ UpdateAborts(t) \/ Forget(t)
  PROVE  rows' = rows
<1>1. Look(t) \/ Stamp(t) => rows' = rows
  BY DEF Look, LookAt, Stamp, table
<1>2. Collect(t) \/ ClockInRefused(t) \/ Remember(t) \/ List(t) \/ Read(t) => rows' = rows
  BY DEF Collect, ClockInRefused, Remember, List, Read
<1>3. UpdateFindsClosed(t) \/ UpdateAborts(t) \/ Forget(t) => rows' = rows
  BY DEF UpdateFindsClosed, UpdateAborts, Forget
<1> QED BY <1>1, <1>2, <1>3

\* The steps of the engine that leave every row alone.
LEMMA QuietLife ==
  ASSUME \/ \E t, op, p : Begin(t, op, p)
         \/ Shutdown \/ CloseForShutdown \/ Crash \/ Start
  PROVE  rows' = rows
  BY DEF Begin, Shutdown, CloseForShutdown, Crash, Start

\* A step that changes what a row says of its interval is one of these.
LEMMA ChangesInterval ==
  ASSUME Good, Next, NEW p \in People, NEW d \in Days,
         rows'[p][d].in # rows[p][d].in \/ rows'[p][d].out # rows[p][d].out
  PROVE  BackendStep \/ \E t \in Threads : Rollover(t) \/ Insert(t) \/ Update(t)
<1>1. rows' # rows
  OBVIOUS
<1>2. ASSUME NEW t \in Threads, Proceed(t) PROVE Rollover(t) \/ Insert(t) \/ Update(t)
  BY <1>1, <1>2, QuietSteps, TouchKeeps DEF Proceed
<1> QED BY <1>1, <1>2, QuietLife, ObserveKeeps DEF Next, Tick, EngineStep, Reconcile

\* A step of the model keeps the clock-in of a row, unless there was none or
\* an operator corrects it.
LEMMA InKept ==
  ASSUME Good, Next, NEW p \in People, NEW d \in Days,
         rows[p][d].in # Never, rows'[p][d].in # rows[p][d].in
  PROVE  corrections' # corrections
<1> SUFFICES ASSUME corrections' = corrections PROVE FALSE
  OBVIOUS
<1>1. rows \in [People -> [Days -> Row]] /\ rows[p][d] \in Row /\ rows' # rows
      /\ clock \in Times /\ Today \in Days
  BY Now DEF Good, RowsGood
<1>2. \A r : \A q \in People, e \in Days : Write(q, e, r) => p = q /\ d = e /\ rows'[p][d] = r
  BY <1>1, WriteReads
<1>3. ASSUME NEW q \in People, NEW e \in Days, NEW now, ClockIn(q, e, now) \/ ClockOut(q, e, now)
      PROVE  FALSE
  <2>1. CASE ClockIn(q, e, now)
    BY <1>1, <1>2, <2>1 DEF ClockIn
  <2>2. CASE ClockOut(q, e, now)
    BY <1>1, <1>2, <2>2 DEF ClockOut, Row
  <2> QED BY <1>3, <2>1, <2>2
<1>4. ASSUME NEW q \in People, NEW e, NEW in, NEW out, Correct(q, e, in, out) PROVE FALSE
  BY <1>4 DEF Correct, Good, RestGood
<1>5. ASSUME NEW t \in Threads, Rollover(t) PROVE FALSE
  <2>1. PICK closes : rows' = Reconciled(closes)
    BY <1>5 DEF Rollover
  <2>2. Reconciled(closes)[p][d].in = rows[p][d].in
    BY <1>1 DEF Reconciled, Row
  <2> QED BY <2>1, <2>2
<1>6. ASSUME NEW t \in Threads, Insert(t) PROVE FALSE
  <2>1. local[t].who \in People /\ local[t].day \in Days
    BY <1>6, Here DEF Insert, DecidedInTime, Local
  <2>2. rows'[p][d] = Inserted(rows[p][d], local[t].at)
    BY <1>1, <1>2, <1>6, <2>1 DEF Insert
  <2> QED BY <2>2 DEF Inserted
<1>7. ASSUME NEW t \in Threads, Update(t) PROVE FALSE
  <2>1. local[t].who \in People /\ local[t].day \in Days
    BY <1>7, Here DEF Update, DecidedInTime, Local
  <2>2. rows'[p][d] = ClosedAt(rows[p][d], local[t].at)
    BY <1>1, <1>2, <1>7, <2>1 DEF Update
  <2> QED BY <1>1, <2>2 DEF ClosedAt, Row
<1>8. ~BackendStep
  BY <1>3, <1>4, RecentlyPast DEF BackendStep
<1> QED BY <1>5, <1>6, <1>7, <1>8, ChangesInterval

\* A second clock-in never moves the first one.
THEOREM FirstClockInKeptHolds == Spec => FirstClockInKept
<1>1. IInv /\ [Next]_vars =>
        [\A p \in People, d \in Days :
           (rows[p][d].in # Never /\ rows'[p][d].in # rows[p][d].in)
             => corrections' # corrections]_vars
  BY InKept, GoodIsIInv DEF vars
<1> QED BY <1>1, Invariance, PTL DEF Spec, FirstClockInKept

\* The clock-out of a row that has one is changed by the backend only.
LEMMA OutKept ==
  ASSUME Good, Next, NEW p \in People, NEW d \in Days,
         rows[p][d].out # Never, rows'[p][d].out # rows[p][d].out
  PROVE  UNCHANGED <<local, engine, cache>>
<1>1. rows \in [People -> [Days -> Row]] /\ rows[p][d] \in Row /\ rows' # rows
  BY DEF Good, RowsGood
<1>2. \A r : \A q \in People, e \in Days : Write(q, e, r) => p = q /\ d = e /\ rows'[p][d] = r
  BY <1>1, WriteReads
<1>3. CASE BackendStep
  BY <1>3 DEF BackendStep, ClockIn, ClockOut, Correct
<1>4. ASSUME NEW t \in Threads, Rollover(t) PROVE FALSE
  <2>1. PICK closes : rows' = Reconciled(closes)
    BY <1>4 DEF Rollover
  <2>2. Reconciled(closes)[p][d] = rows[p][d]
    BY <1>1 DEF Reconciled
  <2> QED BY <2>1, <2>2
<1>5. ASSUME NEW t \in Threads, Insert(t) PROVE FALSE
  <2>1. local[t].who \in People /\ local[t].day \in Days
    BY <1>5, Here DEF Insert, DecidedInTime, Local
  <2>2. rows'[p][d] = Inserted(rows[p][d], local[t].at)
    BY <1>1, <1>2, <1>5, <2>1 DEF Insert
  <2> QED BY <2>2 DEF Inserted
<1>6. ASSUME NEW t \in Threads, Update(t) PROVE FALSE
  <2>1. local[t].who \in People /\ local[t].day \in Days
    BY <1>6, Here DEF Update, DecidedInTime, Local
  <2>2. p = local[t].who /\ d = local[t].day
    BY <1>1, <1>2, <1>6, <2>1 DEF Update
  <2> QED BY <1>6, <2>2 DEF Update
<1> QED BY <1>3, <1>4, <1>5, <1>6, ChangesInterval

\* No thread of the engine changes a recorded clock-out.
THEOREM ClosedStaysClosedHolds == Spec => ClosedStaysClosed
<1>1. IInv /\ [Next]_vars =>
        [\A p \in People, d \in Days :
           (rows[p][d].out # Never /\ rows'[p][d].out # rows[p][d].out)
             => UNCHANGED <<local, engine, cache>>]_vars
  BY OutKept, GoodIsIInv DEF vars
<1> QED BY <1>1, Invariance, PTL DEF Spec, ClosedStaysClosed
-----------------------------------------------------------------------------
\* A clock-out that appears was asked for, or is backed by the history: what
\* the rollover and the writing threads have decided is.
LEMMA OutBacked ==
  ASSUME Good, Recorded, Next, NEW p \in People, NEW d \in Days,
         rows'[p][d].out \notin {rows[p][d].out, Never}
  PROVE  ByHand \/ Backed(p, d, rows'[p][d].out)
<1>1. rows \in [People -> [Days -> Row]] /\ rows[p][d] \in Row /\ rows' # rows
      /\ d <= d
  BY Calendar DEF Good, RowsGood
<1>2. \A r : \A q \in People, e \in Days : Write(q, e, r) => p = q /\ d = e /\ rows'[p][d] = r
  BY <1>1, WriteReads
<1>3. CASE BackendStep
  BY <1>3 DEF BackendStep, ClockIn, ClockOut, Correct, ByHand
<1>4. ASSUME NEW t \in Threads, Rollover(t)
      PROVE  Backed(p, d, rows'[p][d].out)
  <2>1. PICK closes \in SUBSET local[t].todo : rows' = Reconciled(closes)
    BY <1>4 DEF Rollover
  <2>2. rows[p][d].out = Never /\ \E c \in closes : c.who = p /\ c.day = d
    BY <1>1, <2>1 DEF Reconciled
  <2>3. PICK c : c = CHOOSE k \in closes : k.who = p /\ k.day = d
    OBVIOUS
  <2>4. c \in closes /\ c.who = p /\ c.day = d
    BY <2>2, <2>3
  <2>5. rows'[p][d].out = c.out
    BY <1>1, <2>1, <2>2, <2>3 DEF Reconciled, Row
  <2>6. NotAfter(c.out, witnessed[c.who][c.day])
    BY <2>4 DEF Recorded, LocalBacked
  <2> QED BY <1>1, <2>4, <2>5, <2>6 DEF Backed
<1>5. ASSUME NEW t \in Threads, Update(t)
      PROVE  ByHand \/ Backed(p, d, rows'[p][d].out)
  <2> DEFINE l == local[t]
  <2>1. l.who \in People /\ l.day \in Days /\ l.pc = "update" /\ l \in Local
    BY <1>5, Here DEF Update, DecidedInTime, Local
  <2>2. p = l.who /\ d = l.day /\ rows'[p][d] = ClosedAt(rows[p][d], l.at)
    BY <1>1, <1>2, <1>5, <2>1 DEF Update
  <2>3. rows'[p][d].out = l.at
    BY <1>1, <2>2 DEF ClosedAt, Row
  <2>4. CASE l.op # "manualOut"
    BY <2>1, <2>2, <2>3, <2>4 DEF Recorded, LocalBacked, Backed, BackedBy
  <2>5. CASE l.op = "manualOut"
    <3>1. PICK m : m = [l EXCEPT !.pc = "forget", !.who = Never, !.day = 0, !.at = 0,
                                 !.done = @ \cup {l.who}]
      OBVIOUS
    <3>2. Become(t, m) /\ m.pc = "forget"
      BY <1>5, <2>1, <2>5, <3>1 DEF Update, Resume, Local
    <3>3. local'[t] = m
      BY <3>2 DEF Become, Good, LocalsGood
    <3>4. local'[t] # local[t]
      BY <2>1, <3>2, <3>3
    <3> QED BY <2>1, <2>5, <3>4 DEF ByHand, At
  <2> QED BY <2>4, <2>5
<1>6. ASSUME NEW t \in Threads, Insert(t) PROVE FALSE
  <2>1. local[t].who \in People /\ local[t].day \in Days
    BY <1>6, Here DEF Insert, DecidedInTime, Local
  <2>2. rows'[p][d] = Inserted(rows[p][d], local[t].at)
    BY <1>1, <1>2, <1>6, <2>1 DEF Insert
  <2> QED BY <2>2 DEF Inserted
<1> QED BY <1>3, <1>4, <1>5, <1>6, ChangesInterval

\* The sweep, the rollover and the shutdown claim no presence that was not
\* recorded, whoever writes between their reading and their writing.
THEOREM NotStretchedHolds == Spec => NotStretched
<1>1. IInv /\ [Next]_vars =>
        [\A p \in People, d \in Days :
           rows'[p][d].out \notin {rows[p][d].out, Never} =>
             ByHand \/ Backed(p, d, rows'[p][d].out)]_vars
  BY OutBacked, GoodIsIInv DEF vars
<1> QED BY <1>1, Invariance, PTL DEF Spec, NotStretched
=============================================================================
