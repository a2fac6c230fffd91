--------------------------- MODULE CenterModeProofs ---------------------------
(***************************************************************************)
(* IInv of CenterMode is inductive, and the properties follow from it.     *)
(* The lemmas on a challenge come first: an update keeps it sound, and     *)
(* takes it no further than the poses that were shown.                     *)
(***************************************************************************)
EXTENDS CenterMode, TLAPS

Sequence == <<"center", "left", "right", "center">>

\* The poses shown so far, after one more.
Shown(n, pose) == IF n < 4 /\ pose = Sequence[n + 1] THEN n + 1 ELSE n

LEMMA NewStateSound ==
  ASSUME NEW r \in Nat, r < MaxAttempts
  PROVE  /\ NewState(r) \in Challenges
         /\ Sound(NewState(r))
         /\ Behind(NewState(r)) = 0
         /\ NewState(r).phase = "CENTER" /\ NewState(r).passed = FALSE
BY AttemptsAssumption DEF NewState, Challenges, Phases, Sound, Behind

LEMMA ExpiredSound ==
  ASSUME NEW s \in Challenges, Sound(s), s.phase # "FAILED"
  PROVE  /\ Expired(s) \in Challenges
         /\ Sound(Expired(s))
         /\ Behind(Expired(s)) <= Behind(s)
         /\ Expired(s).phase # "FAILED" => ~Expired(s).passed
<1>1. s.retries \in Nat /\ s.retries < MaxAttempts /\ s.phase \in Phases
  BY AttemptsAssumption DEF Challenges, Sound
<1>2. CASE s.retries + 1 >= MaxAttempts
  <2>1. Expired(s) = [s EXCEPT !.phase = "FAILED", !.retries = @ + 1]
    BY <1>2 DEF Expired
  <2>2. PICK f : f = [s EXCEPT !.phase = "FAILED", !.retries = @ + 1]
    OBVIOUS
  <2>3. s.retries + 1 \in 0 .. MaxAttempts
    BY <1>1, AttemptsAssumption
  <2>4. f \in Challenges /\ f.phase = "FAILED" /\ f.passed = s.passed
    BY <2>2, <2>3 DEF Challenges, Phases
  <2>5. Behind(f) <= Behind(s)
    BY <1>1, <2>4 DEF Behind, Sound, Phases, Challenges
  <2> QED BY <2>1, <2>2, <2>4, <2>5 DEF Sound
<1>3. CASE ~(s.retries + 1 >= MaxAttempts)
  <2>1. s.retries + 1 \in Nat /\ s.retries + 1 < MaxAttempts
    BY <1>1, <1>3, AttemptsAssumption
  <2>2. Expired(s) = NewState(s.retries + 1)
    BY <1>3 DEF Expired
  <2>3. 0 <= Behind(s)
    BY <1>1 DEF Behind, Phases, Challenges
  <2> QED BY <2>1, <2>2, <2>3, NewStateSound
<1> QED BY <1>2, <1>3

LEMMA PosedSound ==
  ASSUME NEW s \in Challenges, Sound(s), NEW pose, NEW long \in BOOLEAN,
         s.phase \notin {"PASSED", "FAILED"}, NEW n \in 0 .. 4, Behind(s) <= n
  PROVE  /\ Posed(s, pose, long) \in Challenges
         /\ Sound(Posed(s, pose, long))
         /\ Behind(Posed(s, pose, long)) <= Shown(n, pose)
         /\ Shown(n, pose) \in n .. 4
<1> DEFINE k == [CENTER |-> 0, TURN_LEFT |-> 1, TURN_RIGHT |-> 2, RETURN |-> 3][s.phase]
<1>1. s.phase \in {"CENTER", "TURN_LEFT", "TURN_RIGHT", "RETURN"}
  BY DEF Challenges, Phases
<1>2. /\ k \in 0 .. 3
      /\ Asked[s.phase] = Sequence[k + 1]
      /\ Behind(s) = k + (IF s.holding THEN 1 ELSE 0)
      /\ Following[s.phase] \in Phases \ {"FAILED"}
  BY <1>1 DEF Asked, Following, Sequence, Behind, Phases
<1>3. Shown(n, pose) \in n .. 4 /\ (pose = Sequence[n + 1] /\ n < 4 => Shown(n, pose) = n + 1)
  BY DEF Shown
<1> HIDE DEF k
<1>4. CASE pose # Asked[s.phase]
  <2>1. PICK t : t = [s EXCEPT !.holding = FALSE]
    OBVIOUS
  <2>2. t = Posed(s, pose, long)
    BY <1>4, <2>1 DEF Posed
  <2>3. t \in Challenges /\ t.phase = s.phase /\ t.holding = FALSE /\ t.passed = s.passed
        /\ t.retries = s.retries
    BY <2>1 DEF Challenges
  <2>4. Sound(t) /\ Behind(t) = k
    BY <1>1, <2>3 DEF Sound, Behind, Challenges, k
  <2> QED BY <1>2, <1>3, <2>2, <2>3, <2>4
<1>5. CASE pose = Asked[s.phase] /\ ~(s.holding /\ long)
  <2>1. PICK t : t = [s EXCEPT !.holding = TRUE]
    OBVIOUS
  <2>2. t = Posed(s, pose, long)
    BY <1>5, <2>1 DEF Posed
  <2>3. t \in Challenges /\ t.phase = s.phase /\ t.holding = TRUE /\ t.passed = s.passed
        /\ t.retries = s.retries
    BY <2>1 DEF Challenges
  <2>4. Sound(t) /\ Behind(t) = k + 1
    BY <1>1, <2>3 DEF Sound, Behind, Challenges, k
  <2>5. k + 1 <= Shown(n, pose)
    <3>1. CASE n = k
      BY <1>2, <1>3, <1>5, <3>1
    <3>2. CASE n # k
      BY <1>2, <1>3, <3>2
    <3> QED BY <3>1, <3>2
  <2> QED BY <1>3, <2>2, <2>3, <2>4, <2>5
<1>6. CASE pose = Asked[s.phase] /\ s.holding /\ long
  <2>1. PICK t : t = [s EXCEPT !.phase = Following[@], !.holding = FALSE,
                               !.passed = Following[s.phase] = "PASSED"]
    OBVIOUS
  <2>2. t = Posed(s, pose, long)
    BY <1>6, <2>1 DEF Posed
  <2>3. t \in Challenges /\ t.phase = Following[s.phase] /\ t.holding = FALSE
        /\ t.passed = (Following[s.phase] = "PASSED") /\ t.retries = s.retries
    BY <1>2, <2>1 DEF Challenges
  <2>4. Sound(t) /\ Behind(t) = k + 1
    BY <1>1, <2>3 DEF Sound, Behind, Challenges, Following, k
  <2>5. k + 1 <= n
    BY <1>2, <1>6
  <2> QED BY <1>2, <1>3, <2>2, <2>3, <2>4, <2>5
<1> QED BY <1>4, <1>5, <1>6

\* An update keeps a challenge sound and within the poses that were shown, and
\* a challenge that has passed and not failed has all four behind it.
LEMMA UpdatedSound ==
  ASSUME NEW s \in Challenges, Sound(s), NEW pose, NEW late \in BOOLEAN,
         NEW long \in BOOLEAN, NEW n \in 0 .. 4, Behind(s) <= n
  PROVE  /\ Updated(s, pose, late, long) \in Challenges
         /\ Sound(Updated(s, pose, late, long))
         /\ Behind(Updated(s, pose, late, long)) <= Shown(n, pose)
         /\ Shown(n, pose) \in 0 .. 4
<1>1. Shown(n, pose) \in n .. 4
  BY DEF Shown
<1>2. Behind(s) \in Nat
  BY DEF Behind, Challenges, Phases
<1>3. CASE TimesOut(s, late)
  <2>1. Updated(s, pose, late, long) = Expired(s) /\ s.phase # "FAILED"
    BY <1>3 DEF Updated, TimesOut
  <2>2. Expired(s) \in Challenges /\ Sound(Expired(s)) /\ Behind(Expired(s)) <= Behind(s)
    BY <2>1, ExpiredSound
  <2>3. Behind(Expired(s)) \in Nat
    BY <2>2 DEF Behind, Challenges, Phases
  <2> QED BY <1>1, <1>2, <2>1, <2>2, <2>3
<1>4. CASE ~TimesOut(s, late) /\ (s.phase \in {"PASSED", "FAILED"} \/ pose = "unknown")
  BY <1>1, <1>2, <1>4 DEF Updated
<1>5. CASE ~TimesOut(s, late) /\ ~(s.phase \in {"PASSED", "FAILED"} \/ pose = "unknown")
  BY <1>1, <1>5, PosedSound DEF Updated
<1> QED BY <1>3, <1>4, <1>5

LEMMA PassedIsFour ==
  ASSUME NEW s \in Challenges, Sound(s), s.passed
  PROVE  Behind(s) = 4
BY DEF Sound, Behind, Challenges

-----------------------------------------------------------------------------
(* Rows *)

RowRecords == [of: Entities, state: {"IN_PROGRESS", "PASSED", "FAILED", "TIMED_OUT"}]

\* One row gets another state.
LEMMA MarkedRow ==
  ASSUME NEW record \in RowRecords,
         NEW x \in {"IN_PROGRESS", "PASSED", "FAILED", "TIMED_OUT"}
  PROVE  /\ [record EXCEPT !.state = x] \in RowRecords
         /\ [record EXCEPT !.state = x] = [of |-> record.of, state |-> x]
BY DEF RowRecords

\* abandon_liveness_challenge: no row but the one that is held changes, and
\* that one is not in progress any more.
LEMMA GivenUpRows ==
  ASSUME TypeOK
  PROVE  /\ GivenUp(center.row) \in Seq(RowRecords)
         /\ Len(GivenUp(center.row)) = Len(rows)
         /\ \A r \in 1 .. Len(rows) : r # center.row => GivenUp(center.row)[r] = rows[r]
         /\ center.row # Nil => GivenUp(center.row)[center.row].state = "FAILED"
<1>1. rows \in Seq(RowRecords) /\ center.row \in (1 .. Len(rows)) \cup {Nil}
  BY DEF TypeOK, RowRecords
<1>2. CASE center.row = Nil
  BY <1>1, <1>2 DEF GivenUp
<1>3. CASE center.row # Nil
  <2> DEFINE f == [rows[center.row] EXCEPT !.state = "FAILED"]
  <2>1. center.row \in 1 .. Len(rows)
    BY <1>1, <1>3
  <2>2. rows[center.row] \in RowRecords
    BY <1>1, <2>1
  <2>3. f \in RowRecords /\ f = [of |-> rows[center.row].of, state |-> "FAILED"]
    BY <2>2, MarkedRow
  <2>4. GivenUp(center.row) = [rows EXCEPT ![center.row] = f]
    BY <1>3 DEF GivenUp
  <2> HIDE DEF f
  <2> QED BY <1>1, <2>1, <2>3, <2>4
<1> QED BY <1>2, <1>3

\* A step keeps the rows that are finished.
FinishedKept ==
  \A r \in DOMAIN rows : rows[r].state \in {"FAILED", "TIMED_OUT"} => rows'[r] = rows[r]

-----------------------------------------------------------------------------
(* One lemma per action *)

\* What the step has to establish.
Kept == IInv' /\ FinishedKept

\* The names of Advance: the table with the rows given up, the table with the row
\* that is written to, and that row.
Before == IF Interrupted THEN GivenUp(center.row) ELSE rows
Opened ==
  IF Interrupted \/ center.row = Nil
  THEN Append(Before, [of |-> result.entity, state |-> "IN_PROGRESS"])
  ELSE Before
Row == IF Interrupted \/ center.row = Nil THEN Len(Opened) ELSE center.row

\* Before the update: the row is the entity's, what is finished is not written
\* to, and what else is in progress was left.
LEMMA OpenedRows ==
  ASSUME IInv, result \in Faces
  PROVE  /\ Opened \in Seq(RowRecords) /\ Len(rows) <= Len(Opened)
         /\ Row \in 1 .. Len(Opened)
         /\ Opened[Row].of = result.entity
         /\ \A r \in 1 .. Len(rows) :
                rows[r].state \in {"FAILED", "TIMED_OUT"} => Opened[r] = rows[r] /\ r # Row
         /\ \A r \in (1 .. Len(Opened)) \ {Row} :
                Opened[r].state = "IN_PROGRESS" => r \in left
<1> DEFINE before == Before
<1> DEFINE opened == Opened
<1> DEFINE row == Row
<1>0. /\ before = (IF Interrupted THEN GivenUp(center.row) ELSE rows)
      /\ opened = (IF Interrupted \/ center.row = Nil
                   THEN Append(before, [of |-> result.entity, state |-> "IN_PROGRESS"])
                   ELSE before)
      /\ row = (IF Interrupted \/ center.row = Nil THEN Len(opened) ELSE center.row)
  BY DEF Before, Opened, Row
<1> SUFFICES
         /\ opened \in Seq(RowRecords) /\ Len(rows) <= Len(opened)
         /\ row \in 1 .. Len(opened)
         /\ opened[row].of = result.entity
         /\ \A r \in 1 .. Len(rows) :
                rows[r].state \in {"FAILED", "TIMED_OUT"} => opened[r] = rows[r] /\ r # row
         /\ \A r \in (1 .. Len(opened)) \ {row} :
                opened[r].state = "IN_PROGRESS" => r \in left
  OBVIOUS
<1> HIDE DEF before, opened, row
<1>1. /\ rows \in Seq(RowRecords) /\ center.row \in (1 .. Len(rows)) \cup {Nil}
      /\ result.entity \in Entities /\ result.name \in Names
  BY DEF IInv, TypeOK, RowRecords, Faces
<1>2. /\ before \in Seq(RowRecords) /\ Len(before) = Len(rows)
      /\ \A r \in 1 .. Len(rows) : r # center.row => before[r] = rows[r]
      /\ Interrupted /\ center.row # Nil => before[center.row].state = "FAILED"
      /\ ~Interrupted => before = rows
  BY <1>0, <1>1, GivenUpRows DEF IInv
<1>3. center.row # Nil => rows[center.row].state \in {"IN_PROGRESS", "PASSED"}
  BY DEF IInv, HeldIsUnfinished
<1>4. \A r \in 1 .. Len(rows) :
         rows[r].state = "IN_PROGRESS" => r = center.row \/ r \in left
  BY <1>1 DEF IInv, NothingOpenBehind
<1>5. CASE Interrupted \/ center.row = Nil
  <2>1. [of |-> result.entity, state |-> "IN_PROGRESS"] \in RowRecords
    BY <1>1 DEF RowRecords
  <2>2. /\ opened \in Seq(RowRecords) /\ Len(opened) = Len(rows) + 1
        /\ row = Len(rows) + 1
        /\ opened[row] = [of |-> result.entity, state |-> "IN_PROGRESS"]
        /\ \A r \in 1 .. Len(rows) : opened[r] = before[r]
    BY <1>0, <1>1, <1>2, <1>5, <2>1
  <2>3. Len(rows) \in Nat /\ \A r \in 1 .. Len(rows) : r # row
    BY <1>1, <2>2
  <2>4. ASSUME NEW r \in 1 .. Len(rows), rows[r].state \in {"FAILED", "TIMED_OUT"}
        PROVE  opened[r] = rows[r] /\ r # row
    <3>1. r # center.row
      BY <1>1, <1>3, <2>3, <2>4, CenterAssumption
    <3> QED BY <1>2, <2>2, <2>3, <3>1
  <2>5. ASSUME NEW r \in (1 .. Len(opened)) \ {row}, opened[r].state = "IN_PROGRESS"
        PROVE  r \in left
    <3>1. r \in 1 .. Len(rows) /\ before[r].state = "IN_PROGRESS"
      BY <2>2, <2>3, <2>5
    <3>2. r # center.row
      BY <1>1, <1>2, <1>5, <2>3, <3>1, CenterAssumption
    <3> QED BY <1>2, <1>4, <3>1, <3>2
  <2> QED BY <2>2, <2>3, <2>4, <2>5
<1>6. CASE ~(Interrupted \/ center.row = Nil)
  <2>1. /\ ~Interrupted /\ center.row \in 1 .. Len(rows) /\ row = center.row
        /\ opened = rows
    BY <1>0, <1>1, <1>2, <1>6
  <2>2. rows[row].of = result.entity
    <3>1. rows[center.row].of = center.key[1] /\ center.key = EntityKey
      BY <1>1, <1>6, <2>1 DEF IInv, HeldIsUnfinished, Interrupted
    <3> QED BY <2>1, <3>1 DEF EntityKey
  <2>3. \A r \in 1 .. Len(rows) :
           rows[r].state \in {"FAILED", "TIMED_OUT"} => r # row
    BY <1>3, <2>1, CenterAssumption
  <2>4. \A r \in (1 .. Len(rows)) \ {row} : rows[r].state = "IN_PROGRESS" => r \in left
    BY <1>4, <2>1
  <2> QED BY <1>1, <2>1, <2>2, <2>3, <2>4
<1> QED BY <1>5, <1>6

\* Before the update: what is known of challenges is of the face in the result.
LEMMA KnownIsShown ==
  ASSUME IInv, result \in Faces,
         NEW known, known = (IF Interrupted THEN NoChallenges ELSE states),
         NEW n, n = (IF shown.by = result THEN shown.poses ELSE 0)
  PROVE  /\ known \in [Entities -> Challenges \cup {Nil}]
         /\ n \in 0 .. 4
         /\ \A e \in Entities : known[e] # Nil =>
                e = result.entity /\ Sound(known[e]) /\ Behind(known[e]) <= n
<1>1. /\ result.entity \in Entities /\ result.name \in Names
      /\ states \in [Entities -> Challenges \cup {Nil}]
      /\ shown.poses \in 0 .. 4
  BY DEF IInv, TypeOK, Faces
<1>2. CASE Interrupted
  BY <1>1, <1>2 DEF NoChallenges
<1>3. CASE ~Interrupted
  <2>1. center.candidate = result.name /\ center.key = <<result.entity, live.entity>>
    BY <1>3 DEF Interrupted, EntityKey
  <2>2. center.candidate # Nil /\ center.key[1] = result.entity
    BY <1>1, <2>1, CenterAssumption
  <2>3. ASSUME NEW e \in Entities, states[e] # Nil
        PROVE  e = result.entity /\ Sound(states[e]) /\ Behind(states[e]) <= n
    <3>1. /\ shown.by \in Faces /\ shown.by.entity = e
          /\ Sound(states[e]) /\ Behind(states[e]) <= shown.poses
          /\ center.candidate = shown.by.name /\ center.key[1] = e
      BY <2>2, <2>3 DEF IInv, ChallengeIsShown
    <3>2. shown.by = result
      <4>1. /\ shown.by = [entity |-> shown.by.entity, name |-> shown.by.name]
            /\ result = [entity |-> result.entity, name |-> result.name]
        BY <3>1 DEF Faces
      <4> QED BY <2>1, <2>2, <3>1, <4>1
    <3> QED BY <2>2, <3>1, <3>2
  <2> QED BY <1>1, <1>3, <2>3
<1> QED BY <1>2, <1>3

\* An update of the challenge, with its row.
LEMMA AdvanceKeeps ==
  ASSUME IInv, NEW pose \in Poses, NEW late \in BOOLEAN, NEW long \in BOOLEAN,
         NEW stayed \in BOOLEAN, Advance(pose, late, long, stayed)
  PROVE  Kept /\ center'.completed = Nil
<1> DEFINE
      before  == IF Interrupted THEN GivenUp(center.row) ELSE rows
      opens   == Interrupted \/ center.row = Nil
      opened  == IF opens
                 THEN Append(before, [of |-> result.entity, state |-> "IN_PROGRESS"])
                 ELSE before
      row     == IF opens THEN Len(opened) ELSE center.row
      known   == IF Interrupted THEN NoChallenges ELSE states
      state   == IF known[result.entity] # Nil THEN known[result.entity] ELSE NewState(0)
      expired == TimesOut(state, late)
      next    == Updated(state, pose, late, long)
      dwelt   == ~Interrupted /\ (center.dwelt \/ stayed)
      mark    == IF expired THEN "TIMED_OUT"
                 ELSE IF next.passed THEN "PASSED" ELSE "IN_PROGRESS"
      marked  == [opened[row] EXCEPT !.state = mark]
      n       == IF shown.by = result THEN shown.poses ELSE 0
<1>1. /\ center.enabled /\ deciding = Nil /\ result \in Faces
      /\ states' = [known EXCEPT ![result.entity] = next]
      /\ rows' = [opened EXCEPT ![row] = marked]
      /\ center' = [center EXCEPT !.candidate = result.name, !.key = EntityKey,
                                  !.row = RowAfter(row, expired),
                                  !.dwelt = dwelt, !.completed = Nil]
      /\ deciding' = (IF next.passed /\ dwelt THEN result ELSE Nil)
      /\ shown' = Showing(pose) /\ result' = Nil /\ live' = live /\ left' = left
  BY DEF Advance
<1>2. dwelt \in BOOLEAN
  <2>1. center.dwelt \in BOOLEAN
    BY DEF IInv, TypeOK
  <2> QED BY <2>1
<1>3. /\ opened \in Seq(RowRecords) /\ Len(rows) <= Len(opened)
      /\ row \in 1 .. Len(opened)
      /\ opened[row].of = result.entity
      /\ \A r \in 1 .. Len(rows) :
             rows[r].state \in {"FAILED", "TIMED_OUT"} => opened[r] = rows[r] /\ r # row
      /\ \A r \in (1 .. Len(opened)) \ {row} :
             opened[r].state = "IN_PROGRESS" => r \in left
  <2>1. opened = Opened /\ row = Row
    BY DEF Before, Opened, Row
  <2> HIDE DEF row, opened, opens, before
  <2> QED BY <1>1, <2>1, OpenedRows
<1>4. /\ known \in [Entities -> Challenges \cup {Nil}]
      /\ n \in 0 .. 4
      /\ \A e \in Entities : known[e] # Nil =>
             e = result.entity /\ Sound(known[e]) /\ Behind(known[e]) <= n
  BY <1>1, KnownIsShown
<1>5. result.entity \in Entities /\ result.name \in Names /\ live.entity \in Entities
  BY <1>1 DEF IInv, TypeOK, Faces
<1> HIDE DEF before, opens, opened, row, known, n, dwelt
<1>6. state \in Challenges /\ Sound(state) /\ Behind(state) <= n
  <2>1. 0 < MaxAttempts /\ 0 \in Nat
    BY AttemptsAssumption
  <2>2. NewState(0) \in Challenges /\ Sound(NewState(0)) /\ Behind(NewState(0)) = 0
    BY <2>1, NewStateSound
  <2> QED BY <1>4, <1>5, <2>2
<1> HIDE DEF state
<1>7. /\ next \in Challenges /\ Sound(next)
      /\ Behind(next) <= Shown(n, pose) /\ Shown(n, pose) \in 0 .. 4
  BY <1>4, <1>6, UpdatedSound
<1>8. expired /\ next.passed => next.phase = "FAILED"
  <2>1. expired => state.phase # "FAILED" /\ next = Expired(state)
    BY DEF TimesOut, Updated
  <2> QED BY <1>6, <2>1, ExpiredSound
<1>9. next.passed => Shown(n, pose) = 4
  <2>1. next.passed => Behind(next) = 4
    BY <1>7, PassedIsFour
  <2> QED BY <1>7, <2>1
<1>10. shown' = [by |-> result, poses |-> Shown(n, pose)]
  BY <1>1 DEF Showing, Shown, n, Sequence
<1> HIDE DEF next, expired
<1>11. mark \in {"IN_PROGRESS", "PASSED", "FAILED", "TIMED_OUT"}
  OBVIOUS
<1>12. /\ marked \in RowRecords
       /\ marked = [of |-> result.entity, state |-> mark]
  <2>1. opened[row] \in RowRecords
    BY <1>3
  <2> HIDE DEF mark
  <2> QED BY <1>3, <1>11, <2>1, MarkedRow
<1>13. mark # "TIMED_OUT" <=> ~expired
  OBVIOUS
<1>14. ~expired /\ next.passed => mark = "PASSED"
  OBVIOUS
<1>15. mark # "FAILED"
  OBVIOUS
<1> HIDE DEF mark, marked
<1>16. /\ rows' \in Seq(RowRecords) /\ Len(rows') = Len(opened)
       /\ rows'[row] = [of |-> result.entity, state |-> mark]
       /\ \A r \in (1 .. Len(opened)) \ {row} : rows'[r] = opened[r]
  BY <1>1, <1>3, <1>12
<1>17. /\ center'.enabled = center.enabled /\ center'.candidate = result.name
       /\ center'.key = EntityKey /\ center'.row = RowAfter(row, expired)
       /\ center'.dwelt = dwelt /\ center'.completed = Nil
       /\ center'.row \in (1 .. Len(rows')) \cup {Nil}
  <2>1. center'.row = RowAfter(row, expired) /\ center'.enabled = center.enabled
        /\ center'.candidate = result.name /\ center'.key = EntityKey
        /\ center'.dwelt = dwelt /\ center'.completed = Nil
    BY <1>1 DEF IInv, TypeOK
  <2>2. RowAfter(row, expired) \in (1 .. Len(rows')) \cup {Nil}
    BY <1>3, <1>16 DEF RowAfter
  <2> QED BY <2>1, <2>2
<1>18. TypeOK'
  <2>1. center' \in [enabled: BOOLEAN, candidate: Names \cup {Nil},
                     key: (Entities \X Entities) \cup {Nil},
                     row: (1 .. Len(rows')) \cup {Nil},
                     dwelt: BOOLEAN, completed: Names \cup {Nil}]
    <3>1. EntityKey \in Entities \X Entities
      BY <1>5 DEF EntityKey
    <3>2. center' = [enabled |-> center.enabled, candidate |-> result.name,
                     key |-> EntityKey, row |-> center'.row, dwelt |-> dwelt,
                     completed |-> Nil]
      BY <1>1, <1>17 DEF IInv, TypeOK
    <3>3. center.enabled \in BOOLEAN
      BY DEF IInv, TypeOK
    <3> QED BY <1>2, <1>5, <1>17, <3>1, <3>2, <3>3
  <2>2. states' \in [Entities -> Challenges \cup {Nil}]
    BY <1>1, <1>4, <1>5, <1>7
  <2>3. deciding' \in Faces \cup {Nil}
    BY <1>1
  <2>4. shown' \in [by: Faces \cup {Nil}, poses: 0 .. 4]
    BY <1>1, <1>7, <1>10
  <2>5. left' \subseteq 1 .. Len(rows')
    <3>1. left \subseteq 1 .. Len(rows) /\ Len(rows) \in Nat /\ Len(rows') \in Nat
      BY <1>16 DEF IInv, TypeOK
    <3> QED BY <1>1, <1>3, <1>16, <3>1
  <2>6. live' \in [entity: Entities, name: Names \cup {Nil}, eligible: BOOLEAN]
        /\ result' \in Faces \cup {Nil, Blocked}
    BY <1>1 DEF IInv, TypeOK
  <2> QED BY <1>16, <2>1, <2>2, <2>3, <2>4, <2>5, <2>6 DEF TypeOK, RowRecords
<1>19. ChallengeIsShown'
  <2>1. ASSUME NEW e \in Entities, states'[e] # Nil
        PROVE  /\ shown'.by \in Faces /\ shown'.by.entity = e
               /\ Sound(states'[e]) /\ Behind(states'[e]) <= shown'.poses
               /\ center'.candidate # Nil =>
                      center'.candidate = shown'.by.name /\ center'.key[1] = e
    <3>1. e = result.entity
      <4>1. e # result.entity => states'[e] = known[e]
        BY <1>1, <1>4
      <4> QED BY <1>4, <2>1, <4>1
    <3>2. states'[e] = next
      BY <1>1, <1>4, <1>5, <3>1
    <3>3. shown'.by = result /\ shown'.poses = Shown(n, pose)
      BY <1>10
    <3>4. center'.key[1] = result.entity
      BY <1>17 DEF EntityKey
    <3> QED BY <1>1, <1>7, <1>17, <3>1, <3>2, <3>3, <3>4
  <2> QED BY <2>1 DEF ChallengeIsShown, Sound, Behind
<1>20. HeldIsUnfinished'
  <2>1. SUFFICES ASSUME center'.row # Nil
                 PROVE  /\ rows'[center'.row].of = center'.key[1]
                        /\ rows'[center'.row].state \in {"IN_PROGRESS", "PASSED"}
    BY DEF HeldIsUnfinished
  <2>2. center'.row = row /\ ~expired
    BY <1>17, <2>1 DEF RowAfter
  <2>3. center'.key[1] = result.entity
    BY <1>17 DEF EntityKey
  <2>4. rows'[row].of = result.entity /\ rows'[row].state = mark
    BY <1>16
  <2> QED BY <1>11, <1>13, <1>15, <2>2, <2>3, <2>4
<1>21. DecidingEarned'
  <2>1. SUFFICES ASSUME deciding' # Nil
                 PROVE  /\ shown'.by = deciding' /\ shown'.poses = 4
                        /\ states'[deciding'.entity].phase # "FAILED" =>
                               rows'[center'.row] =
                                   [of |-> deciding'.entity, state |-> "PASSED"]
    BY DEF DecidingEarned
  <2>2. deciding' = result /\ next.passed
    BY <1>1, <2>1
  <2>3. states'[result.entity] = next
    BY <1>1, <1>4, <1>5
  <2>4. next.phase # "FAILED" => ~expired
    BY <1>8, <2>2
  <2>5. ~expired => center'.row = row
    BY <1>17 DEF RowAfter
  <2> QED BY <1>9, <1>10, <1>14, <1>16, <2>2, <2>3, <2>4, <2>5
<1>22. NothingOpenBehind'
  <2>1. ASSUME NEW r \in 1 .. Len(opened), rows'[r].state = "IN_PROGRESS"
        PROVE  r = center'.row \/ r \in left'
    <3>1. CASE r = row
      <4>1. mark = "IN_PROGRESS"
        BY <1>16, <2>1, <3>1
      <4> QED BY <1>13, <1>17, <3>1, <4>1 DEF RowAfter
    <3>2. CASE r # row
      BY <1>1, <1>3, <1>16, <2>1, <3>2
    <3> QED BY <3>1, <3>2
  <2>2. DOMAIN rows' = 1 .. Len(opened)
    BY <1>16
  <2> QED BY <2>1, <2>2 DEF NothingOpenBehind
<1>23. FinishedKept
  <2>1. ASSUME NEW r \in 1 .. Len(rows), rows[r].state \in {"FAILED", "TIMED_OUT"}
        PROVE  rows'[r] = rows[r]
    <3>1. opened[r] = rows[r] /\ r # row
      BY <1>3, <2>1
    <3>2. r \in 1 .. Len(opened)
      <4>1. Len(rows) \in Nat /\ Len(opened) \in Nat
        BY <1>3 DEF IInv, TypeOK
      <4> QED BY <1>3, <4>1
    <3> QED BY <1>16, <3>1, <3>2
  <2>2. DOMAIN rows = 1 .. Len(rows)
    BY DEF IInv, TypeOK
  <2> QED BY <2>1, <2>2 DEF FinishedKept
<1> QED BY <1>17, <1>18, <1>19, <1>20, <1>21, <1>22, <1>23 DEF Kept, IInv

\* The steps that leave the main loop alone: the reducer, the results, a result
\* that is ignored and a gate that refuses.
LEMMA QuietKeeps ==
  ASSUME IInv, UNCHANGED <<center, states, rows, shown, left>>,
         deciding' \in {deciding, Nil},
         live' \in [entity: Entities, name: Names \cup {Nil}, eligible: BOOLEAN],
         result' \in Faces \cup {Nil, Blocked}
  PROVE  Kept
<1>1. TypeOK'
  BY DEF IInv, TypeOK
<1>2. ChallengeIsShown' /\ HeldIsUnfinished' /\ DecidingEarned' /\ NothingOpenBehind'
  BY DEF IInv, ChallengeIsShown, HeldIsUnfinished, DecidingEarned, NothingOpenBehind,
         Sound, Behind
<1>3. FinishedKept
  BY DEF FinishedKept
<1> QED BY <1>1, <1>2, <1>3 DEF Kept, IInv

LEMMA CorrelateKeeps ==
  ASSUME IInv, NEW entity \in Entities, NEW name \in Names \cup {Nil},
         NEW eligible \in BOOLEAN, Correlate(entity, name, eligible)
  PROVE  Kept
<1>1. live' \in [entity: Entities, name: Names \cup {Nil}, eligible: BOOLEAN]
  BY DEF Correlate
<1>2. result' \in Faces \cup {Nil, Blocked}
  BY DEF Correlate, IInv, TypeOK
<1> QED BY <1>1, <1>2, QuietKeeps DEF Correlate

LEMMA PublishKeeps ==
  ASSUME IInv, NEW alone \in BOOLEAN, Publish(alone)
  PROVE  Kept
<1>1. live' \in [entity: Entities, name: Names \cup {Nil}, eligible: BOOLEAN]
  BY DEF Publish, IInv, TypeOK
<1>2. result' \in Faces \cup {Nil, Blocked}
  BY DEF Publish, IInv, TypeOK, Faces
<1> QED BY <1>1, <1>2, QuietKeeps DEF Publish

LEMMA IgnoreKeeps ==
  ASSUME IInv, Ignore
  PROVE  Kept
<1>1. live' \in [entity: Entities, name: Names \cup {Nil}, eligible: BOOLEAN]
  BY DEF Ignore, IInv, TypeOK
<1> QED BY <1>1, QuietKeeps DEF Ignore

LEMMA RefuseKeeps ==
  ASSUME IInv, Refuse
  PROVE  Kept
<1>1. /\ live' \in [entity: Entities, name: Names \cup {Nil}, eligible: BOOLEAN]
      /\ result' \in Faces \cup {Nil, Blocked}
  BY DEF Refuse, IInv, TypeOK
<1> QED BY <1>1, QuietKeeps DEF Refuse

\* Nobody alone: the row that was held is finished by the step itself.
LEMMA StepAwayKeeps ==
  ASSUME IInv, StepAway
  PROVE  Kept /\ center'.completed = center.completed
<1>1. /\ rows' = GivenUp(center.row) /\ states' = NoChallenges /\ deciding = Nil
      /\ center' = [center EXCEPT !.candidate = Nil, !.row = Nil, !.dwelt = FALSE]
      /\ result' = Nil /\ shown' = Unseen
      /\ live' = live /\ deciding' = deciding /\ left' = left
  BY DEF StepAway
<1>2. /\ rows \in Seq(RowRecords) /\ center.row \in (1 .. Len(rows)) \cup {Nil}
      /\ left \subseteq 1 .. Len(rows)
  BY DEF IInv, TypeOK, RowRecords
<1>3. /\ rows' \in Seq(RowRecords) /\ Len(rows') = Len(rows)
      /\ \A r \in 1 .. Len(rows) : r # center.row => rows'[r] = rows[r]
      /\ center.row # Nil => rows'[center.row].state = "FAILED"
  BY <1>1, GivenUpRows DEF IInv
<1>4. center'.row = Nil /\ center'.completed = center.completed
  BY <1>1 DEF IInv, TypeOK
<1>5. TypeOK'
  <2>1. center' \in [enabled: BOOLEAN, candidate: Names \cup {Nil},
                     key: (Entities \X Entities) \cup {Nil},
                     row: (1 .. Len(rows')) \cup {Nil},
                     dwelt: BOOLEAN, completed: Names \cup {Nil}]
    BY <1>1 DEF IInv, TypeOK
  <2>2. /\ states' \in [Entities -> Challenges \cup {Nil}]
        /\ shown' \in [by: Faces \cup {Nil}, poses: 0 .. 4]
    BY <1>1 DEF NoChallenges, Unseen
  <2>3. left' \subseteq 1 .. Len(rows')
    BY <1>1, <1>2, <1>3
  <2>4. /\ live' \in [entity: Entities, name: Names \cup {Nil}, eligible: BOOLEAN]
        /\ result' \in Faces \cup {Nil, Blocked} /\ deciding' \in Faces \cup {Nil}
    BY <1>1 DEF IInv, TypeOK
  <2> QED BY <1>3, <2>1, <2>2, <2>3, <2>4 DEF TypeOK, RowRecords
<1>6. ChallengeIsShown' /\ HeldIsUnfinished' /\ DecidingEarned'
  BY <1>1, <1>4 DEF ChallengeIsShown, HeldIsUnfinished, DecidingEarned, NoChallenges
<1>7. NothingOpenBehind'
  <2>1. ASSUME NEW r \in 1 .. Len(rows), rows'[r].state = "IN_PROGRESS"
        PROVE  r \in left
    <3>1. r # center.row
      BY <1>3, <2>1, CenterAssumption
    <3>2. rows[r].state = "IN_PROGRESS"
      BY <1>3, <2>1, <3>1
    <3> QED BY <1>2, <3>1, <3>2 DEF IInv, NothingOpenBehind
  <2> QED BY <1>1, <1>3, <2>1 DEF NothingOpenBehind
<1>8. FinishedKept
  <2>1. \A r \in 1 .. Len(rows) :
           rows[r].state \in {"FAILED", "TIMED_OUT"} => r # center.row
    BY <1>2, CenterAssumption DEF IInv, HeldIsUnfinished
  <2> QED BY <1>2, <1>3, <2>1 DEF FinishedKept
<1> QED BY <1>4, <1>5, <1>6, <1>7, <1>8 DEF Kept, IInv

\* The gate agrees: the candidate is forgotten, and whoever is completed is the
\* face whose challenge is held.
LEMMA ClockInKeeps ==
  ASSUME IInv, ClockIn
  PROVE  /\ Kept
         /\ deciding # Nil /\ center'.completed = deciding.name
<1>1. /\ deciding # Nil /\ deciding' = Nil
      /\ center' = [center EXCEPT !.completed = deciding.name, !.candidate = Nil]
      /\ UNCHANGED <<live, result, states, rows, shown, left>>
  BY DEF ClockIn
<1>2. deciding.name \in Names
  BY <1>1 DEF IInv, TypeOK, Faces
<1>3. /\ center'.completed = deciding.name /\ center'.candidate = Nil
      /\ center'.row = center.row /\ center'.key = center.key
  BY <1>1 DEF IInv, TypeOK
<1>4. TypeOK'
  BY <1>1, <1>2 DEF IInv, TypeOK
<1>5. ChallengeIsShown' /\ HeldIsUnfinished' /\ DecidingEarned' /\ NothingOpenBehind'
  BY <1>1, <1>3 DEF IInv, ChallengeIsShown, HeldIsUnfinished, DecidingEarned,
                    NothingOpenBehind, Sound, Behind
<1>6. FinishedKept
  BY <1>1 DEF FinishedKept
<1> QED BY <1>1, <1>3, <1>4, <1>5, <1>6 DEF Kept, IInv

\* Everything is forgotten, and the row that was held is among the left ones.
LEMMA ForgetKeeps ==
  ASSUME IInv, NEW on \in BOOLEAN, center' = Center(on), states' = NoChallenges,
         deciding' = Nil, shown' = Unseen, rows' = rows,
         left' = left \cup ({center.row} \ {Nil}),
         live' \in [entity: Entities, name: Names \cup {Nil}, eligible: BOOLEAN],
         result' \in Faces \cup {Nil, Blocked}
  PROVE  Kept /\ center'.completed = Nil
<1>1. center'.row = Nil /\ center'.completed = Nil
  BY DEF Center
<1>2. TypeOK'
  <2>1. left' \subseteq 1 .. Len(rows')
    BY DEF IInv, TypeOK
  <2>2. center' \in [enabled: BOOLEAN, candidate: Names \cup {Nil},
                     key: (Entities \X Entities) \cup {Nil},
                     row: (1 .. Len(rows')) \cup {Nil},
                     dwelt: BOOLEAN, completed: Names \cup {Nil}]
    BY DEF Center
  <2>3. states' \in [Entities -> Challenges \cup {Nil}]
    BY DEF NoChallenges
  <2>4. shown' \in [by: Faces \cup {Nil}, poses: 0 .. 4]
    BY DEF Unseen
  <2>5. rows' \in Seq([of: Entities,
                       state: {"IN_PROGRESS", "PASSED", "FAILED", "TIMED_OUT"}])
    BY DEF IInv, TypeOK
  <2> QED BY <2>1, <2>2, <2>3, <2>4, <2>5 DEF TypeOK
<1>3. ChallengeIsShown' /\ HeldIsUnfinished' /\ DecidingEarned'
  BY <1>1 DEF ChallengeIsShown, HeldIsUnfinished, DecidingEarned, NoChallenges
<1>4. NothingOpenBehind'
  <2>1. \A r \in DOMAIN rows : r # Nil
    BY CenterAssumption DEF IInv, TypeOK
  <2> QED BY <2>1 DEF IInv, NothingOpenBehind
<1>5. FinishedKept
  BY DEF FinishedKept
<1> QED BY <1>1, <1>2, <1>3, <1>4, <1>5 DEF Kept, IInv

LEMMA ToggleKeeps ==
  ASSUME IInv, Toggle
  PROVE  Kept /\ center'.completed = Nil
<1>0. (~center.enabled) \in BOOLEAN
  OBVIOUS
<1>1. /\ live' \in [entity: Entities, name: Names \cup {Nil}, eligible: BOOLEAN]
      /\ result' \in Faces \cup {Nil, Blocked}
  BY DEF Toggle, IInv, TypeOK
<1> QED BY <1>0, <1>1, ForgetKeeps DEF Toggle

LEMMA RestartKeeps ==
  ASSUME IInv, Restart
  PROVE  Kept /\ center'.completed = Nil
<1>1. /\ live' \in [entity: Entities, name: Names \cup {Nil}, eligible: BOOLEAN]
      /\ result' \in Faces \cup {Nil, Blocked}
  BY DEF Restart, IInv, TypeOK
<1> QED BY <1>1, ForgetKeeps DEF Restart

-----------------------------------------------------------------------------
(* The theorems *)

\* Init establishes the invariant: no challenge, no row.
LEMMA InitIInv == Init => IInv
<1> SUFFICES ASSUME Init PROVE IInv
  OBVIOUS
<1>1. 1 \in Entities
  BY CenterAssumption DEF Entities
<1>2. TypeOK
  BY <1>1 DEF Init, TypeOK, Center, NoChallenges, Unseen
<1>3. ChallengeIsShown /\ HeldIsUnfinished /\ DecidingEarned /\ NothingOpenBehind
  BY DEF Init, ChallengeIsShown, HeldIsUnfinished, DecidingEarned, NothingOpenBehind,
         NoChallenges, Center
<1> QED BY <1>2, <1>3 DEF IInv

\* What a step does to the rows and to who is complete.
LEMMA NextKeeps ==
  ASSUME IInv, Next
  PROVE  /\ Kept
         /\ \/ center'.completed \in {center.completed, Nil}
            \/ ClockIn
<1>1. CASE \E entity \in Entities, name \in Names \cup {Nil}, eligible \in BOOLEAN :
              Correlate(entity, name, eligible)
  BY <1>1, CorrelateKeeps DEF Correlate
<1>2. CASE \E alone \in BOOLEAN : Publish(alone)
  BY <1>2, PublishKeeps DEF Publish
<1>3. CASE StepAway
  BY <1>3, StepAwayKeeps
<1>4. CASE Ignore
  BY <1>4, IgnoreKeeps DEF Ignore
<1>5. CASE \E pose \in Poses, late, long, stayed \in BOOLEAN :
              Advance(pose, late, long, stayed)
  BY <1>5, AdvanceKeeps
<1>6. CASE Refuse
  BY <1>6, RefuseKeeps DEF Refuse
<1>7. CASE ClockIn
  BY <1>7, ClockInKeeps
<1>8. CASE Toggle
  BY <1>8, ToggleKeeps
<1>9. CASE Restart
  BY <1>9, RestartKeeps
<1> QED BY <1>1, <1>2, <1>3, <1>4, <1>5, <1>6, <1>7, <1>8, <1>9 DEF Next

LEMMA StutterKeeps == IInv /\ UNCHANGED vars => IInv'
BY DEF vars, IInv, TypeOK, ChallengeIsShown, HeldIsUnfinished, DecidingEarned,
       NothingOpenBehind, Sound, Behind

\* The inductive invariant holds in every reachable state.
THEOREM Invariance == Spec => []IInv
<1>1. IInv /\ [Next]_vars => IInv'
  BY NextKeeps, StutterKeeps DEF Kept
<1> QED BY InitIInv, <1>1, PTL DEF Spec

\* Every part of the state is of its type.
THEOREM TypeCorrect == Spec => []TypeOK
BY Invariance, PTL DEF IInv

\* A row in progress is the one of the attempt under way, or was left by a
\* toggle or a restart (update_center_attendance, abandon_liveness_challenge).
THEOREM NothingOpenBehindHolds == Spec => []NothingOpenBehind
BY Invariance, PTL DEF IInv

\* A row that has recorded a failure or a timeout is never written to again
\* (record_liveness_challenge updates the row of the attempt under way only).
THEOREM OutcomeFinalHolds == Spec => OutcomeFinal
<1>1. IInv /\ [Next]_vars =>
        [\A r \in DOMAIN rows :
            rows[r].state \in {"FAILED", "TIMED_OUT"} => rows'[r] = rows[r]]_vars
  BY NextKeeps DEF Kept, FinishedKept
<1> QED BY Invariance, <1>1, PTL DEF Spec, OutcomeFinal

\* Whoever is clocked in showed the four poses in order without a break, as the
\* same entity under the same name, whatever the reducer did in the meantime.
THEOREM CenterEarnedHolds == Spec => CenterEarned
<1>1. ASSUME IInv, Next, ClocksIn
      PROVE  /\ shown.by.name = center'.completed
             /\ shown.poses = 4
             /\ states[shown.by.entity].phase # "FAILED" =>
                    rows[center.row] = [of |-> shown.by.entity, state |-> "PASSED"]
  <2>1. ClockIn
    BY <1>1, NextKeeps DEF ClocksIn
  <2>2. deciding # Nil /\ center'.completed = deciding.name
    BY <1>1, <2>1, ClockInKeeps
  <2> QED BY <1>1, <2>2 DEF IInv, DecidingEarned
<1>2. IInv /\ [Next]_vars =>
        [ClocksIn =>
            /\ shown.by.name = center'.completed
            /\ shown.poses = 4
            /\ states[shown.by.entity].phase # "FAILED" =>
                   rows[center.row] = [of |-> shown.by.entity, state |-> "PASSED"]]_vars
  BY <1>1
<1> QED BY Invariance, <1>2, PTL DEF Spec, CenterEarned
=============================================================================
