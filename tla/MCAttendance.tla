---------------------------- MODULE MCAttendance ----------------------------
(***************************************************************************)
(* Instances of Attendance for TLC: two starts, each without the part that *)
(* would make it too large.                                                *)
(***************************************************************************)
EXTENDS Attendance

\* A runtime that midnight finds at work.  Nothing is written yet, and no
\* correction is left.
BeforeMidnight ==
  /\ clock = MaxTime - 1
  /\ corrections = MaxCorrections
  /\ rows = [p \in People |-> [d \in Days |-> NoRow]]
  /\ cache = {}
  /\ date = 0
  /\ engine = "up"
  /\ local = [t \in Threads |-> Idle]
  /\ witnessed = [p \in People |-> [d \in Days |-> Never]]
  /\ straddled = {}

\* A shutdown has begun before midnight, and the sweep is about to close the
\* row of somebody the backend clocked in at 0.  Operators may correct the
\* rows of both days, and the next runtime starts on the new day.
AfterMidnight(p) ==
  /\ clock = MaxTime
  /\ corrections = 0
  /\ rows = [q \in People |-> [d \in Days |->
               IF q = p /\ d = 0 THEN [NoRow EXCEPT !.in = 0] ELSE NoRow]]
  /\ cache = {}
  /\ date = 0
  /\ engine = "stopping"
  /\ local = [t \in Threads |->
                IF t = "ops"
                THEN [Idle EXCEPT !.op = "reconcile", !.pc = "update", !.who = p]
                ELSE Idle]
  /\ witnessed = [q \in People |-> [d \in Days |->
                    IF q = p /\ d = 0 THEN 0 ELSE Never]]
  /\ straddled = {}

MCInit == BeforeMidnight \/ \E p \in People : AfterMidnight(p)

MCSpec == MCInit /\ [][Next]_vars /\ Fairness
=============================================================================
