------------------------------ MODULE CenterMode ------------------------------
(***************************************************************************)
(* Center attendance (main.py, update_center_attendance): one person alone *)
(* in the guide is put through the liveness challenge and clocked in.  The *)
(* inference thread changes the correlated entity of the track and         *)
(* publishes results; the main loop works on the last result while the     *)
(* entity may already have moved on, asks the gate about the entity as it  *)
(* is, and writes every challenge to a row of liveness_challenges.         *)
(*                                                                         *)
(* The face in the guide is on one track; an entity of the track is a      *)
(* number that grows with every generation.  Confirmation, freshness and   *)
(* the liveness of the entity are the reducer's (Correlation): here they   *)
(* are any name and any answer of the gate.  CENTER_MODE_REQUIRE_LIVENESS  *)
(* is on, its default.                                                     *)
(***************************************************************************)
EXTENDS LivenessChallenge, Sequences

CONSTANTS
    Names,          \* names a person can be confirmed under
    Nil,
    Blocked,        \* a result without one face alone that is valid
    MaxEntities,    \* bound: generations of the track
    MaxRows         \* bound: rows of liveness_challenges

ASSUME CenterAssumption ==
    /\ MaxEntities \in Nat \ {0} /\ MaxRows \in Nat
    /\ Nil \notin Names /\ Nil \notin Nat /\ Blocked # Nil

VARIABLES
    live,       \* the track's entity in the reducer, read without a lock
    result,     \* InferenceState: the last result, until the main loop took it
    center,     \* ui["center_attendance"]
    states,     \* liveness_challenge.states, by entity
    rows,       \* liveness_challenges, in order of id
    deciding,   \* the face whose challenge has passed, before the gate is asked
    shown,      \* history: poses the last person alone showed without a break
    left        \* history: rows that a toggle or a restart let go of

vars == <<live, result, center, states, rows, deciding, shown, left>>

Entities == 1 .. MaxEntities

Faces == [entity: Entities, name: Names]

NoChallenges == [e \in Entities |-> Nil]

\* State of toggle_center_attendance, the same as at the start but for "enabled".
Center(on) ==
    [enabled |-> on, candidate |-> Nil, key |-> Nil, row |-> Nil,
     dwelt |-> FALSE, completed |-> Nil]

Unseen == [by |-> Nil, poses |-> 0]

Init ==
    /\ live = [entity |-> 1, name |-> Nil, eligible |-> FALSE]
    /\ result = Nil
    /\ center = Center(FALSE)
    /\ states = NoChallenges
    /\ rows = <<>>
    /\ deciding = Nil
    /\ shown = Unseen
    /\ left = {}

-----------------------------------------------------------------------------
(* The inference thread *)

\* The reducer changes what it holds of the track: another name, none, a gate
\* that opens or closes, a new generation.
Correlate(entity, name, eligible) ==
    /\ entity \in {live.entity, live.entity + 1} \cap Entities
    /\ eligible => name # Nil
    /\ live' = [entity |-> entity, name |-> name, eligible |-> eligible]
    /\ UNCHANGED <<result, center, states, rows, deciding, shown, left>>

\* A result replaces the last one, taken or not.  "alone" is one face in all,
\* in the guide, of good quality and not suspect; its name is the entity's.
Publish(alone) ==
    /\ result' = IF alone /\ live.name # Nil
                 THEN [entity |-> live.entity, name |-> live.name]
                 ELSE Blocked
    /\ UNCHANGED <<live, center, states, rows, deciding, shown, left>>

-----------------------------------------------------------------------------
(* The main loop *)

\* Forgets to close the row (mutant).
GivenUpOpen(row) == rows

\* abandon_liveness_challenge: the row that is held, if any, is FAILED.
GivenUp(row) ==
    IF row = Nil THEN rows ELSE [rows EXCEPT ![row].state = "FAILED"]

\* A result nobody can be clocked in by.  The key and the completed name stay.
StepAway ==
    /\ center.enabled /\ deciding = Nil
    /\ result = Blocked
    /\ rows' = GivenUp(center.row)
    /\ states' = NoChallenges
    /\ center' = [center EXCEPT !.candidate = Nil, !.row = Nil, !.dwelt = FALSE]
    /\ result' = Nil
    /\ shown' = Unseen
    /\ UNCHANGED <<live, deciding, left>>

\* A result that changes nothing: the mode is off, or the person is complete.
Ignore ==
    /\ deciding = Nil
    /\ result # Nil
    /\ \/ ~center.enabled
       \/ result # Blocked /\ center.completed = result.name
    /\ result' = Nil
    /\ UNCHANGED <<live, center, states, rows, deciding, shown, left>>

\* entity_key: the entity of the result with the generation as it is now.
EntityKey == <<result.entity, live.entity>>

\* Carries the challenge over to another name (mutant).
InterruptedByKey == center.key # EntityKey

\* Another person or another entity: nothing of the challenge is carried over.
Interrupted == center.candidate # result.name \/ center.key # EntityKey

\* The poses one face showed without a break, whatever the challenge made of
\* them: the longest prefix of center, left, right, center.
Showing(pose) ==
    LET seen == IF shown.by = result THEN shown.poses ELSE 0
    IN  [by |-> result,
         poses |-> IF seen < 4 /\ pose = <<"center", "left", "right", "center">>[seen + 1]
                   THEN seen + 1 ELSE seen]

\* Keeps writing to the row of the attempt that timed out (mutant).
HeldRowAfter(row, expired) == row

\* The row of an attempt that timed out is let go of.
RowAfter(row, expired) == IF expired THEN Nil ELSE row

\* One face alone: the challenge of its entity advances by one update and its
\* row follows; when it has passed and the person has stayed, the gate is asked.
Advance(pose, late, long, stayed) ==
    LET before   == IF Interrupted THEN GivenUp(center.row) ELSE rows
        opens    == Interrupted \/ center.row = Nil
        opened   == IF opens
                    THEN Append(before, [of |-> result.entity, state |-> "IN_PROGRESS"])
                    ELSE before
        row      == IF opens THEN Len(opened) ELSE center.row
        known    == IF Interrupted THEN NoChallenges ELSE states
        begun    == known[result.entity] # Nil
        state    == IF begun THEN known[result.entity] ELSE NewState(0)
        expired  == TimesOut(state, late)
        next     == Updated(state, pose, late, long)
        dwelt    == ~Interrupted /\ (center.dwelt \/ stayed)
    IN  /\ center.enabled /\ deciding = Nil
        /\ result \in Faces
        /\ center.completed # result.name
        /\ Len(opened) <= MaxRows
        /\ late => begun /\ stayed
        /\ states' = [known EXCEPT ![result.entity] = next]
        /\ rows' = [opened EXCEPT ![row].state =
                        IF expired THEN "TIMED_OUT"
                        ELSE IF next.passed THEN "PASSED" ELSE "IN_PROGRESS"]
        /\ center' = [center EXCEPT !.candidate = result.name,
                                    !.key = EntityKey,
                                    !.row = RowAfter(row, expired),
                                    !.dwelt = dwelt,
                                    !.completed = Nil]
        /\ deciding' = IF next.passed /\ dwelt THEN result ELSE Nil
        /\ shown' = Showing(pose)
        /\ result' = Nil
        /\ UNCHANGED <<live, left>>

\* The gate is asked about the track as it is now; it refuses, or the policy
\* does (not a school day, tracking disabled).
Refuse ==
    /\ deciding # Nil
    /\ deciding' = Nil
    /\ UNCHANGED <<live, result, center, states, rows, shown, left>>

\* clock_in_verified: the gate agrees on the name, and the person is complete.
ClockIn ==
    /\ deciding # Nil
    /\ live.eligible /\ live.name = deciding.name
    /\ center' = [center EXCEPT !.completed = deciding.name,
                                !.candidate = Nil]
    /\ deciding' = Nil
    /\ UNCHANGED <<live, result, states, rows, shown, left>>

\* The operator switches the mode: everything is forgotten, rows are not touched.
Toggle ==
    /\ deciding = Nil
    /\ center' = Center(~center.enabled)
    /\ states' = NoChallenges
    /\ shown' = Unseen
    /\ left' = left \cup ({center.row} \ {Nil})
    /\ UNCHANGED <<live, result, rows, deciding>>

\* The engine ends, at any point, and is started: the rows are what remains.
Restart ==
    /\ live' = [live EXCEPT !.name = Nil, !.eligible = FALSE]
    /\ result' = Nil
    /\ center' = Center(FALSE)
    /\ states' = NoChallenges
    /\ deciding' = Nil
    /\ shown' = Unseen
    /\ left' = left \cup ({center.row} \ {Nil})
    /\ UNCHANGED rows

Next ==
    \/ \E entity \in Entities, name \in Names \cup {Nil}, eligible \in BOOLEAN :
           Correlate(entity, name, eligible)
    \/ \E alone \in BOOLEAN : Publish(alone)
    \/ StepAway
    \/ Ignore
    \/ \E pose \in Poses, late, long, stayed \in BOOLEAN :
           Advance(pose, late, long, stayed)
    \/ Refuse
    \/ ClockIn
    \/ Toggle
    \/ Restart

Spec == Init /\ [][Next]_vars

-----------------------------------------------------------------------------
(* Properties *)

\* Every part of the state is of its type; attempts stop at their limit.
TypeOK ==
    /\ live \in [entity: Entities, name: Names \cup {Nil}, eligible: BOOLEAN]
    /\ result \in Faces \cup {Nil, Blocked}
    /\ rows \in Seq([of: Entities,
                     state: {"IN_PROGRESS", "PASSED", "FAILED", "TIMED_OUT"}])
    /\ center \in [enabled: BOOLEAN, candidate: Names \cup {Nil},
                   key: (Entities \X Entities) \cup {Nil},
                   row: (1 .. Len(rows)) \cup {Nil},
                   dwelt: BOOLEAN, completed: Names \cup {Nil}]
    /\ states \in [Entities -> Challenges \cup {Nil}]
    /\ deciding \in Faces \cup {Nil}
    /\ shown \in [by: Faces \cup {Nil}, poses: 0 .. 4]
    /\ left \subseteq 1 .. Len(rows)

\* A step that completes somebody.
ClocksIn == center'.completed \notin {center.completed, Nil}

\* Who is clocked in showed the four poses in order without a break: the same
\* entity under the same name, nobody else in front of the camera between, and
\* unless the challenge was declared failed since, the row of that entity says
\* that it passed.  Names that move between entities, generations read later
\* than the result and gates that open late do not lend it to somebody else.
CenterEarned ==
    [][ClocksIn =>
          /\ shown.by.name = center'.completed
          /\ shown.poses = 4
          /\ states[shown.by.entity].phase # "FAILED" =>
                 rows[center.row] = [of |-> shown.by.entity, state |-> "PASSED"]]_vars

\* A row that has recorded a failure or a timeout is history: no later attempt
\* writes to it.
OutcomeFinal ==
    [][\A r \in DOMAIN rows :
          rows[r].state \in {"FAILED", "TIMED_OUT"} => rows'[r] = rows[r]]_vars

\* A row in progress is the one of the attempt under way; only switching the
\* mode or ending the engine leaves one behind.
NothingOpenBehind ==
    \A r \in DOMAIN rows :
        rows[r].state = "IN_PROGRESS" => r = center.row \/ r \in left

\* What the message of a failed challenge says, "Restart the attendance flow to
\* retry" (core/liveness.py:189): nobody is clocked in by a failed challenge.
FailedNeverClocksIn ==
    [][ClocksIn => states[shown.by.entity].phase # "FAILED"]_vars

-----------------------------------------------------------------------------
(* The inductive invariant: why the properties hold.                       *)

\* Steps of the challenge that are behind a state, a pose that is held included.
Behind(state) ==
    IF state.phase = "FAILED" THEN IF state.passed THEN 4 ELSE 0
    ELSE [CENTER |-> 0, TURN_LEFT |-> 1, TURN_RIGHT |-> 2,
          RETURN |-> 3, PASSED |-> 4][state.phase] + (IF state.holding THEN 1 ELSE 0)

\* What a challenge may be: passed with the fourth step, and idle then; with
\* an attempt left until it has failed.
Sound(state) ==
    /\ state.phase # "FAILED" =>
           /\ state.passed <=> state.phase = "PASSED"
           /\ state.retries < MaxAttempts
    /\ state.phase = "PASSED" => ~state.holding

\* There is one challenge, of the face that is shown, and it is no further
\* than the poses of that face.
ChallengeIsShown ==
    \A e \in Entities : states[e] # Nil =>
        /\ shown.by \in Faces /\ shown.by.entity = e
        /\ Sound(states[e])
        /\ Behind(states[e]) <= shown.poses
        /\ center.candidate # Nil =>
               center.candidate = shown.by.name /\ center.key[1] = e

\* The row that is held is one of the entity in the key, and not finished.
HeldIsUnfinished ==
    center.row # Nil =>
        /\ rows[center.row].of = center.key[1]
        /\ rows[center.row].state \in {"IN_PROGRESS", "PASSED"}

\* Whoever is about to be decided has earned it.
DecidingEarned ==
    deciding # Nil =>
        /\ shown.by = deciding /\ shown.poses = 4
        /\ states[deciding.entity].phase # "FAILED" =>
               rows[center.row] = [of |-> deciding.entity, state |-> "PASSED"]

IInv ==
    /\ TypeOK
    /\ ChallengeIsShown
    /\ HeldIsUnfinished
    /\ DecidingEarned
    /\ NothingOpenBehind

=============================================================================
