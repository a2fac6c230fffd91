-------------------------- MODULE LivenessChallenge --------------------------
(***************************************************************************)
(* The turn challenge of core/liveness.py: look ahead, turn left, turn     *)
(* right, look ahead, each pose held for a while, all before a deadline.   *)
(* A challenge is a value; the map of challenges is a variable of          *)
(* CenterMode.  Time enters as two facts about an update: "late" (the      *)
(* deadline of the attempt has passed) and "long" (the pose has been held  *)
(* long enough).  yaw is the pose it is compared to: "unknown" is None,    *)
(* "between" is neither neutral nor a turn.                                *)
(***************************************************************************)
EXTENDS Naturals

CONSTANT MaxAttempts    \* CENTER_MODE_MAX_LIVENESS_ATTEMPTS

ASSUME AttemptsAssumption == MaxAttempts \in Nat \ {0}

Poses == {"center", "left", "right", "between", "unknown"}

Phases == {"CENTER", "TURN_LEFT", "TURN_RIGHT", "RETURN", "PASSED", "FAILED"}

Challenges == [phase: Phases, holding: BOOLEAN, passed: BOOLEAN,
               retries: 0 .. MaxAttempts]

\* A new attempt, with the retries that led to it.
NewState(retries) ==
    [phase |-> "CENTER", holding |-> FALSE, passed |-> FALSE,
     retries |-> retries]

\* The pose a phase asks for and the phase that follows it.
Asked == [CENTER |-> "center", TURN_LEFT |-> "left",
          TURN_RIGHT |-> "right", RETURN |-> "center"]

Following == [CENTER |-> "TURN_LEFT", TURN_LEFT |-> "TURN_RIGHT",
              TURN_RIGHT |-> "RETURN", RETURN |-> "PASSED"]

\* held(): the first update in the pose starts the hold, a later one ends the
\* phase when the pose was held long enough, another pose starts over.
Posed(state, pose, long) ==
    IF pose # Asked[state.phase]
    THEN [state EXCEPT !.holding = FALSE]
    ELSE IF state.holding /\ long
         THEN [state EXCEPT !.phase = Following[@], !.holding = FALSE,
                            !.passed = Following[state.phase] = "PASSED"]
         ELSE [state EXCEPT !.holding = TRUE]

\* The deadline comes before the phase: a challenge that has passed times out
\* as well, and the last attempt fails without its "passed" being taken back.
TimesOut(state, late) == late /\ state.phase # "FAILED"

\* Off by one (mutant): one more attempt than the limit.
ExpiredLater(state) ==
    IF state.retries >= MaxAttempts
    THEN [state EXCEPT !.phase = "FAILED", !.retries = @ + 1]
    ELSE NewState(state.retries + 1)

Expired(state) ==
    IF state.retries + 1 >= MaxAttempts
    THEN [state EXCEPT !.phase = "FAILED", !.retries = @ + 1]
    ELSE NewState(state.retries + 1)

\* update(): without landmarks (yaw is None) a hold that has begun goes on.
Updated(state, pose, late, long) ==
    IF TimesOut(state, late) THEN Expired(state)
    ELSE IF state.phase \in {"PASSED", "FAILED"} \/ pose = "unknown" THEN state
    ELSE Posed(state, pose, long)

=============================================================================
