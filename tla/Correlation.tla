----------------------------- MODULE Correlation -----------------------------
(***************************************************************************)
(* The correlation core (core/correlation.py, core/entities.py): what the  *)
(* engine believes of every tracked person.  An update of the inference    *)
(* thread moves the tracks, attaches the evidence of the faces one by one, *)
(* resolves collisions of names and publishes who may be clocked in; the   *)
(* main loop and the operations thread ask for the gate of an entity at    *)
(* any moment of it, and asking refreshes the entity.                      *)
(*                                                                         *)
(* Time is what a refresh sees of it: every window is open ("current"),    *)
(* face, quality or liveness is too old ("unseen"), or the identity is     *)
(* past its stale or its expired age.  Similarity scores only rank the     *)
(* entities that collide, so any of them may be the winner.  The active    *)
(* roster is one more conjunct of the gate, and left out.                  *)
(***************************************************************************)
EXTENDS Naturals, Sequences, FiniteSets

CONSTANTS
    Tracks,      \* ids of the tracker
    Names,       \* names of the gallery
    Nil,
    Needed,      \* IDENTITY_CONFIRMATION_OBSERVATIONS
    Window,      \* IDENTITY_CONFIRMATION_WINDOW
    MaxFaces     \* bound: faces in one frame

ASSUME CorrelationAssumption ==
    /\ Needed \in Nat \ {0} /\ Window \in Nat /\ Needed <= Window
    /\ MaxFaces \in Nat
    /\ IsFiniteSet(Tracks)
    /\ Nil \notin Names

VARIABLES
    entities,    \* EntityStateStore.entities, by track
    step,        \* where the inference thread is in update()
    faces,       \* faces of the frame that are still to be attached
    published    \* track and name of who is eligible in the last result

vars == <<entities, step, faces, published>>

IdentityStates == {"UNRESOLVED", "CANDIDATE", "CONFIRMED", "OCCLUDED",
                   "CONTRADICTED", "EXPIRED", "SPOOF_SUSPECT"}

LivenessStates == {"NOT_EVALUATED", "REAL", "SPOOF_SUSPECT"}

Ages == {"current", "unseen", "stale", "expired"}

NoVotes == [n \in Names |-> 0]

\* "votes" is history: fresh observations of a name, up to the needed number,
\* since the entity was created or last lost its identity.
EntityRecords ==
    [active: BOOLEAN, state: IdentityStates, name: Names \cup {Nil},
     window: UNION {[1 .. k -> Names] : k \in 0 .. Window},
     fresh: BOOLEAN, liveness: LivenessStates, eligible: BOOLEAN,
     votes: [Names -> 0 .. Needed]]

NewEntity ==
    [active |-> TRUE, state |-> "UNRESOLVED", name |-> Nil, window |-> <<>>,
     fresh |-> FALSE, liveness |-> "NOT_EVALUATED", eligible |-> FALSE,
     votes |-> NoVotes]

Known == {t \in Tracks : entities[t] # Nil}

Init ==
    /\ entities = [t \in Tracks |-> Nil]
    /\ step = "idle"
    /\ faces = 0
    /\ published = {}

-----------------------------------------------------------------------------
(* Evidence *)

\* What recognition says of a face: a cached answer, a name it has just matched
\* (as a candidate or confirmed, which the reducer treats alike), or nobody.
Answers == [name: Names, state: {"CANDIDATE"}]
           \cup [name: {Nil}, state: {"UNRESOLVED", "OCCLUDED", "CONTRADICTED",
                                      "SPOOF_SUSPECT"}]

\* A confirmed track that is seen as somebody else, or as nobody.
Contradicts(e, answer) ==
    /\ e.state = "CONFIRMED"
    /\ \/ answer.name \notin {Nil, e.name}
       \/ answer.name = Nil /\ answer.state = "UNRESOLVED"

\* Votes from before the loss count again (mutant).
VotesKept(e) == e.window

\* States that a name must be rebuilt from with new votes.
VotesThatCount(e) ==
    IF e.state \in {"OCCLUDED", "EXPIRED", "CONTRADICTED", "SPOOF_SUSPECT"}
    THEN <<>> ELSE e.window

\* The window grows without a bound (mutant).
VotedForEver(e, name) == Append(VotesThatCount(e), name)

\* The bounded window with one more name.
Voted(e, name) ==
    LET votes == Append(VotesThatCount(e), name)
    IN  IF Len(votes) > Window THEN Tail(votes) ELSE votes

\* Hits of a name in a window.
Hits(window, name) == Cardinality({i \in DOMAIN window : window[i] = name})

\* attach of FACE_IDENTITY_RESULT with a fresh answer.  That a confirmed name
\* stays confirmed by one more observation needs no case of its own: the hits
\* in the window do not fall when the name itself is added.
Identified(e, answer) ==
    IF answer.name # Nil /\ ~Contradicts(e, answer)
    THEN LET window == Voted(e, answer.name)
             confirmed == Hits(window, answer.name) >= Needed
         IN  [e EXCEPT !.fresh = TRUE,
                       !.window = window,
                       !.state = IF confirmed THEN "CONFIRMED" ELSE "CANDIDATE",
                       !.name = IF confirmed THEN answer.name ELSE @,
                       !.votes[answer.name] = IF @ < Needed THEN @ + 1 ELSE @]
    ELSE [e EXCEPT !.fresh = TRUE,
                   !.window = <<>>,
                   !.state = IF Contradicts(e, answer) THEN "CONTRADICTED"
                             ELSE answer.state,
                   !.votes = NoVotes]

\* attach of a cached answer: the state stays, but it is not evidence of now.
Cached(e) == [e EXCEPT !.fresh = FALSE]

\* attach of LIVENESS_RESULT: a suspect face takes the identity with it.
Checked(e, liveness) ==
    IF liveness = "SPOOF_SUSPECT"
    THEN [e EXCEPT !.liveness = liveness, !.state = "SPOOF_SUSPECT",
                   !.eligible = FALSE, !.votes = NoVotes]
    ELSE [e EXCEPT !.liveness = liveness]

\* The identity part of refresh.
Aged(e, age) ==
    IF e.state \in {"CONFIRMED", "OCCLUDED"} /\ age \in {"stale", "expired"}
    THEN [e EXCEPT !.state = IF age = "stale" THEN "OCCLUDED" ELSE "EXPIRED",
                   !.fresh = FALSE, !.votes = NoVotes]
    ELSE IF e.state \in {"CANDIDATE", "CONTRADICTED"} /\ age = "expired"
    THEN [e EXCEPT !.state = "EXPIRED", !.window = <<>>, !.fresh = FALSE,
                   !.votes = NoVotes]
    ELSE e

\* refresh: eligibility is computed anew from what is current.
Refreshed(e, age) ==
    LET aged == Aged(e, age)
    IN  [aged EXCEPT !.eligible =
            /\ aged.active /\ age = "current"
            /\ aged.state = "CONFIRMED" /\ aged.fresh
            /\ aged.liveness = "REAL"]

\* snapshot: a liveness result that is too old is forgotten before the refresh.
\* An identity result leaves the history at the stale age, as in refresh.
Summarised(e, age, forgotten) ==
    Refreshed(IF forgotten THEN [e EXCEPT !.liveness = "NOT_EVALUATED"] ELSE e, age)

-----------------------------------------------------------------------------
(* update(), a step of the inference thread at a time *)

\* update_tracks: a track that jumped starts a new entity, one that is missing
\* is not active until it is seen again, or is closed.
Track(seen, switched, closed) ==
    /\ step = "idle"
    /\ switched \subseteq seen \cap Known
    /\ closed \subseteq Known \ seen
    /\ entities' = [t \in Tracks |->
           IF t \in seen
           THEN IF t \in Known \ switched THEN [entities[t] EXCEPT !.active = TRUE]
                ELSE NewEntity
           ELSE IF t \in Known \ closed THEN [entities[t] EXCEPT !.active = FALSE]
           ELSE Nil]
    /\ step' = "faces"
    /\ faces' \in 0 .. IF seen = {} THEN 0 ELSE MaxFaces
    /\ UNCHANGED published

\* One face: its identity, then its liveness.  Two faces may be nearest to one
\* track.
AttachFace(t, liveness) ==
    /\ step = "faces" /\ faces > 0
    /\ t \in Known /\ entities[t].active
    /\ \/ entities' = [entities EXCEPT ![t] = Checked(Cached(@), liveness)]
       \/ \E answer \in Answers :
              entities' = [entities EXCEPT ![t] = Checked(Identified(@, answer), liveness)]
    /\ faces' = faces - 1
    /\ UNCHANGED <<step, published>>

\* The entities that hold a name at the same time.
Rivals(name) ==
    {t \in Known : /\ entities[t].active /\ entities[t].fresh
                   /\ entities[t].state = "CONFIRMED"
                   /\ entities[t].name = name}

\* The loser stays confirmed (mutant).
StillConfirmed(e) == [e EXCEPT !.eligible = FALSE]

\* The loser of a collision starts over.
Contradicted(e) ==
    [e EXCEPT !.state = "CONTRADICTED", !.window = <<>>, !.fresh = FALSE,
              !.eligible = FALSE, !.votes = NoVotes]

\* enforce_identity_exclusivity: of the rivals for a name one winner remains.
Enforce(winners) ==
    /\ step = "faces" /\ faces = 0
    /\ \A n \in Names : Rivals(n) # {} => Cardinality(Rivals(n) \cap winners) = 1
    /\ entities' = [t \in Tracks |->
           IF \E n \in Names : t \in Rivals(n) \ winners
           THEN Contradicted(entities[t]) ELSE entities[t]]
    /\ step' = "enforced"
    /\ UNCHANGED <<faces, published>>

\* _entity_snapshot, and the gate that is asked for every face of the result.
Publish(age, forgotten) ==
    /\ step = "enforced"
    /\ entities' = [t \in Tracks |->
           IF t \in Known THEN Summarised(entities[t], age[t], t \in forgotten)
           ELSE Nil]
    /\ published' = {<<t, entities'[t].name>> :
                        t \in {u \in Known : entities'[u].eligible}}
    /\ step' = "idle"
    /\ UNCHANGED faces

\* attendance_gate, from any thread at any moment.
Ask(t, age) ==
    /\ t \in Known
    /\ entities' = [entities EXCEPT ![t] = Refreshed(@, age)]
    /\ UNCHANGED <<step, faces, published>>

Next ==
    \/ \E seen, switched, closed \in SUBSET Tracks : Track(seen, switched, closed)
    \/ \E t \in Tracks, liveness \in LivenessStates : AttachFace(t, liveness)
    \/ \E winners \in SUBSET Tracks : Enforce(winners)
    \/ \E age \in [Tracks -> Ages], forgotten \in SUBSET Tracks :
           Publish(age, forgotten)
    \/ \E t \in Tracks, age \in Ages : Ask(t, age)

Spec == Init /\ [][Next]_vars

-----------------------------------------------------------------------------
(* Properties *)

\* Every part of the state is of its type; the window keeps its bound.
TypeOK ==
    /\ entities \in [Tracks -> EntityRecords \cup {Nil}]
    /\ step \in {"idle", "faces", "enforced"}
    /\ faces \in 0 .. MaxFaces
    /\ published \subseteq Tracks \X Names

\* "Prevent one roster identity from authorizing two live entities"
\* (core/entities.py:701): in a result a name is eligible on one track.
OneTrackPerName ==
    \A p, q \in published : p[2] = q[2] => p = q

\* A confirmed name was observed afresh the needed number of times since the
\* entity was created, contradicted, suspected, occluded or beaten in a
\* collision: votes from before never count again.
ConfirmedByVotes ==
    \A t \in Known :
        entities[t].state = "CONFIRMED" =>
            entities[t].votes[entities[t].name] >= Needed

-----------------------------------------------------------------------------
(* The inductive invariant: why the properties hold.                       *)

\* States in which the votes of the window do not count.
Lost == {"OCCLUDED", "EXPIRED", "CONTRADICTED", "SPOOF_SUSPECT"}

\* A confirmed name has its votes, and as long as the window counts, so has
\* every name in it, as far as the votes are counted.
Backed(e) ==
    /\ e.state = "CONFIRMED" => e.name # Nil /\ e.votes[e.name] >= Needed
    /\ e.state \notin Lost =>
           \A n \in Names : e.votes[n] = Needed \/ Hits(e.window, n) <= e.votes[n]

EveryoneBacked == \A t \in Known : Backed(entities[t])

\* After the exclusivity pass a name has one holder until the next update.
Exclusive ==
    step = "enforced" => \A n \in Names : \A t, u \in Rivals(n) : t = u

IInv ==
    /\ TypeOK
    /\ EveryoneBacked
    /\ Exclusive
    /\ OneTrackPerName

=============================================================================
