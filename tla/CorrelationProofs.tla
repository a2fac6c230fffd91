--------------------------- MODULE CorrelationProofs ---------------------------
(***************************************************************************)
(* IInv of Correlation is inductive, and the properties follow from it.    *)
(* First the window of votes: what one more vote, and the loss of the      *)
(* oldest, do to the hits of a name.  Then every step of an entity.        *)
(***************************************************************************)
EXTENDS Correlation, FiniteSetTheorems, SequenceTheorems, TLAPS

Windows == UNION {[1 .. k -> Names] : k \in 0 .. Window}

LEMMA WindowIsSeq ==
  ASSUME NEW w
  PROVE  w \in Windows <=> w \in Seq(Names) /\ Len(w) <= Window
<1>1. ASSUME w \in Windows
      PROVE  w \in Seq(Names) /\ Len(w) <= Window
  <2>1. PICK k \in 0 .. Window : w \in [1 .. k -> Names]
    BY <1>1 DEF Windows
  <2>2. k \in Nat /\ k <= Window
    BY CorrelationAssumption
  <2>3. w \in Seq(Names)
    BY <2>1, <2>2
  <2>4. Len(w) = k
    BY <2>1, <2>2, <2>3
  <2> QED BY <2>2, <2>3, <2>4
<1>2. ASSUME w \in Seq(Names), Len(w) <= Window
      PROVE  w \in Windows
  <2>1. w \in [1 .. Len(w) -> Names] /\ Len(w) \in 0 .. Window
    BY <1>2, CorrelationAssumption
  <2> QED BY <2>1 DEF Windows
<1> QED BY <1>1, <1>2

\* Positions of a name in a window.
At(w, n) == {i \in 1 .. Len(w) : w[i] = n}

LEMMA HitsType ==
  ASSUME NEW w \in Seq(Names), NEW n
  PROVE  /\ Hits(w, n) = Cardinality(At(w, n))
         /\ IsFiniteSet(At(w, n)) /\ Hits(w, n) \in Nat
<1>1. Hits(w, n) = Cardinality(At(w, n))
  <2>1. {i \in DOMAIN w : w[i] = n} = At(w, n)
    BY DEF At
  <2> QED BY <2>1 DEF Hits
<1>2. IsFiniteSet(1 .. Len(w))
  BY FS_Interval
<1>3. IsFiniteSet(At(w, n))
  BY <1>2, FS_Subset DEF At
<1> QED BY <1>1, <1>3, FS_CardinalityType

LEMMA HitsOfNone ==
  ASSUME NEW n
  PROVE  Hits(<<>>, n) = 0
<1>1. {i \in DOMAIN <<>> : <<>>[i] = n} = {}
  OBVIOUS
<1> QED BY <1>1, FS_EmptySet DEF Hits

LEMMA HitsAppend ==
  ASSUME NEW w \in Seq(Names), NEW x \in Names, NEW n
  PROVE  /\ Append(w, x) \in Seq(Names) /\ Len(Append(w, x)) = Len(w) + 1
         /\ Hits(Append(w, x), n) = Hits(w, n) + (IF x = n THEN 1 ELSE 0)
<1> DEFINE a == Append(w, x)
<1>1. /\ a \in Seq(Names) /\ Len(a) = Len(w) + 1 /\ a[Len(w) + 1] = x
      /\ \A i \in 1 .. Len(w) : a[i] = w[i]
      /\ Len(w) \in Nat
  OBVIOUS
<1> HIDE DEF a
<1>2. Hits(a, n) = Cardinality(At(a, n)) /\ Hits(w, n) = Cardinality(At(w, n))
      /\ IsFiniteSet(At(w, n)) /\ Hits(w, n) \in Nat
  BY <1>1, HitsType
<1>3. CASE x = n
  <2>1. At(a, n) = At(w, n) \cup {Len(w) + 1}
    BY <1>1, <1>3 DEF At
  <2>2. Len(w) + 1 \notin At(w, n)
    BY <1>1 DEF At
  <2> QED BY <1>1, <1>2, <1>3, <2>1, <2>2, FS_AddElement DEF a
<1>4. CASE x # n
  <2>1. At(a, n) = At(w, n)
    BY <1>1, <1>4 DEF At
  <2> QED BY <1>1, <1>2, <1>4, <2>1 DEF a
<1> QED BY <1>3, <1>4

LEMMA HitsTail ==
  ASSUME NEW w \in Seq(Names), w # <<>>, NEW n
  PROVE  /\ Tail(w) \in Seq(Names) /\ Len(Tail(w)) = Len(w) - 1
         /\ Hits(Tail(w), n) <= Hits(w, n)
<1> DEFINE r == Tail(w)
<1>1. /\ r \in Seq(Names) /\ Len(r) = Len(w) - 1 /\ Len(w) \in Nat \ {0}
      /\ \A i \in 1 .. Len(w) - 1 : r[i] = w[i + 1]
  OBVIOUS
<1> HIDE DEF r
<1>2. Hits(r, n) = Cardinality(At(r, n)) /\ Hits(w, n) = Cardinality(At(w, n))
      /\ IsFiniteSet(At(w, n)) /\ IsFiniteSet(At(r, n))
  BY <1>1, HitsType
<1> DEFINE f == [i \in At(r, n) |-> i + 1]
<1>3. f \in [At(r, n) -> At(w, n)]
  BY <1>1 DEF At
<1>4. \A i, j \in At(r, n) : f[i] = f[j] => i = j
  BY <1>1 DEF At
<1>5. f \in Injection(At(r, n), At(w, n))
  BY <1>3, <1>4 DEF Injection, IsInjective
<1>6. Cardinality(At(r, n)) <= Cardinality(At(w, n))
  BY <1>2, <1>5, FS_Injection
<1> QED BY <1>1, <1>2, <1>6 DEF r

\* One more vote: the window keeps its bound, and a name gains at most its vote.
LEMMA OneMoreVote ==
  ASSUME NEW e \in EntityRecords, NEW x \in Names
  PROVE  /\ Voted(e, x) \in Windows
         /\ \A n \in Names :
                Hits(Voted(e, x), n) \in Nat
                /\ Hits(Voted(e, x), n) <=
                       (IF e.state \in Lost THEN 0 ELSE Hits(e.window, n))
                       + (IF x = n THEN 1 ELSE 0)
<1> DEFINE v == VotesThatCount(e)
<1> DEFINE a == Append(v, x)
<1>1. e.window \in Seq(Names) /\ Len(e.window) <= Window
  <2>1. e.window \in Windows
    BY DEF EntityRecords, Windows
  <2> QED BY <2>1, WindowIsSeq
<1>2. /\ v \in Seq(Names) /\ Len(v) <= Window
      /\ \A n : Hits(v, n) = (IF e.state \in Lost THEN 0 ELSE Hits(e.window, n))
  <2>1. CASE e.state \in Lost
    <3>1. v = <<>>
      BY <2>1 DEF VotesThatCount, Lost
    <3> QED BY <2>1, <3>1, HitsOfNone, CorrelationAssumption
  <2>2. CASE e.state \notin Lost
    BY <1>1, <2>2 DEF VotesThatCount, Lost
  <2> QED BY <2>1, <2>2
<1> HIDE DEF v
<1>3. /\ a \in Seq(Names) /\ Len(a) = Len(v) + 1
      /\ \A n \in Names : Hits(a, n) = Hits(v, n) + (IF x = n THEN 1 ELSE 0)
  BY <1>2, HitsAppend
<1>4. Voted(e, x) = IF Len(a) > Window THEN Tail(a) ELSE a
  BY DEF Voted, v
<1>5. a # <<>>
  BY <1>2
<1> HIDE DEF a
<1>6. /\ Tail(a) \in Seq(Names) /\ Len(Tail(a)) = Len(a) - 1
      /\ \A n \in Names : Hits(Tail(a), n) <= Hits(a, n)
  BY <1>3, <1>5, HitsTail
<1>7. /\ Voted(e, x) \in Seq(Names) /\ Len(Voted(e, x)) <= Window
      /\ \A n \in Names : Hits(Voted(e, x), n) <= Hits(a, n)
  <2>1. Len(v) \in Nat /\ Window \in Nat
    BY <1>2, CorrelationAssumption
  <2>2. \A n \in Names : Hits(a, n) \in Nat
    BY <1>3, HitsType
  <2>3. CASE Len(a) > Window
    BY <1>2, <1>3, <1>4, <1>6, <2>1, <2>3
  <2>4. CASE ~(Len(a) > Window)
    BY <1>2, <1>3, <1>4, <2>1, <2>2, <2>4
  <2> QED BY <2>3, <2>4
<1>8. Voted(e, x) \in Windows
  BY <1>7, WindowIsSeq
<1>9. \A n \in Names : Hits(Voted(e, x), n) \in Nat
  BY <1>7, HitsType
<1> QED BY <1>2, <1>3, <1>7, <1>8, <1>9

-----------------------------------------------------------------------------
(* The steps of one entity *)

Good(e) == e \in EntityRecords /\ Backed(e)

\* An entity that no step has made more of than it was: if it is confirmed and
\* fresh it was so before, under the same name.
Within(f, e) ==
  /\ f.active = e.active
  /\ f.state = "CONFIRMED" /\ f.fresh =>
         e.state = "CONFIRMED" /\ e.fresh /\ f.name = e.name

LEMMA NoVotesType == NoVotes \in [Names -> 0 .. Needed] /\ \A n \in Names : NoVotes[n] = 0
BY CorrelationAssumption DEF NoVotes

LEMMA EmptyWindow == <<>> \in Windows
<1>1. <<>> \in Seq(Names) /\ Len(<<>>) <= Window
  BY CorrelationAssumption
<1> QED BY <1>1, WindowIsSeq

LEMMA NewEntityGood == Good(NewEntity)
<1>1. NewEntity \in EntityRecords
  BY NoVotesType, EmptyWindow
     DEF NewEntity, EntityRecords, Windows, IdentityStates, LivenessStates
<1>2. Backed(NewEntity)
  BY NoVotesType, HitsOfNone DEF NewEntity, Backed
<1> QED BY <1>1, <1>2 DEF Good

LEMMA CachedGood ==
  ASSUME NEW e, Good(e)
  PROVE  Good(Cached(e))
<1>1. PICK f : f = [e EXCEPT !.fresh = FALSE]
  OBVIOUS
<1>2. /\ f \in EntityRecords /\ f.state = e.state /\ f.name = e.name
      /\ f.window = e.window /\ f.votes = e.votes
  BY <1>1 DEF Good, EntityRecords
<1>3. Backed(f)
  BY <1>2 DEF Good, Backed
<1> QED BY <1>1, <1>2, <1>3 DEF Good, Cached

LEMMA ActivityGood ==
  ASSUME NEW e, Good(e), NEW on \in BOOLEAN
  PROVE  Good([e EXCEPT !.active = on])
<1>1. PICK f : f = [e EXCEPT !.active = on]
  OBVIOUS
<1>2. /\ f \in EntityRecords /\ f.state = e.state /\ f.name = e.name
      /\ f.window = e.window /\ f.votes = e.votes
  BY <1>1 DEF Good, EntityRecords
<1>3. Backed(f)
  BY <1>2 DEF Good, Backed
<1> QED BY <1>1, <1>2, <1>3 DEF Good

LEMMA CheckedGood ==
  ASSUME NEW e, Good(e), NEW liveness \in LivenessStates
  PROVE  Good(Checked(e, liveness))
<1>1. CASE liveness = "SPOOF_SUSPECT"
  <2>1. PICK f : f = [e EXCEPT !.liveness = liveness, !.state = "SPOOF_SUSPECT",
                               !.eligible = FALSE, !.votes = NoVotes]
    OBVIOUS
  <2>2. f \in EntityRecords /\ f.state = "SPOOF_SUSPECT"
    BY <2>1, NoVotesType DEF Good, EntityRecords, IdentityStates
  <2>3. Backed(f)
    BY <2>2 DEF Backed, Lost
  <2> QED BY <1>1, <2>1, <2>2, <2>3 DEF Good, Checked
<1>2. CASE liveness # "SPOOF_SUSPECT"
  <2>1. PICK f : f = [e EXCEPT !.liveness = liveness]
    OBVIOUS
  <2>2. /\ f \in EntityRecords /\ f.state = e.state /\ f.name = e.name
        /\ f.window = e.window /\ f.votes = e.votes
    BY <2>1 DEF Good, EntityRecords
  <2>3. Backed(f)
    BY <2>2 DEF Good, Backed
  <2> QED BY <1>2, <2>1, <2>2, <2>3 DEF Good, Checked
<1> QED BY <1>1, <1>2

LEMMA AgedGood ==
  ASSUME NEW e, Good(e), NEW age \in Ages
  PROVE  Good(Aged(e, age)) /\ Within(Aged(e, age), e)
<1>1. CASE e.state \in {"CONFIRMED", "OCCLUDED"} /\ age \in {"stale", "expired"}
  <2>1. PICK f : f = [e EXCEPT !.state = IF age = "stale" THEN "OCCLUDED" ELSE "EXPIRED",
                               !.fresh = FALSE, !.votes = NoVotes]
    OBVIOUS
  <2>2. /\ f \in EntityRecords /\ f.state \in {"OCCLUDED", "EXPIRED"}
        /\ f.active = e.active
    BY <2>1, NoVotesType DEF Good, EntityRecords, IdentityStates
  <2>3. Backed(f) /\ Within(f, e)
    BY <2>2 DEF Backed, Lost, Within
  <2> QED BY <1>1, <2>1, <2>2, <2>3 DEF Good, Aged
<1>2. CASE /\ e.state \in {"CANDIDATE", "CONTRADICTED"} /\ age = "expired"
  <2>1. PICK f : f = [e EXCEPT !.state = "EXPIRED", !.window = <<>>, !.fresh = FALSE,
                               !.votes = NoVotes]
    OBVIOUS
  <2>2. f \in EntityRecords /\ f.state = "EXPIRED" /\ f.active = e.active
    BY <2>1, NoVotesType, EmptyWindow DEF Good, EntityRecords, IdentityStates, Windows
  <2>3. Backed(f) /\ Within(f, e)
    BY <2>2 DEF Backed, Lost, Within
  <2> QED BY <1>2, <2>1, <2>2, <2>3 DEF Good, Aged
<1>3. CASE /\ ~(e.state \in {"CONFIRMED", "OCCLUDED"} /\ age \in {"stale", "expired"})
           /\ ~(e.state \in {"CANDIDATE", "CONTRADICTED"} /\ age = "expired")
  BY <1>3 DEF Aged, Within
<1> QED BY <1>1, <1>2, <1>3

LEMMA RefreshedGood ==
  ASSUME NEW e, Good(e), NEW age \in Ages
  PROVE  /\ Good(Refreshed(e, age)) /\ Within(Refreshed(e, age), e)
         /\ Refreshed(e, age).eligible =>
                /\ Refreshed(e, age).active /\ Refreshed(e, age).state = "CONFIRMED"
                /\ Refreshed(e, age).fresh
<1> DEFINE a == Aged(e, age)
<1> DEFINE open == /\ a.active /\ age = "current"
                   /\ a.state = "CONFIRMED" /\ a.fresh
                   /\ a.liveness = "REAL"
<1>1. Good(a) /\ Within(a, e)
  BY AgedGood
<1>2. Refreshed(e, age) = [a EXCEPT !.eligible = open]
  BY DEF Refreshed
<1>3. open \in BOOLEAN
  OBVIOUS
<1>4. open => a.active /\ a.state = "CONFIRMED" /\ a.fresh
  BY <1>1 DEF Good, EntityRecords
<1> HIDE DEF a, open
<1>5. PICK f : f = [a EXCEPT !.eligible = open]
  OBVIOUS
<1>6. /\ f \in EntityRecords /\ f.state = a.state /\ f.name = a.name
      /\ f.window = a.window /\ f.votes = a.votes /\ f.active = a.active
      /\ f.fresh = a.fresh /\ f.eligible = open
  BY <1>1, <1>3, <1>5 DEF Good, EntityRecords
<1>7. Backed(f) /\ Within(f, e)
  BY <1>1, <1>6 DEF Good, Backed, Within
<1> QED BY <1>2, <1>4, <1>5, <1>6, <1>7 DEF Good

LEMMA SummarisedGood ==
  ASSUME NEW e, Good(e), NEW age \in Ages, NEW forgotten \in BOOLEAN
  PROVE  /\ Good(Summarised(e, age, forgotten)) /\ Within(Summarised(e, age, forgotten), e)
         /\ Summarised(e, age, forgotten).eligible =>
                /\ Summarised(e, age, forgotten).active
                /\ Summarised(e, age, forgotten).state = "CONFIRMED"
                /\ Summarised(e, age, forgotten).fresh
<1>1. CASE ~forgotten
  BY <1>1, RefreshedGood DEF Summarised
<1>2. CASE forgotten
  <2>1. PICK f : f = [e EXCEPT !.liveness = "NOT_EVALUATED"]
    OBVIOUS
  <2>2. /\ f \in EntityRecords /\ f.state = e.state /\ f.name = e.name
        /\ f.window = e.window /\ f.votes = e.votes /\ f.active = e.active
        /\ f.fresh = e.fresh
    BY <2>1 DEF Good, EntityRecords, LivenessStates
  <2>3. Good(f)
    BY <2>2 DEF Good, Backed
  <2>4. Summarised(e, age, forgotten) = Refreshed(f, age)
    BY <1>2, <2>1 DEF Summarised
  <2>5. Within(Refreshed(f, age), f) => Within(Refreshed(f, age), e)
    BY <2>2 DEF Within
  <2> QED BY <2>3, <2>4, <2>5, RefreshedGood
<1> QED BY <1>1, <1>2

LEMMA ContradictedGood ==
  ASSUME NEW e, Good(e)
  PROVE  Good(Contradicted(e)) /\ Contradicted(e).state = "CONTRADICTED"
<1>1. PICK f : f = [e EXCEPT !.state = "CONTRADICTED", !.window = <<>>, !.fresh = FALSE,
                             !.eligible = FALSE, !.votes = NoVotes]
  OBVIOUS
<1>2. f \in EntityRecords /\ f.state = "CONTRADICTED"
  BY <1>1, NoVotesType, EmptyWindow DEF Good, EntityRecords, IdentityStates, Windows
<1>3. Backed(f)
  BY <1>2 DEF Backed, Lost
<1> QED BY <1>1, <1>2, <1>3 DEF Good, Contradicted

LEMMA IdentifiedGood ==
  ASSUME NEW e, Good(e), NEW answer \in Answers
  PROVE  Good(Identified(e, answer))
<1>1. CASE answer.name # Nil /\ ~Contradicts(e, answer)
  <2> DEFINE x == answer.name
             v == Voted(e, x)
             confirmed == Hits(v, x) >= Needed
             votes == [e.votes EXCEPT ![x] = IF @ < Needed THEN @ + 1 ELSE @]
             state == IF confirmed THEN "CONFIRMED" ELSE "CANDIDATE"
             name == IF confirmed THEN x ELSE e.name
  <2>1. x \in Names
    BY <1>1 DEF Answers
  <2>2. PICK f : f = [e EXCEPT !.fresh = TRUE, !.window = v, !.state = state,
                               !.name = name, !.votes = votes]
    OBVIOUS
  <2>3. Identified(e, answer) = f
    BY <1>1, <2>2 DEF Identified
  <2>4. e.votes \in [Names -> 0 .. Needed] /\ e.name \in Names \cup {Nil}
    BY DEF Good, EntityRecords
  <2>5. /\ votes \in [Names -> 0 .. Needed]
        /\ \A n \in Names : votes[n] = (IF n = x /\ e.votes[n] < Needed
                                        THEN e.votes[n] + 1 ELSE e.votes[n])
    BY <2>1, <2>4, CorrelationAssumption
  <2>6. /\ v \in Windows
        /\ \A n \in Names : Hits(v, n) \in Nat
               /\ Hits(v, n) <= (IF e.state \in Lost THEN 0 ELSE Hits(e.window, n))
                                 + (IF x = n THEN 1 ELSE 0)
    BY <2>1, OneMoreVote DEF Good
  <2>7. /\ state \in {"CONFIRMED", "CANDIDATE"} /\ name \in Names \cup {Nil}
        /\ state = "CONFIRMED" => name = x /\ Hits(v, x) >= Needed
    BY <2>1, <2>4
  <2> HIDE DEF v, votes, state, name, x
  <2>8. /\ f \in EntityRecords /\ f.state = state /\ f.name = name /\ f.votes = votes
        /\ f.window = v
    BY <2>2, <2>5, <2>6, <2>7 DEF Good, EntityRecords, IdentityStates, Windows
  <2>9. ASSUME NEW n \in Names
        PROVE  votes[n] = Needed \/ Hits(v, n) <= votes[n]
    <3>1. e.votes[n] \in 0 .. Needed /\ Needed \in Nat \ {0} /\ Hits(v, n) \in Nat
      BY <2>4, <2>6, CorrelationAssumption
    <3>2. votes[n] = (IF n = x /\ e.votes[n] < Needed THEN e.votes[n] + 1 ELSE e.votes[n])
      BY <2>5
    <3>3. e.state \notin Lost => e.votes[n] = Needed \/ Hits(e.window, n) <= e.votes[n]
      BY DEF Good, Backed
    <3>4. Hits(v, n) <= (IF e.state \in Lost THEN 0 ELSE Hits(e.window, n))
                        + (IF x = n THEN 1 ELSE 0)
      BY <2>6
    <3>5. Hits(e.window, n) \in Nat
      <4>1. e.window \in Seq(Names)
        BY WindowIsSeq DEF Good, EntityRecords, Windows
      <4> QED BY <4>1, HitsType
    <3>6. CASE e.state \in Lost
      BY <3>1, <3>2, <3>4, <3>6
    <3>7. CASE e.state \notin Lost
      BY <3>1, <3>2, <3>3, <3>4, <3>5, <3>7
    <3> QED BY <3>6, <3>7
  <2>10. state = "CONFIRMED" => name # Nil /\ votes[name] >= Needed
    <3>1. votes[x] = Needed \/ Hits(v, x) <= votes[x]
      BY <2>1, <2>9
    <3>2. votes[x] \in 0 .. Needed /\ Hits(v, x) \in Nat /\ Needed \in Nat
      BY <2>1, <2>5, <2>6, CorrelationAssumption
    <3> QED BY <2>1, <2>7, <3>1, <3>2, CorrelationAssumption
  <2>11. Backed(f)
    BY <2>7, <2>8, <2>9, <2>10 DEF Backed
  <2> QED BY <2>3, <2>8, <2>11 DEF Good
<1>2. CASE ~(answer.name # Nil /\ ~Contradicts(e, answer))
  <2> DEFINE state == IF Contradicts(e, answer) THEN "CONTRADICTED" ELSE answer.state
  <2>1. PICK f : f = [e EXCEPT !.fresh = TRUE, !.window = <<>>, !.state = state,
                               !.votes = NoVotes]
    OBVIOUS
  <2>2. Identified(e, answer) = f
    BY <1>2, <2>1 DEF Identified
  <2>3. state \in IdentityStates /\ state # "CONFIRMED"
    BY <1>2 DEF Answers, IdentityStates
  <2> HIDE DEF state
  <2>4. /\ f \in EntityRecords /\ f.state = state /\ f.window = <<>>
        /\ f.votes = NoVotes
    BY <2>1, <2>3, NoVotesType, EmptyWindow DEF Good, EntityRecords, Windows
  <2>5. Backed(f)
    BY <2>3, <2>4, HitsOfNone, NoVotesType DEF Backed
  <2> QED BY <2>2, <2>4, <2>5 DEF Good
<1> QED BY <1>1, <1>2

-----------------------------------------------------------------------------
(* The steps of the system *)

\* A rival in the next state was one before, when its entity is within what it was.
LEMMA RivalsWithin ==
  ASSUME NEW n \in Names,
         \A t \in Known' : t \in Known /\ Within(entities'[t], entities[t])
  PROVE  Rivals(n)' \subseteq Rivals(n)
BY DEF Rivals, Within

LEMMA TrackKeeps ==
  ASSUME IInv, NEW seen \in SUBSET Tracks, NEW switched \in SUBSET Tracks,
         NEW closed \in SUBSET Tracks, Track(seen, switched, closed)
  PROVE  IInv'
<1>1. ASSUME NEW t \in Tracks
      PROVE  entities'[t] = Nil \/ Good(entities'[t])
  <2>1. t \in Known => Good(entities[t])
    BY DEF IInv, TypeOK, EveryoneBacked, Good, Known
  <2>2. entities'[t] = (IF t \in seen
           THEN IF t \in Known \ switched THEN [entities[t] EXCEPT !.active = TRUE]
                ELSE NewEntity
           ELSE IF t \in Known \ closed THEN [entities[t] EXCEPT !.active = FALSE]
           ELSE Nil)
    BY DEF Track
  <2> QED BY <2>1, <2>2, ActivityGood, NewEntityGood
<1>2. entities' \in [Tracks -> EntityRecords \cup {Nil}] /\ EveryoneBacked'
  <2>1. DOMAIN entities' = Tracks /\ entities' = [t \in Tracks |-> entities'[t]]
    BY DEF Track
  <2> QED BY <1>1, <2>1 DEF EveryoneBacked, Known, Good, Backed
<1>3. faces' \in 0 .. MaxFaces
  BY CorrelationAssumption DEF Track
<1> QED BY <1>2, <1>3 DEF Track, IInv, TypeOK, Exclusive, OneTrackPerName

LEMMA AttachFaceKeeps ==
  ASSUME IInv, NEW t \in Tracks, NEW liveness \in LivenessStates,
         AttachFace(t, liveness)
  PROVE  IInv'
<1>1. t \in Known /\ Good(entities[t]) /\ entities \in [Tracks -> EntityRecords \cup {Nil}]
  BY DEF AttachFace, IInv, TypeOK, EveryoneBacked, Good, Known
<1>2. PICK f : Good(f) /\ entities' = [entities EXCEPT ![t] = f]
  <2>1. CASE entities' = [entities EXCEPT ![t] = Checked(Cached(@), liveness)]
    BY <1>1, <2>1, CachedGood, CheckedGood
  <2>2. CASE \E answer \in Answers :
               entities' = [entities EXCEPT ![t] = Checked(Identified(@, answer), liveness)]
    BY <1>1, <2>2, IdentifiedGood, CheckedGood
  <2> QED BY <2>1, <2>2 DEF AttachFace
<1>3. entities' \in [Tracks -> EntityRecords \cup {Nil}] /\ EveryoneBacked'
  <2>1. \A u \in Tracks : entities'[u] = IF u = t THEN f ELSE entities[u]
    BY <1>1, <1>2
  <2>2. \A u \in Tracks : entities[u] # Nil => Backed(entities[u])
    BY DEF IInv, EveryoneBacked, Known
  <2> QED BY <1>1, <1>2, <2>1, <2>2 DEF EveryoneBacked, Known, Good, Backed
<1>4. faces' \in 0 .. MaxFaces
  BY CorrelationAssumption DEF AttachFace, IInv, TypeOK
<1> QED BY <1>3, <1>4 DEF AttachFace, IInv, TypeOK, Exclusive, OneTrackPerName

LEMMA EnforceKeeps ==
  ASSUME IInv, NEW winners \in SUBSET Tracks, Enforce(winners)
  PROVE  IInv'
<1> DEFINE loser(t) == \E n \in Names : t \in Rivals(n) \ winners
<1>1. entities \in [Tracks -> EntityRecords \cup {Nil}]
      /\ \A t \in Known : Good(entities[t])
  BY DEF IInv, TypeOK, EveryoneBacked, Good, Known
<1>2. \A t \in Tracks : entities'[t] = IF loser(t) THEN Contradicted(entities[t])
                                      ELSE entities[t]
  BY DEF Enforce
<1>3. \A t \in Tracks : loser(t) => t \in Known
  BY DEF Rivals
<1>4. ASSUME NEW t \in Tracks
      PROVE  entities'[t] = Nil \/ Good(entities'[t])
  BY <1>1, <1>2, <1>3, ContradictedGood DEF Known
<1>5. entities' \in [Tracks -> EntityRecords \cup {Nil}] /\ EveryoneBacked'
  <2>1. entities' = [t \in Tracks |-> entities'[t]]
    BY DEF Enforce
  <2> QED BY <1>4, <2>1 DEF EveryoneBacked, Known, Good, Backed
<1>6. Exclusive'
  <2>1. SUFFICES ASSUME NEW n \in Names, NEW t \in Rivals(n)', NEW u \in Rivals(n)'
                 PROVE  t = u
    BY DEF Exclusive
  <2>2. ASSUME NEW x \in Rivals(n)'
        PROVE  x \in Rivals(n) \cap winners
    <3>1. x \in Tracks /\ entities'[x] # Nil /\ entities'[x].state = "CONFIRMED"
      BY <2>2 DEF Rivals, Known
    <3>2. ~loser(x)
      <4>1. loser(x) => Contradicted(entities[x]).state = "CONTRADICTED"
        BY <1>1, <1>3, <3>1, ContradictedGood
      <4> QED BY <1>2, <3>1, <4>1
    <3>3. entities'[x] = entities[x]
      BY <1>2, <3>1, <3>2
    <3>4. x \in Rivals(n)
      BY <2>2, <3>3 DEF Rivals, Known
    <3> QED BY <3>2, <3>4
  <2>3. t \in Rivals(n) \cap winners /\ u \in Rivals(n) \cap winners
    BY <2>2
  <2>4. Cardinality(Rivals(n) \cap winners) = 1
    BY <2>3 DEF Enforce
  <2>5. IsFiniteSet(Rivals(n) \cap winners)
    BY CorrelationAssumption, FS_Subset
  <2>6. PICK y : Rivals(n) \cap winners = {y}
    BY <2>4, <2>5, FS_Singleton
  <2> QED BY <2>3, <2>6
<1> QED BY <1>5, <1>6 DEF Enforce, IInv, TypeOK, OneTrackPerName

LEMMA PublishKeeps ==
  ASSUME IInv, NEW age \in [Tracks -> Ages], NEW forgotten \in SUBSET Tracks,
         Publish(age, forgotten)
  PROVE  IInv'
<1>1. entities \in [Tracks -> EntityRecords \cup {Nil}]
      /\ \A t \in Known : Good(entities[t])
  BY DEF IInv, TypeOK, EveryoneBacked, Good, Known
<1>2. \A t \in Tracks : entities'[t] =
          IF t \in Known THEN Summarised(entities[t], age[t], t \in forgotten) ELSE Nil
  BY DEF Publish
<1>3. ASSUME NEW t \in Known
      PROVE  /\ Good(entities'[t]) /\ Within(entities'[t], entities[t])
             /\ entities'[t].eligible =>
                    /\ entities'[t].active /\ entities'[t].state = "CONFIRMED"
                    /\ entities'[t].fresh
  <2>1. t \in Tracks /\ age[t] \in Ages /\ (t \in forgotten) \in BOOLEAN
    BY DEF Known
  <2> DEFINE forgot == t \in forgotten
  <2>2. entities'[t] = Summarised(entities[t], age[t], forgot)
    BY <1>2, <2>1
  <2>3. forgot \in BOOLEAN
    OBVIOUS
  <2> HIDE DEF forgot
  <2> QED BY <1>1, <2>1, <2>2, <2>3, SummarisedGood
<1>4. entities' \in [Tracks -> EntityRecords \cup {Nil}] /\ EveryoneBacked'
  <2>1. entities' = [t \in Tracks |-> entities'[t]]
    BY DEF Publish
  <2>2. \A t \in Tracks : t \in Known \/ entities'[t] = Nil
    BY <1>2
  <2> QED BY <1>3, <2>1, <2>2 DEF EveryoneBacked, Known, Good, Backed
<1>5. \A t \in Known' : t \in Known
  BY <1>2 DEF Known
<1>6. /\ step = "enforced" /\ step' = "idle" /\ faces' = faces
      /\ published' = {<<t, entities'[t].name>> :
                          t \in {u \in Known : entities'[u].eligible}}
  BY DEF Publish
<1>7. ASSUME NEW t \in Known, entities'[t].eligible
      PROVE  /\ t \in Tracks /\ entities'[t].name \in Names
             /\ t \in Rivals(entities'[t].name)
  <2>1. /\ entities'[t].active /\ entities'[t].state = "CONFIRMED"
        /\ entities'[t].fresh
        /\ Good(entities'[t]) /\ Within(entities'[t], entities[t])
    BY <1>3, <1>7
  <2>2. entities'[t].name \in Names
    BY <2>1 DEF Good, Backed, EntityRecords
  <2>3. /\ entities[t].active /\ entities[t].state = "CONFIRMED"
        /\ entities[t].fresh /\ entities[t].name = entities'[t].name
    BY <2>1 DEF Within
  <2> QED BY <2>2, <2>3 DEF Rivals, Known
<1>8. published' \subseteq Tracks \X Names
  BY <1>6, <1>7
<1>9. OneTrackPerName'
  <2>1. SUFFICES ASSUME NEW p \in published', NEW q \in published', p[2] = q[2]
                 PROVE  p = q
    BY DEF OneTrackPerName
  <2>2. PICK t \in Known : entities'[t].eligible /\ p = <<t, entities'[t].name>>
    BY <1>6
  <2>3. PICK u \in Known : entities'[u].eligible /\ q = <<u, entities'[u].name>>
    BY <1>6
  <2>4. entities'[t].name = entities'[u].name
    BY <2>1, <2>2, <2>3
  <2>5. t = u
    BY <1>6, <1>7, <2>2, <2>3, <2>4 DEF IInv, Exclusive
  <2> QED BY <2>2, <2>3, <2>5
<1> QED BY <1>4, <1>6, <1>8, <1>9 DEF IInv, TypeOK, Exclusive

LEMMA AskKeeps ==
  ASSUME IInv, NEW t \in Tracks, NEW age \in Ages, Ask(t, age)
  PROVE  IInv'
<1>1. /\ t \in Known /\ Good(entities[t])
      /\ entities \in [Tracks -> EntityRecords \cup {Nil}]
  BY DEF Ask, IInv, TypeOK, EveryoneBacked, Good, Known
<1>2. PICK f : f = Refreshed(entities[t], age)
  OBVIOUS
<1>3. Good(f) /\ Within(f, entities[t])
  BY <1>1, <1>2, RefreshedGood
<1>4. entities' = [entities EXCEPT ![t] = f]
  BY <1>2 DEF Ask
<1>5. \A u \in Tracks : entities'[u] = IF u = t THEN f ELSE entities[u]
  BY <1>1, <1>4
<1>6. entities' \in [Tracks -> EntityRecords \cup {Nil}] /\ EveryoneBacked'
  <2>1. \A u \in Tracks : entities[u] # Nil => Backed(entities[u])
    BY DEF IInv, EveryoneBacked, Known
  <2> QED BY <1>1, <1>3, <1>4, <1>5, <2>1 DEF EveryoneBacked, Known, Good, Backed
<1>7. \A u \in Known' : u \in Known /\ Within(entities'[u], entities[u])
  <2>1. \A u \in Tracks : Within(entities[u], entities[u])
    BY DEF Within
  <2> QED BY <1>1, <1>3, <1>5, <2>1 DEF Known
<1>8. \A n \in Names : Rivals(n)' \subseteq Rivals(n)
  BY <1>7, RivalsWithin
<1>9. Exclusive'
  BY <1>8 DEF Ask, IInv, Exclusive
<1> QED BY <1>6, <1>9 DEF Ask, IInv, TypeOK, OneTrackPerName

-----------------------------------------------------------------------------
(* The theorems *)

\* Init establishes the invariant: nobody is known, nothing is published.
LEMMA InitIInv == Init => IInv
BY CorrelationAssumption
   DEF Init, IInv, TypeOK, EveryoneBacked, Exclusive, OneTrackPerName, Known

LEMMA NextKeeps == IInv /\ [Next]_vars => IInv'
<1> SUFFICES ASSUME IInv, [Next]_vars PROVE IInv'
  OBVIOUS
<1>1. CASE \E seen, switched, closed \in SUBSET Tracks : Track(seen, switched, closed)
  BY <1>1, TrackKeeps
<1>2. CASE \E t \in Tracks, liveness \in LivenessStates : AttachFace(t, liveness)
  BY <1>2, AttachFaceKeeps
<1>3. CASE \E winners \in SUBSET Tracks : Enforce(winners)
  BY <1>3, EnforceKeeps
<1>4. CASE \E age \in [Tracks -> Ages], forgotten \in SUBSET Tracks :
             Publish(age, forgotten)
  BY <1>4, PublishKeeps
<1>5. CASE \E t \in Tracks, age \in Ages : Ask(t, age)
  BY <1>5, AskKeeps
<1>6. CASE UNCHANGED vars
  <2>1. TypeOK' /\ OneTrackPerName'
    BY <1>6 DEF vars, IInv, TypeOK, OneTrackPerName
  <2>2. EveryoneBacked'
    BY <1>6 DEF vars, IInv, EveryoneBacked, Known, Backed
  <2>3. Exclusive'
    BY <1>6 DEF vars, IInv, Exclusive, Rivals, Known
  <2> QED BY <2>1, <2>2, <2>3 DEF IInv
<1> QED BY <1>1, <1>2, <1>3, <1>4, <1>5, <1>6 DEF Next

\* The inductive invariant holds in every reachable state.
THEOREM Invariance == Spec => []IInv
BY InitIInv, NextKeeps, PTL DEF Spec

\* Every part of the state is of its type, and the window keeps its bound.
THEOREM TypeCorrect == Spec => []TypeOK
BY Invariance, PTL DEF IInv

\* In a published result a name is eligible on one track
\* (enforce_identity_exclusivity, then _entity_snapshot).
THEOREM OneTrackPerNameHolds == Spec => []OneTrackPerName
BY Invariance, PTL DEF IInv

\* A confirmed name has its votes since it was last in doubt
\* (EntityState.attach, EntityState.refresh).
THEOREM ConfirmedByVotesHolds == Spec => []ConfirmedByVotes
<1>1. IInv => ConfirmedByVotes
  BY DEF IInv, EveryoneBacked, Backed, ConfirmedByVotes
<1> QED BY Invariance, <1>1, PTL
=============================================================================
