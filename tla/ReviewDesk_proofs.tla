--------------------------- MODULE ReviewDesk_proofs ---------------------------
(***************************************************************************)
(* What holds of ReviewDesk for every number of fields, sessions and       *)
(* connections and every page size, whether the gate is engaged or not.    *)
(***************************************************************************)
EXTENDS ReviewDesk, FiniteSetTheorems, FunctionTheorems, WellFoundedInduction, TLAPS

\* A request that is about to decide, or has been refused, names an id and says what to do
\* with it.
Deciding == {"posting", "calling", "deciding", "applying", "complaining"}

BusyHaveTargets ==
  \A s \in Sessions : pc[s] \in Deciding => target[s] \in Ids /\ intent[s] \in Actions

\* With the totality that TypeOK states, times is a linear order.
TimesAreOrdered ==
  /\ \A x, y \in Stamped : ~(Earlier(x, y) /\ Earlier(y, x))
  /\ \A x, y, z \in Stamped : Earlier(x, y) /\ Earlier(y, z) => Earlier(x, z)

ReviewedHaveTimes == Reviewed \subseteq Stamped

\* What is still owed is listed past the windows that have been read.
FeedIsAhead ==
  /\ owed \subseteq Reviewed
  /\ \A f \in owed : offset <= Cardinality(Newer(f))
  /\ offset = 0 => owed = {}

\* The inductive invariant.
IInv ==
  /\ TypeOK
  /\ BusyHaveTargets
  /\ TimesAreOrdered
  /\ ReviewedHaveTimes
  /\ FeedIsAhead

-------------------------------------------------------------------------------
(* The listing *)

\* Decisions are finitely many, and so are those newer than one of them.
LEMMA ListingIsFinite ==
  /\ IsFiniteSet(Reviewed) /\ Cardinality(Reviewed) \in Nat
  /\ \A f \in Reviewed : IsFiniteSet(Newer(f)) /\ Cardinality(Newer(f)) \in Nat
<1>1. IsFiniteSet(Reviewed)
  BY DeskAssumption, FS_Subset DEF Reviewed
<1>2. \A f \in Reviewed : Newer(f) \in SUBSET Reviewed
  BY DEF Newer
<1> QED BY <1>1, <1>2, FS_Subset, FS_CardinalityType

\* Decisions stand at different places of the listing, from the first to the last.
LEMMA PlacesAreDistinct ==
  ASSUME TimesAreOrdered, ReviewedHaveTimes,
         \A x, y \in Stamped : Earlier(x, y) \/ Earlier(y, x) <=> x # y
  PROVE  [f \in Reviewed |-> Cardinality(Newer(f))]
            \in Injection(Reviewed, 0..(Cardinality(Reviewed) - 1))
<1> DEFINE place == [f \in Reviewed |-> Cardinality(Newer(f))]
<1>1. ASSUME NEW f \in Reviewed, NEW g \in Reviewed, Earlier(f, g)
      PROVE  place[f] # place[g]
  <2>1. Newer(g) \in SUBSET Newer(f) /\ g \in Newer(f) /\ g \notin Newer(g)
    BY <1>1 DEF Newer, TimesAreOrdered, ReviewedHaveTimes, Earlier
  <2>2. Cardinality(Newer(g)) # Cardinality(Newer(f))
    BY <2>1, ListingIsFinite, FS_Subset
  <2> QED BY <2>2
<1>2. ASSUME NEW f \in Reviewed
      PROVE  place[f] \in 0..(Cardinality(Reviewed) - 1)
  <2>1. Newer(f) \in SUBSET (Reviewed \ {f})
    BY DEF Newer, Earlier
  <2>2. /\ IsFiniteSet(Reviewed \ {f})
        /\ Cardinality(Reviewed \ {f}) = Cardinality(Reviewed) - 1
    BY ListingIsFinite, FS_RemoveElement
  <2>3. Cardinality(Newer(f)) <= Cardinality(Reviewed) - 1
    BY <2>1, <2>2, FS_Subset
  <2> QED BY <2>3, ListingIsFinite
<1>3. \A f, g \in Reviewed : place[f] = place[g] => f = g
  BY <1>1 DEF ReviewedHaveTimes
<1>4. place \in [Reviewed -> 0..(Cardinality(Reviewed) - 1)]
  BY <1>2
<1> HIDE DEF place
<1>5. place \in Injection(Reviewed, 0..(Cardinality(Reviewed) - 1))
  BY <1>3, <1>4, Fun_IsInj
<1> QED BY <1>5 DEF place

\* A window that is short is the last: nothing is listed behind it.
LEMMA ShortWindowIsLast ==
  ASSUME IInv, Cardinality(Window) < PageSize, NEW f \in Reviewed
  PROVE  Cardinality(Newer(f)) < offset + PageSize
<1> SUFFICES ASSUME Cardinality(Newer(f)) >= offset + PageSize
             PROVE  FALSE
  BY ListingIsFinite, DeskAssumption DEF IInv, TypeOK
<1> DEFINE n == Cardinality(Reviewed)
           place == [g \in Reviewed |-> Cardinality(Newer(g))]
           places == offset..(offset + PageSize - 1)
<1>1. /\ offset \in Nat /\ PageSize \in Nat /\ PageSize > 0 /\ n \in Nat
      /\ Cardinality(Newer(f)) \in Nat
  BY ListingIsFinite, DeskAssumption DEF IInv, TypeOK
<1>2. place \in Injection(Reviewed, 0..(n - 1))
  BY PlacesAreDistinct DEF IInv, TypeOK
<1>3. n > 0 /\ n - 1 >= offset + PageSize
  <2>1. place[f] \in 0..(n - 1)
    BY <1>2, Fun_IsInj DEF Injection
  <2> QED BY <1>1, <2>1
<1>4. place \in Surjection(Reviewed, 0..(n - 1))
  <2>1. IsFiniteSet(0..(n - 1)) /\ Cardinality(0..(n - 1)) = n
    BY <1>1, <1>3, FS_Interval
  <2> QED BY <1>2, <2>1, FS_Injection
<1>5. \A k \in places : \E g \in Window : Cardinality(Newer(g)) = k
  <2> TAKE k \in places
  <2>1. k \in 0..(n - 1)
    BY <1>1, <1>3
  <2>2. PICK g \in Reviewed : place[g] = k
    BY <1>4, <2>1 DEF Surjection
  <2> QED BY <2>2 DEF Window
<1> DEFINE seat == [g \in Window |-> Cardinality(Newer(g))]
<1>6. seat \in Surjection(Window, places)
  <2>1. seat \in [Window -> places]
    BY DEF Window
  <2>2. \A k \in places : \E g \in Window : seat[g] = k
    BY <1>5
  <2> HIDE DEF seat, places
  <2> QED BY <2>1, <2>2 DEF Surjection
<1>7. IsFiniteSet(Window) /\ Cardinality(Window) \in Nat
  <2>1. Window \in SUBSET Reviewed
    BY DEF Window
  <2> QED BY <2>1, ListingIsFinite, FS_Subset, FS_CardinalityType
<1>8. Cardinality(places) <= Cardinality(Window)
  <2> HIDE DEF seat, places
  <2> QED BY <1>6, <1>7, FS_Surjection
<1>9. Cardinality(places) = PageSize
  BY <1>1, FS_Interval
<1> QED BY <1>1, <1>7, <1>8, <1>9

-------------------------------------------------------------------------------
(* Steps *)

\* What is owed stays ahead when decisions are only added, in front of or among the others.
LEMMA FeedKept ==
  ASSUME FeedIsAhead, offset \in Nat, UNCHANGED feed, Reviewed \subseteq Reviewed',
         \A f, g \in Reviewed : Earlier(f, g) => Earlier(f, g)'
  PROVE  FeedIsAhead'
<1>1. owed' = owed /\ offset' = offset
  BY DEF feed
<1>2. IsFiniteSet(Reviewed')
  BY DeskAssumption, FS_Subset DEF Reviewed
<1>3. ASSUME NEW f \in owed
      PROVE  Cardinality(Newer(f)) <= Cardinality(Newer(f)')
  <2>1. Newer(f) \in SUBSET Newer(f)' /\ Newer(f)' \in SUBSET Reviewed'
    BY <1>3 DEF Newer, FeedIsAhead
  <2> QED BY <1>2, <2>1, FS_Subset
<1>4. ASSUME NEW f \in owed
      PROVE  Cardinality(Newer(f)) \in Nat /\ Cardinality(Newer(f)') \in Nat
  <2>1. f \in Reviewed /\ Newer(f)' \in SUBSET Reviewed'
    BY <1>4 DEF FeedIsAhead, Newer
  <2> QED BY <1>2, <2>1, ListingIsFinite, FS_Subset, FS_CardinalityType
<1>5. \A f \in owed : offset <= Cardinality(Newer(f)')
  <2> TAKE f \in owed
  <2>1. offset <= Cardinality(Newer(f)) /\ Cardinality(Newer(f)) <= Cardinality(Newer(f)')
    BY <1>3 DEF FeedIsAhead
  <2> QED BY <1>4, <2>1
<1>6. owed' \subseteq Reviewed' /\ (offset' = 0 => owed' = {})
  BY <1>1 DEF FeedIsAhead
<1> QED BY <1>1, <1>5, <1>6 DEF FeedIsAhead

\* A step of a request that has nothing to do with rows, the reader or who has a
\* transaction.
LEMMA RequestKeeps ==
  ASSUME IInv, UNCHANGED <<rows, feed>>, Open' = Open, Cardinality(Connected') <= Connections,
         page' \in [Sessions -> Fields \cup {NoField}],
         pc' \in [Sessions -> {"idle", "asking", "missing", "rendering", "posting", "calling",
                               "deciding", "applying", "complaining"}],
         target' \in [Sessions -> Ids \cup {NoField}],
         intent' \in [Sessions -> Actions \cup {"none"}],
         BusyHaveTargets'
  PROVE  IInv'
<1>1. UNCHANGED <<state, times, offset, owed>>
  BY DEF rows, feed
<1>2. Stamped' = Stamped /\ Reviewed' = Reviewed
  BY <1>1 DEF Stamped, Reviewed
<1>3. \A x, y : Earlier(x, y)' <=> Earlier(x, y)
  BY <1>1 DEF Earlier
<1>4. TypeOK'
  BY <1>1, <1>2, <1>3 DEF IInv, TypeOK
<1>5. TimesAreOrdered' /\ ReviewedHaveTimes'
  BY <1>2, <1>3 DEF IInv, TimesAreOrdered, ReviewedHaveTimes
<1>6. FeedIsAhead'
  BY <1>1, <1>2, <1>3, FeedKept DEF IInv, TypeOK, feed
<1> QED BY <1>4, <1>5, <1>6 DEF IInv

\* Those who hold connections are sessions, finitely many.
LEMMA ConnectedIsFinite ==
  IsFiniteSet(Connected) /\ Cardinality(Connected) \in Nat /\ Connected \subseteq Sessions
<1>1. Connected \subseteq Sessions
  BY DEF Connected, Open
<1> QED BY <1>1, DeskAssumption, FS_Subset, FS_CardinalityType

\* A connection that is given back is free.
LEMMA GivenBack ==
  ASSUME Cardinality(Connected) <= Connections, Connected' \subseteq Connected
  PROVE  Cardinality(Connected') <= Connections
<1>1. Cardinality(Connected') <= Cardinality(Connected) /\ Cardinality(Connected') \in Nat
  BY ConnectedIsFinite, FS_Subset, FS_CardinalityType
<1> QED BY <1>1, ConnectedIsFinite, DeskAssumption

\* A connection is taken only when there is one.
LEMMA Taken ==
  ASSUME SomeFree, NEW s \in Sessions, s \notin Connected, Connected' = Connected \cup {s}
  PROVE  Cardinality(Connected') <= Connections
<1>1. Cardinality(Connected') = Cardinality(Connected) + 1
  BY ConnectedIsFinite, FS_AddElement
<1> QED BY <1>1, ConnectedIsFinite, DeskAssumption DEF SomeFree

\* A transaction ends without a decision, or a request that has none ends.
LEMMA EndKeeps ==
  ASSUME IInv, NEW s \in Sessions, NEW f \in Fields \cup {NoField},
         times' = Without(s), Answer(s, f), UNCHANGED state
  PROVE  IInv'
<1>1. /\ page' \in [Sessions -> Fields \cup {NoField}]
      /\ pc' \in [Sessions -> {"idle", "asking", "missing", "rendering", "posting", "calling",
                               "deciding", "applying", "complaining"}]
      /\ target' \in [Sessions -> Ids \cup {NoField}]
      /\ intent' \in [Sessions -> Actions \cup {"none"}]
      /\ UNCHANGED <<offset, owed>>
  BY DEF IInv, TypeOK, Answer, feed
<1>2. pc'[s] = "idle" /\ \A r \in Sessions \ {s} :
        pc'[r] = pc[r] /\ target'[r] = target[r] /\ intent'[r] = intent[r]
  BY DEF IInv, TypeOK, Answer
<1>3. Open' = Open \ {s} /\ Connected' \subseteq Connected
  BY <1>2 DEF Open, Connected
<1>4. Stamped' = Stamped \ {s} /\ Reviewed' = Reviewed /\ s \notin Fields
  BY DeskAssumption DEF Stamped, Reviewed, Without
<1>5. \A x, y \in Stamped \ {s} : Earlier(x, y)' <=> Earlier(x, y)
  BY DEF Earlier, Without
<1>6. TypeOK'
  <2>1. times' \subseteq Stamped' \X Stamped'
    BY <1>4 DEF IInv, TypeOK, Without
  <2>2. \A x, y \in Stamped' : Earlier(x, y)' \/ Earlier(y, x)' <=> x # y
    BY <1>4, <1>5 DEF IInv, TypeOK
  <2>3. Stamped' \cap Sessions = Open'
    BY <1>3, <1>4 DEF IInv, TypeOK
  <2>4. Cardinality(Connected') <= Connections
    BY <1>3, GivenBack DEF IInv, TypeOK
  <2> QED BY <1>1, <2>1, <2>2, <2>3, <2>4 DEF IInv, TypeOK
<1>7. BusyHaveTargets'
  BY <1>2 DEF IInv, BusyHaveTargets, Deciding
<1>8. TimesAreOrdered' /\ ReviewedHaveTimes'
  BY <1>4, <1>5 DEF IInv, TimesAreOrdered, ReviewedHaveTimes, Reviewed
<1>9. FeedIsAhead'
  <2>1. \A g, h \in Reviewed : Earlier(g, h) => Earlier(g, h)'
    BY <1>4, <1>5 DEF IInv, ReviewedHaveTimes, Reviewed
  <2> QED BY <1>1, <1>4, <2>1, FeedKept DEF IInv, TypeOK, feed
<1> QED BY <1>6, <1>7, <1>8, <1>9 DEF IInv

\* A transaction begins: it is later than everything else and takes a connection.
LEMMA BeginKeeps ==
  ASSUME IInv, NEW s \in Sessions, BeginDecision(s)
  PROVE  IInv'
<1>1. /\ page' \in [Sessions -> Fields \cup {NoField}]
      /\ pc' \in [Sessions -> {"idle", "asking", "missing", "rendering", "posting", "calling",
                               "deciding", "applying", "complaining"}]
      /\ target' \in [Sessions -> Ids \cup {NoField}]
      /\ intent' \in [Sessions -> Actions \cup {"none"}]
      /\ UNCHANGED <<state, target, intent, offset, owed>>
  BY DEF IInv, TypeOK, BeginDecision, feed
<1>2. /\ pc[s] \in {"posting", "calling"} /\ pc'[s] \in {"deciding", "applying"}
      /\ \A r \in Sessions \ {s} : pc'[r] = pc[r]
  BY DEF IInv, TypeOK, BeginDecision
<1>3. /\ Open' = Open \cup {s} /\ s \notin Open
      /\ Connected' = Connected \cup {s} /\ s \notin Connected
  BY <1>2 DEF Open, Connected
<1>4. /\ Stamped' = Stamped \cup {s} /\ s \notin Stamped
      /\ Reviewed' = Reviewed /\ s \notin Fields
  <2>1. s \notin Stamped
    BY <1>3 DEF IInv, TypeOK
  <2>2. Stamped' = Stamped \cup {s}
    BY DEF Stamped, BeginDecision, With
  <2> QED BY <1>1, <2>1, <2>2, DeskAssumption DEF Reviewed
<1>5. /\ \A x, y \in Stamped : Earlier(x, y)' <=> Earlier(x, y)
      /\ \A x \in Stamped : Earlier(x, s)' /\ ~Earlier(s, x)'
  <2>1. \A x \in Stamped : <<s, x>> \notin times
    BY <1>4 DEF IInv, TypeOK
  <2> QED BY <1>4, <2>1 DEF Earlier, BeginDecision, With
<1>6. TypeOK'
  <2>1. times' \subseteq Stamped' \X Stamped'
    BY <1>4 DEF IInv, TypeOK, BeginDecision, With
  <2>2. \A x, y \in Stamped' : Earlier(x, y)' \/ Earlier(y, x)' <=> x # y
    BY <1>4, <1>5 DEF IInv, TypeOK, Earlier
  <2>3. Stamped' \cap Sessions = Open'
    BY <1>3, <1>4 DEF IInv, TypeOK
  <2>4. Cardinality(Connected') <= Connections
    BY <1>3, Taken DEF BeginDecision
  <2> QED BY <1>1, <2>1, <2>2, <2>3, <2>4 DEF IInv, TypeOK
<1>7. BusyHaveTargets'
  BY <1>1, <1>2 DEF IInv, BusyHaveTargets, Deciding
<1>8. TimesAreOrdered' /\ ReviewedHaveTimes'
  <2>1. \A x, y \in Stamped' : ~(Earlier(x, y)' /\ Earlier(y, x)')
    BY <1>4, <1>5 DEF IInv, TimesAreOrdered, Earlier
  <2>2. ASSUME NEW x \in Stamped', NEW y \in Stamped', NEW z \in Stamped',
               Earlier(x, y)', Earlier(y, z)'
        PROVE  Earlier(x, z)'
    <3>1. x \in Stamped /\ y \in Stamped
      BY <1>4, <1>5, <2>2 DEF Earlier
    <3>2. CASE z = s
      BY <1>5, <3>1, <3>2
    <3>3. CASE z \in Stamped
      BY <1>5, <2>2, <3>1, <3>3 DEF IInv, TimesAreOrdered
    <3> QED BY <1>4, <3>2, <3>3
  <2>3. TimesAreOrdered'
    BY <2>1, <2>2 DEF TimesAreOrdered
  <2> QED BY <1>4, <2>3 DEF IInv, ReviewedHaveTimes
<1>9. FeedIsAhead'
  <2>1. \A g, h \in Reviewed : Earlier(g, h) => Earlier(g, h)'
    BY <1>5 DEF IInv, ReviewedHaveTimes
  <2> QED BY <1>1, <1>4, <2>1, FeedKept DEF IInv, TypeOK, feed
<1> QED BY <1>6, <1>7, <1>8, <1>9 DEF IInv

\* A decision commits: its field takes its place in the order, and a field that is
\* reviewed keeps the one it has.
LEMMA DecideKeeps ==
  ASSUME IInv, NEW s \in Sessions, Decide(s)
  PROVE  IInv'
<1> DEFINE f == target[s]
           of(x) == IF x = f THEN s ELSE x
<1>1. /\ f \in Fields /\ s \notin Fields /\ s \in Open /\ s \in Stamped
      /\ f \notin Reviewed
  BY DeskAssumption
     DEF IInv, TypeOK, BusyHaveTargets, Deciding, Decide, Open, Acceptable, Reviewed
<1>2. /\ page' \in [Sessions -> Fields \cup {NoField}]
      /\ pc' \in [Sessions -> {"idle", "asking", "missing", "rendering", "posting", "calling",
                               "deciding", "applying", "complaining"}]
      /\ target' \in [Sessions -> Ids \cup {NoField}]
      /\ intent' \in [Sessions -> Actions \cup {"none"}]
      /\ state' \in [Fields -> {"unreviewed", "routed", "reviewed"}]
      /\ UNCHANGED <<offset, owed>>
  BY <1>1 DEF IInv, TypeOK, Decide, feed
<1>3. /\ pc'[s] \in {"asking", "idle"}
      /\ \A r \in Sessions \ {s} :
           pc'[r] = pc[r] /\ target'[r] = target[r] /\ intent'[r] = intent[r]
  BY DEF IInv, TypeOK, Decide
<1>4. Open' = Open \ {s} /\ Connected' \subseteq Connected
  BY <1>3 DEF Open, Connected
<1>5. Reviewed \subseteq Reviewed' /\ Reviewed' \subseteq Reviewed \cup {f}
  BY <1>1 DEF IInv, TypeOK, Reviewed, Decide
<1> DEFINE timed == (Stamped \ {s}) \cup {f}
<1>6. \A x, y : <<x, y>> \in times' <=>
                  x \in timed /\ y \in timed /\ <<of(x), of(y)>> \in times
  BY DEF Decide, Restamp
<1>7. /\ \A x \in timed : of(x) \in Stamped /\ <<of(x), of(x)>> \in times
      /\ \A x, y \in timed : of(x) = of(y) => x = y
  BY <1>1 DEF Stamped
<1>8. Stamped' = timed /\ times' \subseteq timed \X timed
  <2>1. times' \subseteq timed \X timed
    BY DEF Decide, Restamp
  <2>2. timed \subseteq Fields \cup Sessions
    BY <1>1 DEF Stamped
  <2>3. \A x \in Fields \cup Sessions : <<x, x>> \in times' <=> x \in timed
    BY <1>6, <1>7
  <2> HIDE DEF timed, of
  <2> QED BY <2>1, <2>2, <2>3 DEF Stamped
<1>9. \A x, y \in timed : Earlier(x, y)' <=> Earlier(of(x), of(y))
  <2> HIDE DEF timed, of
  <2> QED BY <1>6, <1>7 DEF Earlier
<1>10. TypeOK'
  <2>1. \A x, y \in Stamped' : Earlier(x, y)' \/ Earlier(y, x)' <=> x # y
    <3> HIDE DEF timed, of
    <3> QED BY <1>7, <1>8, <1>9 DEF IInv, TypeOK
  <2>2. Stamped' \cap Sessions = Open'
    BY <1>1, <1>4, <1>8, DeskAssumption DEF IInv, TypeOK
  <2>3. Cardinality(Connected') <= Connections
    BY <1>4, GivenBack DEF IInv, TypeOK
  <2> QED BY <1>2, <1>8, <2>1, <2>2, <2>3 DEF IInv, TypeOK
<1>11. BusyHaveTargets'
  BY <1>3 DEF IInv, BusyHaveTargets, Deciding
<1>12. TimesAreOrdered'
  <2> HIDE DEF timed, of
  <2>1. \A x, y \in timed : ~(Earlier(x, y)' /\ Earlier(y, x)')
    BY <1>7, <1>9 DEF IInv, TimesAreOrdered
  <2>2. \A x, y, z \in timed : Earlier(x, y)' /\ Earlier(y, z)' => Earlier(x, z)'
    BY <1>7, <1>9 DEF IInv, TimesAreOrdered
  <2> QED BY <1>8, <2>1, <2>2 DEF TimesAreOrdered
<1>13. Reviewed \subseteq timed /\ ReviewedHaveTimes'
  <2>1. Reviewed \subseteq timed
    BY <1>1 DEF IInv, ReviewedHaveTimes, Reviewed
  <2> QED BY <1>5, <1>8, <2>1 DEF ReviewedHaveTimes
<1>14. FeedIsAhead'
  <2>1. \A g \in Reviewed : of(g) = g
    BY <1>1
  <2>2. \A g, h \in Reviewed : Earlier(g, h) => Earlier(g, h)'
    <3> HIDE DEF timed, of
    <3> QED BY <1>9, <1>13, <2>1
  <2> QED BY <1>2, <1>5, <2>2, FeedKept DEF IInv, TypeOK, feed
<1> QED BY <1>10, <1>11, <1>12, <1>13, <1>14 DEF IInv

\* A row is routed.
LEMMA RouteKeeps ==
  ASSUME IInv, NEW f \in Fields, Route(f)
  PROVE  IInv'
<1>1. /\ UNCHANGED <<times, page, pc, target, intent, offset, owed>>
      /\ state' \in [Fields -> {"unreviewed", "routed", "reviewed"}]
  BY DEF Route, requests, feed, IInv, TypeOK
<1>2. Stamped' = Stamped /\ Open' = Open /\ Connected' = Connected
  BY <1>1 DEF Stamped, Open, Connected
<1>3. Reviewed' = Reviewed
  BY DEF Reviewed, Route, IInv, TypeOK
<1>4. \A x, y : Earlier(x, y)' <=> Earlier(x, y)
  BY <1>1 DEF Earlier
<1>5. TypeOK'
  BY <1>1, <1>2, <1>4 DEF IInv, TypeOK
<1>6. BusyHaveTargets' /\ TimesAreOrdered' /\ ReviewedHaveTimes'
  BY <1>1, <1>2, <1>3, <1>4 DEF IInv, BusyHaveTargets, TimesAreOrdered, ReviewedHaveTimes
<1>7. FeedIsAhead'
  BY <1>1, <1>3, <1>4, FeedKept DEF IInv, TypeOK, feed
<1> QED BY <1>5, <1>6, <1>7 DEF IInv

\* A window is read: what is owed from it is delivered, and a short one is the last.
LEMMA GetCorrectionsKeeps ==
  ASSUME IInv, GetCorrections
  PROVE  IInv'
<1> DEFINE due == IF offset = 0 THEN Reviewed ELSE owed
<1>1. /\ UNCHANGED <<state, times, page, pc, target, intent>>
      /\ owed' = due \ Window
      /\ offset' = IF Cardinality(Window) < PageSize THEN 0 ELSE offset + PageSize
  BY DEF GetCorrections, rows, requests
<1>2. /\ Stamped' = Stamped /\ Reviewed' = Reviewed
      /\ Open' = Open /\ Connected' = Connected
  BY <1>1 DEF Stamped, Open, Connected, Reviewed
<1>3. \A x, y : Earlier(x, y)' <=> Earlier(x, y)
  BY <1>1 DEF Earlier
<1>4. \A f : Newer(f)' = Newer(f)
  BY <1>2, <1>3 DEF Newer
<1>5. /\ offset \in Nat /\ PageSize \in Nat /\ PageSize > 0
      /\ due \subseteq Reviewed /\ Reviewed \subseteq Fields
      /\ \A f \in Reviewed : Cardinality(Newer(f)) \in Nat
      /\ \A f \in due : offset <= Cardinality(Newer(f))
  <2>1. offset \in Nat /\ FeedIsAhead
    BY DEF IInv, TypeOK
  <2>2. \A f \in Reviewed : Cardinality(Newer(f)) \in Nat
    BY ListingIsFinite
  <2>3. due \subseteq Reviewed /\ Reviewed \subseteq Fields
    BY <2>1 DEF FeedIsAhead, Reviewed
  <2>4. \A f \in due : offset <= Cardinality(Newer(f))
    BY <2>1, <2>2, <2>3 DEF FeedIsAhead
  <2> QED BY <2>1, <2>2, <2>3, <2>4, DeskAssumption
<1>6. \A f \in owed' : offset + PageSize <= Cardinality(Newer(f))
  BY <1>1, <1>5 DEF Window
<1>7. Cardinality(Window) < PageSize => owed' = {}
  BY <1>1, <1>5, <1>6, ShortWindowIsLast
<1>8. FeedIsAhead'
  <2>1. owed' \subseteq Reviewed'
    BY <1>1, <1>2, <1>5
  <2>2. \A f \in owed' : offset' <= Cardinality(Newer(f)')
    BY <1>1, <1>4, <1>6, <1>7
  <2>3. offset' = 0 => owed' = {}
    BY <1>1, <1>5, <1>7
  <2> QED BY <2>1, <2>2, <2>3 DEF FeedIsAhead
<1>9. TypeOK'
  <2>1. offset' \in Nat /\ owed' \subseteq Fields
    BY <1>1, <1>5
  <2> QED BY <1>1, <1>2, <1>3, <2>1 DEF IInv, TypeOK
<1>10. BusyHaveTargets' /\ TimesAreOrdered' /\ ReviewedHaveTimes'
  BY <1>1, <1>2, <1>3 DEF IInv, BusyHaveTargets, TimesAreOrdered, ReviewedHaveTimes
<1> QED BY <1>8, <1>9, <1>10 DEF IInv

-------------------------------------------------------------------------------

\* Nothing has happened.
LEMMA InitInvariant == Init => IInv
<1> SUFFICES ASSUME Init PROVE IInv
  OBVIOUS
<1>1. Stamped = {} /\ Reviewed = {} /\ Open = {} /\ Connected = {}
  BY DEF Init, Stamped, Reviewed, Open, Connected
<1>2. TypeOK
  BY <1>1, FS_EmptySet, DeskAssumption DEF Init, TypeOK
<1>3. BusyHaveTargets
  BY DEF Init, BusyHaveTargets, Deciding
<1> QED BY <1>1, <1>2, <1>3
        DEF Init, IInv, TimesAreOrdered, ReviewedHaveTimes, FeedIsAhead

\* Before puts the queue in a line.
LEMMA QueueIsOrdered ==
  ASSUME IInv
  PROVE  /\ \A f \in Queue : ~Before(f, f)
         /\ \A f, g \in Queue : f # g => Before(f, g) \/ Before(g, f)
         /\ \A f, g, h \in Queue : Before(f, g) /\ Before(g, h) => Before(f, h)
<1>1. Queue \subseteq Nat
  BY DeskAssumption DEF Queue
<1>2. \A f, g \in Stamped : Earlier(f, g) \/ Earlier(g, f) <=> f # g
  BY DEF IInv, TypeOK
<1>3. \A f, g : Earlier(f, g) => f \in Stamped /\ g \in Stamped
  BY DEF IInv, TypeOK, Earlier
<1>4. \A f, g, h \in Stamped : Earlier(f, g) /\ Earlier(g, h) => Earlier(f, h)
  BY DEF IInv, TimesAreOrdered
<1>5. \A f \in Queue : ~Before(f, f)
  BY <1>1 DEF Before, Earlier
<1>6. \A f, g \in Queue : f # g => Before(f, g) \/ Before(g, f)
  BY <1>1, <1>2 DEF Before
<1>7. \A f, g, h \in Queue : Before(f, g) /\ Before(g, h) => Before(f, h)
  BY <1>1, <1>3, <1>4 DEF Before
<1> QED BY <1>5, <1>6, <1>7

\* A set of numbers that is not empty has a least one.
LEMMA HasLeast ==
  ASSUME NEW S \in SUBSET Nat, S # {}
  PROVE  \E x \in S : \A y \in S : x <= y
<1>1. PICK x \in S : \A y \in S : ~ <<y, x>> \in OpToRel(<, Nat)
  BY NatLessThanWellFounded, WFMin
<1>2. \A y \in S : ~(y < x)
  BY <1>1 DEF OpToRel
<1> QED BY <1>2

\* The next field is the one with the fewest before it, which are none.
LEMMA UpcomingIsField ==
  ASSUME IInv
  PROVE  Upcoming \in Fields \cup {NoField}
<1> SUFFICES ASSUME Queue # {} PROVE \E f \in Queue : \A g \in Queue \ {f} : Before(f, g)
  BY DEF Upcoming, Queue
<1> DEFINE ahead(f) == {g \in Queue : Before(g, f)}
           counts == {Cardinality(ahead(f)) : f \in Queue}
<1>1. \A f \in Queue : IsFiniteSet(ahead(f)) /\ Cardinality(ahead(f)) \in Nat
  <2>1. IsFiniteSet(Queue)
    BY DeskAssumption, FS_Subset DEF Queue
  <2>2. \A f \in Queue : ahead(f) \in SUBSET Queue
    OBVIOUS
  <2> QED BY <2>1, <2>2, FS_Subset, FS_CardinalityType
<1>2. counts \in SUBSET Nat /\ counts # {}
  BY <1>1
<1>3. PICK f \in Queue : \A g \in Queue : Cardinality(ahead(f)) <= Cardinality(ahead(g))
  <2>1. PICK n \in counts : \A m \in counts : n <= m
    <3> HIDE DEF counts
    <3> QED BY <1>2, HasLeast
  <2> QED BY <2>1
<1>4. ASSUME NEW g \in Queue, Before(g, f)
      PROVE  FALSE
  <2>1. ahead(g) \in SUBSET ahead(f) /\ g \in ahead(f) /\ g \notin ahead(g)
    BY <1>4, QueueIsOrdered
  <2>2. Cardinality(ahead(g)) <= Cardinality(ahead(f)) /\ Cardinality(ahead(g)) # Cardinality(ahead(f))
    <3> HIDE DEF ahead
    <3> QED BY <1>1, <2>1, FS_Subset
  <2> HIDE DEF ahead
  <2> QED BY <1>1, <1>3, <2>2
<1> QED BY <1>4, QueueIsOrdered

\* A request that has no transaction is answered.
LEMMA AnswerKeeps ==
  ASSUME IInv, NEW s \in Sessions, pc[s] \in {"idle", "rendering"},
         NEW f \in Fields \cup {NoField}, Answer(s, f), UNCHANGED rows
  PROVE  IInv'
<1>1. s \notin Stamped
  BY DEF IInv, TypeOK, Open
<1>2. Without(s) = times
  BY <1>1 DEF IInv, TypeOK, Without
<1>3. UNCHANGED <<state, times>>
  BY DEF rows
<1> QED BY <1>2, <1>3, EndKeeps

LEMMA ServeKeeps ==
  ASSUME IInv, NEW s \in Sessions, Serve(s)
  PROVE  IInv'
<1>1. CASE LookUp(s)
  <2>1. target' \in [Sessions -> Ids \cup {NoField}]
    BY <1>1, UpcomingIsField DEF LookUp, IInv, TypeOK, Ids
  <2>2. /\ UNCHANGED <<rows, page, intent, feed>> /\ pc[s] = "asking"
        /\ pc' = [pc EXCEPT ![s] = "rendering"]
        /\ \A r \in Sessions \ {s} : target'[r] = target[r]
    BY <1>1 DEF LookUp, IInv, TypeOK
  <2>3. BusyHaveTargets' /\ Open' = Open /\ Connected' = Connected
    BY <2>2 DEF IInv, TypeOK, BusyHaveTargets, Deciding, Open, Connected
  <2> QED BY <2>1, <2>2, <2>3, RequestKeeps DEF IInv, TypeOK
<1>2. CASE Render(s)
  BY <1>2, AnswerKeeps DEF Render, FieldOf
<1>3. CASE BeginDecision(s)
  BY <1>3, BeginKeeps
<1>4. CASE Decide(s)
  BY <1>4, DecideKeeps
<1>5. CASE RefuseCall(s)
  BY <1>5, EndKeeps DEF RefuseCall, FieldOf
<1>6. CASE RefusePost(s)
  <2>1. /\ UNCHANGED <<rows, page, target, intent, feed>> /\ pc[s] = "deciding"
        /\ pc' = [pc EXCEPT ![s] = "complaining"]
    BY <1>6 DEF RefusePost
  <2>2. BusyHaveTargets' /\ Open' = Open /\ Connected' = Connected
    BY <2>1 DEF IInv, TypeOK, BusyHaveTargets, Deciding, Open, Connected
  <2> QED BY <2>1, <2>2, RequestKeeps DEF IInv, TypeOK
<1>7. CASE Complain(s)
  BY <1>7, EndKeeps DEF Complain, FieldOf
<1>8. CASE TimeOut(s)
  BY <1>8, EndKeeps DEF TimeOut
<1>9. CASE Miss(s)
  <2>1. /\ UNCHANGED <<rows, page, target, intent, feed>> /\ pc[s] = "asking"
        /\ pc' = [pc EXCEPT ![s] = "missing"]
    BY <1>9 DEF Miss
  <2>2. BusyHaveTargets' /\ Open' = Open
    BY <2>1 DEF IInv, TypeOK, BusyHaveTargets, Deciding, Open
  <2>3. Connected' = Connected \cup {s} /\ s \notin Connected
    BY <2>1, <2>2 DEF IInv, TypeOK, Connected, Open
  <2>4. Cardinality(Connected') <= Connections
    BY <1>9, <2>3, Taken DEF Miss
  <2> QED BY <2>1, <2>2, <2>4, RequestKeeps DEF IInv, TypeOK
<1> QED BY <1>1, <1>2, <1>3, <1>4, <1>5, <1>6, <1>7, <1>8, <1>9 DEF Serve, Decision

LEMMA NextInvariant == IInv /\ [Next]_vars => IInv'
<1> SUFFICES ASSUME IInv, [Next]_vars PROVE IInv'
  OBVIOUS
<1>1. CASE UNCHANGED vars
  <2>1. UNCHANGED <<rows, page, pc, target, intent, feed>>
    BY <1>1 DEF vars, requests
  <2>2. BusyHaveTargets' /\ Open' = Open /\ Connected' = Connected
    BY <2>1 DEF IInv, BusyHaveTargets, Open, Connected
  <2> QED BY <2>1, <2>2, RequestKeeps DEF IInv, TypeOK
<1>2. ASSUME NEW s \in Sessions, AskNext(s) \/ \E f \in Ids : AskFor(s, f)
      PROVE  IInv'
  <2>1. /\ UNCHANGED <<rows, intent, feed>> /\ pc[s] = "idle"
        /\ pc' = [pc EXCEPT ![s] = "asking"]
        /\ page' \in [Sessions -> Fields \cup {NoField}]
        /\ target' \in [Sessions -> Ids \cup {NoField}]
        /\ \A r \in Sessions \ {s} : target'[r] = target[r]
    BY <1>2 DEF AskNext, AskFor, IInv, TypeOK
  <2>2. BusyHaveTargets' /\ Open' = Open /\ Connected' = Connected
    BY <2>1 DEF IInv, TypeOK, BusyHaveTargets, Deciding, Open, Connected
  <2> QED BY <2>1, <2>2, RequestKeeps DEF IInv, TypeOK
<1>3. ASSUME NEW s \in Sessions, NEW f \in Fields, GetQueue(s, f) \/ GetField(s, f)
      PROVE  IInv'
  BY <1>3, AnswerKeeps DEF GetQueue, GetField
<1>4. ASSUME NEW s \in Sessions, NEW f \in Ids, NEW a \in Actions,
             Post(s, f, a) \/ Call(s, f, a)
      PROVE  IInv'
  <2>1. /\ UNCHANGED <<rows, feed>> /\ pc[s] = "idle"
        /\ page' \in [Sessions -> Fields \cup {NoField}]
        /\ \/ pc' = [pc EXCEPT ![s] = "posting"]
           \/ pc' = [pc EXCEPT ![s] = "calling"]
        /\ target' = [target EXCEPT ![s] = f]
        /\ intent' = [intent EXCEPT ![s] = a]
    BY <1>4 DEF Post, Call, IInv, TypeOK
  <2>2. BusyHaveTargets' /\ Open' = Open /\ Connected' = Connected
    BY <2>1 DEF IInv, TypeOK, BusyHaveTargets, Deciding, Open, Connected
  <2> QED BY <2>1, <2>2, RequestKeeps DEF IInv, TypeOK
<1>5. ASSUME NEW s \in Sessions, Serve(s)
      PROVE  IInv'
  BY <1>5, ServeKeeps
<1>6. CASE GetCorrections
  BY <1>6, GetCorrectionsKeeps
<1>7. ASSUME NEW f \in Fields, Route(f)
      PROVE  IInv'
  BY <1>7, RouteKeeps
<1>8. ASSUME NEW s \in Sessions, PostOther(s)
      PROVE  IInv'
  <2>1. /\ UNCHANGED <<rows, target, intent, feed>> /\ pc[s] = "idle"
        /\ pc' = [pc EXCEPT ![s] = "rendering"]
        /\ page' \in [Sessions -> Fields \cup {NoField}]
    BY <1>8 DEF PostOther, IInv, TypeOK
  <2>2. BusyHaveTargets' /\ Open' = Open /\ Connected' = Connected
    BY <2>1 DEF IInv, TypeOK, BusyHaveTargets, Deciding, Open, Connected
  <2> QED BY <2>1, <2>2, RequestKeeps DEF IInv, TypeOK
<1> QED BY <1>1, <1>2, <1>3, <1>4, <1>5, <1>6, <1>7, <1>8 DEF Next

LEMMA Invariance == Spec => []IInv
BY InitInvariant, NextInvariant, PTL DEF Spec

\* Requests, times and connections are what they are declared to be, for any number of
\* sessions; in particular no more connections are held than there are.
THEOREM TypeCorrect == Spec => []TypeOK
BY Invariance, PTL DEF IInv

\* However decisions and windows interleave, and whatever the page size, a reader of
\* GET /review/corrections misses no decision that was there when it began (queries.py).
THEOREM CorrectionsAreAllRead == Spec => []CorrectionsAreComplete
BY Invariance, PTL DEF IInv, FeedIsAhead, CorrectionsAreComplete
===============================================================================
