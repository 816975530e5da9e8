---------------------------- MODULE Review_proofs ----------------------------
(***************************************************************************)
(* What holds of Review for every number of fields, passes and reviewers,  *)
(* every floor and every budget: its safety and action properties.         *)
(***************************************************************************)
EXTENDS Review, FiniteSetTheorems, TLAPS

\* The rows the UPDATE of p is to route.
Chosen(p) == picked[p] \cup done[p]

\* A pass that has got to its statements holds the routing lock.
LockHolder ==
  \A p \in Passes : advisory = p <=> phase[p] \in {"locked", "counted", "updating"}

\* Inserted rows are the business of one transaction until it commits.
FreshRowsAreOwn ==
  \A p \in Passes : \A f \in fresh[p] :
    state[f] = "absent" /\ \A q \in Passes : f \in fresh[q] => q = p

\* Only an UPDATE has rows, rows that it can see, and each row it has written it
\* still has locked.
WrittenRowsAreLocked ==
  \A p \in Passes :
    /\ phase[p] # "updating" => Chosen(p) = {}
    /\ \A f \in Chosen(p) : state[f] # "absent" \/ f \in fresh[p]
    /\ \A f \in done[p] : locks[f] = p /\ state[f] # "reviewed"

\* Only what was queued has been skipped, and a field that was queued leaves the
\* queue only by being reviewed.
SkippedStayQueued == \A f \in skipped : state[f] \in {"routed", "reviewed"}

\* What a reviewer's transaction has read is still so.
ReadRowsAreLocked ==
  \A r \in Reviewers : at[r] # NoField =>
    locks[at[r]] = r /\ seen[r] = state[at[r]] /\ seen[r] # "absent"

\* What a pass may still route fits into the budget.
RoomIsThere ==
  \A p \in Passes :
    /\ phase[p] \in {"counted", "updating"} =>
         Cardinality(Outstanding) + limit[p] <= Budget
    /\ phase[p] = "updating" => Cardinality(Chosen(p)) <= limit[p]

\* What was first when the rows were selected is still first.
ChosenRankFirst ==
  \A p \in Passes : phase[p] = "updating" =>
    /\ \A f \in Chosen(p), g \in Eligible(p) \ Chosen(p) : f < g
    /\ Eligible(p) \subseteq Chosen(p) \/ Cardinality(Chosen(p)) = limit[p]

\* The inductive invariant. BudgetRespected alone does not survive a commit: it
\* takes that the room a pass has counted is still there, because the pass holds
\* the lock, and that decisions only make more of it.
IInv ==
  /\ TypeOK
  /\ LockHolder
  /\ FreshRowsAreOwn
  /\ WrittenRowsAreLocked
  /\ ReadRowsAreLocked
  /\ RoomIsThere
  /\ ChosenRankFirst
  /\ BudgetRespected
  /\ SkippedStayQueued

-------------------------------------------------------------------------------
(* Counting.                                                                   *)

\* A part of a set of fields has no more members than the set.
LEMMA PartsAreSmaller ==
  ASSUME NEW A \in SUBSET Fields, NEW B \in SUBSET A
  PROVE  /\ Cardinality(A) \in Nat /\ Cardinality(B) \in Nat
         /\ Cardinality(B) <= Cardinality(A)
<1>1. IsFiniteSet(A)
  BY FS_Subset, RanksAssumption
<1>2. IsFiniteSet(B)
  BY <1>1, FS_Subset
<1> QED
  BY <1>1, <1>2, FS_Subset, FS_CardinalityType

\* A union has no more members than its parts have together.
LEMMA UnionsAddUp ==
  ASSUME NEW A \in SUBSET Fields, NEW B \in SUBSET Fields
  PROVE  Cardinality(A \cup B) <= Cardinality(A) + Cardinality(B)
<1>1. IsFiniteSet(A) /\ IsFiniteSet(B) /\ IsFiniteSet(A \cap B)
  BY FS_Subset, RanksAssumption
<1>2. Cardinality(A \cup B) = Cardinality(A) + Cardinality(B) - Cardinality(A \cap B)
  BY <1>1, FS_Union
<1> QED
  BY <1>1, <1>2, FS_CardinalityType

\* The queue and the LIMIT are numbers.
LEMMA Numbers ==
  ASSUME TypeOK
  PROVE  /\ Outstanding \in SUBSET Fields
         /\ Cardinality(Outstanding) \in Nat
         /\ \A p \in Passes : Cardinality(Chosen(p)) \in Nat /\ limit[p] \in Nat
<1>1. Outstanding \in SUBSET Fields /\ \A p \in Passes : Chosen(p) \in SUBSET Fields
  BY DEF TypeOK, Outstanding, Chosen
<1> QED
  BY <1>1, PartsAreSmaller DEF TypeOK

\* The room a pass counts and what is waiting make up the budget.
LEMMA RoomFits ==
  ASSUME NEW n \in Nat, n <= Budget
  PROVE  RoomFor(n) \in Nat /\ n + RoomFor(n) <= Budget
BY BudgetAssumption DEF RoomFor

\* At first there is nothing in any table and no transaction.
LEMMA InitIInv == Init => IInv
<1> SUFFICES ASSUME Init PROVE IInv
  OBVIOUS
<1>1. TypeOK
  BY DEF Init, TypeOK
<1>2. LockHolder /\ FreshRowsAreOwn /\ WrittenRowsAreLocked /\ ReadRowsAreLocked
  BY ActorsAssumption DEF Init, LockHolder, FreshRowsAreOwn, WrittenRowsAreLocked,
     ReadRowsAreLocked, Chosen
<1>3. RoomIsThere /\ ChosenRankFirst
  BY DEF Init, RoomIsThere, ChosenRankFirst
<1>4. Outstanding = {}
  BY DEF Init, Outstanding
<1>5. BudgetRespected
  BY <1>4, FS_EmptySet, BudgetAssumption DEF BudgetRespected
<1>6. SkippedStayQueued
  BY DEF Init, SkippedStayQueued
<1> QED
  BY <1>1, <1>2, <1>3, <1>5, <1>6 DEF IInv

-------------------------------------------------------------------------------
(* The statements of a pass. The tables change only when it commits.           *)

\* A transaction begins, with the rows it inserts.
LEMMA BeginKeepsIInv ==
  ASSUME IInv, NEW p \in Passes, NEW rows \in Extractions \cup {{}}, BeginPass(p, rows)
  PROVE  IInv'
<1>0. rows \subseteq Fields
  BY ExtractionsAssumption
<1>1. TypeOK'
  BY <1>0 DEF IInv, TypeOK, BeginPass, table, reviewerVars
<1>2. LockHolder'
  BY DEF IInv, TypeOK, LockHolder, BeginPass
<1>3. FreshRowsAreOwn'
  BY DEF IInv, TypeOK, FreshRowsAreOwn, BeginPass, table
<1>4. WrittenRowsAreLocked' /\ ReadRowsAreLocked'
  BY DEF IInv, TypeOK, WrittenRowsAreLocked, ReadRowsAreLocked, Chosen, BeginPass, table,
     reviewerVars
<1>5. Outstanding' = Outstanding
  BY DEF BeginPass, table, Outstanding
<1>6. RoomIsThere' /\ BudgetRespected'
  BY <1>5 DEF IInv, TypeOK, RoomIsThere, BudgetRespected, Chosen, BeginPass
<1>7. \A q \in Passes : phase'[q] = "updating" => Eligible(q)' = Eligible(q)
  BY DEF IInv, TypeOK, BeginPass, table, Eligible
<1>8. ChosenRankFirst'
  BY <1>7 DEF IInv, TypeOK, ChosenRankFirst, Chosen, BeginPass
<1>9. SkippedStayQueued'
  BY DEF IInv, SkippedStayQueued, BeginPass, table
<1> QED
  BY <1>1, <1>2, <1>3, <1>4, <1>6, <1>8, <1>9 DEF IInv

\* The lock is free, so no other pass is between its statements.
LEMMA LockKeepsIInv ==
  ASSUME IInv, NEW p \in Passes, TakeRoutingLock(p)
  PROVE  IInv'
<1>1. TypeOK'
  BY DEF IInv, TypeOK, TakeRoutingLock, table, reviewerVars
<1>2. LockHolder'
  BY ActorsAssumption DEF IInv, TypeOK, LockHolder, TakeRoutingLock
<1>3. FreshRowsAreOwn' /\ WrittenRowsAreLocked' /\ ReadRowsAreLocked'
  BY DEF IInv, TypeOK, FreshRowsAreOwn, WrittenRowsAreLocked, ReadRowsAreLocked, Chosen,
     TakeRoutingLock, table, reviewerVars
<1>4. Outstanding' = Outstanding
  BY DEF TakeRoutingLock, table, Outstanding
<1>5. RoomIsThere' /\ BudgetRespected'
  BY <1>4 DEF IInv, TypeOK, RoomIsThere, BudgetRespected, Chosen, TakeRoutingLock
<1>6. ChosenRankFirst'
  BY DEF IInv, TypeOK, ChosenRankFirst, Chosen, Eligible, TakeRoutingLock, table
<1>7. SkippedStayQueued'
  BY DEF IInv, SkippedStayQueued, TakeRoutingLock, table
<1> QED
  BY <1>1, <1>2, <1>3, <1>5, <1>6, <1>7 DEF IInv

\* The room is what the budget leaves.
LEMMA CountKeepsIInv ==
  ASSUME IInv, NEW p \in Passes, CountOutstanding(p)
  PROVE  IInv'
<1> DEFINE n == Cardinality(Outstanding)
<1>0. n \in Nat /\ RoomFor(n) \in Nat /\ n + RoomFor(n) <= Budget
  BY Numbers, RoomFits DEF IInv, BudgetRespected
<1>1. TypeOK'
  BY <1>0 DEF IInv, TypeOK, CountOutstanding, table, reviewerVars
<1>2. LockHolder'
  BY DEF IInv, TypeOK, LockHolder, CountOutstanding
<1>3. FreshRowsAreOwn' /\ WrittenRowsAreLocked' /\ ReadRowsAreLocked'
  BY DEF IInv, TypeOK, FreshRowsAreOwn, WrittenRowsAreLocked, ReadRowsAreLocked, Chosen,
     CountOutstanding, table, reviewerVars
<1>4. Outstanding' = Outstanding
  BY DEF CountOutstanding, table, Outstanding
<1>5. limit' = [limit EXCEPT ![p] = RoomFor(n)]
  BY DEF CountOutstanding
<1> HIDE DEF n
<1>6. RoomIsThere' /\ BudgetRespected'
  BY <1>0, <1>4, <1>5 DEF n, IInv, TypeOK, RoomIsThere, BudgetRespected, Chosen,
     CountOutstanding
<1>7. ChosenRankFirst'
  BY <1>5 DEF IInv, TypeOK, ChosenRankFirst, Chosen, Eligible, CountOutstanding, table
<1>8. SkippedStayQueued'
  BY DEF IInv, SkippedStayQueued, CountOutstanding, table
<1> QED
  BY <1>1, <1>2, <1>3, <1>6, <1>7, <1>8 DEF IInv

\* The rows are the first of those eligible, and no more than the LIMIT.
LEMMA SelectKeepsIInv ==
  ASSUME IInv, NEW p \in Passes, SelectRows(p)
  PROVE  IInv'
<1>1. PICK rows \in SUBSET Eligible(p) :
        FirstRanked(rows, Eligible(p), limit[p]) /\ picked' = [picked EXCEPT ![p] = rows]
  BY DEF SelectRows
<1>2. Eligible(p) \in SUBSET Fields /\ rows \in SUBSET Fields
  BY DEF Eligible
<1>3. TypeOK'
  BY <1>1, <1>2 DEF IInv, TypeOK, SelectRows, table, reviewerVars
<1>4. LockHolder'
  BY DEF IInv, TypeOK, LockHolder, SelectRows
<1>5. FreshRowsAreOwn' /\ ReadRowsAreLocked' /\ SkippedStayQueued'
  BY DEF IInv, TypeOK, FreshRowsAreOwn, ReadRowsAreLocked, SkippedStayQueued, SelectRows,
     table, reviewerVars
<1>6. \A f \in rows : state[f] # "absent" \/ f \in fresh[p]
  BY DEF Eligible
<1>7. done[p] = {} /\ Chosen(p)' = rows
  BY <1>1 DEF IInv, TypeOK, WrittenRowsAreLocked, Chosen, SelectRows
<1>8. WrittenRowsAreLocked'
  BY <1>1, <1>6, <1>7 DEF IInv, TypeOK, WrittenRowsAreLocked, Chosen, SelectRows, table
<1>9. /\ Cardinality(rows) \in Nat /\ Cardinality(Eligible(p)) \in Nat
      /\ Cardinality(rows) = IF Cardinality(Eligible(p)) <= limit[p]
                             THEN Cardinality(Eligible(p)) ELSE limit[p]
  BY <1>1, <1>2, PartsAreSmaller DEF FirstRanked
<1>10. limit[p] \in Nat /\ Cardinality(rows) <= limit[p]
  BY <1>9 DEF IInv, TypeOK
<1>11. Outstanding' = Outstanding
  BY DEF SelectRows, table, Outstanding
<1>12. RoomIsThere' /\ BudgetRespected'
  BY <1>1, <1>7, <1>10, <1>11 DEF IInv, TypeOK, RoomIsThere, BudgetRespected, Chosen,
     SelectRows
<1>13. Eligible(p) = rows \/ Cardinality(rows) = limit[p]
  BY <1>1, <1>2, <1>9, FS_Subset, RanksAssumption
<1>14. \A q \in Passes : Eligible(q)' = Eligible(q)
  BY DEF SelectRows, table, Eligible
<1>15. \A f \in rows, g \in Eligible(p) \ rows : f < g
  BY <1>1 DEF FirstRanked
<1>16. limit' = limit /\ \A q \in Passes \ {p} :
         Chosen(q)' = Chosen(q) /\ phase'[q] = phase[q]
  BY <1>1 DEF IInv, TypeOK, Chosen, SelectRows
<1>17. ChosenRankFirst'
  <2> SUFFICES ASSUME NEW q \in Passes, phase'[q] = "updating"
               PROVE  /\ \A f \in Chosen(q)', g \in Eligible(q) \ Chosen(q)' : f < g
                      /\ \/ Eligible(q) \subseteq Chosen(q)'
                         \/ Cardinality(Chosen(q)') = limit[q]
    BY <1>14, <1>16 DEF ChosenRankFirst
  <2>1. CASE q = p
    BY <1>7, <1>13, <1>15, <2>1
  <2>2. CASE q # p
    BY <1>16, <2>2 DEF IInv, ChosenRankFirst
  <2> QED BY <2>1, <2>2
<1> QED
  BY <1>3, <1>4, <1>5, <1>8, <1>12, <1>17 DEF IInv

\* A row goes from picked to written and is locked.
LEMMA UpdateKeepsIInv ==
  ASSUME IInv, NEW p \in Passes, NEW f \in Fields, UpdateRow(p, f)
  PROVE  IInv'
<1>1. TypeOK'
  BY DEF IInv, TypeOK, UpdateRow, table, reviewerVars
<1>2. LockHolder'
  BY DEF IInv, LockHolder, UpdateRow
<1>3. FreshRowsAreOwn' /\ SkippedStayQueued'
  BY DEF IInv, FreshRowsAreOwn, SkippedStayQueued, UpdateRow, table
<1>4. \A q \in Passes : Chosen(q)' = Chosen(q)
  BY DEF IInv, TypeOK, Chosen, UpdateRow
<1>5. WrittenRowsAreLocked'
  BY <1>4, ActorsAssumption DEF IInv, TypeOK, WrittenRowsAreLocked, UpdateRow, table
<1>6. ReadRowsAreLocked'
  BY ActorsAssumption DEF IInv, TypeOK, ReadRowsAreLocked, UpdateRow, table, reviewerVars
<1>7. Outstanding' = Outstanding
  BY DEF UpdateRow, table, Outstanding
<1>8. RoomIsThere' /\ BudgetRespected'
  BY <1>4, <1>7 DEF IInv, RoomIsThere, BudgetRespected, UpdateRow
<1>9. \A q \in Passes : Eligible(q)' = Eligible(q)
  BY DEF UpdateRow, table, Eligible
<1>10. ChosenRankFirst'
  BY <1>4, <1>9 DEF IInv, ChosenRankFirst, UpdateRow
<1> QED
  BY <1>1, <1>2, <1>3, <1>5, <1>6, <1>8, <1>10 DEF IInv

-------------------------------------------------------------------------------
(* The end of a pass.                                                          *)

\* The pass is over and what it had is given up; no other pass is affected.
LEMMA EndOfPass ==
  ASSUME IInv, NEW p \in Passes, EndPass(p)
  PROVE  /\ LockHolder'
         /\ phase'[p] = "idle" /\ Chosen(p)' = {}
         /\ \A q \in Passes \ {p} :
              /\ phase'[q] = phase[q] /\ limit'[q] = limit[q] /\ fresh'[q] = fresh[q]
              /\ Chosen(q)' = Chosen(q)
         /\ phase[p] = "updating" =>
              \A q \in Passes : phase'[q] \notin {"locked", "counted", "updating"}
<1>1. LockHolder'
  BY ActorsAssumption DEF IInv, TypeOK, LockHolder, EndPass
<1>2. phase'[p] = "idle" /\ Chosen(p)' = {}
  BY DEF IInv, TypeOK, Chosen, EndPass
<1>3. \A q \in Passes \ {p} :
        /\ phase'[q] = phase[q] /\ limit'[q] = limit[q] /\ fresh'[q] = fresh[q]
        /\ Chosen(q)' = Chosen(q)
  BY DEF IInv, TypeOK, Chosen, EndPass
<1>4. phase[p] = "updating" =>
        \A q \in Passes : phase'[q] \notin {"locked", "counted", "updating"}
  BY <1>2, <1>3 DEF IInv, LockHolder
<1> QED
  BY <1>1, <1>2, <1>3, <1>4

\* A pass that is refused or dies leaves the tables as they were.
LEMMA RollbackKeepsIInv ==
  ASSUME IInv, NEW p \in Passes, EndPass(p), UNCHANGED table
  PROVE  IInv'
<1>1. TypeOK'
  BY DEF IInv, TypeOK, EndPass, table, reviewerVars
<1>2. LockHolder'
  BY EndOfPass
<1>3. FreshRowsAreOwn' /\ WrittenRowsAreLocked' /\ ReadRowsAreLocked'
  BY ActorsAssumption DEF IInv, TypeOK, FreshRowsAreOwn, WrittenRowsAreLocked,
     ReadRowsAreLocked, Chosen, EndPass, table, reviewerVars
<1>4. Outstanding' = Outstanding
  BY DEF table, Outstanding
<1>5. RoomIsThere' /\ BudgetRespected'
  BY <1>4, EndOfPass DEF IInv, RoomIsThere, BudgetRespected
<1>6. \A q \in Passes \ {p} : Eligible(q)' = Eligible(q)
  BY EndOfPass DEF table, Eligible
<1>7. ChosenRankFirst'
  BY <1>6, EndOfPass DEF IInv, ChosenRankFirst
<1>8. SkippedStayQueued'
  BY DEF IInv, SkippedStayQueued, table
<1> QED
  BY <1>1, <1>2, <1>3, <1>5, <1>7, <1>8 DEF IInv

\* A commit routes at most the rows for which the pass has found room.
LEMMA CommitRespectsBudget ==
  ASSUME IInv, NEW p \in Passes, CommitPass(p)
  PROVE  BudgetRespected'
<1>1. /\ Chosen(p) = done[p] /\ done[p] \in SUBSET Fields
      /\ Cardinality(done[p]) <= limit[p] /\ Cardinality(Outstanding) + limit[p] <= Budget
  BY DEF IInv, TypeOK, RoomIsThere, Chosen, CommitPass
<1>2. Outstanding' \in SUBSET (Outstanding \cup done[p])
  BY DEF Outstanding, CommitPass
<1>3. Outstanding \in SUBSET Fields /\ Outstanding \cup done[p] \in SUBSET Fields
  BY <1>1 DEF Outstanding
<1>4. /\ Cardinality(Outstanding') <= Cardinality(Outstanding \cup done[p])
      /\ Cardinality(Outstanding') \in Nat /\ Cardinality(Outstanding \cup done[p]) \in Nat
  BY <1>2, <1>3, PartsAreSmaller
<1>5. Cardinality(Outstanding \cup done[p]) <= Cardinality(Outstanding) + Cardinality(done[p])
  BY <1>1, <1>3, UnionsAddUp
<1>6. /\ Cardinality(Outstanding) \in Nat /\ Cardinality(done[p]) \in Nat
      /\ limit[p] \in Nat
  BY <1>1, <1>3, PartsAreSmaller DEF IInv, TypeOK
<1> QED
  BY <1>1, <1>4, <1>5, <1>6, BudgetAssumption DEF BudgetRespected

\* Only rows that nobody else has in hand change when a pass commits.
LEMMA CommitTouchesOwnRows ==
  ASSUME IInv, NEW p \in Passes, CommitPass(p), NEW f \in Fields, state'[f] # state[f]
  PROVE  /\ state[f] # "reviewed" /\ state'[f] \in {"routed", "unreviewed"}
         /\ state'[f] = "unreviewed" => state[f] = "absent"
         /\ \A q \in Passes \ {p} : f \notin fresh[q]
         /\ \A r \in Reviewers : at[r] # f
<1>1. f \in done[p] \/ f \in fresh[p] \ done[p]
  BY DEF CommitPass
<1>2. CASE f \in done[p]
  <2>1. state[f] # "reviewed" /\ locks[f] = p /\ state'[f] = "routed"
    BY <1>2 DEF IInv, WrittenRowsAreLocked, CommitPass
  <2>2. \A r \in Reviewers : at[r] # f
    BY <2>1, ActorsAssumption DEF IInv, ReadRowsAreLocked
  <2>3. \A q \in Passes \ {p} : f \notin fresh[q]
    BY <1>2 DEF IInv, FreshRowsAreOwn, WrittenRowsAreLocked, Chosen
  <2> QED
    BY <2>1, <2>2, <2>3
<1>3. CASE f \in fresh[p] \ done[p]
  <2>1. state[f] = "absent" /\ state'[f] = "unreviewed"
    BY <1>3 DEF IInv, FreshRowsAreOwn, CommitPass
  <2>2. \A r \in Reviewers : at[r] # f
    BY <2>1, ActorsAssumption DEF IInv, ReadRowsAreLocked
  <2>3. \A q \in Passes \ {p} : f \notin fresh[q]
    BY <1>3 DEF IInv, FreshRowsAreOwn
  <2> QED
    BY <2>1, <2>2, <2>3
<1> QED
  BY <1>1, <1>2, <1>3

\* The rows of the pass become public and the lock is free again.
LEMMA CommitKeepsIInv ==
  ASSUME IInv, NEW p \in Passes, CommitPass(p)
  PROVE  IInv'
<1>1. EndPass(p) /\ UNCHANGED <<decision, decider, skipped, at, seen>>
  BY DEF CommitPass, EndPass, reviewerVars
<1>2. \A f \in Fields : state'[f] # state[f] =>
        /\ state[f] # "reviewed" /\ state'[f] \in {"routed", "unreviewed"}
        /\ state'[f] = "unreviewed" => state[f] = "absent"
        /\ \A q \in Passes \ {p} : f \notin fresh[q]
        /\ \A r \in Reviewers : at[r] # f
  BY CommitTouchesOwnRows
<1>3. \A q \in Passes : phase'[q] \notin {"locked", "counted", "updating"} /\ Chosen(q)' = {}
  BY <1>1, EndOfPass DEF IInv, LockHolder, WrittenRowsAreLocked, CommitPass
<1>4. state' \in [Fields -> {"absent", "unreviewed", "routed", "reviewed"}]
  <2>1. \A f \in Fields : state'[f] \in {"absent", "unreviewed", "routed", "reviewed"}
    BY <1>2 DEF IInv, TypeOK
  <2> QED
    BY <2>1 DEF CommitPass
<1>5. TypeOK'
  BY <1>1, <1>4 DEF IInv, TypeOK, EndPass
<1>6. LockHolder'
  BY <1>1, EndOfPass
<1>7. FreshRowsAreOwn'
  <2>1. fresh' = [fresh EXCEPT ![p] = {}]
    BY <1>1 DEF EndPass
  <2> QED
    BY <1>2, <2>1 DEF IInv, TypeOK, FreshRowsAreOwn
<1>8. WrittenRowsAreLocked'
  BY <1>3 DEF WrittenRowsAreLocked, Chosen
<1>9. ReadRowsAreLocked'
  <2>1. SUFFICES ASSUME NEW r \in Reviewers, at[r] # NoField
                 PROVE  (locks[at[r]] = r /\ seen[r] = state[at[r]] /\ seen[r] # "absent")'
    BY <1>1 DEF ReadRowsAreLocked
  <2>2. at[r] \in Fields /\ locks[at[r]] = r /\ seen[r] = state[at[r]] /\ seen[r] # "absent"
    BY <2>1 DEF IInv, TypeOK, ReadRowsAreLocked
  <2>3. state'[at[r]] = state[at[r]]
    BY <1>2, <2>2
  <2>4. locks'[at[r]] = r
    BY <1>1, <2>2, ActorsAssumption DEF EndPass
  <2> QED
    BY <1>1, <2>2, <2>3, <2>4
<1>10. RoomIsThere' /\ ChosenRankFirst'
  BY <1>3 DEF RoomIsThere, ChosenRankFirst
<1>11. BudgetRespected'
  BY CommitRespectsBudget
<1>12. SkippedStayQueued'
  BY <1>1, <1>2 DEF IInv, TypeOK, SkippedStayQueued
<1> QED
  BY <1>5, <1>6, <1>7, <1>8, <1>9, <1>10, <1>11, <1>12 DEF IInv

-------------------------------------------------------------------------------
(* Reviewers.                                                                  *)

\* A reviewer's transaction reads what is committed and keeps it from changing.
LEMMA ReadKeepsIInv ==
  ASSUME IInv, NEW r \in Reviewers, NEW f \in Fields, ReadField(r, f)
  PROVE  IInv'
<1>1. TypeOK'
  BY DEF IInv, TypeOK, ReadField, table, passVars
<1>2. LockHolder' /\ FreshRowsAreOwn' /\ SkippedStayQueued'
  BY DEF IInv, LockHolder, FreshRowsAreOwn, SkippedStayQueued, ReadField, table, passVars
<1>3. WrittenRowsAreLocked' /\ ReadRowsAreLocked'
  BY ActorsAssumption DEF IInv, TypeOK, WrittenRowsAreLocked, ReadRowsAreLocked, Chosen,
     ReadField, table, passVars
<1>4. Outstanding' = Outstanding
  BY DEF ReadField, table, Outstanding
<1>5. RoomIsThere' /\ ChosenRankFirst' /\ BudgetRespected'
  BY <1>4 DEF IInv, RoomIsThere, ChosenRankFirst, BudgetRespected, Chosen, Eligible,
     ReadField, table, passVars
<1> QED
  BY <1>1, <1>2, <1>3, <1>5 DEF IInv

\* A transaction that skips a queued row, or is refused, changes no state.
LEMMA NoDecisionKeepsIInv ==
  ASSUME IInv, NEW r \in Reviewers, EndDecision(r), UNCHANGED <<state, decision, decider>>,
         skipped' \in SUBSET Fields,
         \A f \in skipped' : f \in skipped \/ state[f] = "routed"
  PROVE  IInv'
<1>1. TypeOK'
  BY DEF IInv, TypeOK, EndDecision, passVars
<1>2. LockHolder' /\ FreshRowsAreOwn' /\ SkippedStayQueued'
  BY DEF IInv, LockHolder, FreshRowsAreOwn, SkippedStayQueued, EndDecision, passVars
<1>3. WrittenRowsAreLocked' /\ ReadRowsAreLocked'
  BY ActorsAssumption DEF IInv, TypeOK, WrittenRowsAreLocked, ReadRowsAreLocked, Chosen,
     EndDecision, passVars
<1>4. Outstanding' = Outstanding
  BY DEF Outstanding
<1>5. RoomIsThere' /\ ChosenRankFirst' /\ BudgetRespected'
  BY <1>4 DEF IInv, RoomIsThere, ChosenRankFirst, BudgetRespected, Chosen, Eligible,
     EndDecision, passVars
<1> QED
  BY <1>1, <1>2, <1>3, <1>5 DEF IInv

\* A decision takes a row out of every pass's reach and out of the queue.
LEMMA DecideKeepsIInv ==
  ASSUME IInv, NEW r \in Reviewers, NEW outcome \in {"accepted", "corrected"},
         Decide(r, outcome)
  PROVE  IInv'
<1> DEFINE f == at[r]
<1>1. f \in Fields /\ locks[f] = r /\ state[f] \notin {"reviewed", "absent"}
  BY DEF IInv, TypeOK, ReadRowsAreLocked, Decide
<1>2. /\ state' = [state EXCEPT ![f] = "reviewed"]
      /\ UNCHANGED <<skipped, phase, fresh, limit, picked, done, advisory>>
  BY DEF Decide, EndDecision, passVars
<1>3. TypeOK'
  BY <1>2 DEF IInv, TypeOK, Decide, EndDecision
<1> HIDE DEF f
<1>4. LockHolder' /\ FreshRowsAreOwn' /\ SkippedStayQueued'
  BY <1>1, <1>2 DEF IInv, TypeOK, LockHolder, FreshRowsAreOwn, SkippedStayQueued
<1>5. locks' = [g \in Fields |-> IF locks[g] = r THEN Nobody ELSE locks[g]]
  BY DEF Decide, EndDecision
<1>6. WrittenRowsAreLocked'
  BY <1>1, <1>2, <1>5, ActorsAssumption DEF IInv, TypeOK, WrittenRowsAreLocked, Chosen
<1>7. at' = [at EXCEPT ![r] = NoField] /\ seen' = [seen EXCEPT ![r] = "absent"]
  BY DEF Decide, EndDecision
<1>8. ReadRowsAreLocked'
  BY <1>1, <1>2, <1>5, <1>7, ActorsAssumption DEF IInv, TypeOK, ReadRowsAreLocked
<1>9. Outstanding' \in SUBSET Outstanding /\ Outstanding \in SUBSET Fields
  BY <1>2 DEF IInv, TypeOK, Outstanding
<1>10. /\ Cardinality(Outstanding') <= Cardinality(Outstanding)
       /\ Cardinality(Outstanding') \in Nat /\ Cardinality(Outstanding) \in Nat
  BY <1>9, PartsAreSmaller
<1>11. RoomIsThere' /\ BudgetRespected'
  BY <1>2, <1>10, BudgetAssumption DEF IInv, TypeOK, RoomIsThere, BudgetRespected, Chosen
<1>12. \A q \in Passes : Eligible(q)' \subseteq Eligible(q)
  BY <1>2 DEF IInv, TypeOK, Eligible
<1>13. ChosenRankFirst'
  BY <1>2, <1>12 DEF IInv, ChosenRankFirst, Chosen
<1> QED
  BY <1>3, <1>4, <1>6, <1>8, <1>11, <1>13 DEF IInv

-------------------------------------------------------------------------------

\* Every step keeps the invariant.
LEMMA NextIInv == IInv /\ [Next]_vars => IInv'
<1> SUFFICES ASSUME IInv, [Next]_vars PROVE IInv'
  OBVIOUS
<1>1. ASSUME NEW p \in Passes, NEW rows \in Extractions \cup {{}}, BeginPass(p, rows)
      PROVE  IInv'
  BY <1>1, BeginKeepsIInv
<1>2. ASSUME NEW p \in Passes, PassStep(p)
      PROVE  IInv'
  <2>1. CASE TakeRoutingLock(p)
    BY <2>1, LockKeepsIInv
  <2>2. CASE CountOutstanding(p)
    BY <2>2, CountKeepsIInv
  <2>3. CASE SelectRows(p)
    BY <2>3, SelectKeepsIInv
  <2>4. ASSUME NEW f \in Fields, UpdateRow(p, f)
        PROVE  IInv'
    BY <2>4, UpdateKeepsIInv
  <2>5. ASSUME NEW f \in Fields, UpdateRefused(p, f)
        PROVE  IInv'
    BY <2>5, RollbackKeepsIInv DEF UpdateRefused
  <2>6. CASE CommitPass(p)
    BY <2>6, CommitKeepsIInv
  <2> QED
    BY <1>2, <2>1, <2>2, <2>3, <2>4, <2>5, <2>6 DEF PassStep
<1>3. ASSUME NEW p \in Passes, AbortPass(p)
      PROVE  IInv'
  BY <1>3, RollbackKeepsIInv DEF AbortPass
<1>4. ASSUME NEW r \in Reviewers, NEW f \in Fields, ReadField(r, f)
      PROVE  IInv'
  BY <1>4, ReadKeepsIInv
<1>5. ASSUME NEW r \in Reviewers, ReviewerStep(r)
      PROVE  IInv'
  <2>1. ASSUME NEW outcome \in {"accepted", "corrected"}, Decide(r, outcome)
        PROVE  IInv'
    BY <2>1, DecideKeepsIInv
  <2>2. CASE Skip(r)
    <3>1. at[r] \in Fields /\ state[at[r]] = "routed"
      BY <2>2 DEF IInv, TypeOK, ReadRowsAreLocked, Skip
    <3>2. /\ skipped' \in SUBSET Fields
          /\ \A f \in skipped' : f \in skipped \/ state[f] = "routed"
      BY <2>2, <3>1 DEF IInv, TypeOK, Skip
    <3> QED
      BY <2>2, <3>2, NoDecisionKeepsIInv DEF Skip
  <2>3. CASE Refuse(r)
    BY <2>3, NoDecisionKeepsIInv DEF Refuse, table, IInv, TypeOK
  <2> QED
    BY <1>5, <2>1, <2>2, <2>3 DEF ReviewerStep
<1>6. CASE UNCHANGED vars
  <2> USE <1>6 DEF vars, table, passVars, reviewerVars
  <2>1. TypeOK' /\ LockHolder' /\ FreshRowsAreOwn' /\ WrittenRowsAreLocked'
    BY DEF IInv, TypeOK, LockHolder, FreshRowsAreOwn, WrittenRowsAreLocked, Chosen
  <2>2. ReadRowsAreLocked' /\ SkippedStayQueued'
    BY DEF IInv, ReadRowsAreLocked, SkippedStayQueued
  <2>3. RoomIsThere' /\ ChosenRankFirst' /\ BudgetRespected'
    BY DEF IInv, RoomIsThere, ChosenRankFirst, BudgetRespected, Outstanding, Chosen, Eligible
  <2> QED
    BY <2>1, <2>2, <2>3 DEF IInv
<1> QED
  BY <1>1, <1>2, <1>3, <1>4, <1>5, <1>6 DEF Next

\* The invariant holds in every reachable state.
THEOREM Invariance == Spec => []IInv
<1> QED
  BY InitIInv, NextIInv, PTL DEF Spec

\* Every column and every transaction keeps its type (schema.py field_reviews).
THEOREM TypeCorrect == Spec => []TypeOK
<1>1. IInv => TypeOK
  BY DEF IInv
<1> QED
  BY <1>1, Invariance, PTL

\* The queue never holds more fields than review_budget, whatever number of
\* passes and reviewers are at work (routing.py route_pending).
THEOREM BudgetIsRespected == Spec => []BudgetRespected
<1>1. IInv => BudgetRespected
  BY DEF IInv
<1> QED
  BY <1>1, Invariance, PTL

\* A skipped field stays in the queue until it is reviewed (fields.py).
THEOREM SkippingKeepsQueued == Spec => []SkippedStayQueued
<1>1. IInv => SkippedStayQueued
  BY DEF IInv
<1> QED
  BY <1>1, Invariance, PTL

\* No step changes a row that has been reviewed.
LEMMA ReviewedRowsStay ==
  ASSUME IInv, Next, NEW f \in Fields, state[f] = "reviewed"
  PROVE  state'[f] = "reviewed" /\ decision'[f] = decision[f] /\ decider'[f] = decider[f]
<1>1. ASSUME NEW p \in Passes, CommitPass(p)
      PROVE  state'[f] = "reviewed" /\ UNCHANGED <<decision, decider>>
  BY <1>1, CommitTouchesOwnRows DEF CommitPass
<1>2. ASSUME NEW r \in Reviewers, NEW outcome \in {"accepted", "corrected"}, Decide(r, outcome)
      PROVE  state'[f] = "reviewed" /\ decision'[f] = decision[f] /\ decider'[f] = decider[f]
  <2>1. at[r] # f
    BY <1>2 DEF IInv, ReadRowsAreLocked, Decide
  <2> QED
    BY <1>2, <2>1 DEF Decide, IInv, TypeOK
<1>3. \/ UNCHANGED <<state, decision, decider>>
      \/ \E p \in Passes : CommitPass(p)
      \/ \E r \in Reviewers, outcome \in {"accepted", "corrected"} : Decide(r, outcome)
  BY DEF Next, PassStep, ReviewerStep, BeginPass, TakeRoutingLock, CountOutstanding,
     SelectRows, UpdateRow, UpdateRefused, AbortPass, ReadField, Skip, Refuse, table
<1> QED
  BY <1>1, <1>2, <1>3

\* A decision is the last word on a field: no other reviewer and no routing pass
\* changes it afterwards (fields.py record_decision; schema.py field_reviews).
THEOREM DecisionsStayFinal == Spec => DecisionsAreFinal
<1>1. IInv /\ [Next]_vars =>
        [\A f \in Fields : state[f] = "reviewed" =>
           state'[f] = "reviewed" /\ decision'[f] = decision[f]
             /\ decider'[f] = decider[f]]_vars
  BY ReviewedRowsStay
<1> QED
  BY <1>1, Invariance, PTL DEF Spec, DecisionsAreFinal

\* What is left behind by a commit could have been selected and was not.
LEMMA CommitLeavesTheRest ==
  ASSUME IInv, NEW p \in Passes, CommitPass(p)
  PROVE  /\ \A f \in done[p], g \in LeftBehind : f < g
         /\ LeftBehind # {} => Cardinality(done[p]) = limit[p]
<1>1. Chosen(p) = done[p] /\ phase[p] = "updating"
  BY DEF Chosen, CommitPass
<1>2. LeftBehind \subseteq Eligible(p) \ done[p]
  BY DEF LeftBehind, Eligible, CommitPass
<1> QED
  BY <1>1, <1>2 DEF IInv, ChosenRankFirst

\* The budget never decides which fields rank first, whatever happens between the
\* selection and the commit (routing.py route_pending).
THEOREM LowestAreTaken == Spec => PassesTakeTheLowest
<1>1. IInv /\ [Next]_vars =>
        [\A p \in Passes : CommitPass(p) =>
           /\ \A f \in done[p], g \in LeftBehind : f < g
           /\ LeftBehind # {} => Cardinality(done[p]) = limit[p]]_vars
  BY CommitLeavesTheRest
<1> QED
  BY <1>1, Invariance, PTL DEF Spec, PassesTakeTheLowest

-------------------------------------------------------------------------------
(* The board.                                                                  *)

\* A pass inserts the rows of one extraction, or none.
InsertsAreWhole == \A p \in Passes : fresh[p] \in Extractions \cup {{}}

\* What a pass has chosen was eligible, and is, unless it has been reviewed since: nobody
\* else routes or inserts a row while the pass holds the lock.
ChosenWereEligible ==
  \A p \in Passes : \A f \in Chosen(p) :
    f < Floor /\ (f \in fresh[p] \/ state[f] \in {"unreviewed", "reviewed"})

\* At first no pass has inserted or chosen anything.
LEMMA InitBoardInv == Init => InsertsAreWhole /\ ChosenWereEligible
BY DEF Init, InsertsAreWhole, ChosenWereEligible, Chosen

\* Nothing but its beginning and its end changes what a pass inserts, and only a commit
\* and a decision change states.
LEMMA NextBoardInv ==
  ASSUME IInv, InsertsAreWhole, ChosenWereEligible, [Next]_vars
  PROVE  InsertsAreWhole' /\ ChosenWereEligible'
<1> USE DEF IInv, TypeOK
<1>1. ASSUME NEW p \in Passes, NEW rows \in Extractions \cup {{}}, BeginPass(p, rows)
      PROVE  InsertsAreWhole' /\ ChosenWereEligible'
  <2>1. fresh' = [fresh EXCEPT ![p] = rows] /\ UNCHANGED <<state, picked, done>>
        /\ phase[p] = "idle"
    BY <1>1 DEF BeginPass, table
  <2>2. Chosen(p) = {} /\ \A q \in Passes : Chosen(q)' = Chosen(q)
    BY <2>1 DEF WrittenRowsAreLocked, Chosen
  <2> QED BY <2>1, <2>2 DEF InsertsAreWhole, ChosenWereEligible
<1>2. ASSUME NEW p \in Passes, EndPass(p), UNCHANGED table
      PROVE  InsertsAreWhole' /\ ChosenWereEligible'
  <2>1. fresh' = [fresh EXCEPT ![p] = {}] /\ state' = state
    BY <1>2 DEF EndPass, table
  <2>2. Chosen(p)' = {} /\ \A q \in Passes \ {p} : Chosen(q)' = Chosen(q)
    BY <1>2, EndOfPass
  <2> QED BY <2>1, <2>2 DEF InsertsAreWhole, ChosenWereEligible
<1>3. ASSUME NEW p \in Passes, CommitPass(p)
      PROVE  InsertsAreWhole' /\ ChosenWereEligible'
  <2>1. EndPass(p) /\ fresh' = [fresh EXCEPT ![p] = {}] /\ phase[p] = "updating"
    BY <1>3 DEF CommitPass, EndPass, reviewerVars
  <2>2. \A q \in Passes : Chosen(q)' = {}
    <3>1. Chosen(p)' = {} /\ \A q \in Passes \ {p} : Chosen(q)' = Chosen(q)
      BY <2>1, EndOfPass
    <3>2. \A q \in Passes \ {p} : phase[q] # "updating"
      BY <2>1 DEF LockHolder
    <3>3. \A q \in Passes \ {p} : Chosen(q) = {}
      BY <3>2 DEF WrittenRowsAreLocked
    <3> QED BY <3>1, <3>3
  <2> QED BY <2>1, <2>2 DEF InsertsAreWhole, ChosenWereEligible
<1>4. ASSUME NEW p \in Passes, SelectRows(p)
      PROVE  InsertsAreWhole' /\ ChosenWereEligible'
  <2>1. PICK rows \in SUBSET Eligible(p) : picked' = [picked EXCEPT ![p] = rows]
    BY <1>4 DEF SelectRows
  <2>2. UNCHANGED <<state, fresh, done>> /\ phase[p] = "counted"
    BY <1>4 DEF SelectRows, table
  <2>3. Chosen(p)' = rows /\ \A q \in Passes \ {p} : Chosen(q)' = Chosen(q)
    BY <2>1, <2>2 DEF WrittenRowsAreLocked, Chosen
  <2>4. \A f \in rows : f < Floor /\ (f \in fresh[p] \/ state[f] = "unreviewed")
    BY DEF Eligible
  <2> QED BY <2>2, <2>3, <2>4 DEF InsertsAreWhole, ChosenWereEligible
<1>5. ASSUME NEW r \in Reviewers, NEW outcome \in {"accepted", "corrected"}, Decide(r, outcome)
      PROVE  InsertsAreWhole' /\ ChosenWereEligible'
  <2>1. state' = [state EXCEPT ![at[r]] = "reviewed"] /\ UNCHANGED <<fresh, picked, done>>
    BY <1>5 DEF Decide, EndDecision, passVars
  <2>2. \A q \in Passes : Chosen(q)' = Chosen(q)
    BY <2>1 DEF Chosen
  <2> QED BY <2>1, <2>2 DEF InsertsAreWhole, ChosenWereEligible
<1>6. ASSUME UNCHANGED <<state, fresh>>, \A q \in Passes : Chosen(q)' = Chosen(q)
      PROVE  InsertsAreWhole' /\ ChosenWereEligible'
  BY <1>6 DEF InsertsAreWhole, ChosenWereEligible
<1>7. ASSUME NEW p \in Passes, NEW f \in Fields, UpdateRow(p, f)
      PROVE  UNCHANGED <<state, fresh>> /\ \A q \in Passes : Chosen(q)' = Chosen(q)
  BY <1>7 DEF UpdateRow, Chosen, table
<1>8. ASSUME UNCHANGED <<state, fresh, picked, done>>
      PROVE  UNCHANGED <<state, fresh>> /\ \A q \in Passes : Chosen(q)' = Chosen(q)
  BY <1>8 DEF Chosen
<1>9. ASSUME NEW p \in Passes, PassStep(p) \/ AbortPass(p)
      PROVE  InsertsAreWhole' /\ ChosenWereEligible'
  <2>1. CASE TakeRoutingLock(p) \/ CountOutstanding(p)
    BY <1>6, <1>8, <2>1 DEF TakeRoutingLock, CountOutstanding, table
  <2>2. CASE \E f \in Fields : UpdateRefused(p, f)
    BY <1>2, <2>2 DEF UpdateRefused
  <2>3. CASE AbortPass(p)
    BY <1>2, <2>3 DEF AbortPass
  <2>4. CASE \E f \in Fields : UpdateRow(p, f)
    BY <1>6, <1>7, <2>4
  <2> QED BY <1>3, <1>4, <1>9, <2>1, <2>2, <2>3, <2>4 DEF PassStep
<1>10. ASSUME NEW r \in Reviewers, (\E f \in Fields : ReadField(r, f)) \/ ReviewerStep(r)
       PROVE  InsertsAreWhole' /\ ChosenWereEligible'
  <2>1. CASE (\E f \in Fields : ReadField(r, f)) \/ Skip(r) \/ Refuse(r)
    BY <1>6, <1>8, <2>1 DEF ReadField, Skip, Refuse, EndDecision, table, passVars
  <2> QED BY <1>5, <1>10, <2>1 DEF ReviewerStep
<1>11. CASE UNCHANGED vars
  BY <1>6, <1>8, <1>11 DEF vars, table, passVars
<1> QED BY <1>1, <1>9, <1>10, <1>11 DEF Next

\* What a pass commits is a pass of the board.
LEMMA CommitIsAPass ==
  ASSUME IInv, InsertsAreWhole, ChosenWereEligible, NEW p \in Passes, CommitPass(p)
  PROVE  Board!Pass(fresh[p], done[p])
<1>1. Chosen(p) = done[p] /\ phase[p] = "updating"
  BY DEF Chosen, CommitPass
<1>2. \A f \in fresh[p] : state[f] = "absent"
  BY DEF IInv, FreshRowsAreOwn
<1>3. Board!Eligible(fresh[p]) = Eligible(p)
  BY DEF Board!Eligible, Eligible
<1>4. done[p] \subseteq Eligible(p)
  <2> SUFFICES ASSUME NEW f \in done[p] PROVE f \in Eligible(p)
    OBVIOUS
  <2>1. f \in Fields /\ state[f] # "reviewed"
    BY DEF IInv, TypeOK, WrittenRowsAreLocked
  <2>2. f < Floor /\ (f \in fresh[p] \/ state[f] \in {"unreviewed", "reviewed"})
    BY <1>1 DEF ChosenWereEligible
  <2> QED BY <2>1, <2>2 DEF Eligible
<1>5. \A f \in done[p], g \in Eligible(p) \ done[p] : f < g
  BY <1>1 DEF IInv, ChosenRankFirst
<1>6. Board!Cardinality(Board!Waiting) + Board!Cardinality(done[p]) <= Budget
  <2>1. Board!Waiting = Outstanding
    BY DEF Board!Waiting, Outstanding
  <2>2. Cardinality(Outstanding) + limit[p] <= Budget /\ Cardinality(done[p]) <= limit[p]
    BY <1>1 DEF IInv, RoomIsThere
  <2>3. Cardinality(Outstanding) \in Nat /\ Cardinality(done[p]) \in Nat /\ limit[p] \in Nat
    BY <1>1, Numbers DEF IInv
  <2>4. \A S : Board!Cardinality(S) = Cardinality(S)
    BY DEF Board!Cardinality, Cardinality
  <2> QED BY <2>1, <2>2, <2>3, <2>4, BudgetAssumption
<1>7. state' = [f \in Fields |-> IF f \in done[p] THEN "routed"
                                 ELSE IF f \in fresh[p] THEN "unreviewed" ELSE state[f]]
  BY DEF CommitPass
<1>8. UNCHANGED <<decision, decider, skipped>>
  BY DEF CommitPass
<1> QED BY <1>2, <1>3, <1>4, <1>5, <1>6, <1>7, <1>8 DEF Board!Pass

\* Every step is one of the board or leaves it alone.
LEMMA StepRefines ==
  ASSUME IInv, InsertsAreWhole, ChosenWereEligible, [Next]_vars
  PROVE  [Board!Next]_(Board!vars)
<1>1. ASSUME NEW p \in Passes, CommitPass(p)
      PROVE  Board!Next
  <2>1. fresh[p] \in Extractions \cup {{}} /\ done[p] \in SUBSET Fields
    BY DEF InsertsAreWhole, IInv, TypeOK
  <2> QED BY <1>1, <2>1, CommitIsAPass DEF Board!Next
<1>2. ASSUME NEW r \in Reviewers, NEW outcome \in {"accepted", "corrected"}, Decide(r, outcome)
      PROVE  Board!Next
  <2>1. at[r] \in Fields /\ state[at[r]] \in {"unreviewed", "routed"}
    BY <1>2 DEF IInv, TypeOK, ReadRowsAreLocked, Decide
  <2>2. Board!Decide(at[r], r, outcome)
    BY <1>2, <2>1 DEF Decide, Board!Decide
  <2> QED BY <2>1, <2>2 DEF Board!Next
<1>3. ASSUME NEW r \in Reviewers, Skip(r)
      PROVE  Board!Next
  <2>1. at[r] \in Fields /\ state[at[r]] = "routed"
    BY <1>3 DEF IInv, TypeOK, ReadRowsAreLocked, Skip
  <2>2. Board!Skip(at[r])
    BY <1>3, <2>1 DEF Skip, Board!Skip
  <2> QED BY <2>1, <2>2 DEF Board!Next
<1>4. \/ UNCHANGED Board!vars
      \/ \E p \in Passes : CommitPass(p)
      \/ \E r \in Reviewers : Skip(r) \/ \E outcome \in {"accepted", "corrected"} : Decide(r, outcome)
  BY DEF Next, PassStep, ReviewerStep, BeginPass, TakeRoutingLock, CountOutstanding, SelectRows,
     UpdateRow, UpdateRefused, AbortPass, ReadField, Refuse, table, vars, Board!vars
<1> QED BY <1>1, <1>2, <1>3, <1>4

\* field_reviews looks as if passes and decisions ran one after the other, for any number of
\* them at once, whatever is rolled back or refused (routing.py, fields.py).
THEOREM Refinement == Spec => ImplementsReviewBoard
<1>1. Init => Board!Init
  BY DEF Init, Board!Init
<1>2. Init => IInv /\ InsertsAreWhole /\ ChosenWereEligible
  BY InitIInv, InitBoardInv
<1>3. IInv /\ InsertsAreWhole /\ ChosenWereEligible /\ [Next]_vars =>
        IInv' /\ InsertsAreWhole' /\ ChosenWereEligible'
  BY NextIInv, NextBoardInv
<1>4. IInv /\ InsertsAreWhole /\ ChosenWereEligible /\ [Next]_vars =>
        [Board!Next]_(Board!vars)
  BY StepRefines
<1> QED
  BY <1>1, <1>2, <1>3, <1>4, PTL DEF Spec, ImplementsReviewBoard, Board!Spec
===============================================================================
