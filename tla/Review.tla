-------------------------------- MODULE Review --------------------------------
(***************************************************************************)
(* The field_reviews table and its two kinds of writers: routing passes    *)
(* (app/review/routing.py, run by a worker at the end of an extraction and *)
(* by POST /review/route) and reviewers' decisions (app/review/fields.py). *)
(*                                                                         *)
(* `state`, `decision`, `decider` and `skipped` are the committed columns. *)
(* Everything else belongs to open READ COMMITTED transactions: a pass     *)
(* goes through its statements one at a time and sees, at each, what is    *)
(* committed by then.  The UPDATE of a pass picks its rows on one such     *)
(* view and writes them later, one by one, behind whoever has them locked. *)
(***************************************************************************)
EXTENDS Naturals, FiniteSets

CONSTANTS
  Fields,       \* field_reviews rows, each named by its place in the order
                \* (confidence, created_at, field) that routing ranks by; rows
                \* that tie in all three are not modelled
  Extractions,  \* sets of Fields: the rows one extraction inserts
  Floor,        \* review_confidence_floor: the rows below it are eligible
  Budget,       \* review_budget; no budget is one that is never reached
  Passes,       \* transactions that run route_pending
  Reviewers,    \* transactions that run record_decision
  Nobody,       \* no transaction
  NoField       \* no row

ASSUME RanksAssumption == Fields \subseteq Nat /\ IsFiniteSet(Fields) /\ Floor \in Nat
ASSUME ExtractionsAssumption == Extractions \subseteq SUBSET Fields
ASSUME BudgetAssumption == Budget \in Nat
ASSUME ActorsAssumption ==
  /\ Passes \cap Reviewers = {}
  /\ Nobody \notin Passes \cup Reviewers
  /\ NoField \notin Fields

VARIABLES
  state,     \* review_state of each row; "absent" is a row not inserted yet
  decision,  \* decision column
  decider,   \* reviewer column
  skipped,   \* rows whose skip_count is not 0
  phase,     \* how far each pass is
  fresh,     \* rows inserted by the transaction of a pass, before it commits
  limit,     \* the LIMIT of its UPDATE
  picked,    \* rows its UPDATE has selected and not written yet
  done,      \* rows its UPDATE has written
  advisory,  \* the pass that holds the routing lock
  locks,     \* who holds the lock of each row
  at,        \* the row each reviewer's transaction has read
  seen       \* the review_state it read there

table == <<state, decision, decider, skipped>>
passVars == <<phase, fresh, limit, picked, done, advisory>>
reviewerVars == <<at, seen>>
vars == <<table, passVars, locks, reviewerVars>>

Init ==
  /\ state = [f \in Fields |-> "absent"]
  /\ decision = [f \in Fields |-> "none"]
  /\ decider = [f \in Fields |-> Nobody]
  /\ skipped = {}
  /\ phase = [p \in Passes |-> "idle"]
  /\ fresh = [p \in Passes |-> {}]
  /\ limit = [p \in Passes |-> 0]
  /\ picked = [p \in Passes |-> {}]
  /\ done = [p \in Passes |-> {}]
  /\ advisory = Nobody
  /\ locks = [f \in Fields |-> Nobody]
  /\ at = [r \in Reviewers |-> NoField]
  /\ seen = [r \in Reviewers |-> "absent"]

-------------------------------------------------------------------------------
(* Routing passes *)

\* A transaction that will route: one that has just inserted the rows of an
\* extraction, all 'unreviewed', or POST /review/route, which inserts nothing.
BeginPass(p, rows) ==
  /\ phase[p] = "idle"
  /\ rows \in Extractions \cup {{}}
  /\ \A f \in rows : state[f] = "absent" /\ \A q \in Passes : f \notin fresh[q]
  /\ phase' = [phase EXCEPT ![p] = "began"]
  /\ fresh' = [fresh EXCEPT ![p] = rows]
  /\ UNCHANGED <<table, limit, picked, done, advisory, locks, reviewerVars>>

\* Mutant of TakeRoutingLock: there is no lock.
StartUnserialised(p) ==
  /\ phase[p] = "began"
  /\ phase' = [phase EXCEPT ![p] = "locked"]
  /\ UNCHANGED <<table, fresh, limit, picked, done, advisory, locks, reviewerVars>>

\* pg_advisory_xact_lock: waits for the pass that has it to commit or roll back.
TakeRoutingLock(p) ==
  /\ phase[p] = "began"
  /\ advisory = Nobody
  /\ advisory' = p
  /\ phase' = [phase EXCEPT ![p] = "locked"]
  /\ UNCHANGED <<table, fresh, limit, picked, done, locks, reviewerVars>>

Outstanding == {f \in Fields : state[f] = "routed"}

RoomFor(n) == IF n >= Budget THEN 0 ELSE Budget - n

CountOutstanding(p) ==
  /\ phase[p] = "locked"
  /\ limit' = [limit EXCEPT ![p] = RoomFor(Cardinality(Outstanding))]
  /\ phase' = [phase EXCEPT ![p] = "counted"]
  /\ UNCHANGED <<table, fresh, picked, done, advisory, locks, reviewerVars>>

\* What the subquery of the UPDATE can see: committed rows and its own.
Eligible(p) ==
  {f \in Fields : f < Floor /\ (state[f] = "unreviewed" \/ f \in fresh[p])}

\* Mutant of FirstRanked: LIMIT without ORDER BY.
FirstFound(P, S, n) ==
  /\ P \subseteq S
  /\ Cardinality(P) = IF Cardinality(S) <= n THEN Cardinality(S) ELSE n

\* ORDER BY ... LIMIT n of the rows S is the set P.
FirstRanked(P, S, n) ==
  /\ P \subseteq S
  /\ Cardinality(P) = IF Cardinality(S) <= n THEN Cardinality(S) ELSE n
  /\ \A f \in P, g \in S \ P : f < g

\* The UPDATE starts: its subquery is evaluated, nothing is locked yet. (With
\* no room the code skips the UPDATE; LIMIT 0 is the same.)
SelectRows(p) ==
  /\ phase[p] = "counted"
  /\ \E rows \in SUBSET Eligible(p) :
       /\ FirstRanked(rows, Eligible(p), limit[p])
       /\ picked' = [picked EXCEPT ![p] = rows]
  /\ phase' = [phase EXCEPT ![p] = "updating"]
  /\ UNCHANGED <<table, fresh, limit, done, advisory, locks, reviewerVars>>

\* Mutant of UpdateRow: the table has no check that refuses a reviewed row.
UpdateReviewedRow(p, f) ==
  /\ f \in picked[p]
  /\ locks[f] = Nobody
  /\ locks' = [locks EXCEPT ![f] = p]
  /\ picked' = [picked EXCEPT ![p] = @ \ {f}]
  /\ done' = [done EXCEPT ![p] = @ \cup {f}]
  /\ UNCHANGED <<table, phase, fresh, limit, advisory, reviewerVars>>

\* The UPDATE reaches a row that nobody has locked any more.
UpdateRow(p, f) ==
  /\ f \in picked[p]
  /\ locks[f] = Nobody
  /\ state[f] # "reviewed"
  /\ locks' = [locks EXCEPT ![f] = p]
  /\ picked' = [picked EXCEPT ![p] = @ \ {f}]
  /\ done' = [done EXCEPT ![p] = @ \cup {f}]
  /\ UNCHANGED <<table, phase, fresh, limit, advisory, reviewerVars>>

\* Mutant of EndPass: the lock is the session's (pg_advisory_lock).
EndPassKeepsLock(p) ==
  /\ phase' = [phase EXCEPT ![p] = "idle"]
  /\ fresh' = [fresh EXCEPT ![p] = {}]
  /\ limit' = [limit EXCEPT ![p] = 0]
  /\ picked' = [picked EXCEPT ![p] = {}]
  /\ done' = [done EXCEPT ![p] = {}]
  /\ locks' = [f \in Fields |-> IF locks[f] = p THEN Nobody ELSE locks[f]]
  /\ UNCHANGED <<advisory, reviewerVars>>

\* The transaction of pass p is over; its locks go with it.
EndPass(p) ==
  /\ phase' = [phase EXCEPT ![p] = "idle"]
  /\ fresh' = [fresh EXCEPT ![p] = {}]
  /\ limit' = [limit EXCEPT ![p] = 0]
  /\ picked' = [picked EXCEPT ![p] = {}]
  /\ done' = [done EXCEPT ![p] = {}]
  /\ advisory' = IF advisory = p THEN Nobody ELSE advisory
  /\ locks' = [f \in Fields |-> IF locks[f] = p THEN Nobody ELSE locks[f]]
  /\ UNCHANGED reviewerVars

\* The row was picked as unreviewed and has been reviewed since. The subquery is
\* not evaluated again for it, so the UPDATE goes ahead on the new version of
\* the row, and field_reviews_reviewed_is_complete refuses the result: the
\* transaction is aborted, with the extraction it inserted.
UpdateRefused(p, f) ==
  /\ f \in picked[p]
  /\ locks[f] = Nobody
  /\ state[f] = "reviewed"
  /\ EndPass(p)
  /\ UNCHANGED table

CommitPass(p) ==
  /\ phase[p] = "updating"
  /\ picked[p] = {}
  /\ state' = [f \in Fields |->
                 CASE f \in done[p]  -> "routed"
                   [] f \in fresh[p] \ done[p] -> "unreviewed"
                   [] OTHER -> state[f]]
  /\ EndPass(p)
  /\ UNCHANGED <<decision, decider, skipped>>

\* The process or its session dies.
AbortPass(p) ==
  /\ phase[p] # "idle"
  /\ EndPass(p)
  /\ UNCHANGED table

-------------------------------------------------------------------------------
(* Reviewers *)

\* SELECT ... FOR UPDATE: waits for whoever has the row and then reads it.
ReadField(r, f) ==
  /\ at[r] = NoField
  /\ state[f] # "absent"
  /\ locks[f] = Nobody
  /\ locks' = [locks EXCEPT ![f] = r]
  /\ at' = [at EXCEPT ![r] = f]
  /\ seen' = [seen EXCEPT ![r] = state[f]]
  /\ UNCHANGED <<table, passVars>>

EndDecision(r) ==
  /\ at' = [at EXCEPT ![r] = NoField]
  /\ seen' = [seen EXCEPT ![r] = "absent"]
  /\ locks' = [f \in Fields |-> IF locks[f] = r THEN Nobody ELSE locks[f]]
  /\ UNCHANGED passVars

\* accept, or a correction that is valid and differs from the model's value. The
\* field need not have been routed.
Decide(r, outcome) ==
  /\ at[r] # NoField
  /\ seen[r] # "reviewed"
  /\ state' = [state EXCEPT ![at[r]] = "reviewed"]
  /\ decision' = [decision EXCEPT ![at[r]] = outcome]
  /\ decider' = [decider EXCEPT ![at[r]] = r]
  /\ EndDecision(r)
  /\ UNCHANGED skipped

\* Mutants of Skip: anything not reviewed can be skipped; skipping is a state.
SkipAnything(r) ==
  /\ at[r] # NoField
  /\ seen[r] # "reviewed"
  /\ skipped' = skipped \cup {at[r]}
  /\ EndDecision(r)
  /\ UNCHANGED <<state, decision, decider>>
SkipIsAState(r) ==
  /\ at[r] # NoField
  /\ seen[r] = "routed"
  /\ state' = [state EXCEPT ![at[r]] = "skipped"]
  /\ skipped' = skipped \cup {at[r]}
  /\ EndDecision(r)
  /\ UNCHANGED <<decision, decider>>

\* Only a queued field can be skipped; it stays queued.
Skip(r) ==
  /\ at[r] # NoField
  /\ seen[r] = "routed"
  /\ skipped' = skipped \cup {at[r]}
  /\ EndDecision(r)
  /\ UNCHANGED <<state, decision, decider>>

\* AlreadyReviewedError, NotRoutedError, InvalidCorrectionError, or a crash: the
\* transaction is rolled back.
Refuse(r) ==
  /\ at[r] # NoField
  /\ EndDecision(r)
  /\ UNCHANGED table

-------------------------------------------------------------------------------

PassStep(p) ==
  \/ TakeRoutingLock(p)
  \/ CountOutstanding(p)
  \/ SelectRows(p)
  \/ \E f \in Fields : UpdateRow(p, f) \/ UpdateRefused(p, f)
  \/ CommitPass(p)

ReviewerStep(r) ==
  \/ \E outcome \in {"accepted", "corrected"} : Decide(r, outcome)
  \/ Skip(r)
  \/ Refuse(r)

Next ==
  \/ \E p \in Passes :
       \/ \E rows \in Extractions \cup {{}} : BeginPass(p, rows)
       \/ PassStep(p)
       \/ AbortPass(p)
  \/ \E r \in Reviewers :
       \/ \E f \in Fields : ReadField(r, f)
       \/ ReviewerStep(r)

Spec == Init /\ [][Next]_vars

\* A transaction that is open goes on: it waits for locks of the database, which
\* hands a freed lock to one that waits for it, and a request of the review UI also
\* for a second connection, which times out (Refuse). Nothing obliges a pass or a
\* decision to begin.
Fairness ==
  /\ \A p \in Passes :
       /\ WF_vars(PassStep(p))
       /\ SF_vars(TakeRoutingLock(p))
       /\ SF_vars(\E f \in Fields : UpdateRow(p, f) \/ UpdateRefused(p, f))
  /\ \A r \in Reviewers : WF_vars(ReviewerStep(r))

FairSpec == Spec /\ Fairness

-------------------------------------------------------------------------------

\* The columns and each transaction's position hold what they are declared to
\* (schema.py field_reviews; routing.py; fields.py).
TypeOK ==
  /\ state \in [Fields -> {"absent", "unreviewed", "routed", "reviewed"}]
  /\ decision \in [Fields -> {"none", "accepted", "corrected"}]
  /\ decider \in [Fields -> Reviewers \cup {Nobody}]
  /\ skipped \subseteq Fields
  /\ phase \in [Passes -> {"idle", "began", "locked", "counted", "updating"}]
  /\ fresh \in [Passes -> SUBSET Fields]
  /\ limit \in [Passes -> Nat]
  /\ picked \in [Passes -> SUBSET Fields]
  /\ done \in [Passes -> SUBSET Fields]
  /\ advisory \in Passes \cup {Nobody}
  /\ locks \in [Fields -> Passes \cup Reviewers \cup {Nobody}]
  /\ at \in [Reviewers -> Fields \cup {NoField}]
  /\ seen \in [Reviewers -> {"absent", "unreviewed", "routed", "reviewed"}]

\* The reviewer never has more than review_budget fields waiting, however many
\* passes run at once and however decisions fall between a pass's count and its
\* UPDATE (routing.py: "so the budget cannot be overshot by both counting the
\* same outstanding set").
BudgetRespected == Cardinality(Outstanding) <= Budget

\* One human answer per field: once a row is reviewed neither a second reviewer
\* nor a routing pass that picked it earlier changes it (fields.py:
\* AlreadyReviewedError; schema.py: "A reviewed field is never re-routed").
DecisionsAreFinal ==
  [][\A f \in Fields : state[f] = "reviewed" =>
       state'[f] = "reviewed" /\ decision'[f] = decision[f] /\ decider'[f] = decider[f]]_vars

\* Below the floor, unreviewed and committed now or by this very step.
LeftBehind == {f \in Fields : f < Floor /\ state'[f] = "unreviewed"}

\* What a pass leaves unrouted when it commits ranks after all that it routes,
\* and it leaves something only if it has used up the room it counted, although
\* other passes and reviewers were busy meanwhile (routing.py policy 2 and 3).
PassesTakeTheLowest ==
  [][\A p \in Passes : CommitPass(p) =>
       /\ \A f \in done[p], g \in LeftBehind : f < g
       /\ LeftBehind # {} => Cardinality(done[p]) = limit[p]]_vars

Board == INSTANCE ReviewBoard

\* Whoever reads the table sees one pass or decision after the other, each as if it had
\* run alone: what passes and reviewers do at once, what they roll back and what the
\* database refuses leaves no trace (routing.py: the budget decides "how many of the ranked
\* fields become `routed` in this pass, never which ones rank first"; fields.py: only a
\* queued field is skipped, and it "stays `routed`").
ImplementsReviewBoard == Board!Spec

\* Every pass and every decision comes to an end: passes that wait for a row while
\* they hold the routing lock and reviewers that wait for a row a pass has written
\* never wait in a circle.
TransactionsEnd ==
  /\ \A p \in Passes : phase[p] # "idle" ~> phase[p] = "idle"
  /\ \A r \in Reviewers : at[r] # NoField ~> at[r] = NoField

\* "Reviewed fields are never eligible again" (routing.py): no pass tries to route
\* a field that has been reviewed. One does when the decision falls between its
\* selection and its write.
ReviewedAreNeverEligible ==
  [][\A p \in Passes, f \in Fields : ~UpdateRefused(p, f)]_vars
===============================================================================
