------------------------------ MODULE ReviewBoard ------------------------------
(***************************************************************************)
(* What field_reviews promises its readers (the review queue, the gold     *)
(* set, an operator): routing passes and decisions look atomic.  There are *)
(* no transactions here, no locks and no rollbacks, only the committed     *)
(* columns.  A pass inserts the rows of one extraction, or none, and       *)
(* routes some of what it finds below the floor, the lowest first, within  *)
(* the budget; a decision is the last word on a row; skipping a row leaves *)
(* it where it is.                                                         *)
(*                                                                         *)
(* Review implements this module (Review_proofs, THEOREM Refinement).      *)
(***************************************************************************)
EXTENDS Naturals, FiniteSets

CONSTANTS
  Fields,       \* field_reviews rows, each named by its place in the ranking
  Extractions,  \* the rows that one extraction inserts
  Floor,        \* review_confidence_floor
  Budget,       \* review_budget
  Reviewers,    \* who decides
  Nobody        \* no reviewer

VARIABLES
  state,        \* review_state of each row; "absent" is a row not inserted yet
  decision,     \* decision column
  decider,      \* reviewer column
  skipped       \* rows whose skip_count is not 0

vars == <<state, decision, decider, skipped>>

Init ==
  /\ state = [f \in Fields |-> "absent"]
  /\ decision = [f \in Fields |-> "none"]
  /\ decider = [f \in Fields |-> Nobody]
  /\ skipped = {}

Waiting == {f \in Fields : state[f] = "routed"}

Eligible(rows) == {f \in Fields : f < Floor /\ (state[f] = "unreviewed" \/ f \in rows)}

\* Why a pass routes no more is not said: it may have counted rows as waiting that were
\* decided before it was through.
Pass(rows, routed) ==
  /\ \A f \in rows : state[f] = "absent"
  /\ routed \subseteq Eligible(rows)
  /\ \A f \in routed, g \in Eligible(rows) \ routed : f < g
  /\ Cardinality(Waiting) + Cardinality(routed) <= Budget
  /\ state' = [f \in Fields |-> IF f \in routed THEN "routed"
                                ELSE IF f \in rows THEN "unreviewed" ELSE state[f]]
  /\ UNCHANGED <<decision, decider, skipped>>

Decide(f, r, outcome) ==
  /\ state[f] \in {"unreviewed", "routed"}
  /\ state' = [state EXCEPT ![f] = "reviewed"]
  /\ decision' = [decision EXCEPT ![f] = outcome]
  /\ decider' = [decider EXCEPT ![f] = r]
  /\ UNCHANGED skipped

Skip(f) ==
  /\ state[f] = "routed"
  /\ skipped' = skipped \cup {f}
  /\ UNCHANGED <<state, decision, decider>>

Next ==
  \/ \E rows \in Extractions \cup {{}} : \E routed \in SUBSET Fields : Pass(rows, routed)
  \/ \E f \in Fields :
       \/ \E r \in Reviewers, outcome \in {"accepted", "corrected"} : Decide(f, r, outcome)
       \/ Skip(f)

Spec == Init /\ [][Next]_vars
===============================================================================
