------------------------------ MODULE Evaluation ------------------------------
(***************************************************************************)
(* The evaluation scripts: the dev/test split (make_split.py), the gate a  *)
(* gold set passes before it is frozen (validate_labels.py), the scores of *)
(* an extraction run against it (score_m5_dev.py) and the reproducibility  *)
(* bar (repro_check.py).  Shares are compared without dividing; where two  *)
(* shares are equal the floating-point remainders decide either way.       *)
(***************************************************************************)
EXTENDS Integers, FiniteSets, Sums

CONSTANTS
  Labels,       \* a closed vocabulary
  NullLabel,    \* null, of the gold set and of the model
  Unrecorded    \* no confidence was recorded

\* A vocabulary is a closed list without the words that stand for something else.
ASSUME EvaluationAssumption ==
  /\ IsFiniteSet(Labels)
  /\ Labels \cap {NullLabel, "empty", "stray"} = {}
  /\ NullLabel \notin {"empty", "stray"}
  /\ Unrecorded \notin Nat

-------------------------------------------------------------------------------
(* The split *)

Floors(sizes, dev) == [k \in DOMAIN sizes |-> (sizes[k] * dev) \div Total(sizes)]

Remainder(sizes, dev, k) == (sizes[k] * dev) % Total(sizes)

\* Mutant of Favoured: the strata with the smallest remainders.
FavouredLeast(sizes, dev) ==
  {F \in SUBSET DOMAIN sizes :
     /\ Cardinality(F) = dev - Total(Floors(sizes, dev))
     /\ \A k \in F, l \in DOMAIN sizes \ F :
          Remainder(sizes, dev, k) <= Remainder(sizes, dev, l)}

\* The strata that may get one more seat.
Favoured(sizes, dev) ==
  {F \in SUBSET DOMAIN sizes :
     /\ Cardinality(F) = dev - Total(Floors(sizes, dev))
     /\ \A k \in F, l \in DOMAIN sizes \ F :
          Remainder(sizes, dev, k) >= Remainder(sizes, dev, l)}

largest_remainder_allocation(sizes, dev) ==
  {[k \in DOMAIN sizes |-> Floors(sizes, dev)[k] + (IF k \in F THEN 1 ELSE 0)] :
     F \in Favoured(sizes, dev)}

\* Every allocation fills the split with documents there are, and gives no stratum a seat
\* that another one is further below its share without ("proportional to stratum size,
\* rounded so the counts sum to exactly total_dev", make_split.py).
SplitIsProportional(sizes, dev) ==
  /\ largest_remainder_allocation(sizes, dev) # {}
  /\ \A counts \in largest_remainder_allocation(sizes, dev) :
       LET excess(k) == counts[k] * Total(sizes) - sizes[k] * dev
       IN /\ Total(counts) = dev
          /\ \A k \in DOMAIN sizes : counts[k] \in 0..sizes[k]
          /\ \A k, l \in DOMAIN sizes : excess(k) - excess(l) <= Total(sizes)

-------------------------------------------------------------------------------
(* The gate *)

\* What a label field of a gold document holds: "" and what no vocabulary has are written
\* "empty" and "stray".
GoldLabels == Labels \cup {NullLabel, "empty", "stray"}

LabelFields == {"trigger", "mechanism", "detection"}

REQUIRED_FIELDS == LabelFields \cup {"document_id", "org", "text_hash", "labeled_on"}

\* A field that is absent is read as "", and a date that is, as none.
Held(doc, f) == IF f \in doc.absent THEN "empty" ELSE doc[f]

Dated(doc) == doc.dated /\ "labeled_on" \notin doc.absent

IsSet(label) == label \notin {"empty", NullLabel}

\* Problems of a document that say "is empty", a missing date beside labels among them, and
\* the others. A label that is absent is counted both ways.
Empties(doc) ==
  {f \in LabelFields : Held(doc, f) = "empty"}
    \cup IF (\E f \in LabelFields : IsSet(Held(doc, f))) /\ ~Dated(doc)
           THEN {"labeled_on"} ELSE {}

Invalids(doc) ==
  {f \in LabelFields : Held(doc, f) = "stray"}
    \cup {f \in {"mechanism", "detection"} : Held(doc, f) = NullLabel}
    \cup (REQUIRED_FIELDS \cap doc.absent)

GatePasses(docs, strict) ==
  \A doc \in docs : Invalids(doc) = {} /\ (strict => Empties(doc) = {})

\* A gold set that passes the strict gate has every field, with a label of the vocabulary
\* where one belongs, of which the trigger may be null, and a date; and a set that has
\* passes it.
GateIsExact(docs) ==
  GatePasses(docs, TRUE) <=>
    \A doc \in docs : /\ REQUIRED_FIELDS \cap doc.absent = {}
                      /\ doc.trigger \in Labels \cup {NullLabel}
                      /\ doc.mechanism \in Labels /\ doc.detection \in Labels
                      /\ doc.dated

-------------------------------------------------------------------------------
(* Scores *)

\* A scored document has its gold label, the model's and its confidence in twentieths; one
\* that has no record is scored as if the model had said null, without confidence.
Scores(docs) ==
  [d \in DOMAIN docs |->
     IF docs[d].extracted THEN [gold |-> docs[d].gold, pred |-> docs[d].pred,
                                confidence |-> docs[d].confidence]
     ELSE [gold |-> docs[d].gold, pred |-> NullLabel, confidence |-> Unrecorded]]

Right(s) == {d \in DOMAIN s : s[d].gold = s[d].pred}

Cell(s, gold, pred) == {d \in DOMAIN s : s[d].gold = gold /\ s[d].pred = pred}

Points(s) == {d \in DOMAIN s : s[d].confidence # Unrecorded}

\* Ten bins of one tenth, the last one closed.
Bin(s, i) ==
  {d \in Points(s) : /\ 2 * i <= s[d].confidence
                     /\ \/ s[d].confidence < 2 * (i + 1)
                        \/ i = 9 /\ s[d].confidence = 20}

\* The threshold sweep, in twentieths.
Routed(s, t) == {d \in Points(s) : s[d].confidence < t}

RoutedWrong(s, t) == Routed(s, t) \ Right(s)

\* Precision at least 2.5 times the base error rate, and recall at least 80 percent.
PrecisionHolds(s, t) ==
  /\ Routed(s, t) # {}
  /\ 2 * Cardinality(RoutedWrong(s, t)) * Cardinality(Points(s))
       >= 5 * Cardinality(Points(s) \ Right(s)) * Cardinality(Routed(s, t))

RecallHolds(s, t) ==
  LET wrong == Cardinality(Points(s) \ Right(s))
  IN wrong # 0 /\ 5 * Cardinality(RoutedWrong(s, t)) >= 4 * wrong

\* The numbers of a report agree with each other: the diagonal of the confusion matrix is
\* the accuracy, its cells are the corpus and the bins the points, where half-open ends
\* meet; recall, once reached, stays as the threshold grows; and a threshold that meets
\* both bars routes no more than two fifths of the fields.
ScoresAddUp(docs) ==
  LET s == Scores(docs)
      all == Labels \cup {NullLabel}
      N(set) == Cardinality(set)
  IN /\ Total([l \in all |-> N(Cell(s, l, l))]) = N(Right(s))
     /\ Total([c \in all \X all |-> N(Cell(s, c[1], c[2]))]) = N(DOMAIN s)
     /\ Total([i \in 0..9 |-> N(Bin(s, i))]) = N(Points(s))
     /\ \A t \in 0..19 : /\ RecallHolds(s, t) => RecallHolds(s, t + 1)
                         /\ RecallHolds(s, t) /\ PrecisionHolds(s, t) =>
                              5 * N(Routed(s, t)) <= 2 * N(Points(s))

-------------------------------------------------------------------------------
(* The reproducibility bar *)

\* round(0.9 * n): to the nearest integer, to the even one between two.
Bar(n) ==
  LET q == (9 * n) \div 10
      r == (9 * n) % 10
  IN IF r > 5 \/ (r = 5 /\ q % 2 = 1) THEN q + 1 ELSE q

\* Of the pairs two runs give, "agree" is identical and not "other" twice, with two failed
\* extractions among them.
BarIsMet(pairs) == pairs.agree >= Bar(pairs.agree + pairs.others + pairs.differ)

\* Where rounding lowers nine tenths: 23 of 26, 4 of 5.
BarIsLow(n) == n % 10 \in 6..9 \/ n % 20 = 5

\* "ADR-006 section 8 bar (>=9/10 equivalent, i.e. >=90%)" (repro_check.py): nine tenths of all
\* pairs meet the bar, and so do fewer in the sizes where it is rounded down, at the bar
\* itself and nowhere else: half a pair at most is let off.
BarIsNineTenthsRounded(pairs) ==
  LET n == pairs.agree + pairs.others + pairs.differ
  IN /\ 10 * pairs.agree >= 9 * n => BarIsMet(pairs)
     /\ BarIsMet(pairs) => 10 * pairs.agree + 5 >= 9 * n
     /\ BarIsMet(pairs) /\ 10 * pairs.agree < 9 * n
          <=> BarIsLow(n) /\ pairs.agree = Bar(n)
===============================================================================
