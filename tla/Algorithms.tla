------------------------------ MODULE Algorithms ------------------------------
(***************************************************************************)
(* The pure parts of the system over bounded inputs: anchors, passages,    *)
(* forms, scores and reports.  A state is one input of one of them.        *)
(***************************************************************************)
EXTENDS Anchors, Passages, RecordForms, Evaluation, RunReport

CONSTANTS
  MaxDocument,   \* characters of a document
  MaxQuote,      \* and of a quote
  MaxStratum,    \* documents of a stratum
  MaxRows,       \* extraction rows of a document
  Fields,        \* fields whose forms are looked at
  Texts,         \* what may be stored as a text,
  TypedTexts,    \* posted from a text input,
  TypedAreas,    \* and from a textarea
  MaxLines,      \* texts of a stored list
  MaxItems,      \* and objects
  RowIndices     \* sets of indices that rows are posted under

ASSUME AlgorithmsAssumption ==
  /\ {MaxDocument, MaxQuote, MaxStratum, MaxRows} \subseteq Nat
  /\ {"w", "W", "."} \subseteq DOMAIN Lower
  /\ Fields \subseteq DOMAIN IncidentRecord
  /\ \A t \in Texts \cup TypedTexts \cup TypedAreas : t \in Seq(ToSet(t))
  /\ \A t \in TypedTexts : \A i \in DOMAIN t : t[i] \notin Break
  /\ \A t \in TypedAreas : \A i \in DOMAIN t : t[i] # "nl"
  /\ {MaxLines, MaxItems} \subseteq Nat
  /\ \A indices \in RowIndices : indices \subseteq Nat /\ IsFiniteSet(indices)

VARIABLE input

-------------------------------------------------------------------------------
(* Inputs *)

UpTo(set, n) == UNION {[1..k -> set] : k \in 0..n}

\* The third is there for what its times and offsets add up to.
AnchorInputs ==
  [kind : {"anchors"}, start : Anchors,
   ends : Anchors \X {c \in Anchors : c.precision = "minute" /\ c.zone = Unstated}]

\* Long documents of lines, and shorter ones of sentences.
SourceInputs ==
  [kind : {"source"},
   document : UpTo({"cue", "sign", "nl"}, MaxDocument)
                \cup UpTo({"cue", "w", ".", " ", "nl"}, MaxDocument - 2)]

QuoteInputs ==
  [kind : {"quote"}, document : UpTo({"w", "W", ".", " ", "nl"}, MaxDocument - 3),
   quote : UpTo({"w", "W", " "}, MaxQuote)]

SplitInputs == [kind : {"split"}, sizes : [1..4 -> 1..MaxStratum], dev : 1..4]

GoldDocuments ==
  [trigger : GoldLabels, mechanism : GoldLabels, detection : GoldLabels, dated : BOOLEAN,
   absent : SUBSET REQUIRED_FIELDS]

GateInputs == [kind : {"gate"}, doc : GoldDocuments]

ScoredDocuments ==
  [gold : Labels \cup {NullLabel}, pred : Labels \cup {NullLabel},
   confidence : {0, 1, 2, 14, 20}, extracted : {TRUE}]
   \cup [gold : Labels \cup {NullLabel}, pred : {NullLabel}, confidence : {0},
         extracted : {FALSE}]

ScoreInputs ==
  [kind : {"scores"}, docs : [1..2 -> ScoredDocuments] \cup [1..1 -> ScoredDocuments]]

\* Two runs that have a document in common.
BarInputs ==
  [kind : {"bar"}, pairs : [agree : 0..12, others : 0..12, differ : 0..12]
                             \ [agree : {0}, others : {0}, differ : {0}]]

Row == [status : {"complete", "failed"}, tokens : {1, 3}, time : 0..6]

\* In the order of created_at.
RowLists == {rows \in UpTo(Row, MaxRows) :
               \A i \in 1..(Len(rows) - 1) : rows[i].time <= rows[i + 1].time}

ReportInputs ==
  [kind : {"report"},
   doc : [ingest : {"succeeded"}, extract : {"succeeded", "dead_letter", "queued"},
          rows : RowLists]
         \cup [ingest : {"dead_letter", "queued"}, extract : {"none"}, rows : {<<>>}],
   first : {2}, second : {3, 5}]

\* The functions that take a value of S[m] at each of the members.
Product(S, members) ==
  {f \in [members -> UNION {S[m] : m \in members}] : \A m \in members : f[m] \in S[m]}

\* Values of a node, and of earlier versions of it.
ValuesOfLeaf(node) ==
  (IF node.nullable THEN {Null} ELSE {}) \cup
  CASE node.type = "string" -> {Text(t) : t \in Texts}
    [] node.type = "enum" -> {Choice(o) : o \in Options \cup {"gone"}} \cup {Null}
    [] node.type = "boolean" -> {Truth(TRUE), Truth(FALSE), Null}
    [] node.type = "strings" -> {Lines(ls) : ls \in UpTo(Texts, MaxLines)}

\* All the members, one of them, none, or what is no object.
ValuesOfObject(ValuesOfMember(_), node) ==
  LET members == DOMAIN node.members
      some == [m \in members |-> ValuesOfMember(node.members[m])]
  IN {Null, Text(<<"a">>)} \cup {Dict(f) : f \in Product(some, members)}
       \cup {Dict(f) : f \in UNION {Product(some, {m}) : m \in members}}

ValuesOfPart(node) ==
  IF node.type = "objects"
    THEN {List(l) : l \in UpTo(ValuesOfObject(ValuesOfLeaf, node.item), MaxItems)}
    ELSE ValuesOfLeaf(node)

Values(node) ==
  IF node.type = "object" THEN ValuesOfObject(ValuesOfPart, node) ELSE ValuesOfPart(node)

ValueInputs ==
  UNION {[kind : {"value"}, field : {f}, value : Values(IncidentRecord[f])] : f \in Fields}

\* What may be posted from a form, whose null toggle may be on where there is one.
Toggles(spec) == {FALSE, spec.nullable}

PostsOfLeaf(spec, toggles) ==
  CASE spec.kind = "text" -> [null : toggles, text : TypedTexts]
    [] spec.kind = "textarea" -> [null : toggles, text : TypedAreas]
    [] spec.kind = "lines" -> [text : TypedAreas]
    [] spec.kind = "select" -> [null : toggles, pick : {Choice(o) : o \in Options} \cup {Null}]
    [] spec.kind = "bool" -> [null : toggles, pick : {Truth(TRUE), Truth(FALSE), Null}]

PostsOfMember(spec) == PostsOfLeaf(spec, {FALSE})

PostsOfObject(PostsOfInside(_), spec) ==
  [null : Toggles(spec),
   children : Product([c \in DOMAIN spec.children |-> PostsOfInside(spec.children[c])],
                      DOMAIN spec.children)]

PostsOfRows(spec) ==
  [rows : UNION {[indices -> PostsOfObject(PostsOfMember, spec.row)] : indices \in RowIndices}]

PostsOfPart(spec) == IF spec.kind = "rows" THEN PostsOfRows(spec) ELSE PostsOfMember(spec)

Posts(spec) ==
  CASE spec.kind = "object" -> PostsOfObject(PostsOfPart, spec)
    [] spec.kind = "rows" -> PostsOfRows(spec)
    [] OTHER -> PostsOfLeaf(spec, Toggles(spec))

SubmissionInputs ==
  UNION {[kind : {"submission"}, field : {f}, posted : Posts(form_spec[f])] : f \in Fields}

Init ==
  \/ input \in AnchorInputs
  \/ input \in SourceInputs
  \/ input \in QuoteInputs
  \/ input \in ValueInputs
  \/ input \in SubmissionInputs
  \/ input \in SplitInputs
  \/ input \in GateInputs
  \/ input \in ScoreInputs
  \/ input \in BarInputs
  \/ input \in ReportInputs

Next == UNCHANGED input

Spec == Init /\ [][Next]_input

-------------------------------------------------------------------------------

\* Anchors!DurationsHold: a duration is what passed exactly where its anchors share a clock
\* (derive.py, schema.py).
DurationsAreRightOnOneClock ==
  input.kind = "anchors" => DurationsHold(input.start, input.ends[1], input.ends[2])

\* Passages!PassagesHold of every document and Passages!QuotesHold of every quote
\* (candidates.py, context.py).
SourceIsShown ==
  /\ input.kind = "source" => PassagesHold(input.document)
  /\ input.kind = "quote" => QuotesHold(input.document, input.quote)

\* RecordForms!FormShowsTheValue of every stored value (forms.py, review.html).
FormsShowTheValue == input.kind = "value" => FormShowsTheValue(input.field, input.value)

\* RecordForms!RejectionIsKept of everything that can be posted (review_ui.py).
RejectionsAreKept == input.kind = "submission" => RejectionIsKept(input.field, input.posted)

\* "The corrected value equals the extracted value ...; use accept, so the gold set records
\* the model as right" (fields.py): a form that nobody has touched is no correction. A line
\* break in a text is changed by the browser: an input element drops it and a textarea
\* posts CR LF.
UntouchedFormsAreRefused ==
  input.kind = "value" /\ Valid(IncidentRecord[input.field], input.value) =>
    UntouchedIsNoCorrection(input.field, input.value)

\* The split, the gate, the scores and the reproducibility bar are what they say they are
\* (Evaluation; eval/scripts, scripts/repro_check.py).
EvaluationAddsUp ==
  /\ input.kind = "split" => SplitIsProportional(input.sizes, input.dev)
  /\ input.kind = "gate" => GateIsExact({input.doc})
  /\ input.kind = "scores" => ScoresAddUp(input.docs)
  /\ input.kind = "bar" => BarIsNineTenthsRounded(input.pairs)

\* RunReport!TokensAreAttributed of every history of a document (extraction_run.py).
ReportsAddUp ==
  input.kind = "report" => TokensAreAttributed(<<input.doc>>, input.first, input.second)
===============================================================================
