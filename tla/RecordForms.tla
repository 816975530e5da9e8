------------------------------ MODULE RecordForms ------------------------------
(***************************************************************************)
(* The fields of an IncidentRecord (app/extract/schema.py), the input form *)
(* each gets on the review page (app/review/forms.py and the macro of      *)
(* templates/review.html), what a browser posts from it, and what becomes  *)
(* of a correction (app/review/fields.py).                                 *)
(*                                                                         *)
(* A text is a sequence of words, blanks and line breaks, of which the     *)
(* ones a browser posts are CR LF.  A submission has the shape of the form *)
(* it comes from, which the paths of its input names spell out: labels for *)
(* the members of an object, indices for rows.  A text that more than one  *)
(* sentence or no date would refuse is refused here as the word "odd".     *)
(*                                                                         *)
(* The code recurses over types.  The schema nests no deeper than          *)
(* BlastRadius does: a field may be an object, whose parts may be lists of *)
(* objects, whose members are leaves.  What the code does with a node is   *)
(* written here for a leaf, for an object given what is done with its      *)
(* members, for a part, and for a field.                                   *)
(***************************************************************************)
EXTENDS Integers, Sequences, FiniteSets, SequencesExt, Indices

-------------------------------------------------------------------------------
(* Types *)

Str == [type |-> "string", nullable |-> FALSE, min |-> 1]
AnyStr == [Str EXCEPT !.min = 0]
Opt(node) == [node EXCEPT !.nullable = TRUE]
\* Closed vocabularies differ in their words only.
Enum == [type |-> "enum", nullable |-> FALSE]
Bool == [type |-> "boolean", nullable |-> FALSE]
Strs == [type |-> "strings", nullable |-> FALSE]
Obj(members) == [type |-> "object", nullable |-> FALSE, members |-> members]
Objs(item) == [type |-> "objects", nullable |-> FALSE, item |-> item]

Options == {"first", "second"}

TimeAnchor == Obj([at |-> Str, precision |-> Enum, timezone |-> Opt(AnyStr),
                   quote |-> Opt(AnyStr), source_section |-> Enum])

\* Trigger and Mechanism.
Cause == Obj([label |-> Enum, description |-> Str, quote |-> Opt(AnyStr)])

ContributingFactor == Obj([text |-> Str, source_section |-> Enum])

Action == Obj([text |-> Str, status |-> Enum, date |-> Opt(AnyStr)])

Quantity == Obj([metric |-> Str, value |-> Str, quote |-> Opt(AnyStr)])

BlastRadius == Obj([qualitative |-> Opt(AnyStr), quantitative |-> Objs(Quantity)])

AffectedScope == Obj([services |-> Strs, regions |-> Strs,
                      all_services |-> Bool, list_is_complete |-> Opt(Bool)])

IncidentRecord ==
  [publisher_org |-> Str, affected_org |-> Str, vendor_org |-> Opt(AnyStr),
   affected_org_kind |-> Enum, title |-> Str, title_source |-> Enum, summary |-> Str,
   affected |-> AffectedScope, trigger |-> Opt(Cause), mechanism |-> Cause,
   contributing_factors |-> Objs(ContributingFactor), detection_method |-> Enum,
   detection_quote |-> Opt(AnyStr), change_at |-> Opt(TimeAnchor),
   impact_start |-> Opt(TimeAnchor), detected_at |-> Opt(TimeAnchor),
   mitigated_at |-> Opt(TimeAnchor), resolved_at |-> Opt(TimeAnchor),
   time_to_detect_text |-> Opt(AnyStr), time_to_mitigate_text |-> Opt(AnyStr),
   blast_radius |-> BlastRadius, mitigations |-> Objs(Action), remediations |-> Objs(Action)]

-------------------------------------------------------------------------------
(* Values *)

Null == [is |-> "null"]
Text(t) == [is |-> "text", text |-> t]
Choice(o) == [is |-> "choice", option |-> o]
Truth(b) == [is |-> "truth", bool |-> b]
Lines(ls) == [is |-> "lines", lines |-> ls]
Dict(f) == [is |-> "dict", of |-> f]
List(l) == [is |-> "list", items |-> l]

\* TypeAdapter(...).validate_python.
ValidLeaf(node, v) ==
  \/ v = Null /\ node.nullable
  \/ /\ node.type = "string" /\ v.is = "text"
     /\ Len(v.text) >= node.min /\ \A i \in DOMAIN v.text : v.text[i] # "odd"
  \/ node.type = "enum" /\ v.is = "choice" /\ v.option \in Options
  \/ node.type = "boolean" /\ v.is = "truth"
  \/ node.type = "strings" /\ v.is = "lines"

ValidObject(ValidMember(_, _), node, v) ==
  \/ v = Null /\ node.nullable
  \/ /\ v.is = "dict" /\ DOMAIN v.of = DOMAIN node.members
     /\ \A m \in DOMAIN v.of : ValidMember(node.members[m], v.of[m])

ValidPart(node, v) ==
  IF node.type = "objects"
    THEN v.is = "list" /\ \A i \in DOMAIN v.items : ValidObject(ValidLeaf, node.item, v.items[i])
    ELSE ValidLeaf(node, v)

Valid(node, v) ==
  IF node.type = "object" THEN ValidObject(ValidPart, node, v) ELSE ValidPart(node, v)

-------------------------------------------------------------------------------
(* The form *)

LongText == {"summary", "description", "text", "qualitative"}

\* The inputs a node gets: one per member, one row per object of a list.
BuildLeaf(label, node) ==
  [kind |-> CASE node.type = "enum" -> "select"
              [] node.type = "boolean" -> "bool"
              [] node.type = "string" -> IF label \in LongText THEN "textarea" ELSE "text"
              [] node.type = "strings" -> "lines",
   nullable |-> node.nullable]

BuildObject(BuildMember(_, _), node) ==
  [kind |-> "object", nullable |-> node.nullable,
   children |-> [m \in DOMAIN node.members |-> BuildMember(m, node.members[m])]]

BuildPart(label, node) ==
  IF node.type = "objects"
    THEN [kind |-> "rows", nullable |-> node.nullable, row |-> BuildObject(BuildLeaf, node.item)]
    ELSE BuildLeaf(label, node)

Build(label, node) ==
  IF node.type = "object" THEN BuildObject(BuildPart, node) ELSE BuildPart(label, node)

form_spec == [f \in DOMAIN IncidentRecord |-> Build(f, IncidentRecord[f])]

\* Mutant of NeedsChoice: the first option stands in for a value that is none.
NeverNeedsChoice(spec, v) == spec.kind = "bool" /\ v = Null

\* Whether the select offers an empty option although null is not a value.
NeedsChoice(spec, v) ==
  \/ spec.kind = "select" /\ v \notin {Choice(o) : o \in Options}
  \/ spec.kind = "bool" /\ v = Null

\* Mutant of IsNull: no null toggle is rendered as on.
NeverNull(v) == FALSE

IsNull(v) == v = Null

\* The form filled with a value, whatever its shape.
BindLeaf(spec, v) ==
  IF spec.kind = "lines" THEN [lines |-> IF v.is = "lines" THEN v.lines ELSE <<>>]
  ELSE [is_null |-> IsNull(v), value |-> v, choose |-> NeedsChoice(spec, v)]

\* members.get(label)
Member(v, c) == IF v.is = "dict" /\ c \in DOMAIN v.of THEN v.of[c] ELSE Null

BindObject(BindMember(_, _), spec, v) ==
  [is_null |-> IsNull(v),
   children |-> [c \in DOMAIN spec.children |-> BindMember(spec.children[c], Member(v, c))]]

BindPart(spec, v) ==
  IF spec.kind = "rows"
    THEN [rows |-> IF v.is = "list"
                     THEN [i \in DOMAIN v.items |-> BindObject(BindLeaf, spec.row, v.items[i])]
                     ELSE <<>>]
    ELSE BindLeaf(spec, v)

Bind(spec, v) ==
  IF spec.kind = "object" THEN BindObject(BindPart, spec, v) ELSE BindPart(spec, v)

-------------------------------------------------------------------------------
(* The browser *)

Break == {"nl", "crlf"}

\* An input element has no line breaks; a textarea's are posted as CR LF.
TypedIn(t) == Picked(t, {i \in DOMAIN t : t[i] \notin Break})
Posted(t) == [i \in DOMAIN t |-> IF t[i] = "nl" THEN "crlf" ELSE t[i]]

Shown(v) == IF v.is = "text" THEN v.text ELSE <<>>

\* What a select shows as chosen: the value, else its first option.
Chosen(spec, b, options) ==
  IF b.value \in options THEN b.value
  ELSE IF spec.nullable \/ b.choose THEN Null
  ELSE IF spec.kind = "bool" THEN Truth(TRUE) ELSE Choice("first")

\* The page as it was rendered is posted.  The last of some lines has a line break after it
\* as well, which makes no other line.
PostLeaf(spec, b, null) ==
  CASE spec.kind = "lines" ->
         [text |-> FlattenSeq([i \in DOMAIN b.lines |-> Posted(b.lines[i]) \o <<"crlf">>])]
    [] spec.kind = "textarea" -> [null |-> null, text |-> Posted(Shown(b.value))]
    [] spec.kind = "text" -> [null |-> null, text |-> TypedIn(Shown(b.value))]
    [] spec.kind = "select" ->
         [null |-> null, pick |-> Chosen(spec, b, {Choice(o) : o \in Options})]
    [] spec.kind = "bool" ->
         [null |-> null, pick |-> Chosen(spec, b, {Truth(TRUE), Truth(FALSE)})]

PostMember(spec, b) == PostLeaf(spec, b, FALSE)

\* A null toggle that is on disables what it covers.
PostObject(PostInside(_, _), spec, b) ==
  [null |-> spec.nullable /\ b.is_null,
   children |-> [c \in DOMAIN spec.children |-> PostInside(spec.children[c], b.children[c])]]

PostRows(spec, b) ==
  [rows |-> [i \in DOMAIN b.rows |-> PostObject(PostMember, spec.row, b.rows[i])]]

PostPart(spec, b) == IF spec.kind = "rows" THEN PostRows(spec, b) ELSE PostMember(spec, b)

\* Only objects and the whole field have a null toggle.
Post(spec, b) ==
  CASE spec.kind = "object" -> PostObject(PostPart, spec, b)
    [] spec.kind = "rows" -> PostRows(spec, b)
    [] spec.kind = "lines" -> PostLeaf(spec, b, FALSE)
    [] OTHER -> PostLeaf(spec, b, spec.nullable /\ b.is_null)

-------------------------------------------------------------------------------
(* The server *)

Blank == {" "} \cup Break

Strip(t) ==
  LET inked == {i \in DOMAIN t : t[i] \notin Blank}
  IN IF inked = {} THEN <<>> ELSE SubSeq(t, Min(inked), Max(inked))

\* The line of a text after position i, stripped, and str.splitlines without the blank ones.
LineAfter(t, i) ==
  Strip(SubSeq(t, i + 1, Min({b \in i + 1 .. Len(t) : t[b] \in Break} \cup {Len(t) + 1}) - 1))

SplitLines(t) ==
  LET starts == {i \in {0} \cup {b \in DOMAIN t : t[b] \in Break} : LineAfter(t, i) # <<>>}
  IN Picked([i \in starts |-> LineAfter(t, i)], starts)

ParseLeaf(spec, d) ==
  IF spec.kind = "lines" THEN Lines(SplitLines(d.text))
  ELSE IF spec.nullable /\ d.null THEN Null
  ELSE CASE spec.kind = "bool" -> d.pick
         \* A select's "" is null where null is a value, else an empty string.
         [] spec.kind = "select" ->
              IF d.pick = Null /\ ~spec.nullable THEN Text(<<>>) ELSE d.pick
         [] spec.kind \in {"text", "textarea"} ->
              IF Strip(d.text) = <<>> /\ spec.nullable THEN Null ELSE Text(Strip(d.text))

ParseObject(ParseMember(_, _), spec, d) ==
  IF spec.nullable /\ d.null THEN Null
  ELSE Dict([c \in DOMAIN spec.children |-> ParseMember(spec.children[c], d.children[c])])

\* The blank row the page always offers.
BlankRow(spec, row) ==
  LET texts == {c \in DOMAIN spec.children : spec.children[c].kind \in {"text", "textarea"}}
  IN texts # {} /\ \A c \in texts : row.of[c] \in {Null, Text(<<>>)}

\* Rows come in the order of their indices, whichever are missing.
ParseRows(spec, d) ==
  LET rows == [i \in DOMAIN d.rows |-> ParseObject(ParseLeaf, spec.row, d.rows[i])]
  IN List(Picked(rows, {i \in DOMAIN rows : ~BlankRow(spec.row, rows[i])}))

ParsePart(spec, d) == IF spec.kind = "rows" THEN ParseRows(spec, d) ELSE ParseLeaf(spec, d)

Parse(spec, d) ==
  IF spec.kind = "object" THEN ParseObject(ParsePart, spec, d) ELSE ParsePart(spec, d)

\* What "correct" answers to a submission for a field the model gave this value.
Correct(field, model, d) ==
  LET v == Parse(form_spec[field], d)
  IN IF ~Valid(IncidentRecord[field], v) THEN "invalid"
     ELSE IF v = model THEN "equals the extracted value"
     ELSE "corrected"

\* The page of a field, posted as it was rendered.
Untouched(field, v) == Post(form_spec[field], Bind(form_spec[field], v))

-------------------------------------------------------------------------------

\* What a value holds: members, items, the items' members.
Inside(v) ==
  CASE v.is = "dict" -> {v.of[m] : m \in DOMAIN v.of}
    [] v.is = "list" -> {v.items[i] : i \in DOMAIN v.items}
    [] OTHER -> {}
With(values) == values \cup UNION {Inside(v) : v \in values}
Parts(v) == With(With(With({v})))

\* The options a value names.
Picks(v) == {p \in Parts(v) : p.is \in {"choice", "truth"}}

\* Texts that every part of the way leaves as they are: one line, no blanks around it, and
\* something where null is a value as well.
TidyText(t) == t # <<>> /\ Strip(t) = t /\ \A i \in DOMAIN t : t[i] \notin Break
Tidy(v) ==
  \A p \in Parts(v) : /\ p.is = "text" => TidyText(p.text)
                      /\ p.is = "lines" => \A i \in DOMAIN p.lines : TidyText(p.lines[i])

\* An untouched form says what it was rendered for: a tidy value, or, of a value that the
\* type does not accept, of an earlier schema version perhaps, no option that it does not
\* have (forms.py: "a correction never silently inherits the first option").
FormShowsTheValue(field, v) ==
  LET said == Parse(form_spec[field], Untouched(field, v))
  IN /\ Picks(said) \subseteq Picks(v)
     /\ Valid(IncidentRecord[field], v) /\ Tidy(v) => said = v

\* "A rejected correction is never lost": the page that is rendered for it, posted again,
\* says what the reviewer said (review_ui.py _decide and _render).
RejectionIsKept(field, d) ==
  LET v == Parse(form_spec[field], d)
  IN Parse(form_spec[field], Untouched(field, v)) = v

\* "Use accept, so the gold set records the model as right": a form nobody touched is no
\* correction (fields.py record_decision).
UntouchedIsNoCorrection(field, v) ==
  Correct(field, v, Untouched(field, v)) # "corrected"
===============================================================================
