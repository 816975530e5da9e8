------------------------------- MODULE Passages -------------------------------
(***************************************************************************)
(* What a reviewer is shown of the source: the passages of a document that *)
(* a field's cues select (app/review/candidates.py), and the places of the *)
(* quotes the record cites (app/review/context.py).                        *)
(*                                                                         *)
(* A document is a sequence of characters: words, of which some are cues,  *)
(* full stops, blanks and newlines.  A span is the pair of the positions   *)
(* before its first and of its last character, as in Python.               *)
(***************************************************************************)
EXTENDS Integers, Sequences, FiniteSets, SequencesExt, Indices

CONSTANTS
  Cues,           \* words that are cues of the field
  Window,         \* WINDOW_CHARS
  MinCandidates, MaxCandidates,
  Lower           \* a function from characters to what they are with case ignored

Space == {" ", "nl"}

ASSUME PassagesAssumption ==
  /\ IsFiniteSet(Cues)
  /\ Window \in Int
  /\ MinCandidates \in Nat /\ MaxCandidates \in Nat /\ MinCandidates <= MaxCandidates
  /\ \A c \in DOMAIN Lower \ Space : Lower[c] \notin Space

\* document[start:end]
Slice(document, span) == SubSeq(document, span[1] + 1, span[2])

Ink(document) == {i \in DOMAIN document : document[i] \notin Space}

-------------------------------------------------------------------------------
(* Sentences *)

\* Position i ends a sentence: a full stop before a blank or a newline, or a newline.
Ends(document, i) ==
  \/ document[i] = "."  /\ i < Len(document) /\ document[i + 1] \in Space
  \/ document[i] = "nl"
  \/ i = Len(document)

\* The characters of the sentence that ends at e.
SentenceInk(document, e) ==
  {i \in Ink(document) : i <= e /\ ~\E j \in i..(e - 1) : Ends(document, j)}

\* The stretches between two ends, without the blanks around them and not empty.
Sentences(document) ==
  LET ends == {e \in DOMAIN document : Ends(document, e) /\ SentenceInk(document, e) # {}}
      span(e) == <<Min(SentenceInk(document, e)) - 1, Max(SentenceInk(document, e))>>
  IN Picked([e \in ends |-> span(e)], ends)

-------------------------------------------------------------------------------
(* Passages *)

\* A blank line, in text that has no other characters than space between sentences.
ParagraphBreak(gap) == \E i, j \in DOMAIN gap : i < j /\ gap[i] = "nl" /\ gap[j] = "nl"

\* Mutant of Joins: the gap is not looked at.
JoinsAcross(document, current, span) == span[2] - current[1] <= Window

\* A sentence joins the current passage.
Joins(document, current, span) ==
  /\ span[2] - current[1] <= Window
  /\ ~ParagraphBreak(Slice(document, <<current[2], span[1]>>))

\* Where the passage begins that each of the sentences is put into.
Begins(document, sentences) ==
  LET begin[k \in DOMAIN sentences] ==
        IF k > 1 /\ Joins(document, <<begin[k - 1], sentences[k - 1][2]>>, sentences[k])
          THEN begin[k - 1]
          ELSE sentences[k][1]
  IN begin

\* Passages of a document, as spans.
AllPassages(document) ==
  LET sentences == Sentences(document)
      begin == Begins(document, sentences)
      last == {k \in DOMAIN sentences : k = Len(sentences) \/ begin[k + 1] # begin[k]}
  IN Picked([k \in last |-> <<begin[k], sentences[k][2]>>], last)

-------------------------------------------------------------------------------
(* Candidates *)

Hits(document, span, cue) ==
  Cardinality({i \in span[1] + 1 .. span[2] : document[i] = cue})

Matched(document, span) == {cue \in Cues : Hits(document, span, cue) > 0}

TotalHits(document, span) ==
  Cardinality({i \in span[1] + 1 .. span[2] : document[i] \in Cues})

\* The passage p of a document goes before q: distinct cues, then matches, then position.
Better(document, p, q) ==
  LET distinct(s) == Cardinality(Matched(document, s))
  IN \/ distinct(p) > distinct(q)
     \/ distinct(p) = distinct(q) /\ TotalHits(document, p) > TotalHits(document, q)
     \/ /\ distinct(p) = distinct(q) /\ TotalHits(document, p) = TotalHits(document, q)
        /\ p[1] < q[1]

Scored(document) ==
  {p \in ToSet(AllPassages(document)) : Matched(document, p) # {}}

\* Those that go first.
Top(document) ==
  LET ahead(p) == {q \in Scored(document) : Better(document, q, p)}
  IN {p \in Scored(document) : Cardinality(ahead(p)) < MaxCandidates}

\* Earliest passages are added until there are enough.
Fill(chosen, all) ==
  LET earlier(p) == {q \in all : q[1] < p[1]}
  IN chosen \cup {p \in all : Cardinality(chosen \cup earlier(p)) < MinCandidates}

Candidates(document) ==
  LET all == AllPassages(document)
      chosen == Fill(Top(document), ToSet(all))
  IN Picked(all, {k \in DOMAIN all : all[k] \in chosen})

-------------------------------------------------------------------------------
(* Quotes *)

Occurs(document, quote, at) ==
  /\ at + Len(quote) <= Len(document)
  /\ SubSeq(document, at + 1, at + Len(quote)) = quote

Trim(t) ==
  LET ink == Ink(t) IN IF ink = {} THEN <<>> ELSE SubSeq(t, Min(ink), Max(ink))

\* Case ignored, and any run of white space for any other.
Folded(t) ==
  LET kept == {i \in DOMAIN t : t[i] \notin Space \/ (i > 1 /\ t[i - 1] \notin Space)}
  IN Picked([i \in kept |-> IF t[i] \in Space THEN " " ELSE Lower[t[i]]], kept)

\* Spans that the words of a quote match, white space between them.
Matches(document, quote) ==
  {span \in (0..Len(document)) \X (0..Len(document)) :
     /\ span[1] < span[2] /\ {span[1] + 1, span[2]} \subseteq Ink(document)
     /\ Folded(Slice(document, span)) = Folded(Trim(quote))}

NotFound == <<>>

\* The first exact occurrence, else the first match.
Locate(document, quote) ==
  LET exact == {at \in 0..Len(document) : Occurs(document, quote, at)}
      loose == Matches(document, quote)
  IN IF exact # {} THEN <<Min(exact), Min(exact) + Len(quote)>>
     ELSE IF loose # {} THEN CHOOSE m \in loose : \A n \in loose : m[1] <= n[1]
     ELSE NotFound

-------------------------------------------------------------------------------

\* The passages are the document: every word is in exactly one, in order, none holds a
\* blank line, and none is longer than the window but a single sentence.  The candidates
\* are MinCandidates to MaxCandidates of them, or all, in order; none that is left out
\* has more cues than one that is shown for its cues; and a passage without cues is
\* shown only when there are too few with, from the start of the document (candidates.py).
PassagesHold(document) ==
  LET all == AllPassages(document)
      shown == Candidates(document)
      scored == Scored(document)
      inside(p) == {i \in Ink(document) : p[1] < i /\ i <= p[2]}
      filling == ToSet(shown) \ scored
      N(set) == Cardinality(set)
  IN /\ \A i \in Ink(document) : \E p \in ToSet(all) : p[1] < i /\ i <= p[2]
     /\ \A k \in 1..(Len(all) - 1) : all[k][2] <= all[k + 1][1]
     /\ \A p \in ToSet(all) :
          /\ ~\E i, j \in p[1] + 1 .. p[2] :
               i < j /\ document[i] = "nl" /\ document[j] = "nl" /\ i + 1 .. j - 1 \cap Ink(document) = {}
          /\ p[2] - p[1] <= Window \/ p \in ToSet(Sentences(document))
     /\ ToSet(shown) \subseteq ToSet(all)
     /\ Len(shown) \in {N(ToSet(all))} \cup MinCandidates..MaxCandidates
     /\ \A p \in ToSet(shown) \cap scored, q \in scored \ ToSet(shown) : Better(document, p, q)
     /\ filling # {} => /\ scored \subseteq ToSet(shown)
                        /\ Len(shown) <= MinCandidates
                        /\ \A p \in filling, q \in ToSet(all) \ ToSet(shown) : p[1] < q[1]

\* A quote is located where the source says it, and one that is reported missing is not
\* there in any case or wrapping (context.py: "a quote that cannot be located is itself a
\* signal to the reviewer").
QuotesHold(document, quote) ==
  LET place == Locate(document, quote)
      said == Folded(Trim(quote))
      source == Folded(document)
  IN said # <<>> =>
       /\ place # NotFound => Folded(Trim(Slice(document, place))) = said
       /\ place = NotFound => ~\E at \in 0..Len(source) : Occurs(source, said, at)
===============================================================================
