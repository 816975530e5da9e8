--------------------------- MODULE Algorithms_proofs ---------------------------
(***************************************************************************)
(* The invariants of Algorithms.  What a run checks of the inputs up to a  *)
(* bound is a case of a theorem about all inputs, which comes first.       *)
(***************************************************************************)
EXTENDS Algorithms, Evaluation_proofs, SequenceTheorems

-------------------------------------------------------------------------------
(* Durations *)

\* An anchor that durations are taken from: its time, its offset and its rank are numbers.
LEMMA ComparableAnchors ==
  ASSUME NEW a \in Anchors, NEW b \in Anchors, Comparable(a, b)
  PROVE  /\ \A x \in {a, b} : /\ x.at.wall \in Int /\ x.at.offset \in Int
                              /\ x.precision \in DOMAIN Rank /\ Rank[x.precision] \in 1..4
                              /\ x.at.shape \in {"naive", "aware"}
                              /\ x.at.shape = "naive" => x.at.offset = 0
                              /\ x.zone \in Offsets \cup {Unstated}
         /\ a.at.shape = b.at.shape
<1>1. ASSUME NEW x \in Anchors
      PROVE  /\ x.at \in Strings /\ x.precision \in Precisions
             /\ x.at.shape \in Shapes /\ x.at.wall \in Int /\ x.at.offset \in Int
             /\ x.at.shape # "aware" => x.at.offset = 0
             /\ x.zone \in Offsets \cup {Unstated}
  <2>1. x.at \in Strings /\ x.precision \in Precisions /\ x.zone \in Offsets \cup {Unstated}
    BY DEF Anchors
  <2>2. CASE x.at \in [shape : Shapes \ {"aware"}, wall : Times, offset : {0}]
    <3>1. x.at.wall \in Times /\ x.at.offset = 0 /\ x.at.shape \in Shapes
      BY <2>2
    <3>2. x.at.wall \in Int
      BY <3>1, AnchorsAssumption, Zenon
    <3>3. x.at.offset \in Int
      BY <3>1
    <3> QED BY <2>1, <3>1, <3>2, <3>3
  <2>3. CASE x.at \in [shape : {"aware"}, wall : Times, offset : Offsets]
    BY <2>1, <2>3, AnchorsAssumption DEF Shapes
  <2> QED BY <2>1, <2>2, <2>3 DEF Strings
<1>2. ASSUME NEW x \in {a, b}
      PROVE  x.at.shape \in {"naive", "aware"}
             /\ x.precision \in {"exact", "minute", "hour", "approximate"}
  <2>1. parse_anchor(x.at) = "datetime" /\ x.precision \notin {"day", "month", "year"}
    BY DEF Comparable
  <2>2. x.at.shape \in Shapes /\ x.precision \in Precisions
    BY <1>1
  <2> QED BY <2>1, <2>2 DEF parse_anchor, Shapes, Precisions
<1>3. \A p \in {"exact", "minute", "hour", "approximate"} : p \in DOMAIN Rank /\ Rank[p] \in 1..4
  BY DEF Rank
<1> QED BY <1>1, <1>2, <1>3 DEF Comparable

\* Comparable anchors may be exchanged, and whoever is comparable with one of them is
\* with the other.
LEMMA ComparableIsEquivalence ==
  ASSUME NEW a \in Anchors, NEW b \in Anchors, NEW c \in Anchors, Comparable(a, b)
  PROVE  /\ Comparable(b, a)
         /\ Comparable(a, c) => Comparable(b, c)
BY DEF Comparable

\* The coarser of two precisions is no finer than either.
LEMMA CoarserIsCoarser ==
  ASSUME NEW p \in DOMAIN Rank, NEW q \in DOMAIN Rank
  PROVE  Rank[p] <= Rank[Coarser(p, q)] /\ Rank[q] <= Rank[Coarser(p, q)]
BY DEF Rank, Coarser

\* A duration that is derived is the time that passed if and only if its anchors share a
\* clock; it is no finer than they are, and additive, for all anchors a record can hold
\* (derive.py derive_durations, schema.py TimeAnchor).
THEOREM DurationsAlwaysHold ==
  ASSUME NEW a \in Anchors, NEW b \in Anchors, NEW c \in Anchors
  PROVE  DurationsHold(a, b, c)
<1> DEFINE detect == Seconds_between(a, b)
           mitigate == Seconds_between(a, c)
<1>1. ASSUME detect.given
      PROVE  /\ \A z \in Offsets :
                  detect.seconds = Instant(b, z) - Instant(a, z)
                    <=> a.at.shape = "aware" \/ ZoneOf(a, z) = ZoneOf(b, z)
             /\ \A x \in {a, b} : x.precision \in DOMAIN Rank
                                  /\ Rank[x.precision] <= Rank[detect.precision]
             /\ Seconds_between(b, a).seconds = -detect.seconds
  <2>1. Comparable(a, b) /\ Comparable(b, a)
    BY <1>1, ComparableIsEquivalence DEF Seconds_between, None
  <2>2. detect.seconds = (b.at.wall - b.at.offset) - (a.at.wall - a.at.offset)
        /\ detect.precision = Coarser(a.precision, b.precision)
        /\ Seconds_between(b, a).seconds
             = (a.at.wall - a.at.offset) - (b.at.wall - b.at.offset)
    BY <2>1 DEF Seconds_between
  <2>3. \A z \in Offsets : detect.seconds = Instant(b, z) - Instant(a, z)
                             <=> a.at.shape = "aware" \/ ZoneOf(a, z) = ZoneOf(b, z)
    <3> TAKE z \in Offsets
    <3>1. z \in Int /\ a.at.wall \in Int /\ b.at.wall \in Int
      BY <2>1, AnchorsAssumption, ComparableAnchors
    <3>2. CASE a.at.shape = "aware" /\ b.at.shape = "aware"
      <4>1. Instant(a, z) = a.at.wall - a.at.offset /\ Instant(b, z) = b.at.wall - b.at.offset
        BY <3>2 DEF Instant, ZoneOf
      <4> QED BY <2>2, <3>2, <4>1
    <3>3. CASE a.at.shape = "naive" /\ b.at.shape = "naive"
      <4>1. a.at.offset = 0 /\ b.at.offset = 0
        BY <2>1, <3>3, ComparableAnchors
      <4>2. ZoneOf(a, z) \in Int /\ ZoneOf(b, z) \in Int
        BY <2>1, <3>1, <3>3, AnchorsAssumption, ComparableAnchors DEF ZoneOf
      <4>3. detect.seconds = b.at.wall - a.at.wall
        BY <2>2, <3>1, <4>1
      <4> QED BY <3>1, <3>3, <4>2, <4>3 DEF Instant
    <3> QED BY <2>1, <3>2, <3>3, ComparableAnchors
  <2>4. \A x \in {a, b} : x.precision \in DOMAIN Rank
                          /\ Rank[x.precision] <= Rank[detect.precision]
    BY <2>1, <2>2, ComparableAnchors, CoarserIsCoarser
  <2>5. Seconds_between(b, a).seconds = -detect.seconds
    BY <2>1, <2>2, ComparableAnchors
  <2> QED BY <2>3, <2>4, <2>5
<1>2. ASSUME detect.given, mitigate.given
      PROVE  mitigate.seconds - detect.seconds = Seconds_between(b, c).seconds
  <2>1. Comparable(a, b) /\ Comparable(a, c) /\ Comparable(b, c)
    BY <1>2, ComparableIsEquivalence DEF Seconds_between, None
  <2>2. /\ detect.seconds = (b.at.wall - b.at.offset) - (a.at.wall - a.at.offset)
        /\ mitigate.seconds = (c.at.wall - c.at.offset) - (a.at.wall - a.at.offset)
        /\ Seconds_between(b, c).seconds
             = (c.at.wall - c.at.offset) - (b.at.wall - b.at.offset)
    BY <2>1 DEF Seconds_between
  <2> QED BY <2>1, <2>2, ComparableAnchors
<1> QED BY <1>1, <1>2 DEF DurationsHold, derive_durations

-------------------------------------------------------------------------------
(* Reports *)

Statuses == {"complete", "failed"}
JobStatuses == {"queued", "running", "succeeded", "dead_letter"}

Extractions == [status : Statuses, tokens : Nat, time : Int]

\* What the database may hold of a document: its extractions are numbered in the order of
\* their times.
Histories ==
  {doc \in [ingest : JobStatuses, extract : JobStatuses \cup {"none"},
            rows : UNION {[I -> Extractions] : I \in SUBSET Nat}] :
     /\ IsFiniteSet(DOMAIN doc.rows)
     /\ \A i, j \in DOMAIN doc.rows : i < j => doc.rows[i].time <= doc.rows[j].time}

\* What one may use of a history.
LEMMA HistoryFacts ==
  ASSUME NEW doc \in Histories
  PROVE  /\ DOMAIN doc.rows \in SUBSET Nat /\ IsFiniteSet(DOMAIN doc.rows)
         /\ \A i \in DOMAIN doc.rows :
              doc.rows[i] \in Extractions /\ doc.rows[i].tokens \in Nat /\ doc.rows[i].time \in Int
         /\ doc.rows \in [DOMAIN doc.rows -> Extractions]
<1>1. doc.rows \in UNION {[I -> Extractions] : I \in SUBSET Nat} /\ IsFiniteSet(DOMAIN doc.rows)
  BY DEF Histories
<1>2. PICK I \in SUBSET Nat : doc.rows \in [I -> Extractions]
  BY <1>1
<1>3. DOMAIN doc.rows = I
  BY <1>2
<1>4. \A r \in Extractions : r.tokens \in Nat /\ r.time \in Int
  BY DEF Extractions
<1> QED BY <1>1, <1>2, <1>3, <1>4

\* A finite set of numbers that is not empty has a greatest.
LEMMA MaxIsGreatest ==
  ASSUME NEW S \in SUBSET Int, IsFiniteSet(S), S # {}
  PROVE  Max(S) \in S /\ \A x \in S : x <= Max(S)
<1> DEFINE id == [x \in S |-> x]
<1>1. id \in [S -> Int] /\ \A x \in S : id[x] = x
  OBVIOUS
<1> HIDE DEF id
<1>2. \E x \in S : \A y \in S : id[y] <= id[x]
  BY <1>1, HasTop
<1>3. \E x \in S : \A y \in S : x >= y
  BY <1>1, <1>2
<1> QED BY <1>3 DEF Max

\* The tokens of rows are a sum over a part of the document's rows.
LEMMA TokensAreASum ==
  ASSUME NEW doc \in Histories
  PROVE  LET I == DOMAIN doc.rows
             f == [i \in I |-> doc.rows[i].tokens]
         IN /\ f \in [I -> Int]
            /\ \A ids \in SUBSET I : SumTokens(doc.rows, ids) = SumOver(f, ids)
                                     /\ SumTokens(doc.rows, ids) \in Int
<1> DEFINE I == DOMAIN doc.rows
           f == [i \in I |-> doc.rows[i].tokens]
<1>1. f \in [I -> Int]
  BY HistoryFacts
<1>2. ASSUME NEW ids \in SUBSET I
      PROVE  SumTokens(doc.rows, ids) = SumOver(f, ids)
  <2>1. [i \in ids |-> doc.rows[i].tokens] = [i \in ids |-> f[i]]
    OBVIOUS
  <2> QED BY <2>1 DEF SumTokens, SumOver
<1>3. \A ids \in SUBSET I : SumOver(f, ids) \in Int
  <2>1. IsFiniteSet(I)
    BY HistoryFacts
  <2> HIDE DEF f, I
  <2> QED BY <1>1, <2>1, SumType
<1> HIDE DEF f
<1> QED BY <1>1, <1>2, <1>3 DEF f

\* An entry of a report counts a row as final or as one of the others, but for the one it
\* reuses.
LEMMA EntryAddsUp ==
  ASSUME NEW doc \in Histories, NEW started \in Int
  PROVE  LET e == Entry(doc, started)
         IN /\ e.tokens \in Int /\ e.others \in Int /\ e.final.tokens \in Int
            /\ e.final.tokens + e.others = e.tokens + (IF e.reused THEN e.final.tokens ELSE 0)
            /\ e.tokens = SumTokens(doc.rows, RowsOfRun(doc.rows, started))
            /\ e.reused => e.tokens = 0 /\ e.final.time < Cutoff(started)
            /\ e.outcome = "complete" /\ ~e.reused => DocumentStatus(doc) = "complete"
<1> DEFINE I == DOMAIN doc.rows
           ids == RowsOfRun(doc.rows, started)
           complete == {i \in EarlierRows(doc.rows, started) : doc.rows[i].status = "complete"}
           reused == ids = {} /\ doc.extract = "succeeded" /\ complete # {}
           final == LastOf(doc.rows, IF reused THEN complete ELSE ids)
           e == Entry(doc, started)
           f == [i \in I |-> doc.rows[i].tokens]
<1>1. /\ e.final = final /\ e.reused = reused /\ e.tokens = SumTokens(doc.rows, ids)
      /\ e.others = IF ids = {} THEN 0 ELSE SumTokens(doc.rows, ids \ {Max(ids)})
      /\ e.outcome = "complete" => final.status = "complete"
  BY DEF Entry
<1>2. ids \in SUBSET I /\ complete \in SUBSET I /\ complete \subseteq EarlierRows(doc.rows, started)
  BY DEF RowsOfRun, EarlierRows
<1>3. /\ I \in SUBSET Nat /\ IsFiniteSet(I)
      /\ \A i \in I : doc.rows[i].tokens \in Nat /\ doc.rows[i].time \in Int
  BY HistoryFacts
<1>4. ASSUME NEW s \in SUBSET I, s # {}
      PROVE  Max(s) \in s /\ (\A x \in s : x <= Max(s)) /\ LastOf(doc.rows, s) = doc.rows[Max(s)]
  <2>1. s \in SUBSET Int /\ IsFiniteSet(s)
    BY <1>3, FS_Subset
  <2> QED BY <1>4, <2>1, MaxIsGreatest DEF LastOf
<1>5. /\ f \in [I -> Int]
      /\ \A s \in SUBSET I : /\ SumTokens(doc.rows, s) = SumOver(f, s)
                            /\ SumTokens(doc.rows, s) \in Int
  BY TokensAreASum
<1>6. \A i \in complete : doc.rows[i].time < Cutoff(started)
  BY <1>2 DEF EarlierRows
<1>7. \A i \in ids : doc.rows[i].time >= Cutoff(started)
  BY DEF RowsOfRun
<1>8. \A i \in I : doc.rows[i].time >= Cutoff(started) => i \in ids
  BY DEF RowsOfRun
<1>9. /\ reused <=> (ids = {} /\ doc.extract = "succeeded" /\ complete # {})
      /\ reused => final = LastOf(doc.rows, complete)
      /\ ~reused => final = LastOf(doc.rows, ids)
  OBVIOUS
<1> DEFINE Goal ==
      /\ e.tokens \in Int /\ e.others \in Int /\ final.tokens \in Int
      /\ final.tokens + e.others = e.tokens + (IF reused THEN final.tokens ELSE 0)
      /\ reused => e.tokens = 0 /\ final.time < Cutoff(started)
      /\ final.status = "complete" /\ ~reused => DocumentStatus(doc) = "complete"
<1>10. \A i, j \in I : i < j => doc.rows[i].time <= doc.rows[j].time
  BY DEF Histories
<1>11. I # {} => DocumentStatus(doc) = doc.rows[Max(I)].status
  BY DEF DocumentStatus
<1> HIDE DEF e, complete, I, f, final, reused, ids
<1>12. ASSUME ids = {} PROVE Goal
  <2>1. e.tokens = 0 /\ e.others = 0
    BY <1>1, <1>2, <1>5, <1>12, SumOfNone
  <2>2. CASE reused
    <3>1. PICK c \in complete : final = doc.rows[c]
      <4>1. final = doc.rows[Max(complete)] /\ Max(complete) \in complete
        BY <1>2, <1>4, <1>9, <2>2
      <4> QED BY <4>1
    <3>2. final.tokens \in Int /\ final.time < Cutoff(started)
      <4>1. c \in I
        BY <1>2
      <4> QED BY <1>3, <1>6, <3>1, <4>1
    <3> QED BY <2>1, <2>2, <3>2
  <2>3. CASE ~reused
    <3>1. final = NoRow
      BY <1>9, <1>12, <2>3 DEF LastOf
    <3>2. final.tokens = 0 /\ final.status # "complete"
      BY <3>1 DEF NoRow
    <3> QED BY <2>1, <2>3, <3>2
  <2> QED BY <2>2, <2>3
<1>13. ASSUME ids # {} PROVE Goal
  <2>1. PICK m \in ids : m = Max(ids) /\ (\A x \in ids : x <= m)
    <3>1. Max(ids) \in ids /\ (\A x \in ids : x <= Max(ids))
      BY <1>2, <1>4, <1>13
    <3> QED BY <3>1
  <2>2. ~reused /\ final = doc.rows[m] /\ m \in I /\ m \in Int /\ ids \ {m} \in SUBSET I
    <3>1. ~reused
      BY <1>9, <1>13
    <3>2. m \in I /\ m \in Int /\ ids \ {m} \in SUBSET I
      BY <1>2, <1>3
    <3>3. final = doc.rows[m]
      BY <1>2, <1>4, <1>9, <1>13, <2>1, <3>1
    <3> QED BY <3>1, <3>2, <3>3
  <2>3. SumTokens(doc.rows, ids) = doc.rows[m].tokens + SumTokens(doc.rows, ids \ {m})
    <3>1. SumOver(f, ids) = f[m] + SumOver(f, ids \ {m})
      <4>1. IsFiniteSet(I) /\ f \in [I -> Int] /\ ids \in SUBSET I /\ m \in ids
        BY <1>2, <1>3, <1>5
      <4> QED BY ONLY <4>1, SumStep
    <3>2. f[m] = doc.rows[m].tokens
      BY <2>2 DEF f
    <3> QED BY <1>2, <1>5, <2>2, <3>1, <3>2
  <2>4. /\ e.tokens \in Int /\ e.others \in Int /\ final.tokens \in Nat
        /\ e.others = SumTokens(doc.rows, ids \ {m})
    BY <1>1, <1>2, <1>3, <1>5, <1>13, <2>1, <2>2
  <2>5. DocumentStatus(doc) = final.status
    <3>1. PICK n \in I : n = Max(I) /\ (\A x \in I : x <= n)
      BY <1>4, <2>2
    <3>2. doc.rows[m].time <= doc.rows[n].time
      <4>1. n \in Int /\ m <= n /\ doc.rows[m].time \in Int
        BY <1>3, <2>2, <3>1
      <4> QED BY <1>10, <2>2, <3>1, <4>1
    <3>3. n \in ids
      <4>1. Cutoff(started) \in Int /\ doc.rows[m].time \in Int /\ doc.rows[n].time \in Int
        BY <1>3, <2>2, <3>1 DEF Cutoff
      <4>2. doc.rows[n].time >= Cutoff(started)
        BY <1>7, <2>1, <3>2, <4>1
      <4> QED BY <1>8, <3>1, <4>2
    <3>4. m = n
      <4>1. n <= m /\ m <= n /\ n \in Int
        BY <1>3, <2>1, <2>2, <3>1, <3>3
      <4> QED BY <2>2, <4>1
    <3>5. I # {}
      BY <2>2
    <3> QED BY <1>11, <2>2, <3>1, <3>4, <3>5
  <2> QED BY <1>1, <2>2, <2>3, <2>4, <2>5
<1>14. Goal
  BY <1>12, <1>13
<1> HIDE DEF Goal
<1>15. /\ e.tokens \in Int /\ e.others \in Int /\ e.final.tokens \in Int
       /\ e.final.tokens + e.others = e.tokens + (IF e.reused THEN e.final.tokens ELSE 0)
       /\ e.tokens = SumTokens(doc.rows, ids)
       /\ e.reused => e.tokens = 0 /\ e.final.time < Cutoff(started)
       /\ e.outcome = "complete" /\ ~e.reused => DocumentStatus(doc) = "complete"
  BY <1>1, <1>14 DEF Goal
<1> QED BY <1>15 DEF e, ids

\* An earlier state of a history is a history: its first rows.
LEMMA EarlierHistory ==
  ASSUME NEW D, NEW docs \in [D -> Histories], NEW time \in Int, NEW d \in D
  PROVE  LET doc == docs[d]
             then == AsOf(docs, time)[d]
         IN /\ then \in Histories
            /\ then.ingest = doc.ingest /\ then.extract = doc.extract
            /\ DOMAIN then.rows = {i \in DOMAIN doc.rows : doc.rows[i].time < time}
            /\ \A i \in DOMAIN then.rows : then.rows[i] = doc.rows[i]
<1> DEFINE doc == docs[d]
           then == AsOf(docs, time)[d]
           kept == {i \in DOMAIN doc.rows : doc.rows[i].time < time}
           rows == [i \in kept |-> doc.rows[i]]
<1>0. doc \in Histories
  OBVIOUS
<1>1. then = [doc EXCEPT !.rows = rows]
  BY DEF AsOf, Restrict
<1> HIDE DEF doc
<1>2. /\ doc \in [ingest : JobStatuses, extract : JobStatuses \cup {"none"},
                  rows : UNION {[I -> Extractions] : I \in SUBSET Nat}]
      /\ \A i, j \in DOMAIN doc.rows : i < j => doc.rows[i].time <= doc.rows[j].time
  BY <1>0 DEF Histories
<1>3. /\ DOMAIN doc.rows \in SUBSET Nat /\ IsFiniteSet(DOMAIN doc.rows)
      /\ \A i \in DOMAIN doc.rows : doc.rows[i] \in Extractions
  BY <1>0, HistoryFacts
<1>4. kept \in SUBSET DOMAIN doc.rows /\ IsFiniteSet(kept) /\ DOMAIN rows = kept
      /\ \A i \in kept : rows[i] = doc.rows[i]
  BY <1>3, FS_Subset
<1>5. rows \in UNION {[I -> Extractions] : I \in SUBSET Nat}
  <2>1. kept \in SUBSET Nat /\ rows \in [kept -> Extractions]
    BY <1>3, <1>4
  <2> HIDE DEF rows, kept
  <2> QED BY <2>1
<1> HIDE DEF rows, kept, then
<1>6. /\ then.rows = rows /\ then.ingest = doc.ingest /\ then.extract = doc.extract
      /\ then \in [ingest : JobStatuses, extract : JobStatuses \cup {"none"},
                   rows : UNION {[I -> Extractions] : I \in SUBSET Nat}]
  BY <1>1, <1>2, <1>5
<1>7. \A i, j \in DOMAIN then.rows : i < j => then.rows[i].time <= then.rows[j].time
  BY <1>2, <1>4, <1>6
<1>8. then \in Histories
  BY <1>4, <1>6, <1>7 DEF Histories
<1> QED BY <1>4, <1>6, <1>8 DEF doc, kept, then

\* An earlier state of a whole corpus is one, and the earlier of two is the earlier of the
\* later one.
LEMMA EarlierHistories ==
  ASSUME NEW D, NEW docs \in [D -> Histories], NEW early \in Int, NEW late \in Int,
         early <= late
  PROVE  /\ AsOf(docs, late) \in [D -> Histories]
         /\ AsOf(AsOf(docs, late), early) = AsOf(docs, early)
<1> DEFINE then == AsOf(docs, late)
<1>1. \A time \in Int : AsOf(docs, time) \in [D -> Histories]
  <2> TAKE time \in Int
  <2> DEFINE past == AsOf(docs, time)
  <2>1. \A d \in D : past[d] \in Histories
    BY EarlierHistory
  <2>2. past = [d \in D |-> past[d]]
    BY DEF AsOf
  <2> HIDE DEF past
  <2>3. past \in [D -> Histories]
    BY <2>1, <2>2
  <2> QED BY <2>3 DEF past
<1>2. ASSUME NEW d \in D
      PROVE  AsOf(then, early)[d] = AsOf(docs, early)[d]
  <2> DEFINE doc == docs[d]
             kept == {i \in DOMAIN doc.rows : doc.rows[i].time < late}
             rows == [i \in kept |-> doc.rows[i]]
             few == {i \in DOMAIN doc.rows : doc.rows[i].time < early}
  <2>0. doc \in Histories
    OBVIOUS
  <2>1. then[d] = [doc EXCEPT !.rows = rows] /\ DOMAIN then = D
    BY DEF AsOf, Restrict
  <2>2. AsOf(docs, early)[d] = [doc EXCEPT !.rows = [i \in few |-> doc.rows[i]]]
    BY DEF AsOf, Restrict
  <2>3. AsOf(then, early)[d]
          = [then[d] EXCEPT
               !.rows = [i \in {i \in DOMAIN then[d].rows : then[d].rows[i].time < early} |->
                           then[d].rows[i]]]
    <3> HIDE DEF then
    <3> QED BY <2>1 DEF AsOf, Restrict
  <2>4. \A i \in DOMAIN doc.rows : doc.rows[i].time \in Int
    BY <2>0, HistoryFacts
  <2>5. /\ doc = [ingest |-> doc.ingest, extract |-> doc.extract, rows |-> doc.rows]
    BY <2>0 DEF Histories
  <2> HIDE DEF doc, then
  <2>6. then[d].rows = rows /\ DOMAIN rows = kept
    BY <2>1, <2>5
  <2>7. {i \in kept : rows[i].time < early} = few
    BY <2>4
  <2>8. [i \in {i \in kept : rows[i].time < early} |-> rows[i]] = [i \in few |-> doc.rows[i]]
    <3>1. \A i \in few : rows[i] = doc.rows[i]
      BY <2>7
    <3> HIDE DEF few, rows, kept
    <3> QED BY <2>7, <3>1
  <2> DEFINE less == [i \in few |-> doc.rows[i]]
  <2>9. AsOf(then, early)[d] = [[doc EXCEPT !.rows = rows] EXCEPT !.rows = less]
    <3> DEFINE left == [i \in {i \in DOMAIN then[d].rows : then[d].rows[i].time < early} |->
                          then[d].rows[i]]
    <3>1. left = less
      <4> HIDE DEF rows, kept, few
      <4> QED BY <2>6, <2>8
    <3>2. AsOf(then, early)[d] = [then[d] EXCEPT !.rows = left]
      BY <2>3
    <3> HIDE DEF left, less, rows
    <3> QED BY <2>1, <3>1, <3>2, Zenon
  <2>10. [[doc EXCEPT !.rows = rows] EXCEPT !.rows = less] = [doc EXCEPT !.rows = less]
    <3> HIDE DEF rows, less
    <3>1. [doc EXCEPT !.rows = rows]
            = [ingest |-> doc.ingest, extract |-> doc.extract, rows |-> rows]
      BY ONLY <2>5
    <3>2. [doc EXCEPT !.rows = less]
            = [ingest |-> doc.ingest, extract |-> doc.extract, rows |-> less]
      BY ONLY <2>5
    <3>3. [[ingest |-> doc.ingest, extract |-> doc.extract, rows |-> rows] EXCEPT !.rows = less]
            = [ingest |-> doc.ingest, extract |-> doc.extract, rows |-> less]
      OBVIOUS
    <3> QED BY <3>1, <3>2, <3>3, Zenon
  <2> QED BY <2>2, <2>9, <2>10
<1>3. AsOf(then, early) = AsOf(docs, early)
  <2>1. DOMAIN then = D /\ AsOf(docs, early) = [d \in D |-> AsOf(docs, early)[d]]
    BY DEF AsOf
  <2> HIDE DEF then
  <2>2. AsOf(then, early) = [d \in D |-> AsOf(then, early)[d]]
    BY <2>1 DEF AsOf
  <2> QED BY <1>2, <2>1, <2>2
<1> QED BY <1>1, <1>3

\* The rows of a document are those of the run and those before its cutoff.
LEMMA RowsOfRunAreTheRest ==
  ASSUME NEW D, NEW docs \in [D -> Histories], NEW started \in Int, NEW d \in D
  PROVE  LET doc == docs[d]
             before == AsOf(docs, Cutoff(started))[d]
         IN SumTokens(doc.rows, RowsOfRun(doc.rows, started))
              + SumTokens(before.rows, DOMAIN before.rows)
            = SumTokens(doc.rows, DOMAIN doc.rows)
<1> DEFINE doc == docs[d]
           before == AsOf(docs, Cutoff(started))[d]
           I == DOMAIN doc.rows
           f == [i \in I |-> doc.rows[i].tokens]
           A == RowsOfRun(doc.rows, started)
           C == DOMAIN before.rows
<1>1. /\ doc \in Histories /\ Cutoff(started) \in Int
      /\ C = {i \in I : doc.rows[i].time < Cutoff(started)}
      /\ \A i \in C : before.rows[i] = doc.rows[i]
  <2>1. Cutoff(started) \in Int
    BY DEF Cutoff
  <2> QED BY <2>1, EarlierHistory
<1>2. IsFiniteSet(I) /\ \A i \in I : doc.rows[i].time \in Int
  BY <1>1, HistoryFacts
<1> HIDE DEF before
<1>3. A \in SUBSET I /\ C \in SUBSET I /\ A \cup C = I /\ A \cap C = {}
  BY <1>1, <1>2 DEF RowsOfRun
<1>4. /\ f \in [I -> Int]
      /\ \A ids \in SUBSET I : SumTokens(doc.rows, ids) = SumOver(f, ids)
  BY <1>1, TokensAreASum
<1>5. SumTokens(before.rows, C) = SumTokens(doc.rows, C)
  <2> HIDE DEF C
  <2>1. [i \in C |-> before.rows[i].tokens] = [i \in C |-> doc.rows[i].tokens]
    BY <1>1
  <2> QED BY <2>1 DEF SumTokens
<1> HIDE DEF A, C, f
<1>6. SumOver(f, A \cup C) = SumOver(f, A) + SumOver(f, C)
  <2> HIDE DEF I
  <2> QED BY ONLY <1>2, <1>3, <1>4, SumOfParts
<1> QED BY <1>3, <1>4, <1>5, <1>6 DEF A, C, before

\* The numbers of a report that are sums over documents.
LEMMA ReportSums ==
  ASSUME NEW D, IsFiniteSet(D), NEW docs \in [D -> Histories], NEW started \in Int
  PROVE  LET r == Report(docs, started)
         IN /\ TotalTokens(r) = BilledTokens(r) + ReusedTokens(r)
            /\ BilledTokens(r) \in Int /\ ReusedTokens(r) \in Int
            /\ DOMAIN r = D
            /\ \A d \in D : r[d] = Entry(docs[d], started) /\ r[d].tokens \in Int
<1> DEFINE r == Report(docs, started)
<1>1. DOMAIN r = D /\ \A d \in D : r[d] = Entry(docs[d], started)
  BY DEF Report
<1> HIDE DEF r
<1> DEFINE total == [d \in D |-> r[d].final.tokens + r[d].others]
           billed == [d \in D |-> r[d].tokens]
           reused == [d \in D |-> IF r[d].reused THEN r[d].final.tokens ELSE 0]
<1>2. ASSUME NEW d \in D
      PROVE  /\ r[d].tokens \in Int /\ r[d].others \in Int /\ r[d].final.tokens \in Int
             /\ r[d].final.tokens + r[d].others
                  = r[d].tokens + (IF r[d].reused THEN r[d].final.tokens ELSE 0)
  <2>1. docs[d] \in Histories
    OBVIOUS
  <2> QED BY <1>1, <2>1, EntryAddsUp
<1>3. total \in [D -> Int] /\ billed \in [D -> Int] /\ reused \in [D -> Int]
  BY <1>2
<1>4. \A d \in D : total[d] = billed[d] + reused[d]
  BY <1>2
<1>5. TotalTokens(r) = Total(total) /\ BilledTokens(r) = Total(billed)
      /\ ReusedTokens(r) = Total(reused)
  BY <1>1 DEF TotalTokens, BilledTokens, ReusedTokens
<1> HIDE DEF total, billed, reused
<1>6. Total(total) = Total(billed) + Total(reused)
  BY ONLY IsFiniteSet(D), <1>3, <1>4, SumsAdd
<1>7. Total(billed) \in Int /\ Total(reused) \in Int
  BY ONLY IsFiniteSet(D), <1>3, TotalType
<1> QED BY <1>1, <1>2, <1>5, <1>6, <1>7 DEF r

\* What is spent on a corpus is the sum of what is spent on its documents.
LEMMA CostIsANumber ==
  ASSUME NEW D, IsFiniteSet(D), NEW docs \in [D -> Histories]
  PROVE  CostTotal(docs) \in Int
<1> DEFINE c == [d \in D |-> SumTokens(docs[d].rows, DOMAIN docs[d].rows)]
<1>1. c \in [D -> Int]
  BY TokensAreASum
<1>2. CostTotal(docs) = Total(c)
  BY DEF CostTotal
<1> HIDE DEF c
<1>3. Total(c) \in Int
  BY ONLY IsFiniteSet(D), <1>1, TotalType
<1> QED BY <1>2, <1>3

\* A report bills what was spent since its cutoff, on any corpus (extraction_run.py,
\* metrics.py).
THEOREM ReportsBillWhatWasSpent ==
  ASSUME NEW D, IsFiniteSet(D), NEW docs \in [D -> Histories], NEW started \in Int
  PROVE  BilledTokens(Report(docs, started)) + CostTotal(AsOf(docs, Cutoff(started)))
           = CostTotal(docs)
<1> DEFINE before == AsOf(docs, Cutoff(started))
           r == Report(docs, started)
           b == [d \in D |-> r[d].tokens]
           c == [d \in D |-> SumTokens(before[d].rows, DOMAIN before[d].rows)]
           t == [d \in D |-> SumTokens(docs[d].rows, DOMAIN docs[d].rows)]
<1>1. Cutoff(started) \in Int /\ Cutoff(started) <= Cutoff(started)
  BY DEF Cutoff
<1>2. before \in [D -> Histories]
  BY <1>1, EarlierHistories
<1>3. DOMAIN r = D /\ \A d \in D : r[d] = Entry(docs[d], started) /\ r[d].tokens \in Int
  BY ReportSums
<1> HIDE DEF before, r
<1>4. ASSUME NEW d \in D
      PROVE  /\ r[d].tokens \in Int
             /\ SumTokens(before[d].rows, DOMAIN before[d].rows) \in Int
             /\ SumTokens(docs[d].rows, DOMAIN docs[d].rows) \in Int
             /\ r[d].tokens + SumTokens(before[d].rows, DOMAIN before[d].rows)
                  = SumTokens(docs[d].rows, DOMAIN docs[d].rows)
  <2>1. docs[d] \in Histories /\ before[d] \in Histories
    BY <1>2
  <2>2. r[d].tokens = SumTokens(docs[d].rows, RowsOfRun(docs[d].rows, started))
    BY <1>3, <2>1, EntryAddsUp
  <2>3. /\ SumTokens(before[d].rows, DOMAIN before[d].rows) \in Int
        /\ SumTokens(docs[d].rows, DOMAIN docs[d].rows) \in Int
    BY <2>1, TokensAreASum
  <2>4. SumTokens(docs[d].rows, RowsOfRun(docs[d].rows, started))
          + SumTokens(before[d].rows, DOMAIN before[d].rows)
        = SumTokens(docs[d].rows, DOMAIN docs[d].rows)
    BY RowsOfRunAreTheRest DEF before
  <2> QED BY <1>3, <2>2, <2>3, <2>4
<1>5. /\ BilledTokens(r) = Total(b) /\ CostTotal(before) = Total(c)
      /\ CostTotal(docs) = Total(t)
  <2>1. DOMAIN docs = D /\ DOMAIN before = D
    BY <1>2
  <2> QED BY <1>3, <2>1 DEF BilledTokens, CostTotal
<1>6. b \in [D -> Int] /\ c \in [D -> Int] /\ t \in [D -> Int]
      /\ \A d \in D : t[d] = b[d] + c[d]
  BY <1>4
<1> HIDE DEF b, c, t
<1>7. Total(t) = Total(b) + Total(c)
  BY ONLY IsFiniteSet(D), <1>6, SumsAdd
<1>8. Total(b) \in Int /\ Total(c) \in Int
  BY ONLY IsFiniteSet(D), <1>6, TotalType
<1> QED BY <1>5, <1>7, <1>8 DEF before, r

\* Whatever was extracted, and whenever, the reports of two runs bill what was spent while
\* the runs went on and, twice, what was in the minute before the second; and a summary
\* says the tokens of its documents if and only if it counts none of reused rows
\* (extraction_run.py, metrics.py).
THEOREM TokensAreAlwaysAttributed ==
  ASSUME NEW D, IsFiniteSet(D), NEW docs \in [D -> Histories],
         NEW first \in Int, NEW second \in Int, first <= second
  PROVE  TokensAreAttributed(docs, first, second)
<1> DEFINE then == AsOf(docs, second)
           one == Report(then, first)
           two == Report(docs, second)
           again == Report(docs, first)
           b1 == BilledTokens(one)
           b2 == BilledTokens(two)
           b3 == BilledTokens(again)
           now == CostTotal(docs)
           atStart == CostTotal(then)
           atCutoff == CostTotal(AsOf(docs, Cutoff(second)))
           atFirst == CostTotal(AsOf(docs, Cutoff(first)))
<1>0. DOMAIN docs = D
  OBVIOUS
<1>1. /\ Cutoff(first) \in Int /\ Cutoff(second) \in Int
      /\ Cutoff(first) <= second /\ Cutoff(second) <= second
  BY DEF Cutoff
<1>2. /\ then \in [D -> Histories]
      /\ AsOf(then, Cutoff(first)) = AsOf(docs, Cutoff(first))
  BY <1>1, EarlierHistories
<1>3. \A r \in {one, two, again} :
        /\ TotalTokens(r) = BilledTokens(r) + ReusedTokens(r)
        /\ BilledTokens(r) \in Int /\ ReusedTokens(r) \in Int
  <2> HIDE DEF then
  <2> QED BY <1>2, ReportSums
<1>4. \A d \in D : one[d] = Entry(then[d], first) /\ two[d] = Entry(docs[d], second)
  <2> HIDE DEF then
  <2> QED BY <1>2, ReportSums
<1>5. /\ b1 + atFirst = atStart /\ b2 + atCutoff = now /\ b3 + atFirst = now
  <2>1. b1 + CostTotal(AsOf(then, Cutoff(first))) = atStart
    <3> HIDE DEF then
    <3> QED BY <1>2, ReportsBillWhatWasSpent
  <2>2. b2 + atCutoff = now /\ b3 + atFirst = now
    BY ReportsBillWhatWasSpent
  <2> HIDE DEF then
  <2> QED BY <1>2, <2>1, <2>2
<1>6. now \in Int /\ atStart \in Int /\ atCutoff \in Int /\ atFirst \in Int
  <2>1. \A time \in {Cutoff(first), Cutoff(second)} : AsOf(docs, time) \in [D -> Histories]
    BY <1>1, EarlierHistories
  <2> HIDE DEF then
  <2> QED BY <1>2, <2>1, CostIsANumber
<1>7. b1 \in Int /\ b2 \in Int /\ b3 \in Int
  BY <1>3
<1>8. ASSUME NEW d \in D
      PROVE  /\ one[d].outcome = "complete" /\ ~one[d].reused =>
                  DocumentStatus(then[d]) = "complete"
             /\ two[d].reused => two[d].tokens = 0 /\ two[d].final.time < Cutoff(second)
  <2>1. docs[d] \in Histories /\ then[d] \in Histories
    BY <1>2
  <2> HIDE DEF then, one, two
  <2> QED BY <1>4, <2>1, EntryAddsUp
<1>9. \A r \in {one, two, again} : TotalTokens(r) = BilledTokens(r) <=> ReusedTokens(r) = 0
  <2> HIDE DEF one, two, again
  <2> QED BY <1>3
<1> DEFINE Goal == /\ b2 = (now - atStart) + (atStart - atCutoff)
                   /\ b1 + b2 + atFirst = now + (atStart - atCutoff)
                   /\ b3 = b1 + (now - atStart)
<1>10. Goal
  <2> HIDE DEF b1, b2, b3, now, atStart, atCutoff, atFirst
  <2> QED BY <1>5, <1>6, <1>7
<1> QED BY <1>0, <1>8, <1>9, <1>10 DEF TokensAreAttributed

-------------------------------------------------------------------------------
(* Orders *)

\* The place of each element in an order of a finite set, where B[x] are those before x.
LEMMA Ranks ==
  ASSUME NEW A, IsFiniteSet(A), NEW B \in [A -> SUBSET A],
         \A x \in A : x \notin B[x],
         \A x \in A : \A y \in B[x] : B[y] \subseteq B[x],
         \A x, y \in A : x = y \/ x \in B[y] \/ y \in B[x],
         NEW r, r = [x \in A |-> Cardinality(B[x])]
  PROVE  /\ Cardinality(A) \in Nat
         /\ r \in Bijection(A, 0..(Cardinality(A) - 1))
         /\ \A x, y \in A : x \in B[y] <=> r[x] < r[y]
<1> DEFINE n == Cardinality(A)
           I == {r[x] : x \in A}
<1>1. n \in Nat
  BY FS_CardinalityType
<1>2. ASSUME NEW x \in A
      PROVE  IsFiniteSet(B[x]) /\ r[x] = Cardinality(B[x]) /\ r[x] \in Nat
  <2>1. B[x] \in SUBSET A
    OBVIOUS
  <2>2. IsFiniteSet(B[x])
    BY ONLY IsFiniteSet(A), <2>1, FS_Subset
  <2> QED BY <2>2, FS_CardinalityType
<1>3. ASSUME NEW x \in A, NEW y \in A, x \in B[y] PROVE r[x] < r[y]
  <2>1. B[x] \cup {x} \in SUBSET B[y] /\ x \notin B[x]
    BY <1>3
  <2>2. Cardinality(B[x] \cup {x}) = Cardinality(B[x]) + 1
    BY ONLY <1>2, <2>1, FS_AddElement, x \in A
  <2>3. Cardinality(B[x] \cup {x}) <= Cardinality(B[y])
    BY ONLY <1>2, <2>1, FS_Subset, y \in A
  <2>4. r[x] = Cardinality(B[x]) /\ r[y] = Cardinality(B[y]) /\ r[x] \in Nat /\ r[y] \in Nat
    BY <1>2
  <2> QED BY ONLY <2>2, <2>3, <2>4
<1>4. \A x, y \in A : x \in B[y] <=> r[x] < r[y]
  <2> TAKE x \in A, y \in A
  <2>1. x = y \/ x \in B[y] \/ y \in B[x]
    OBVIOUS
  <2>2. r[x] \in Nat /\ r[y] \in Nat
    BY <1>2
  <2> QED BY <1>3, <2>1, <2>2
<1>5. \A x, y \in A : r[x] = r[y] => x = y
  <2> TAKE x \in A, y \in A
  <2>1. x = y \/ r[x] < r[y] \/ r[y] < r[x]
    BY <1>3
  <2>2. r[x] \in Nat /\ r[y] \in Nat
    BY <1>2
  <2> QED BY <2>1, <2>2
<1>6. r \in Bijection(A, I)
  <2>1. r \in [A -> I]
    OBVIOUS
  <2>2. \A z \in I : \E x \in A : r[x] = z
    OBVIOUS
  <2> HIDE DEF I
  <2> QED BY <1>5, <2>1, <2>2 DEF Bijection, Injection, Surjection, IsInjective
<1>7. I = 0..(n - 1)
  <2>1. I \in SUBSET (0..(n - 1))
    <3> SUFFICES ASSUME NEW x \in A PROVE r[x] \in 0..(n - 1)
      OBVIOUS
    <3>1. B[x] \in SUBSET (A \ {x}) /\ IsFiniteSet(A \ {x}) /\ Cardinality(A \ {x}) = n - 1
      BY FS_RemoveElement
    <3>2. Cardinality(B[x]) <= n - 1
      BY <3>1, FS_Subset
    <3> QED BY <1>1, <1>2, <3>2
  <2>2. IsFiniteSet(0..(n - 1)) /\ Cardinality(0..(n - 1)) = n
    <3>1. 0 \in Int /\ n - 1 \in Int /\ (0 > n - 1 => n = 0) /\ (n - 1) - 0 + 1 = n
      BY <1>1
    <3> QED BY <3>1, FS_Interval
  <2>3. Cardinality(I) = n
    <3> HIDE DEF I
    <3> QED BY <1>6, FS_Bijection DEF ExistsBijection
  <2> HIDE DEF I
  <2> QED BY ONLY <2>1, <2>2, <2>3, FS_Subset
<1> HIDE DEF I
<1> QED BY <1>1, <1>4, <1>6, <1>7

\* Numbers in order: each is there, and each comes before the greater ones.
LEMMA AscendingOrders ==
  ASSUME NEW S \in SUBSET Int, IsFiniteSet(S)
  PROVE  /\ Cardinality(S) \in Nat
         /\ \A k \in 1..Cardinality(S) : Ascending(S)[k] \in S
         /\ \A k, l \in 1..Cardinality(S) : k < l => Ascending(S)[k] < Ascending(S)[l]
         /\ \A x \in S : \E k \in 1..Cardinality(S) : Ascending(S)[k] = x
<1> DEFINE n == Cardinality(S)
           B == [x \in S |-> {y \in S : y < x}]
           r == [x \in S |-> Cardinality(B[x])]
<1>1. \A x, y \in S : x \in B[y] <=> x < y
  OBVIOUS
<1>2. /\ n \in Nat /\ r \in Bijection(S, 0..(n - 1))
      /\ \A x, y \in S : x < y <=> r[x] < r[y]
  <2>0. B \in [S -> SUBSET S]
    OBVIOUS
  <2>1. /\ \A x \in S : x \notin B[x]
        /\ \A x \in S : \A y \in B[x] : B[y] \subseteq B[x]
        /\ \A x, y \in S : x = y \/ x \in B[y] \/ y \in B[x]
    <3>1. \A x, y, z \in S : /\ ~(x < x) /\ (x < y /\ y < z => x < z)
                            /\ (x = y \/ x < y \/ y < x)
      OBVIOUS
    <3> HIDE DEF B
    <3> QED BY <1>1, <2>0, <3>1
  <2>2. /\ n \in Nat /\ r \in Bijection(S, 0..(n - 1))
        /\ \A x, y \in S : x \in B[y] <=> r[x] < r[y]
    <3> HIDE DEF B
    <3> QED BY <2>0, <2>1, Ranks
  <2> HIDE DEF B, r
  <2> QED BY <1>1, <2>2
<1>5. \A k \in 1..n : Ascending(S)[k] \in S /\ r[Ascending(S)[k]] = k - 1
  <2> TAKE k \in 1..n
  <2>1. \E x \in S : r[x] = k - 1
    <3>1. k - 1 \in 0..(n - 1)
      BY <1>2
    <3> HIDE DEF r
    <3> QED BY <1>2, <3>1 DEF Bijection, Surjection
  <2>2. \E x \in S : Cardinality({y \in S : y < x}) = k - 1
    BY <2>1
  <2>3. Ascending(S)[k] = CHOOSE x \in S : Cardinality({y \in S : y < x}) = k - 1
    BY DEF Ascending
  <2>4. Ascending(S)[k] \in S /\ Cardinality({y \in S : y < Ascending(S)[k]}) = k - 1
    BY <2>2, <2>3
  <2> QED BY <2>4
<1>6. \A k, l \in 1..n : k < l => Ascending(S)[k] < Ascending(S)[l]
  <2> SUFFICES ASSUME NEW k \in 1..n, NEW l \in 1..n, k < l
               PROVE  Ascending(S)[k] < Ascending(S)[l]
    OBVIOUS
  <2> HIDE DEF r
  <2>1. r[Ascending(S)[k]] < r[Ascending(S)[l]]
    BY <1>2, <1>5
  <2> QED BY <1>2, <1>5, <2>1
<1>7. \A x \in S : \E k \in 1..n : Ascending(S)[k] = x
  <2> TAKE x \in S
  <2>1. r[x] + 1 \in 1..n /\ (r[x] + 1) - 1 = r[x]
    <3>1. r[x] \in 0..(n - 1)
      <4> HIDE DEF r
      <4> QED BY <1>2 DEF Bijection, Injection
    <3> HIDE DEF r
    <3> QED BY <1>2, <3>1
  <2> DEFINE y == Ascending(S)[r[x] + 1]
  <2>2. y \in S /\ r[y] = r[x]
    <3> HIDE DEF r
    <3> QED BY <1>5, <2>1
  <2>3. y = x
    <3> HIDE DEF r, y
    <3> QED BY <1>2, <2>2 DEF Bijection, Injection, IsInjective
  <2> HIDE DEF r
  <2> QED BY <2>1, <2>3
<1> QED BY <1>2, <1>5, <1>6, <1>7

\* Those that come first, when as many are taken as there may be.
LEMMA FirstOnes ==
  ASSUME NEW A, IsFiniteSet(A), NEW B \in [A -> SUBSET A], NEW m \in Nat,
         \A x \in A : x \notin B[x],
         \A x \in A : \A y \in B[x] : B[y] \subseteq B[x],
         \A x, y \in A : x = y \/ x \in B[y] \/ y \in B[x],
         NEW T \in SUBSET A, \A x \in A : x \in T <=> Cardinality(B[x]) < m
  PROVE  /\ IsFiniteSet(T) /\ Cardinality(T) \in 0..m
         /\ T = A \/ Cardinality(T) = m
         /\ \A x \in T, y \in A \ T : x \in B[y]
<1> DEFINE n == Cardinality(A)
           r == [x \in A |-> Cardinality(B[x])]
<1>1. /\ n \in Nat /\ r \in Bijection(A, 0..(n - 1))
      /\ \A x, y \in A : x \in B[y] <=> r[x] < r[y]
  BY Ranks
<1>0. \A x \in A : x \in T <=> r[x] < m
  OBVIOUS
<1>4. \A x \in A : r[x] \in 0..(n - 1)
  <2> HIDE DEF r
  <2> QED BY <1>1 DEF Bijection, Injection
<1>a. T \in SUBSET A
  OBVIOUS
<1> HIDE DEF r
<1>2. \A x \in T, y \in A \ T : x \in B[y]
  BY ONLY <1>0, <1>1, <1>4, <1>a, m \in Nat
<1>3. IsFiniteSet(T) /\ Cardinality(T) \in Nat
  BY ONLY <1>a, IsFiniteSet(A), FS_Subset, FS_CardinalityType
<1>5. CASE n <= m
  <2>1. T = A
    <3>1. \A x \in A : r[x] < m
      BY ONLY <1>1, <1>4, <1>5, m \in Nat
    <3> QED BY <1>0, <1>a, <3>1
  <2>2. Cardinality(T) \in 0..m
    BY ONLY <1>1, <1>3, <1>5, <2>1, m \in Nat
  <2> QED BY <1>2, <1>3, <2>1, <2>2
<1>6. CASE ~(n <= m)
  <2> DEFINE h == [x \in T |-> r[x]]
  <2>1. h \in [T -> 0..(m - 1)]
    <3>1. \A x \in T : r[x] \in 0..(m - 1)
      BY ONLY <1>0, <1>4, <1>a, m \in Nat, <1>1
    <3> QED BY <3>1
  <2>2. \A x, y \in T : h[x] = h[y] => x = y
    BY <1>1, <1>a DEF Bijection, Injection, IsInjective
  <2>3. \A z \in 0..(m - 1) : \E x \in T : h[x] = z
    <3> TAKE z \in 0..(m - 1)
    <3>1. z \in 0..(n - 1)
      BY <1>1, <1>6
    <3>2. PICK x \in A : r[x] = z
      BY <1>1, <3>1 DEF Bijection, Surjection
    <3>3. x \in T
      BY <1>0, <3>2
    <3> QED BY <3>2, <3>3
  <2>4. h \in Bijection(T, 0..(m - 1))
    <3> HIDE DEF h
    <3> QED BY <2>1, <2>2, <2>3 DEF Bijection, Injection, Surjection, IsInjective
  <2>5. Cardinality(0..(m - 1)) = m
    <3>1. 0 \in Int /\ m - 1 \in Int /\ (0 > m - 1 => m = 0) /\ (m - 1) - 0 + 1 = m
      OBVIOUS
    <3> QED BY <3>1, FS_Interval
  <2>6. Cardinality(T) = m
    <3> HIDE DEF h
    <3> QED BY ONLY <1>3, <2>4, <2>5, FS_Bijection DEF ExistsBijection
  <2> QED BY <1>2, <1>3, <2>6
<1> QED BY <1>5, <1>6

\* No other enumeration is in order.
LEMMA OrderIsUnique ==
  ASSUME NEW S \in SUBSET Int, NEW n \in Nat, NEW g \in [1..n -> S],
         \A k, l \in 1..n : k < l => g[k] < g[l],
         \A x \in S : \E k \in 1..n : g[k] = x
  PROVE  /\ IsFiniteSet(S) /\ Cardinality(S) = n
         /\ \A k \in 1..n : Ascending(S)[k] = g[k]
<1>1. IsFiniteSet(1..n) /\ Cardinality(1..n) = n
  <2>1. 1 \in Int /\ n \in Int /\ (1 > n => n = 0) /\ n - 1 + 1 = n
    OBVIOUS
  <2> QED BY <2>1, FS_Interval
<1>2. \A k, l \in 1..n : g[k] = g[l] => k = l
  <2> TAKE k \in 1..n, l \in 1..n
  <2>1. k < l \/ l < k \/ k = l
    OBVIOUS
  <2>2. g[k] \in Int /\ g[l] \in Int
    OBVIOUS
  <2> QED BY <2>1, <2>2
<1>3. g \in Bijection(1..n, S)
  BY <1>2 DEF Bijection, Injection, Surjection, IsInjective
<1>4. IsFiniteSet(S) /\ Cardinality(S) = n
  BY <1>1, <1>3, FS_Bijection DEF ExistsBijection
<1>5. ASSUME NEW k \in 1..n PROVE Ascending(S)[k] = g[k]
  <2> DEFINE Below(x) == {y \in S : y < x}
  <2>1. ASSUME NEW l \in 1..n PROVE Cardinality(Below(g[l])) = l - 1
    <3> DEFINE h == [m \in 1..(l - 1) |-> g[m]]
    <3>1. h \in [1..(l - 1) -> Below(g[l])]
      OBVIOUS
    <3>2. \A y \in Below(g[l]) : \E m \in 1..(l - 1) : h[m] = y
      <4> TAKE y \in Below(g[l])
      <4>1. PICK m \in 1..n : g[m] = y
        OBVIOUS
      <4>2. ~(l <= m)
        <5>1. g[l] \in Int /\ g[m] \in Int /\ g[m] < g[l]
          BY <4>1
        <5>2. l = m \/ l < m => g[l] <= g[m]
          BY <5>1
        <5> QED BY <5>1, <5>2
      <4>3. m \in 1..(l - 1)
        BY <4>2
      <4> QED BY <4>1, <4>3
    <3>3. \A a, b \in 1..(l - 1) : h[a] = h[b] => a = b
      BY <1>2
    <3>4. h \in Bijection(1..(l - 1), Below(g[l]))
      <4> HIDE DEF h, Below
      <4> QED BY <3>1, <3>2, <3>3 DEF Bijection, Injection, Surjection, IsInjective
    <3>5. IsFiniteSet(1..(l - 1)) /\ Cardinality(1..(l - 1)) = l - 1
      <4>1. 1 \in Int /\ l - 1 \in Int /\ (1 > l - 1 => l - 1 = 0) /\ l - 1 - 1 + 1 = l - 1
        OBVIOUS
      <4> QED BY <4>1, FS_Interval
    <3> HIDE DEF h, Below
    <3> QED BY <3>4, <3>5, FS_Bijection DEF ExistsBijection
  <2>2. \A x \in S : Cardinality(Below(x)) = k - 1 <=> x = g[k]
    <3> TAKE x \in S
    <3>1. PICK l \in 1..n : g[l] = x
      OBVIOUS
    <3>2. Cardinality(Below(x)) = l - 1
      BY <2>1, <3>1
    <3> HIDE DEF Below
    <3> QED BY <1>2, <2>1, <3>1, <3>2
  <2>3. Ascending(S)[k] = CHOOSE x \in S : Cardinality(Below(x)) = k - 1
    BY <1>4 DEF Ascending
  <2> HIDE DEF Below
  <2> QED BY <2>2, <2>3
<1> QED BY <1>4, <1>5

\* What is picked, and from where.
LEMMA PickedInOrder ==
  ASSUME NEW S \in SUBSET Int, IsFiniteSet(S), NEW f
  PROVE  /\ Picked(f, S) \in Seq({f[x] : x \in S})
         /\ Len(Picked(f, S)) = Cardinality(S)
         /\ DOMAIN Picked(f, S) = 1..Cardinality(S)
         /\ \A k \in 1..Cardinality(S) : Picked(f, S)[k] = f[Ascending(S)[k]]
         /\ ToSet(Picked(f, S)) = {f[x] : x \in S}
<1> DEFINE n == Cardinality(S)
           T == {f[x] : x \in S}
           p == Picked(f, S)
<1>1. n \in Nat /\ \A k \in 1..n : Ascending(S)[k] \in S
  BY AscendingOrders
<1>2. p = [k \in 1..n |-> f[Ascending(S)[k]]]
  BY DEF Picked
<1>3. \A k \in 1..n : p[k] = f[Ascending(S)[k]] /\ p[k] \in T
  BY <1>1, <1>2
<1>4. p \in [1..n -> T]
  <2> HIDE DEF T, p, n
  <2> QED BY <1>2, <1>3
<1>5. p \in Seq(T) /\ Len(p) = n /\ DOMAIN p = 1..n
  <2> HIDE DEF T, p, n
  <2> QED BY <1>1, <1>4
<1>6. \A t \in T : \E k \in 1..n : p[k] = t
  <2> SUFFICES ASSUME NEW x \in S PROVE \E k \in 1..n : p[k] = f[x]
    OBVIOUS
  <2>1. PICK k \in 1..n : Ascending(S)[k] = x
    BY AscendingOrders
  <2> HIDE DEF T, p
  <2> QED BY <1>3, <2>1
<1>7. ToSet(p) = T
  <2> HIDE DEF T, p, n
  <2> QED BY <1>3, <1>5, <1>6 DEF ToSet
<1> QED BY <1>3, <1>5, <1>7

-------------------------------------------------------------------------------
(* Sentences and passages *)

\* The first and the last of some positions.
LEMMA Extremes ==
  ASSUME NEW n \in Nat, NEW S \in SUBSET (1..n), S # {}
  PROVE  /\ Min(S) \in S /\ Max(S) \in S
         /\ \A x \in S : Min(S) <= x /\ x <= Max(S)
<1>1. \E x \in S : \A y \in S : x <= y
  BY HasLeast
<1>2. \E x \in S : \A y \in S : x >= y
  <2> DEFINE T == {n - y : y \in S}
  <2>1. T \in SUBSET Nat /\ T # {}
    <3>1. \A y \in S : n - y \in Nat
      OBVIOUS
    <3> QED BY <3>1
  <2>2. PICK t \in T : \A u \in T : t <= u
    <3> HIDE DEF T
    <3> QED BY <2>1, HasLeast
  <2>3. PICK x \in S : t = n - x
    BY <2>2
  <2>4. ASSUME NEW y \in S PROVE x >= y
    <3>1. t <= n - y
      BY <2>2
    <3> QED BY <2>3, <3>1
  <2> QED BY <2>4
<1>3. Min(S) \in S /\ \A y \in S : Min(S) <= y
  BY <1>1 DEF Min
<1>4. Max(S) \in S /\ \A y \in S : Max(S) >= y
  BY <1>2 DEF Max
<1> QED BY <1>3, <1>4

\* A finite stretch of positions, and what is in it.
LEMMA Positions ==
  ASSUME NEW C, NEW document \in Seq(C)
  PROVE  /\ Len(document) \in Nat /\ DOMAIN document = 1..Len(document)
         /\ IsFiniteSet(DOMAIN document) /\ DOMAIN document \in SUBSET Int
         /\ \A S \in SUBSET DOMAIN document : IsFiniteSet(S)
<1>1. Len(document) \in Nat /\ DOMAIN document = 1..Len(document)
  OBVIOUS
<1>2. IsFiniteSet(DOMAIN document)
  BY <1>1, FS_Interval
<1> QED BY <1>1, <1>2, FS_Subset

\* The sentences are in order and apart, hold every character that is not white space
\* and no newline.
SentencesOf(document, s) ==
  /\ s \in Seq(Nat \X Nat)
  /\ \A k \in DOMAIN s : s[k][1] < s[k][2] /\ s[k][2] <= Len(document)
  /\ \A k \in DOMAIN s : s[k][1] + 1 \in Ink(document)
  /\ \A k, l \in DOMAIN s : k < l => s[k][2] <= s[l][1]
  /\ \A i \in Ink(document) : \E k \in DOMAIN s : s[k][1] < i /\ i <= s[k][2]
  /\ \A k \in DOMAIN s : \A i \in s[k][1] + 1 .. s[k][2] : document[i] # "nl"

LEMMA SentencesHold ==
  ASSUME NEW C, NEW document \in Seq(C)
  PROVE  SentencesOf(document, Sentences(document))
<1> DEFINE ink(e) == SentenceInk(document, e)
           ends == {e \in DOMAIN document : Ends(document, e) /\ ink(e) # {}}
           span(e) == <<Min(ink(e)) - 1, Max(ink(e))>>
           f == [e \in ends |-> span(e)]
           s == Sentences(document)
           n == Cardinality(ends)
           at(k) == Ascending(ends)[k]
<1>1. /\ Len(document) \in Nat /\ DOMAIN document = 1..Len(document)
      /\ ends \in SUBSET (1..Len(document)) /\ ends \in SUBSET Int /\ IsFiniteSet(ends)
  BY Positions
<1>2. s = Picked(f, ends)
  BY DEF Sentences
<1>3. ASSUME NEW e \in ends
      PROVE  /\ Min(ink(e)) \in ink(e) /\ Max(ink(e)) \in ink(e)
             /\ \A i \in ink(e) : Min(ink(e)) <= i /\ i <= Max(ink(e))
  <2>1. ink(e) \in SUBSET (1..Len(document)) /\ ink(e) # {}
    BY <1>1 DEF SentenceInk, Ink
  <2> HIDE DEF ink
  <2> QED BY <1>1, <2>1, Extremes
<1>4. /\ \A e \in ends : \A i \in ink(e) : /\ i \in Ink(document) /\ i <= e
                                           /\ \A j \in i..(e - 1) : ~Ends(document, j)
      /\ \A i \in Ink(document) : i \in 1..Len(document) /\ document[i] # "nl"
  BY <1>1 DEF SentenceInk, Ink, Space
<1>5. ASSUME NEW e \in ends
      PROVE  f[e] = span(e) /\ span(e) \in Nat \X Nat
             /\ span(e)[1] < span(e)[2] /\ span(e)[2] <= e
  <2>1. Min(ink(e)) \in 1..Len(document) /\ Max(ink(e)) \in 1..Len(document)
        /\ Min(ink(e)) <= Max(ink(e)) /\ Max(ink(e)) <= e
    BY <1>3, <1>4
  <2>2. f[e] = span(e)
    OBVIOUS
  <2> HIDE DEF f, ink, ends
  <2> QED BY <1>1, <2>1, <2>2
<1>6. /\ n \in Nat
      /\ \A k \in 1..n : at(k) \in ends
      /\ \A k, l \in 1..n : k < l => at(k) < at(l)
      /\ \A e \in ends : \E k \in 1..n : at(k) = e
  <2> HIDE DEF ends
  <2> QED BY <1>1, AscendingOrders
<1>7. /\ s \in Seq(Nat \X Nat) /\ DOMAIN s = 1..n
      /\ \A k \in 1..n : s[k] = span(at(k))
  <2>1. /\ s \in Seq({f[e] : e \in ends})
        /\ DOMAIN s = 1..n
        /\ \A k \in 1..n : s[k] = f[at(k)]
    <3> HIDE DEF f, ends, s
    <3> QED BY <1>1, <1>2, PickedInOrder
  <2>2. {f[e] : e \in ends} \subseteq Nat \X Nat
    <3> HIDE DEF f, span
    <3> QED BY <1>5
  <2>3. \A k \in 1..n : f[at(k)] = span(at(k))
    <3> HIDE DEF f, span, ends, n
    <3> QED BY <1>5, <1>6
  <2>4. s \in Seq(Nat \X Nat)
    <3> HIDE DEF s, f, span, ends
    <3> QED BY <2>1, <2>2
  <2> QED BY <2>1, <2>3, <2>4
<1>a. ASSUME NEW k \in DOMAIN s
      PROVE  \E e \in ends : e = at(k) /\ s[k] = span(e)
  BY <1>6, <1>7
<1>8. ASSUME NEW k \in DOMAIN s
      PROVE  s[k][1] < s[k][2] /\ s[k][2] <= Len(document)
  <2>1. PICK e \in ends : s[k] = span(e)
    BY <1>a
  <2>2. e \in Nat /\ e <= Len(document)
    BY <1>1
  <2>3. span(e) \in Nat \X Nat /\ span(e)[1] < span(e)[2] /\ span(e)[2] <= e
    <3> HIDE DEF span
    <3> QED BY <1>5
  <2> HIDE DEF span, s, ends
  <2> QED BY <1>1, <2>1, <2>2, <2>3
<1>9. ASSUME NEW k \in DOMAIN s, NEW l \in DOMAIN s, k < l
      PROVE  s[k][2] <= s[l][1]
  <2>1. PICK d \in ends : d = at(k) /\ s[k] = span(d)
    BY <1>a
  <2>2. PICK e \in ends : e = at(l) /\ s[l] = span(e)
    BY <1>a
  <2> DEFINE a == Min(ink(e))
             b == Max(ink(d))
  <2>3. d < e
    BY <1>6, <1>7, <1>9, <2>1, <2>2
  <2>4. a \in ink(e) /\ b \in ink(d)
    BY <1>3
  <2>5. /\ a \in 1..Len(document) /\ a <= e /\ b \in 1..Len(document) /\ b <= d
        /\ \A j \in a..(e - 1) : ~Ends(document, j)
    BY <1>4, <2>4
  <2>6. d \in 1..Len(document) /\ e \in 1..Len(document) /\ Ends(document, d)
    BY <1>1
  <2>7. s[k][2] = b /\ s[l][1] = a - 1
    BY <2>1, <2>2
  <2> HIDE DEF a, b, s, ends, ink
  <2>8. ~(a <= d)
    BY <1>1, <2>3, <2>5, <2>6
  <2> QED BY <1>1, <2>5, <2>6, <2>7, <2>8
<1>10. ASSUME NEW i \in Ink(document)
       PROVE  \E k \in DOMAIN s : s[k][1] < i /\ i <= s[k][2]
  <2> DEFINE after == {e \in i..Len(document) : Ends(document, e)}
  <2>1. i \in 1..Len(document) /\ Len(document) \in after /\ after \in SUBSET Nat
    BY <1>1 DEF Ink, Ends
  <2>2. PICK e \in after : \A g \in after : e <= g
    <3>1. after # {}
      BY <2>1
    <3> HIDE DEF after
    <3> QED BY <2>1, <3>1, HasLeast
  <2>3. i \in ink(e)
    <3>1. \A j \in i..(e - 1) : ~Ends(document, j)
      <4> SUFFICES ASSUME NEW j \in i..(e - 1), Ends(document, j) PROVE FALSE
        OBVIOUS
      <4>1. j \in after
        BY <1>1, <2>1, <2>2
      <4> QED BY <2>1, <2>2, <4>1
    <3> QED BY <2>1, <2>2, <3>1 DEF SentenceInk
  <2>4. e \in ends
    BY <1>1, <2>1, <2>2, <2>3
  <2>5. PICK k \in 1..n : at(k) = e
    BY <1>6, <2>4
  <2>6. Min(ink(e)) <= i /\ i <= Max(ink(e))
    BY <1>3, <2>3, <2>4
  <2>7. Min(ink(e)) \in Int /\ i \in Int
    <3>1. Min(ink(e)) \in ink(e)
      BY <1>3, <2>4
    <3>2. Min(ink(e)) \in 1..Len(document)
      <4> HIDE DEF ink, ends
      <4> QED BY <1>4, <2>4, <3>1
    <3> HIDE DEF ink
    <3> QED BY <2>1, <3>2
  <2>8. k \in DOMAIN s /\ s[k] = <<Min(ink(e)) - 1, Max(ink(e))>>
    BY <1>7, <2>5
  <2> HIDE DEF ink, s, ends, n
  <2> QED BY <2>6, <2>7, <2>8
<1>11. ASSUME NEW k \in DOMAIN s, NEW i \in s[k][1] + 1 .. s[k][2]
       PROVE  document[i] # "nl"
  <2>1. PICK e \in ends : s[k] = span(e)
    BY <1>a
  <2> DEFINE a == Min(ink(e))
             b == Max(ink(e))
  <2>2. a \in ink(e) /\ b \in ink(e)
    BY <1>3
  <2>3. /\ a \in 1..Len(document) /\ b \in 1..Len(document) /\ b <= e
        /\ e \in 1..Len(document) /\ document[b] # "nl"
        /\ \A j \in a..(e - 1) : ~Ends(document, j)
    BY <1>1, <1>4, <2>2
  <2>4. i \in a..b
    <3>1. s[k] = <<a - 1, b>>
      BY <2>1
    <3> HIDE DEF a, b, s, ends
    <3> QED BY <2>3, <3>1
  <2> HIDE DEF a, b, s, ends, ink
  <2>5. CASE i = b
    BY <2>3, <2>5
  <2>6. CASE i # b
    <3>1. i \in a..(e - 1)
      BY <1>1, <2>3, <2>4, <2>6
    <3>2. ~Ends(document, i)
      BY <2>3, <3>1
    <3> QED BY <3>2 DEF Ends
  <2> QED BY <2>5, <2>6
<1>b. ASSUME NEW k \in DOMAIN s
      PROVE  s[k][1] + 1 \in Ink(document)
  <2>1. PICK e \in ends : s[k] = span(e)
    BY <1>a
  <2>2. Min(ink(e)) \in Ink(document)
    BY <1>3, <1>4
  <2>3. Min(ink(e)) \in Int
    BY <1>1, <2>2 DEF Ink
  <2>4. s[k][1] = Min(ink(e)) - 1
    BY <2>1
  <2>5. s[k][1] + 1 = Min(ink(e))
    <3> HIDE DEF ink, s
    <3> QED BY <2>3, <2>4
  <2> QED BY <2>2, <2>5
<1>12. s \in Seq(Nat \X Nat)
  BY <1>7
<1> HIDE DEF s
<1>13. SentencesOf(document, s)
  BY <1>8, <1>b, <1>9, <1>10, <1>11, <1>12 DEF SentencesOf
<1> QED BY <1>13 DEF s

Begin(document, s, g, k) ==
  IF k > 1 /\ Joins(document, <<g[k - 1], s[k - 1][2]>>, s[k]) THEN g[k - 1] ELSE s[k][1]

\* The recursion over the sentences defines a function.
LEMMA BeginsAreDefined ==
  ASSUME NEW document, NEW s \in Seq(Nat \X Nat)
  PROVE  \A k \in DOMAIN s : Begins(document, s)[k] = Begin(document, s, Begins(document, s), k)
<1> DEFINE Good(g, n) == \A k \in DOMAIN s : k <= n => g[k] = Begin(document, s, g, k)
           G == {n \in Nat : \E g : Good(g, n)}
           Is(g) == g = [k \in DOMAIN s |-> Begin(document, s, g, k)]
<1>0. Len(s) \in Nat /\ DOMAIN s = 1..Len(s)
  OBVIOUS
<1>1. 0 \in G
  <2>1. Good([k \in DOMAIN s |-> 0], 0)
    BY <1>0
  <2> HIDE DEF Good
  <2> QED BY <2>1
<1>2. ASSUME NEW n \in G PROVE n + 1 \in G
  <2>1. PICK g : Good(g, n)
    <3> HIDE DEF Good
    <3> QED OBVIOUS
  <2> DEFINE h == [k \in DOMAIN s |-> Begin(document, s, g, k)]
  <2>2. ASSUME NEW k \in DOMAIN s, k <= n + 1
        PROVE  Begin(document, s, g, k) = Begin(document, s, h, k)
    <3>1. CASE k > 1
      <4>1. k - 1 \in DOMAIN s /\ k - 1 <= n
        BY <1>0, <2>2, <3>1
      <4>2. h[k - 1] = g[k - 1]
        BY <2>1, <4>1
      <4> HIDE DEF h
      <4> QED BY <4>2 DEF Begin
    <3>2. CASE ~(k > 1)
      BY <3>2 DEF Begin
    <3> QED BY <3>1, <3>2
  <2>3. Good(h, n + 1)
    BY <2>2
  <2> HIDE DEF Good, h
  <2> QED BY <2>3
<1>3. G = Nat
  <2>1. G \in SUBSET Nat
    OBVIOUS
  <2> HIDE DEF G
  <2> QED BY <1>1, <1>2, <2>1, NumberInduction
<1>4. PICK g : Good(g, Len(s))
  <2>1. Len(s) \in G
    BY <1>0, <1>3
  <2> HIDE DEF Good
  <2> QED BY <2>1
<1>5. \E h : Is(h)
  <2> DEFINE h == [k \in DOMAIN s |-> g[k]]
  <2>1. ASSUME NEW k \in DOMAIN s
        PROVE  h[k] = Begin(document, s, h, k)
    <3>1. h[k] = Begin(document, s, g, k)
      BY <1>0, <1>4
    <3>2. k > 1 => h[k - 1] = g[k - 1]
      BY <1>0
    <3> HIDE DEF h
    <3> QED BY <3>1, <3>2 DEF Begin
  <2>2. h = [k \in DOMAIN s |-> h[k]]
    OBVIOUS
  <2>3. [k \in DOMAIN s |-> h[k]] = [k \in DOMAIN s |-> Begin(document, s, h, k)]
    <3> HIDE DEF h
    <3> QED BY <2>1
  <2>4. Is(h)
    <3> HIDE DEF h
    <3> QED BY <2>2, <2>3
  <2> HIDE DEF Is, h
  <2> QED BY <2>4
<1>6. Begins(document, s) = CHOOSE h : Is(h)
  BY DEF Begins, Begin
<1>7. Is(Begins(document, s))
  <2> HIDE DEF Is
  <2> QED BY <1>5, <1>6
<1>8. \A b : Is(b) => \A k \in DOMAIN s : b[k] = Begin(document, s, b, k)
  OBVIOUS
<1> HIDE DEF Is
<1> QED BY <1>7, <1>8

\* The sentences before one of them that are in the same passage.
LEMMA BeginsHold ==
  ASSUME NEW document, NEW s \in Seq(Nat \X Nat), NEW k \in DOMAIN s
  PROVE  \E i \in 1..k :
           /\ Begins(document, s)[k] = s[i][1]
           /\ \A m \in i..k : Begins(document, s)[m] = s[i][1]
           /\ \A m \in i + 1 .. k : Joins(document, <<s[i][1], s[m - 1][2]>>, s[m])
<1> DEFINE b == Begins(document, s)
           Run(i, n) == /\ \A m \in i..n : b[m] = s[i][1]
                        /\ \A m \in i + 1 .. n : Joins(document, <<s[i][1], s[m - 1][2]>>, s[m])
           Goal(n) == n + 1 \in DOMAIN s => \E i \in 1..(n + 1) : Run(i, n + 1)
           G == {n \in Nat : Goal(n)}
<1>0. Len(s) \in Nat /\ DOMAIN s = 1..Len(s)
  OBVIOUS
<1>1. \A n \in DOMAIN s : b[n] = Begin(document, s, b, n)
  BY BeginsAreDefined
<1>2. ASSUME NEW n \in DOMAIN s, b[n] = s[n][1] PROVE Run(n, n)
  BY <1>0, <1>2
<1>3. 0 \in G
  <2> SUFFICES ASSUME 1 \in DOMAIN s PROVE \E i \in 1..1 : Run(i, 1)
    OBVIOUS
  <2>1. b[1] = s[1][1]
    <3>1. b[1] = Begin(document, s, b, 1) /\ ~(1 > 1)
      BY <1>1
    <3> HIDE DEF b
    <3> QED BY <3>1 DEF Begin
  <2> HIDE DEF b, Run
  <2> QED BY <1>2, <2>1
<1>4. ASSUME NEW n \in G PROVE n + 1 \in G
  <2> SUFFICES ASSUME n + 2 \in DOMAIN s PROVE \E i \in 1..(n + 2) : Run(i, n + 2)
    <3>1. (n + 1) + 1 = n + 2 /\ n + 1 \in Nat
      OBVIOUS
    <3> HIDE DEF Run
    <3> QED BY <3>1
  <2> DEFINE r == n + 2
  <2>0. n \in Nat /\ n + 1 \in DOMAIN s /\ r \in DOMAIN s /\ r \in Nat /\ r > 1 /\ r - 1 = n + 1
    BY <1>0
  <2>1. PICK i \in 1..(n + 1) : Run(i, n + 1)
    <3>1. Goal(n)
      OBVIOUS
    <3> HIDE DEF Run
    <3> QED BY <2>0, <3>1
  <2>2. b[r] = Begin(document, s, b, r)
    BY <1>1, <2>0
  <2>3. CASE Joins(document, <<b[r - 1], s[r - 1][2]>>, s[r])
    <3>1. b[r - 1] = s[i][1]
      <4>1. r - 1 \in i..(n + 1)
        BY <2>0
      <4> HIDE DEF b, r
      <4> QED BY <2>1, <4>1
    <3>2. b[r] = s[i][1]
      <4> HIDE DEF b, r
      <4> QED BY <2>0, <2>2, <2>3, <3>1 DEF Begin
    <3>3. Joins(document, <<s[i][1], s[r - 1][2]>>, s[r])
      BY <2>3, <3>1
    <3>4. \A m \in i..r : m \in i..(n + 1) \/ m = r
      BY <2>0
    <3>5. \A m \in i + 1 .. r : m \in i + 1 .. (n + 1) \/ m = r
      BY <2>0
    <3>6. Run(i, r)
      <4> HIDE DEF b, r
      <4> QED BY <2>1, <3>2, <3>3, <3>4, <3>5
    <3>7. i \in 1..r
      BY <2>0
    <3> HIDE DEF Run
    <3> QED BY <3>6, <3>7
  <2>4. CASE ~Joins(document, <<b[r - 1], s[r - 1][2]>>, s[r])
    <3>1. b[r] = s[r][1]
      <4> HIDE DEF b, r
      <4> QED BY <2>2, <2>4 DEF Begin
    <3>2. Run(r, r)
      <4> HIDE DEF b, r, Run
      <4> QED BY <1>2, <2>0, <3>1
    <3>3. r \in 1..r
      BY <2>0
    <3> HIDE DEF Run
    <3> QED BY <3>2, <3>3
  <2> HIDE DEF Run
  <2> QED BY <2>3, <2>4
<1>5. G = Nat
  <2>1. G \in SUBSET Nat
    OBVIOUS
  <2> HIDE DEF G
  <2> QED BY <1>3, <1>4, <2>1, NumberInduction
<1>6. PICK i \in 1..k : Run(i, k)
  <2>1. k - 1 \in Nat /\ (k - 1) + 1 = k
    BY <1>0
  <2>2. Goal(k - 1)
    BY <1>5, <2>1
  <2> HIDE DEF Run
  <2> QED BY <2>1, <2>2
<1>7. i \in 1..k /\ k \in i..k
  BY <1>0
<1> QED BY <1>6, <1>7

\* Spans that are in order and apart begin and end in order.
LEMMA SpansInOrder ==
  ASSUME NEW document, NEW s, SentencesOf(document, s),
         NEW i \in DOMAIN s, NEW j \in DOMAIN s, i <= j
  PROVE  /\ s[i] \in Nat \X Nat
         /\ s[i][1] <= s[j][1] /\ s[i][2] <= s[j][2] /\ s[i][1] < s[j][2]
<1>1. s[i] \in Nat \X Nat /\ s[j] \in Nat \X Nat /\ s[i][1] < s[i][2] /\ s[j][1] < s[j][2]
  BY DEF SentencesOf
<1>2. i < j => s[i][2] <= s[j][1]
  BY DEF SentencesOf
<1>3. i = j \/ i < j
  BY DEF SentencesOf
<1> QED BY <1>1, <1>2, <1>3

\* A passage is a run of sentences that join; passages are in order and leave out none.
PassagesOf(document, s, all) ==
  /\ all \in Seq(Nat \X Nat)
  /\ \A k \in DOMAIN all : \E i, j \in DOMAIN s :
       /\ i <= j /\ all[k] = <<s[i][1], s[j][2]>>
       /\ \A m \in i + 1 .. j : Joins(document, <<s[i][1], s[m - 1][2]>>, s[m])
  /\ \A k, l \in DOMAIN all : k < l => all[k][2] <= all[l][1]
  /\ \A j \in DOMAIN s : \E k \in DOMAIN all : all[k][1] <= s[j][1] /\ s[j][2] <= all[k][2]

LEMMA PassagesAreRuns ==
  ASSUME NEW C, NEW document \in Seq(C)
  PROVE  PassagesOf(document, Sentences(document), AllPassages(document))
<1> DEFINE s == Sentences(document)
           b == Begins(document, s)
           last == {k \in DOMAIN s : k = Len(s) \/ b[k + 1] # b[k]}
           f == [k \in last |-> <<b[k], s[k][2]>>]
           all == AllPassages(document)
           n == Cardinality(last)
<1>0. SentencesOf(document, s)
  BY SentencesHold
<1>1. /\ s \in Seq(Nat \X Nat) /\ Len(s) \in Nat /\ DOMAIN s = 1..Len(s)
      /\ \A k, l \in DOMAIN s : k < l => s[k][2] <= s[l][1]
  <2> HIDE DEF s
  <2> QED BY <1>0 DEF SentencesOf
<1>2. last \in SUBSET (1..Len(s)) /\ last \in SUBSET Int /\ IsFiniteSet(last)
  <2> HIDE DEF s, b
  <2> QED BY <1>1, Positions
<1>3. all = Picked(f, last)
  BY DEF AllPassages
<1>4. /\ n \in Nat
      /\ \A k \in 1..n : Ascending(last)[k] \in last
      /\ \A k, l \in 1..n : k < l => Ascending(last)[k] < Ascending(last)[l]
      /\ \A e \in last : \E k \in 1..n : Ascending(last)[k] = e
  <2> HIDE DEF last
  <2> QED BY <1>2, AscendingOrders
<1>5. ASSUME NEW k \in DOMAIN s
      PROVE  \E i \in 1..k :
               /\ \A m \in i..k : b[m] = s[i][1]
               /\ \A m \in i + 1 .. k : Joins(document, <<s[i][1], s[m - 1][2]>>, s[m])
  <2> HIDE DEF s
  <2> QED BY <1>1, BeginsHold
<1>6. ASSUME NEW k \in last
      PROVE  \E i \in 1..k :
               /\ \A m \in i..k : b[m] = s[i][1]
               /\ \A m \in i + 1 .. k : Joins(document, <<s[i][1], s[m - 1][2]>>, s[m])
               /\ f[k] = <<s[i][1], s[k][2]>> /\ f[k] \in Nat \X Nat
  <2>1. k \in DOMAIN s /\ k \in Nat
    BY <1>1, <1>2
  <2>2. PICK i \in 1..k :
               /\ \A m \in i..k : b[m] = s[i][1]
               /\ \A m \in i + 1 .. k : Joins(document, <<s[i][1], s[m - 1][2]>>, s[m])
    BY <1>5, <2>1
  <2>3. k \in i..k
    BY <2>1
  <2>4. f[k] = <<s[i][1], s[k][2]>>
    BY <2>2, <2>3
  <2>5. i \in DOMAIN s
    <3> HIDE DEF s, b
    <3> QED BY <1>1, <2>1
  <2>6. s[i] \in Nat \X Nat /\ s[k] \in Nat \X Nat
    <3> HIDE DEF s, b
    <3> QED BY <1>1, <2>1, <2>5
  <2>7. f[k] \in Nat \X Nat
    <3> HIDE DEF s, b, f
    <3> QED BY <2>4, <2>6
  <2> HIDE DEF s, b, f
  <2> QED BY <2>2, <2>4, <2>7
<1>7. /\ all \in Seq(Nat \X Nat) /\ DOMAIN all = 1..n
      /\ \A k \in 1..n : all[k] = f[Ascending(last)[k]]
  <2>1. all \in Seq({f[e] : e \in last}) /\ DOMAIN all = 1..n
        /\ \A k \in 1..n : all[k] = f[Ascending(last)[k]]
    <3> HIDE DEF f, last, all, s, b
    <3> QED BY <1>2, <1>3, PickedInOrder
  <2>2. {f[e] : e \in last} \subseteq Nat \X Nat
    <3> HIDE DEF f, s, b, last
    <3> QED BY <1>6
  <2>3. all \in Seq(Nat \X Nat)
    <3> HIDE DEF f, all, last
    <3> QED BY <2>1, <2>2
  <2> QED BY <2>1, <2>3
<1>8. ASSUME NEW k \in DOMAIN all
      PROVE  \E e \in last : e = Ascending(last)[k] /\ all[k] = f[e]
  <2> HIDE DEF f, last, all
  <2> QED BY <1>4, <1>7
<1>9. ASSUME NEW k \in DOMAIN all
      PROVE  \E i, j \in DOMAIN s :
               /\ i <= j /\ all[k] = <<s[i][1], s[j][2]>>
               /\ \A m \in i + 1 .. j : Joins(document, <<s[i][1], s[m - 1][2]>>, s[m])
  <2>1. PICK e \in last : all[k] = f[e]
    BY <1>8
  <2>2. PICK i \in 1..e : /\ \A m \in i + 1 .. e : Joins(document, <<s[i][1], s[m - 1][2]>>, s[m])
                          /\ f[e] = <<s[i][1], s[e][2]>>
    BY <1>6
  <2>3. i \in DOMAIN s /\ e \in DOMAIN s /\ i <= e
    <3> HIDE DEF s, last
    <3> QED BY <1>1, <1>2
  <2> HIDE DEF s, f, all, last
  <2> QED BY <2>1, <2>2, <2>3
<1>10. ASSUME NEW k \in DOMAIN all, NEW l \in DOMAIN all, k < l
       PROVE  all[k][2] <= all[l][1]
  <2>1. PICK d \in last : d = Ascending(last)[k] /\ all[k] = f[d]
    BY <1>8
  <2>2. PICK e \in last : e = Ascending(last)[l] /\ all[l] = f[e]
    BY <1>8
  <2>3. d < e
    <3> HIDE DEF last, all
    <3> QED BY <1>4, <1>7, <1>10, <2>1, <2>2
  <2>4. PICK i \in 1..e : (\A m \in i..e : b[m] = s[i][1]) /\ f[e] = <<s[i][1], s[e][2]>>
    BY <1>6
  <2>5. d \in 1..Len(s) /\ e \in 1..Len(s) /\ i \in 1..Len(s)
    <3> HIDE DEF s, last
    <3>1. d \in 1..Len(s) /\ e \in 1..Len(s) /\ Len(s) \in Nat
      BY <1>1, <1>2
    <3>2. i \in 1..Len(s)
      BY ONLY <3>1, i \in 1..e
    <3> QED BY <3>1, <3>2
  <2>6. b[d + 1] # b[d]
    <3>1. d # Len(s)
      <4> HIDE DEF s, last, b
      <4>1. Len(s) \in Nat
        BY <1>1
      <4>2. d \in Nat /\ e \in Nat /\ e <= Len(s)
        BY ONLY <2>5, <4>1
      <4> QED BY ONLY <2>3, <4>1, <4>2
    <3> QED BY <3>1
  <2>7. ~(i <= d)
    <3> SUFFICES ASSUME i <= d PROVE FALSE
      OBVIOUS
    <3>1. d \in i..e /\ d + 1 \in i..e
      <4> HIDE DEF s, last, b
      <4> QED BY <1>1, <2>3, <2>5
    <3> HIDE DEF s, b
    <3> QED BY <2>4, <2>6, <3>1
  <2>8. s[d][2] <= s[i][1]
    <3> HIDE DEF s, last, b
    <3>1. d < i /\ d \in DOMAIN s /\ i \in DOMAIN s
      BY ONLY <1>1, <2>5, <2>7
    <3> QED BY ONLY <1>1, <3>1
  <2>9. all[k][2] = s[d][2]
    BY <2>1
  <2> HIDE DEF s, f, all, last
  <2> QED BY <2>2, <2>4, <2>8, <2>9
<1>11. ASSUME NEW j \in DOMAIN s
       PROVE  \E k \in DOMAIN all : all[k][1] <= s[j][1] /\ s[j][2] <= all[k][2]
  <2> DEFINE same == {k \in DOMAIN s : b[k] = b[j]}
             e == Max(same)
  <2>1. e \in same /\ \A k \in same : k <= e
    <3>1. same \in SUBSET (1..Len(s)) /\ same # {}
      <4> HIDE DEF s, b
      <4> QED BY <1>1
    <3> HIDE DEF s, same
    <3> QED BY <1>1, <3>1, Extremes
  <2>2. e \in DOMAIN s /\ b[e] = b[j] /\ j <= e
    BY <2>1
  <2>3. e \in last
    <3>1. e # Len(s) => e + 1 \in DOMAIN s /\ ~(e + 1 <= e)
      <4> HIDE DEF s, e
      <4>1. Len(s) \in Nat /\ DOMAIN s = 1..Len(s)
        BY <1>1
      <4>2. e \in DOMAIN s
        BY <2>2
      <4> QED BY ONLY <4>1, <4>2
    <3>2. e # Len(s) => e + 1 \notin same
      <4> HIDE DEF same, e
      <4> QED BY <2>1, <3>1
    <3> HIDE DEF e
    <3> QED BY <2>2, <3>1, <3>2
  <2>4. PICK i \in 1..j : \A m \in i..j : b[m] = s[i][1]
    BY <1>5
  <2>5. i \in DOMAIN s /\ i <= j /\ j \in i..j
    <3> HIDE DEF s
    <3> QED BY <1>1
  <2>6. s[i][1] <= s[j][1] /\ s[j][2] <= s[e][2]
    <3> HIDE DEF s, e
    <3> QED BY <1>0, <2>2, <2>5, SpansInOrder
  <2>7. f[e] = <<s[i][1], s[e][2]>>
    <3> HIDE DEF s, e, b, last
    <3> QED BY <2>2, <2>3, <2>4, <2>5
  <2>8. PICK k \in 1..n : Ascending(last)[k] = e
    <3> HIDE DEF e, last
    <3> QED BY <1>4, <2>3
  <2>9. k \in DOMAIN all /\ all[k] = f[e]
    <3> HIDE DEF e, last, all, f
    <3> QED BY <1>7, <2>8
  <2> HIDE DEF s, e, f, all
  <2> QED BY <2>6, <2>7, <2>9
<1>12. all \in Seq(Nat \X Nat)
  BY <1>7
<1> HIDE DEF s, all
<1>13. PassagesOf(document, s, all)
  BY <1>9, <1>10, <1>11, <1>12 DEF PassagesOf
<1> QED BY <1>13 DEF s, all

\* What a part of a text is.
LEMMA SliceIs ==
  ASSUME NEW C, NEW t \in Seq(C), NEW a \in Nat, NEW b \in Nat, a < b, b <= Len(t)
  PROVE  /\ Slice(t, <<a, b>>) \in Seq(C)
         /\ Len(Slice(t, <<a, b>>)) = b - a /\ DOMAIN Slice(t, <<a, b>>) = 1..(b - a)
         /\ \A i \in 1..(b - a) : a + i \in DOMAIN t /\ Slice(t, <<a, b>>)[i] = t[a + i]
<1> DEFINE u == Slice(t, <<a, b>>)
<1>1. u = SubSeq(t, a + 1, b)
  BY DEF Slice
<1>2. Len(t) \in Nat /\ DOMAIN t = 1..Len(t) /\ \A i \in DOMAIN t : t[i] \in C
  OBVIOUS
<1>3. /\ a + 1 \in Int /\ b \in Int /\ a + 1 <= b /\ b - (a + 1) + 1 = b - a
      /\ \A i \in a + 1 .. b : i \in DOMAIN t
      /\ \A i \in 1..(b - a) : a + 1 + i - 1 = a + i /\ a + i \in a + 1 .. b
  BY <1>2
<1>4. \A i \in a + 1 .. b : t[i] \in C
  BY <1>2, <1>3
<1> HIDE DEF u
<1>5. u \in Seq(C) /\ Len(u) = b - a /\ \A i \in 1..(b - a) : u[i] = t[a + 1 + i - 1]
  <2>1. /\ u \in Seq(C)
        /\ Len(u) = IF a + 1 <= b THEN b - (a + 1) + 1 ELSE 0
        /\ \A i \in 1..(b - (a + 1) + 1) : u[i] = t[a + 1 + i - 1]
    BY ONLY <1>1, <1>3, <1>4, SubSeqProperties
  <2> QED BY ONLY <1>3, <2>1
<1>6. DOMAIN u = 1..(b - a)
  BY <1>5
<1>7. \A i \in 1..(b - a) : a + i \in DOMAIN t /\ u[i] = t[a + i]
  BY <1>3, <1>5
<1> QED BY <1>5, <1>6, <1>7 DEF u

\* No passage holds a blank line.
LEMMA NoBlankLineInside ==
  ASSUME NEW C, NEW document \in Seq(C), NEW s, SentencesOf(document, s),
         NEW a \in DOMAIN s, NEW b \in DOMAIN s, a <= b,
         \A m \in a + 1 .. b : Joins(document, <<s[a][1], s[m - 1][2]>>, s[m]),
         NEW i \in s[a][1] + 1 .. s[b][2], NEW j \in s[a][1] + 1 .. s[b][2], i < j,
         document[i] = "nl", document[j] = "nl", i + 1 .. j - 1 \cap Ink(document) = {}
  PROVE  FALSE
<1>1. /\ s \in Seq(Nat \X Nat) /\ Len(s) \in Nat /\ DOMAIN s = 1..Len(s)
      /\ Len(document) \in Nat /\ DOMAIN document = 1..Len(document)
  <2>1. s \in Seq(Nat \X Nat)
    BY DEF SentencesOf
  <2> QED BY <2>1, Positions
<1>2. \A k \in DOMAIN s : /\ s[k][1] \in Nat /\ s[k][2] \in Nat /\ s[k][1] < s[k][2]
                          /\ s[k][2] <= Len(document)
  BY <1>1 DEF SentencesOf
<1>3. i \in Int /\ j \in Int
  BY <1>2
<1>4. \A k \in DOMAIN s : i <= s[k][1] \/ s[k][2] < i
  <2> SUFFICES ASSUME NEW k \in DOMAIN s, ~(i <= s[k][1]), ~(s[k][2] < i) PROVE FALSE
    OBVIOUS
  <2>1. i \in s[k][1] + 1 .. s[k][2]
    BY <1>2, <1>3
  <2>2. document[i] # "nl"
    BY <2>1 DEF SentencesOf
  <2> QED BY <2>2
<1> DEFINE passed == {k \in a..b : s[k][2] < i}
           k == Max(passed)
<1>5. a \in Nat /\ b \in Nat /\ a..b \subseteq 1..Len(s)
  <2>1. Len(s) \in Nat /\ a \in 1..Len(s) /\ b \in 1..Len(s)
    BY <1>1
  <2> HIDE DEF passed, k
  <2> QED BY ONLY <2>1
<1>6. k \in passed /\ \A l \in passed : l <= k
  <2>1. a \in passed
    <3>1. ~(i <= s[a][1])
      BY <1>2, <1>3
    <3> QED BY <1>4, <1>5, <3>1
  <2>2. passed \in SUBSET (1..Len(s)) /\ passed # {}
    BY <1>5, <2>1
  <2> HIDE DEF passed
  <2> QED BY <1>1, <2>2, Extremes
<1>7. k \in a..b /\ s[k][2] < i /\ k # b /\ k + 1 \in a + 1 .. b
  <2>1. k \in a..b /\ s[k][2] < i
    BY <1>6
  <2>2. ~(s[b][2] < i)
    BY <1>2, <1>3
  <2>3. k # b
    BY <2>1, <2>2
  <2> HIDE DEF k
  <2> QED BY ONLY <1>5, <2>1, <2>3
<1> DEFINE l == k + 1
<1>8. k \in DOMAIN s /\ l \in DOMAIN s /\ l - 1 = k
  <2> HIDE DEF k
  <2>1. k \in a..b /\ k + 1 \in a..b /\ k \in Int
    BY ONLY <1>5, <1>7
  <2>2. k \in 1..Len(s) /\ k + 1 \in 1..Len(s)
    BY ONLY <1>5, <2>1
  <2>3. DOMAIN s = 1..Len(s)
    BY <1>1
  <2> QED BY ONLY <2>1, <2>2, <2>3
<1>9. i <= s[l][1]
  <2>1. ~(s[l][2] < i)
    <3>1. l \notin passed
      <4>1. ~(l <= k)
        <5> HIDE DEF k
        <5> QED BY <1>5, <1>7
      <4> HIDE DEF passed, k, l
      <4> QED BY <1>6, <4>1
    <3>2. l \in a..b
      <4> HIDE DEF k
      <4> QED BY <1>5, <1>7
    <3> HIDE DEF k, l
    <3> QED BY <3>1, <3>2
  <2> HIDE DEF k, l
  <2> QED BY <1>4, <1>8, <2>1
<1>10. j <= s[l][1]
  <2> DEFINE x == s[l][1] + 1
  <2>1. x \in Ink(document)
    <3> HIDE DEF k, l
    <3> QED BY <1>8 DEF SentencesOf
  <2>2. x # j
    BY <2>1 DEF Ink, Space
  <2>3. x \notin i + 1 .. j - 1
    <3> HIDE DEF x
    <3> QED BY <2>1
  <2>4. s[l][1] \in Nat
    <3> HIDE DEF k, l
    <3> QED BY <1>2, <1>8
  <2> HIDE DEF k, l
  <2> QED BY <1>3, <1>9, <2>2, <2>3, <2>4
<1> DEFINE u == s[k][2]
           v == s[l][1]
           gap == Slice(document, <<u, v>>)
<1>11. u \in Nat /\ v \in Nat /\ u < i /\ i < j /\ j <= v /\ v <= Len(document)
  <2> HIDE DEF k, l
  <2>1. /\ s[k][2] \in Nat /\ s[l][1] \in Nat /\ s[k][2] < i /\ j <= s[l][1]
        /\ s[l][1] < s[l][2] /\ s[l][2] <= Len(document) /\ s[l][2] \in Nat
    BY <1>2, <1>7, <1>8, <1>10
  <2>2. s[l][1] <= Len(document)
    <3>1. Len(document) \in Nat
      BY <1>1
    <3> QED BY ONLY <2>1, <3>1
  <2> QED BY ONLY <2>1, <2>2, i < j
<1>12. ParagraphBreak(gap)
  <2> HIDE DEF u, v
  <2>1. u \in Nat /\ v \in Nat /\ u < v /\ v <= Len(document) /\ document \in Seq(C)
    BY ONLY <1>3, <1>11, document \in Seq(C)
  <2>2. /\ DOMAIN gap = 1..(v - u)
        /\ \A m \in 1..(v - u) : gap[m] = document[u + m]
    BY ONLY <2>1, SliceIs
  <2>3. /\ i - u \in 1..(v - u) /\ j - u \in 1..(v - u) /\ i - u < j - u
        /\ u + (i - u) = i /\ u + (j - u) = j
    BY <1>3, <1>11
  <2>4. gap[i - u] = "nl" /\ gap[j - u] = "nl"
    <3> HIDE DEF gap
    <3> QED BY <2>2, <2>3
  <2> HIDE DEF gap
  <2> QED BY <2>2, <2>3, <2>4 DEF ParagraphBreak
<1>13. Joins(document, <<s[a][1], s[l - 1][2]>>, s[l])
  <2> HIDE DEF k
  <2> QED BY <1>7
<1>14. ~ParagraphBreak(gap)
  <2>1. l - 1 = k
    BY <1>8
  <2> HIDE DEF k, l
  <2> QED BY <1>13, <2>1 DEF Joins
<1> QED BY <1>12, <1>14

\* What the first conjuncts of PassagesHold say.
LEMMA PassagesAreTheDocument ==
  ASSUME NEW C, NEW document \in Seq(C)
  PROVE  LET all == AllPassages(document)
         IN /\ \A i \in Ink(document) : \E p \in ToSet(all) : p[1] < i /\ i <= p[2]
            /\ \A k \in 1..(Len(all) - 1) : all[k][2] <= all[k + 1][1]
            /\ \A p \in ToSet(all) :
                 /\ ~\E i, j \in p[1] + 1 .. p[2] :
                      /\ i < j /\ document[i] = "nl" /\ document[j] = "nl"
                      /\ i + 1 .. j - 1 \cap Ink(document) = {}
                 /\ p[2] - p[1] <= Window \/ p \in ToSet(Sentences(document))
<1> DEFINE all == AllPassages(document)
           s == Sentences(document)
<1>1. SentencesOf(document, s) /\ PassagesOf(document, s, all)
  BY SentencesHold, PassagesAreRuns
<1> HIDE DEF all, s
<1>2. /\ all \in Seq(Nat \X Nat) /\ DOMAIN all = 1..Len(all) /\ Len(all) \in Nat
      /\ s \in Seq(Nat \X Nat)
  BY <1>1 DEF PassagesOf, SentencesOf
<1>3. ASSUME NEW i \in Ink(document) PROVE \E p \in ToSet(all) : p[1] < i /\ i <= p[2]
  <2>1. PICK k \in DOMAIN s : s[k][1] < i /\ i <= s[k][2]
    BY <1>1 DEF SentencesOf
  <2>2. PICK m \in DOMAIN all : all[m][1] <= s[k][1] /\ s[k][2] <= all[m][2]
    BY <1>1 DEF PassagesOf
  <2>3. i \in Int
    BY DEF Ink
  <2>4. s[k][1] \in Nat /\ s[k][2] \in Nat /\ all[m][1] \in Nat /\ all[m][2] \in Nat
    <3>1. s[k] \in Nat \X Nat /\ all[m] \in Nat \X Nat
      BY ONLY <1>2, k \in DOMAIN s, m \in DOMAIN all
    <3> QED BY ONLY <3>1
  <2>5. all[m][1] < i /\ i <= all[m][2] /\ all[m] \in ToSet(all)
    BY <2>1, <2>2, <2>3, <2>4 DEF ToSet
  <2> QED BY <2>5
<1>4. ASSUME NEW k \in 1..(Len(all) - 1) PROVE all[k][2] <= all[k + 1][1]
  <2>1. k \in DOMAIN all /\ k + 1 \in DOMAIN all /\ k < k + 1
    BY <1>2
  <2> QED BY <1>1, <2>1 DEF PassagesOf
<1>5. ASSUME NEW p \in ToSet(all)
      PROVE  \E a, b \in DOMAIN s :
               /\ a <= b /\ p = <<s[a][1], s[b][2]>>
               /\ \A m \in a + 1 .. b : Joins(document, <<s[a][1], s[m - 1][2]>>, s[m])
  <2>1. PICK k \in DOMAIN all : p = all[k]
    BY DEF ToSet
  <2> QED BY <1>1, <2>1 DEF PassagesOf
<1>6. ASSUME NEW p \in ToSet(all)
      PROVE  p[2] - p[1] <= Window \/ p \in ToSet(s)
  <2>1. PICK a, b \in DOMAIN s :
               /\ a <= b /\ p = <<s[a][1], s[b][2]>>
               /\ \A m \in a + 1 .. b : Joins(document, <<s[a][1], s[m - 1][2]>>, s[m])
    BY <1>5
  <2>2. a \in Nat /\ b \in Nat
    BY <1>2
  <2>3. CASE a = b
    <3>1. s[a] \in Nat \X Nat
      BY <1>2
    <3>2. p = s[a]
      BY <2>1, <2>3, <3>1
    <3> QED BY <3>2 DEF ToSet
  <2>4. CASE a # b
    <3>1. b \in a + 1 .. b
      BY <2>1, <2>2, <2>4
    <3>2. Joins(document, <<s[a][1], s[b - 1][2]>>, s[b])
      BY <2>1, <3>1
    <3>3. s[b][2] - s[a][1] <= Window
      BY <3>2 DEF Joins
    <3> QED BY <2>1, <3>3
  <2> QED BY <2>3, <2>4
<1>7. ASSUME NEW p \in ToSet(all), NEW i \in p[1] + 1 .. p[2], NEW j \in p[1] + 1 .. p[2],
             i < j, document[i] = "nl", document[j] = "nl",
             i + 1 .. j - 1 \cap Ink(document) = {}
      PROVE  FALSE
  <2>1. PICK a, b \in DOMAIN s :
               /\ a <= b /\ p = <<s[a][1], s[b][2]>>
               /\ \A m \in a + 1 .. b : Joins(document, <<s[a][1], s[m - 1][2]>>, s[m])
    BY <1>5
  <2>2. i \in s[a][1] + 1 .. s[b][2] /\ j \in s[a][1] + 1 .. s[b][2]
    BY <2>1
  <2> QED BY <1>1, <1>7, <2>1, <2>2, NoBlankLineInside
<1> QED BY <1>3, <1>4, <1>6, <1>7 DEF all, s

-------------------------------------------------------------------------------
(* Candidates *)

\* Passages are told apart by where they begin, and each of them comes once.
LEMMA PassagesAreApart ==
  ASSUME NEW C, NEW document \in Seq(C), NEW all, all = AllPassages(document),
         NEW P, P = ToSet(all)
  PROVE  /\ all \in Seq(Nat \X Nat) /\ P \in SUBSET (Nat \X Nat)
         /\ \A p, q \in P : p[1] = q[1] => p = q
         /\ \A k, l \in DOMAIN all : k < l => all[k][1] < all[l][1]
         /\ \A k, l \in DOMAIN all : all[k] = all[l] => k = l
         /\ IsFiniteSet(P) /\ Cardinality(P) = Len(all)
<1> DEFINE s == Sentences(document)
<1>1. SentencesOf(document, s) /\ PassagesOf(document, s, all)
  BY SentencesHold, PassagesAreRuns
<1> HIDE DEF s
<1>2. all \in Seq(Nat \X Nat) /\ DOMAIN all = 1..Len(all) /\ Len(all) \in Nat
  BY <1>1 DEF PassagesOf
<1>3. \A k \in DOMAIN all : all[k][1] \in Nat /\ all[k][2] \in Nat /\ all[k] \in Nat \X Nat
  BY <1>2
<1>4. \A k \in DOMAIN all : all[k][1] < all[k][2]
  <2> TAKE k \in DOMAIN all
  <2>1. PICK i, j \in DOMAIN s : i <= j /\ all[k] = <<s[i][1], s[j][2]>>
    BY <1>1 DEF PassagesOf
  <2>2. s[i][1] < s[j][2]
    BY <1>1, <2>1, SpansInOrder
  <2> QED BY <2>1, <2>2
<1>5. \A k, l \in DOMAIN all : k < l => all[k][1] < all[l][1]
  <2> SUFFICES ASSUME NEW k \in DOMAIN all, NEW l \in DOMAIN all, k < l
               PROVE  all[k][1] < all[l][1]
    OBVIOUS
  <2>1. all[k][2] <= all[l][1]
    BY <1>1 DEF PassagesOf
  <2> QED BY <1>3, <1>4, <2>1
<1>6. \A k, l \in DOMAIN all : all[k][1] = all[l][1] => k = l
  <2> TAKE k \in DOMAIN all, l \in DOMAIN all
  <2>1. k < l \/ l < k \/ k = l
    BY <1>2
  <2> QED BY <1>3, <1>5, <2>1
<1>7. P \in SUBSET (Nat \X Nat) /\ \A p \in P : \E k \in DOMAIN all : p = all[k]
  BY <1>3 DEF ToSet
<1>8. \A p, q \in P : p[1] = q[1] => p = q
  BY <1>6, <1>7
<1>9. all \in Bijection(1..Len(all), P)
  <2>1. all \in [1..Len(all) -> P]
    BY <1>2 DEF ToSet
  <2>2. \A p \in P : \E k \in 1..Len(all) : all[k] = p
    BY <1>2, <1>7
  <2>3. \A k, l \in 1..Len(all) : all[k] = all[l] => k = l
    BY ONLY <1>2, <1>6
  <2> QED BY ONLY <2>1, <2>2, <2>3 DEF Bijection, Injection, Surjection, IsInjective
<1>10. IsFiniteSet(P) /\ Cardinality(P) = Len(all)
  <2>1. IsFiniteSet(1..Len(all)) /\ Cardinality(1..Len(all)) = Len(all)
    <3>1. 1 \in Int /\ Len(all) \in Int /\ (1 > Len(all) => Len(all) = 0)
          /\ Len(all) - 1 + 1 = Len(all)
      BY <1>2
    <3> QED BY <3>1, FS_Interval
  <2> QED BY <1>9, <2>1, FS_Bijection DEF ExistsBijection
<1> QED BY <1>2, <1>5, <1>6, <1>7, <1>8, <1>10

\* More cues, more matches, and then position put passages into an order.
LEMMA BetterIsAnOrder ==
  ASSUME NEW document, NEW P \in SUBSET (Nat \X Nat), \A p, q \in P : p[1] = q[1] => p = q
  PROVE  /\ \A p \in P : ~Better(document, p, p)
         /\ \A p, q, r \in P : Better(document, p, q) /\ Better(document, q, r)
                                 => Better(document, p, r)
         /\ \A p, q \in P : p = q \/ Better(document, p, q) \/ Better(document, q, p)
<1> DEFINE d(p) == Cardinality(Matched(document, p))
           h(p) == TotalHits(document, p)
<1>1. ASSUME NEW p \in P PROVE d(p) \in Int /\ h(p) \in Int /\ p[1] \in Int
  <2>1. IsFiniteSet(Matched(document, p))
    BY PassagesAssumption, FS_Subset DEF Matched
  <2>2. d(p) \in Int
    BY <2>1, FS_CardinalityType
  <2>3. p[1] + 1 \in Int /\ p[2] \in Int
    OBVIOUS
  <2>4. IsFiniteSet(p[1] + 1 .. p[2])
    BY <2>3, FS_Interval
  <2>5. IsFiniteSet({i \in p[1] + 1 .. p[2] : document[i] \in Cues})
    BY <2>4, FS_Subset
  <2>6. h(p) \in Int
    BY <2>5, FS_CardinalityType DEF TotalHits
  <2> QED BY <2>2, <2>3, <2>6
<1>2. \A p, q \in P : Better(document, p, q) <=>
        \/ d(p) > d(q)
        \/ d(p) = d(q) /\ h(p) > h(q)
        \/ d(p) = d(q) /\ h(p) = h(q) /\ p[1] < q[1]
  BY DEF Better
<1> HIDE DEF d, h
<1>3. \A p \in P : ~Better(document, p, p)
  BY <1>1, <1>2
<1>4. ASSUME NEW p \in P, NEW q \in P, NEW r \in P, Better(document, p, q), Better(document, q, r)
      PROVE  Better(document, p, r)
  <2>1. /\ d(p) \in Int /\ h(p) \in Int /\ p[1] \in Int
        /\ d(q) \in Int /\ h(q) \in Int /\ q[1] \in Int
        /\ d(r) \in Int /\ h(r) \in Int /\ r[1] \in Int
    BY <1>1
  <2>2. /\ \/ d(p) > d(q)
           \/ d(p) = d(q) /\ h(p) > h(q)
           \/ d(p) = d(q) /\ h(p) = h(q) /\ p[1] < q[1]
        /\ \/ d(q) > d(r)
           \/ d(q) = d(r) /\ h(q) > h(r)
           \/ d(q) = d(r) /\ h(q) = h(r) /\ q[1] < r[1]
    BY <1>2, <1>4
  <2>3. \/ d(p) > d(r)
        \/ d(p) = d(r) /\ h(p) > h(r)
        \/ d(p) = d(r) /\ h(p) = h(r) /\ p[1] < r[1]
    BY ONLY <2>1, <2>2
  <2> QED BY <1>2, <2>3
<1>5. ASSUME NEW p \in P, NEW q \in P
      PROVE  p = q \/ Better(document, p, q) \/ Better(document, q, p)
  <2>1. /\ d(p) \in Int /\ h(p) \in Int /\ p[1] \in Int
        /\ d(q) \in Int /\ h(q) \in Int /\ q[1] \in Int
    BY <1>1
  <2>2. p[1] = q[1] => p = q
    OBVIOUS
  <2> QED BY <1>2, <2>1, <2>2
<1> QED BY <1>3, <1>4, <1>5

\* The scored passages that are taken: as many as may be, and none that is worse than one
\* that is left.
LEMMA TopAreBest ==
  ASSUME NEW C, NEW document \in Seq(C)
  PROVE  /\ Top(document) \in SUBSET Scored(document)
         /\ IsFiniteSet(Top(document)) /\ Cardinality(Top(document)) \in 0..MaxCandidates
         /\ Top(document) = Scored(document) \/ Cardinality(Top(document)) = MaxCandidates
         /\ \A p \in Top(document), q \in Scored(document) \ Top(document) :
              Better(document, p, q)
<1> DEFINE P == ToSet(AllPassages(document))
           A == Scored(document)
           B == [p \in A |-> {q \in A : Better(document, q, p)}]
           T == Top(document)
<1>1. /\ IsFiniteSet(P) /\ P \in SUBSET (Nat \X Nat)
      /\ \A p, q \in P : p[1] = q[1] => p = q
  BY PassagesAreApart
<1>2. A \in SUBSET P
  BY DEF Scored
<1>3. IsFiniteSet(A)
  BY <1>1, <1>2, FS_Subset
<1>4. /\ \A p \in P : ~Better(document, p, p)
      /\ \A p, q, r \in P : Better(document, p, q) /\ Better(document, q, r)
                              => Better(document, p, r)
      /\ \A p, q \in P : p = q \/ Better(document, p, q) \/ Better(document, q, p)
  <2> HIDE DEF P
  <2> QED BY <1>1, BetterIsAnOrder
<1> HIDE DEF P, A
<1>5. /\ B \in [A -> SUBSET A]
      /\ \A p, q \in A : p \in B[q] <=> Better(document, p, q)
  OBVIOUS
<1>6. T = {p \in A : Cardinality(B[p]) < MaxCandidates}
  <2>1. T = {p \in A : Cardinality({q \in A : Better(document, q, p)}) < MaxCandidates}
    BY DEF Top, A
  <2>2. \A p \in A : B[p] = {q \in A : Better(document, q, p)}
    OBVIOUS
  <2> HIDE DEF B
  <2> QED BY <2>1, <2>2
<1> HIDE DEF B, T
<1>7. /\ \A p \in A : p \notin B[p]
      /\ \A p \in A : \A q \in B[p] : B[q] \subseteq B[p]
      /\ \A p, q \in A : p = q \/ p \in B[q] \/ q \in B[p]
  <2>1. \A p \in A : p \notin B[p]
    BY <1>2, <1>4, <1>5
  <2>2. ASSUME NEW p \in A, NEW q \in B[p], NEW r \in B[q] PROVE r \in B[p]
    <3>1. q \in A /\ r \in A
      BY <1>5
    <3> QED BY <1>2, <1>4, <1>5, <3>1
  <2>3. \A p, q \in A : p = q \/ p \in B[q] \/ q \in B[p]
    BY <1>2, <1>4, <1>5
  <2> QED BY <2>1, <2>2, <2>3
<1>8. /\ IsFiniteSet(T) /\ Cardinality(T) \in 0..MaxCandidates
      /\ T = A \/ Cardinality(T) = MaxCandidates
      /\ \A x \in T, y \in A \ T : x \in B[y]
  <2>1. MaxCandidates \in Nat
    BY PassagesAssumption
  <2>2. B \in [A -> SUBSET A]
    BY <1>5
  <2>3. /\ IsFiniteSet(T) /\ Cardinality(T) \in 0..MaxCandidates
        /\ T = A \/ Cardinality(T) = MaxCandidates
        /\ \A x \in T, y \in A \ T : x \in B[y]
    <3>1. T \in SUBSET A /\ \A x \in A : x \in T <=> Cardinality(B[x]) < MaxCandidates
      BY <1>6
    <3> QED BY ONLY <1>3, <1>7, <2>1, <2>2, <3>1, FirstOnes
  <2> QED BY <2>3
<1>9. T \in SUBSET A
  BY <1>6
<1> QED BY <1>5, <1>8, <1>9 DEF T, A

\* Filling up: not at all when there are enough, else until there are enough or none left.
LEMMA FillIsEnough ==
  ASSUME NEW P \in SUBSET (Nat \X Nat), IsFiniteSet(P), \A p, q \in P : p[1] = q[1] => p = q,
         NEW T \in SUBSET P, NEW D, D = Fill(T, P)
  PROVE  /\ D \in SUBSET P /\ T \in SUBSET D
         /\ Cardinality(T) >= MinCandidates => D = T
         /\ Cardinality(T) < MinCandidates =>
              /\ Cardinality(D) <= MinCandidates
              /\ D = P \/ Cardinality(D) = MinCandidates
         /\ \A p \in D \ T, q \in P \ D : p[1] < q[1]
<1> DEFINE E(p) == T \cup {q \in P : q[1] < p[1]}
<1>0. MinCandidates \in Nat
  BY PassagesAssumption
<1>1. D = T \cup {p \in P : Cardinality(E(p)) < MinCandidates}
  BY DEF Fill
<1>2. \A S \in SUBSET P : /\ IsFiniteSet(S) /\ Cardinality(S) \in Nat
                          /\ \A U \in SUBSET S : Cardinality(U) <= Cardinality(S)
  <2> TAKE S \in SUBSET P
  <2>1. IsFiniteSet(S)
    BY FS_Subset
  <2> QED BY <2>1, FS_Subset, FS_CardinalityType
<1>3. D \in SUBSET P /\ T \in SUBSET D
  BY <1>1
<1>4. \A p \in P : E(p) \in SUBSET P /\ T \in SUBSET E(p)
  OBVIOUS
<1>5. \A p \in P : p[1] \in Nat
  OBVIOUS
<1>6. ASSUME NEW p \in P, NEW q \in P, p[1] <= q[1], q \in D \ T PROVE p \in D
  <2>1. E(p) \in SUBSET E(q)
    BY <1>5, <1>6
  <2>2. Cardinality(E(q)) < MinCandidates
    BY <1>1, <1>6
  <2>3. Cardinality(E(p)) <= Cardinality(E(q))
    <3> HIDE DEF E
    <3> QED BY <1>2, <1>4, <2>1
  <2>4. Cardinality(E(p)) < MinCandidates
    <3> HIDE DEF E
    <3> QED BY <1>0, <1>2, <1>4, <2>2, <2>3
  <2> QED BY <1>1, <2>4
<1>7. \A p \in D \ T, q \in P \ D : p[1] < q[1]
  <2> SUFFICES ASSUME NEW p \in D \ T, NEW q \in P \ D PROVE p[1] < q[1]
    OBVIOUS
  <2>1. p \in P /\ p[1] \in Nat /\ q[1] \in Nat
    BY <1>3, <1>5
  <2>2. ~(q[1] <= p[1])
    BY <1>6, <2>1
  <2> QED BY <2>1, <2>2
<1>8. ASSUME Cardinality(T) >= MinCandidates PROVE D = T
  <2> SUFFICES ASSUME NEW p \in P PROVE ~(Cardinality(E(p)) < MinCandidates)
    BY <1>1
  <2>1. Cardinality(T) <= Cardinality(E(p)) /\ Cardinality(T) \in Nat /\ Cardinality(E(p)) \in Nat
    <3> HIDE DEF E
    <3> QED BY <1>2, <1>4
  <2> HIDE DEF E
  <2> QED BY <1>0, <1>8, <2>1
<1>9. ASSUME Cardinality(T) < MinCandidates
      PROVE  Cardinality(D) <= MinCandidates
  <2>1. CASE D = T
    BY <1>0, <1>2, <1>9, <2>1
  <2>2. CASE D # T
    <3> DEFINE r == [p \in P |-> p[1]]
               N == D \ T
    <3>1. PICK p \in N : \A q \in N : r[q] <= r[p]
      <4>1. r \in [P -> Int]
        BY <1>5
      <4>2. N \in SUBSET P /\ N # {}
        BY <1>3, <2>2
      <4> HIDE DEF r, N
      <4> QED BY <4>1, <4>2, HasTop
    <3>2. p \in P /\ \A q \in N : q \in P /\ q[1] <= p[1]
      BY <1>3, <3>1
    <3>3. D \in SUBSET (E(p) \cup {p})
      <4> SUFFICES ASSUME NEW q \in D PROVE q \in E(p) \cup {p}
        OBVIOUS
      <4>1. CASE q \in T
        BY <4>1
      <4>2. CASE q \notin T
        <5>1. q \in P /\ q[1] <= p[1] /\ q[1] \in Nat /\ p[1] \in Nat
          BY <1>5, <3>2, <4>2
        <5>2. q[1] < p[1] \/ q[1] = p[1]
          BY <5>1
        <5> QED BY <3>2, <5>1, <5>2
      <4> QED BY <4>1, <4>2
    <3>4. Cardinality(E(p)) < MinCandidates
      BY <1>1
    <3> HIDE DEF E, N
    <3>5. E(p) \in SUBSET P /\ IsFiniteSet(E(p)) /\ Cardinality(E(p)) \in Nat
      BY <1>2, <1>4, <3>2
    <3>6. Cardinality(E(p) \cup {p}) <= Cardinality(E(p)) + 1 /\ IsFiniteSet(E(p) \cup {p})
      BY <3>5, FS_AddElement
    <3>7. E(p) \cup {p} \in SUBSET P
      BY <3>2, <3>5
    <3>8. Cardinality(D) <= Cardinality(E(p) \cup {p}) /\ Cardinality(D) \in Nat
          /\ Cardinality(E(p) \cup {p}) \in Nat
      BY <1>2, <1>3, <3>3, <3>7
    <3> QED BY ONLY <1>0, <3>4, <3>5, <3>6, <3>8
  <2> QED BY <2>1, <2>2
<1>10. ASSUME Cardinality(T) < MinCandidates, D # P
       PROVE  Cardinality(D) >= MinCandidates
  <2> DEFINE N == {q[1] : q \in P \ D}
  <2>1. N \in SUBSET Nat /\ N # {}
    BY <1>3, <1>5, <1>10
  <2>2. PICK x \in N : \A y \in N : x <= y
    <3> HIDE DEF N
    <3> QED BY <2>1, HasLeast
  <2>3. PICK q \in P \ D : x = q[1]
    BY <2>2
  <2>4. E(q) \in SUBSET D
    <3> SUFFICES ASSUME NEW p \in P, p[1] < q[1], p \notin D PROVE FALSE
      BY <1>3
    <3>1. q[1] <= p[1]
      BY <2>2, <2>3
    <3> QED BY <1>5, <3>1
  <2>5. ~(Cardinality(E(q)) < MinCandidates)
    BY <1>1
  <2>6. Cardinality(E(q)) <= Cardinality(D) /\ Cardinality(E(q)) \in Nat /\ Cardinality(D) \in Nat
    <3> HIDE DEF E
    <3> QED BY <1>2, <1>3, <1>4, <2>4
  <2> HIDE DEF E
  <2> QED BY <1>0, <2>5, <2>6
<1>11. Cardinality(D) \in Nat
  BY <1>2, <1>3
<1> QED BY <1>0, <1>3, <1>7, <1>8, <1>9, <1>10, <1>11

\* What is shown of a document, as the set of its passages.
LEMMA ShownAreChosen ==
  ASSUME NEW C, NEW document \in Seq(C), NEW P, P = ToSet(AllPassages(document)),
         NEW D, D = Fill(Top(document), P), D \in SUBSET P
  PROVE  /\ ToSet(Candidates(document)) = D
         /\ IsFiniteSet(D) /\ Len(Candidates(document)) = Cardinality(D)
<1> DEFINE all == AllPassages(document)
           shown == Candidates(document)
           ks == {k \in DOMAIN all : all[k] \in D}
<1>1. /\ all \in Seq(Nat \X Nat) /\ P = ToSet(all)
      /\ \A k, l \in DOMAIN all : all[k] = all[l] => k = l
  BY PassagesAreApart
<1>2. shown = Picked(all, ks)
  BY DEF Candidates
<1> HIDE DEF all, shown
<1>3. ks \in SUBSET DOMAIN all /\ ks \in SUBSET Int /\ IsFiniteSet(ks)
  <2>1. ks \in SUBSET DOMAIN all
    OBVIOUS
  <2> HIDE DEF ks
  <2> QED BY <1>1, <2>1, Positions
<1>4. {all[k] : k \in ks} = D
  <2>1. \A p \in P : \E k \in DOMAIN all : all[k] = p
    BY <1>1 DEF ToSet
  <2> QED BY <2>1
<1> HIDE DEF ks
<1>5. ToSet(shown) = {all[k] : k \in ks} /\ Len(shown) = Cardinality(ks)
  BY <1>2, <1>3, PickedInOrder
<1> DEFINE g == [k \in ks |-> all[k]]
<1>6. g \in Bijection(ks, D)
  <2>1. g \in [ks -> D]
    BY <1>4
  <2>2. \A p \in D : \E k \in ks : g[k] = p
    BY <1>4
  <2>3. \A k, l \in ks : g[k] = g[l] => k = l
    BY <1>1, <1>3
  <2> HIDE DEF g
  <2> QED BY ONLY <2>1, <2>2, <2>3 DEF Bijection, Injection, Surjection, IsInjective
<1> HIDE DEF g
<1>7. IsFiniteSet(D) /\ Cardinality(D) = Cardinality(ks)
  BY <1>3, <1>6, FS_Bijection DEF ExistsBijection
<1> QED BY <1>4, <1>5, <1>7 DEF shown

\* What the last conjuncts of PassagesHold say.
LEMMA CandidatesAreTheBest ==
  ASSUME NEW C, NEW document \in Seq(C)
  PROVE  LET all == AllPassages(document)
             shown == Candidates(document)
             scored == Scored(document)
             filling == ToSet(shown) \ scored
         IN /\ ToSet(shown) \subseteq ToSet(all)
            /\ Len(shown) \in {Cardinality(ToSet(all))} \cup MinCandidates..MaxCandidates
            /\ \A p \in ToSet(shown) \cap scored, q \in scored \ ToSet(shown) :
                 Better(document, p, q)
            /\ filling # {} =>
                 /\ scored \subseteq ToSet(shown)
                 /\ Len(shown) <= MinCandidates
                 /\ \A p \in filling, q \in ToSet(all) \ ToSet(shown) : p[1] < q[1]
<1> DEFINE P == ToSet(AllPassages(document))
           A == Scored(document)
           T == Top(document)
           D == Fill(T, P)
           shown == Candidates(document)
<1>1. /\ IsFiniteSet(P) /\ P \in SUBSET (Nat \X Nat)
      /\ \A p, q \in P : p[1] = q[1] => p = q
  BY PassagesAreApart
<1>2. A \in SUBSET P
  BY DEF Scored
<1>3. /\ T \in SUBSET A /\ IsFiniteSet(T) /\ Cardinality(T) \in 0..MaxCandidates
      /\ T = A \/ Cardinality(T) = MaxCandidates
      /\ \A p \in T, q \in A \ T : Better(document, p, q)
  BY TopAreBest
<1>4. /\ D \in SUBSET P /\ T \in SUBSET D
      /\ Cardinality(T) >= MinCandidates => D = T
      /\ Cardinality(T) < MinCandidates =>
           /\ Cardinality(D) <= MinCandidates
           /\ D = P \/ Cardinality(D) = MinCandidates
      /\ \A p \in D \ T, q \in P \ D : p[1] < q[1]
  <2>1. T \in SUBSET P
    BY <1>2, <1>3
  <2> HIDE DEF P, T
  <2> QED BY <1>1, <2>1, FillIsEnough
<1>5. ToSet(shown) = D /\ IsFiniteSet(D) /\ Len(shown) = Cardinality(D)
  BY <1>4, ShownAreChosen
<1>6. MinCandidates \in Nat /\ MaxCandidates \in Nat /\ MinCandidates <= MaxCandidates
  BY PassagesAssumption
<1> HIDE DEF P, A, T, D, shown
<1>7. Cardinality(T) \in Nat /\ Cardinality(D) \in Nat
  BY <1>3, <1>5, FS_CardinalityType
<1>8. Cardinality(T) < MinCandidates => T = A
  BY ONLY <1>3, <1>6, <1>7
<1>9. Len(shown) \in {Cardinality(P)} \cup MinCandidates..MaxCandidates
  <2>1. CASE Cardinality(T) >= MinCandidates
    <3>1. D = T
      BY <1>4, <2>1
    <3>2. Cardinality(D) \in MinCandidates..MaxCandidates
      BY ONLY <1>3, <1>6, <1>7, <2>1, <3>1
    <3> QED BY <1>5, <3>2
  <2>2. CASE Cardinality(T) < MinCandidates
    <3>1. D = P \/ Cardinality(D) = MinCandidates
      BY <1>4, <2>2
    <3>2. Cardinality(D) \in {Cardinality(P)} \cup MinCandidates..MaxCandidates
      BY ONLY <1>6, <1>7, <3>1
    <3> QED BY <1>5, <3>2
  <2> QED BY ONLY <1>6, <1>7, <2>1, <2>2
<1>10. ASSUME NEW p \in D \cap A, NEW q \in A \ D PROVE Better(document, p, q)
  <2>1. T # A
    BY <1>4
  <2>2. ~(Cardinality(T) < MinCandidates)
    BY <1>8, <2>1
  <2>3. D = T
    BY <1>4, <1>6, <1>7, <2>2
  <2> QED BY <1>3, <2>3
<1>11. ASSUME D \ A # {}
       PROVE  /\ A \subseteq D /\ Cardinality(D) <= MinCandidates
              /\ \A p \in D \ A, q \in P \ D : p[1] < q[1]
  <2>1. D # T
    BY <1>3, <1>11
  <2>2. Cardinality(T) < MinCandidates
    BY <1>4, <1>6, <1>7, <2>1
  <2>3. T = A
    BY <1>8, <2>2
  <2> QED BY <1>4, <2>2, <2>3
<1> QED BY <1>4, <1>5, <1>9, <1>10, <1>11 DEF P, A, shown

\* What PassagesHold says, of every document: the passages are the document and the
\* candidates are the best of them, whatever the window and however many are shown
\* (candidates.py).
THEOREM PassagesAlwaysHold ==
  ASSUME NEW C, NEW document \in Seq(C)
  PROVE  PassagesHold(document)
<1> DEFINE all == AllPassages(document)
           shown == Candidates(document)
           scored == Scored(document)
           filling == ToSet(shown) \ scored
<1>1. /\ \A i \in Ink(document) : \E p \in ToSet(all) : p[1] < i /\ i <= p[2]
      /\ \A k \in 1..(Len(all) - 1) : all[k][2] <= all[k + 1][1]
      /\ \A p \in ToSet(all) :
           /\ ~\E i, j \in p[1] + 1 .. p[2] :
                /\ i < j /\ document[i] = "nl" /\ document[j] = "nl"
                /\ i + 1 .. j - 1 \cap Ink(document) = {}
           /\ p[2] - p[1] <= Window \/ p \in ToSet(Sentences(document))
  BY PassagesAreTheDocument
<1>2. /\ ToSet(shown) \subseteq ToSet(all)
      /\ Len(shown) \in {Cardinality(ToSet(all))} \cup MinCandidates..MaxCandidates
      /\ \A p \in ToSet(shown) \cap scored, q \in scored \ ToSet(shown) :
           Better(document, p, q)
      /\ filling # {} =>
           /\ scored \subseteq ToSet(shown)
           /\ Len(shown) <= MinCandidates
           /\ \A p \in filling, q \in ToSet(all) \ ToSet(shown) : p[1] < q[1]
  BY CandidatesAreTheBest
<1> HIDE DEF all, shown, scored
<1> QED BY <1>1, <1>2 DEF PassagesHold, all, shown, scored

-------------------------------------------------------------------------------
(* Quotes *)

\* The positions of a text that are kept when its case and its white space are folded, and
\* what is written for a character.
Kept(t) == {i \in DOMAIN t : t[i] \notin Space \/ (i > 1 /\ t[i - 1] \notin Space)}
Said(c) == IF c \in Space THEN " " ELSE Lower[c]

LEMMA FoldedIs ==
  ASSUME NEW C, NEW t \in Seq(C)
  PROVE  /\ Kept(t) \in SUBSET (1..Len(t)) /\ Kept(t) \in SUBSET Int /\ IsFiniteSet(Kept(t))
         /\ Cardinality(Kept(t)) \in Nat
         /\ DOMAIN Folded(t) = 1..Cardinality(Kept(t)) /\ Len(Folded(t)) = Cardinality(Kept(t))
         /\ Folded(t) = [k \in 1..Cardinality(Kept(t)) |-> Folded(t)[k]]
         /\ \A k \in 1..Cardinality(Kept(t)) :
              /\ Ascending(Kept(t))[k] \in Kept(t)
              /\ Folded(t)[k] = Said(t[Ascending(Kept(t))[k]])
<1> DEFINE K == Kept(t)
           f == [i \in K |-> IF t[i] \in Space THEN " " ELSE Lower[t[i]]]
           n == Cardinality(K)
<1>1. K \in SUBSET (1..Len(t)) /\ K \in SUBSET Int /\ IsFiniteSet(K)
  <2>1. K \in SUBSET DOMAIN t
    BY DEF Kept
  <2> HIDE DEF K
  <2> QED BY <2>1, Positions
<1>2. Folded(t) = Picked(f, K)
  BY DEF Folded, Kept
<1>3. \A i \in K : f[i] = Said(t[i])
  BY DEF Said
<1> HIDE DEF K, f
<1>4. n \in Nat /\ \A k \in 1..n : Ascending(K)[k] \in K
  BY <1>1, AscendingOrders
<1>5. /\ DOMAIN Folded(t) = 1..n /\ Len(Folded(t)) = n
      /\ \A k \in 1..n : Folded(t)[k] = f[Ascending(K)[k]]
  <2>1. /\ DOMAIN Picked(f, K) = 1..n /\ Len(Picked(f, K)) = n
        /\ \A k \in 1..n : Picked(f, K)[k] = f[Ascending(K)[k]]
    BY ONLY <1>1, PickedInOrder
  <2> QED BY <1>2, <2>1
<1>6. Folded(t) = [k \in 1..n |-> Folded(t)[k]]
  BY <1>2 DEF Picked
<1> QED BY <1>1, <1>3, <1>4, <1>5, <1>6 DEF K

\* The first and the last of an order.
LEMMA OrderEnds ==
  ASSUME NEW S \in SUBSET Int, IsFiniteSet(S), NEW a \in S, NEW b \in S,
         \A x \in S : a <= x /\ x <= b
  PROVE  /\ Cardinality(S) \in Nat /\ 1 \in 1..Cardinality(S)
         /\ Ascending(S)[1] = a /\ Ascending(S)[Cardinality(S)] = b
<1> DEFINE n == Cardinality(S)
           A == Ascending(S)
<1>1. /\ n \in Nat /\ \A k \in 1..n : A[k] \in S
      /\ \A k, l \in 1..n : k < l => A[k] < A[l]
      /\ \A x \in S : \E k \in 1..n : A[k] = x
  BY AscendingOrders
<1> HIDE DEF A
<1>2. PICK i \in 1..n : A[i] = a
  BY <1>1
<1>3. PICK j \in 1..n : A[j] = b
  BY <1>1
<1>4. 1 \in 1..n /\ n \in 1..n
  BY <1>1, <1>2
<1>5. ~(1 < i)
  <2> SUFFICES ASSUME 1 < i PROVE FALSE
    OBVIOUS
  <2>1. A[1] < a /\ a <= A[1] /\ A[1] \in Int /\ a \in Int
    BY <1>1, <1>2, <1>4
  <2> QED BY <2>1
<1>6. ~(j < n)
  <2> SUFFICES ASSUME j < n PROVE FALSE
    OBVIOUS
  <2>1. b < A[n] /\ A[n] <= b /\ A[n] \in Int /\ b \in Int
    BY <1>1, <1>3, <1>4
  <2> QED BY <2>1
<1>7. i = 1 /\ j = n
  BY <1>1, <1>5, <1>6
<1> QED BY <1>1, <1>2, <1>3, <1>4, <1>7 DEF A

\* A text without its margins: it is empty, or it starts and ends in ink.
LEMMA TrimmedText ==
  ASSUME NEW C, NEW t \in Seq(C)
  PROVE  /\ Trim(t) \in Seq(C)
         /\ Trim(t) = <<>> \/ /\ 1 \in Ink(Trim(t)) /\ Len(Trim(t)) \in Ink(Trim(t))
         /\ 1 \in Ink(t) /\ Len(t) \in Ink(t) => Trim(t) = t
<1> DEFINE ink == Ink(t)
           a == Min(ink)
           b == Max(ink)
           u == SubSeq(t, a, b)
<1>1. Len(t) \in Nat /\ DOMAIN t = 1..Len(t) /\ ink \in SUBSET (1..Len(t))
  BY Positions DEF Ink
<1>2. CASE ink = {}
  <2>1. Trim(t) = <<>>
    BY <1>2 DEF Trim
  <2>2. <<>> \in Seq(C)
    OBVIOUS
  <2> QED BY <1>2, <2>1, <2>2
<1>3. CASE ink # {}
  <2>1. a \in ink /\ b \in ink /\ \A x \in ink : a <= x /\ x <= b
    <3> HIDE DEF ink
    <3> QED BY <1>1, <1>3, Extremes
  <2>2. a \in 1..Len(t) /\ b \in 1..Len(t) /\ a <= b /\ t[a] \notin Space /\ t[b] \notin Space
    <3>1. a \in 1..Len(t) /\ b \in 1..Len(t) /\ a <= b
      <4> HIDE DEF ink
      <4> QED BY <1>1, <2>1
    <3>2. t[a] \notin Space /\ t[b] \notin Space
      <4> HIDE DEF a, b
      <4> QED BY <2>1 DEF Ink
    <3> QED BY <3>1, <3>2
  <2>3. Trim(t) = u
    BY <1>3 DEF Trim
  <2> HIDE DEF a, b, ink
  <2>4. u \in Seq(C) /\ Len(u) = b - a + 1 /\ \A i \in 1..(b - a + 1) : u[i] = t[a + i - 1]
    <3>1. a \in Int /\ b \in Int /\ a <= b /\ a..b \subseteq 1..Len(t)
      BY ONLY <1>1, <2>2
    <3>2. \A i \in a..b : t[i] \in C
      BY <1>1, <3>1
    <3> QED BY ONLY <3>1, <3>2, SubSeqProperties DEF u
  <2> HIDE DEF u
  <2>5. 1 \in 1..(b - a + 1) /\ b - a + 1 \in 1..(b - a + 1) /\ a + 1 - 1 = a
        /\ a + (b - a + 1) - 1 = b
    BY ONLY <1>1, <2>2
  <2>6. DOMAIN u = 1..(b - a + 1)
    BY <2>4
  <2>7. 1 \in Ink(u) /\ Len(u) \in Ink(u)
    BY <2>2, <2>4, <2>5, <2>6 DEF Ink
  <2>8. ASSUME 1 \in Ink(t), Len(t) \in Ink(t) PROVE u = t
    <3>1. a = 1 /\ b = Len(t)
      <4>1. a <= 1 /\ Len(t) <= b
        BY <2>1, <2>8 DEF ink
      <4>2. \A x, y, n \in Int : 1 <= x /\ x <= 1 /\ n <= y /\ y <= n => x = 1 /\ y = n
        OBVIOUS
      <4>3. a \in Int /\ b \in Int /\ Len(t) \in Int /\ 1 <= a /\ b <= Len(t)
        BY ONLY <1>1, <2>2
      <4> QED BY ONLY <4>1, <4>2, <4>3
    <3> QED BY <3>1, <1>1 DEF u
  <2> QED BY <2>3, <2>4, <2>7, <2>8
<1> QED BY <1>2, <1>3

\* Where the folded text says something that starts and ends in ink, the text does.
LEMMA FoldedSaysWhatTheTextSays ==
  ASSUME NEW document \in Seq(DOMAIN Lower \cup Space), NEW n \in Nat \ {0}, NEW at \in Nat,
         at + n <= Len(Folded(document)),
         Folded(document)[at + 1] \notin Space, Folded(document)[at + n] \notin Space
  PROVE  \E span \in (0..Len(document)) \X (0..Len(document)) :
           /\ span[1] < span[2] /\ {span[1] + 1, span[2]} \subseteq Ink(document)
           /\ Folded(Slice(document, span)) = [k \in 1..n |-> Folded(document)[at + k]]
<1> DEFINE C == DOMAIN Lower \cup Space
           K == Kept(document)
           A == Ascending(K)
           N == Cardinality(K)
           F == Folded(document)
           a == A[at + 1] - 1
           b == A[at + n]
           u == Slice(document, <<a, b>>)
           L == Kept(u)
           g == [k \in 1..n |-> A[at + k] - a]
<1>1. document \in Seq(C) /\ Len(document) \in Nat /\ DOMAIN document = 1..Len(document)
  BY Positions
<1> HIDE DEF C
<1>2. /\ K \in SUBSET (1..Len(document)) /\ K \in SUBSET Int /\ IsFiniteSet(K) /\ N \in Nat
      /\ Len(F) = N
      /\ \A k \in 1..N : A[k] \in K /\ F[k] = Said(document[A[k]])
  BY <1>1, FoldedIs
<1>3. /\ \A k, l \in 1..N : k < l => A[k] < A[l]
      /\ \A x \in K : \E k \in 1..N : A[k] = x
  BY <1>2, AscendingOrders
<1> HIDE DEF K, A, N, F
<1>4. /\ \A k \in 1..n : at + k \in 1..N
      /\ at + 1 \in 1..N /\ at + n \in 1..N /\ 1 \in 1..n /\ n \in 1..n
  BY <1>2 DEF F
<1>5. /\ A[at + 1] \in 1..Len(document) /\ b \in 1..Len(document) /\ A[at + 1] <= b
      /\ \A k \in 1..N : A[k] \in 1..Len(document)
      /\ \A x \in K : A[at + 1] <= x /\ x <= b <=> \E k \in 1..n : x = A[at + k]
  <2>1. \A k \in 1..N : A[k] \in 1..Len(document) /\ A[k] \in Int
    BY <1>1, <1>2
  <2>2. \A k, l \in 1..N : k <= l <=> A[k] <= A[l]
    <3> TAKE k \in 1..N, l \in 1..N
    <3>1. k < l \/ l < k \/ k = l
      BY <1>2
    <3>2. A[k] \in Int /\ A[l] \in Int
      BY <2>1
    <3> QED BY <1>3, <3>1, <3>2
  <2>3. at + 1 <= at + n
    OBVIOUS
  <2>4. ASSUME NEW x \in K
        PROVE  A[at + 1] <= x /\ x <= b <=> \E k \in 1..n : x = A[at + k]
    <3>1. PICK l \in 1..N : A[l] = x
      BY <1>3
    <3>2. A[at + 1] <= x /\ x <= b <=> at + 1 <= l /\ l <= at + n
      BY <1>4, <2>2, <3>1
    <3>3. at + 1 <= l /\ l <= at + n => l - at \in 1..n /\ at + (l - at) = l
      BY <1>2
    <3>4. ASSUME NEW k \in 1..n, x = A[at + k] PROVE at + 1 <= l /\ l <= at + n
      <4>1. A[at + 1] <= A[at + k] /\ A[at + k] <= A[at + n]
        <5>1. at + 1 <= at + k /\ at + k <= at + n
          OBVIOUS
        <5> QED BY <1>4, <2>2, <5>1
      <4> QED BY <3>2, <3>4, <4>1
    <3> QED BY <3>1, <3>2, <3>3, <3>4
  <2> QED BY <1>4, <2>1, <2>2, <2>3, <2>4
<1>6. /\ a \in Nat /\ b \in Nat /\ a < b /\ b <= Len(document) /\ a + 1 = A[at + 1]
  <2> HIDE DEF b
  <2> QED BY ONLY <1>1, <1>5 DEF a
<1>7. document[a + 1] \notin Space /\ document[b] \notin Space
  <2>1. \A c : Said(c) \notin Space => c \notin Space
    BY DEF Said, Space
  <2>2. Said(document[A[at + 1]]) \notin Space /\ Said(document[A[at + n]]) \notin Space
    BY <1>2, <1>4 DEF F
  <2> QED BY <1>6, <2>1, <2>2
<1>8. {a + 1, b} \subseteq Ink(document)
  <2>1. a + 1 \in DOMAIN document /\ b \in DOMAIN document
    BY <1>1, <1>5, <1>6
  <2> QED BY <1>7, <2>1 DEF Ink
<1> HIDE DEF a, b
<1>9. /\ u \in Seq(C) /\ Len(u) = b - a /\ DOMAIN u = 1..(b - a)
      /\ \A i \in 1..(b - a) : a + i \in DOMAIN document /\ u[i] = document[a + i]
  BY ONLY <1>1, <1>6, SliceIs DEF u
<1> HIDE DEF u
<1>10. \A i \in 1..(b - a) : i \in L <=> a + i \in K
  <2> TAKE i \in 1..(b - a)
  <2>1. CASE i = 1
    <3>1. i \in L
      BY <1>7, <1>9, <2>1 DEF Kept
    <3>2. a + i \in K
      BY <1>7, <1>9, <2>1 DEF K, Kept
    <3> QED BY <3>1, <3>2
  <2>2. CASE i # 1
    <3>1. i - 1 \in 1..(b - a) /\ i > 1 /\ a + (i - 1) = a + i - 1 /\ a + i > 1
      BY <1>6, <2>2
    <3>2. u[i] = document[a + i] /\ u[i - 1] = document[a + i - 1] /\ a + i \in DOMAIN document
      BY <1>9, <3>1
    <3>3. i \in L <=> u[i] \notin Space \/ u[i - 1] \notin Space
      BY <1>9, <3>1 DEF Kept
    <3>4. a + i \in K <=> document[a + i] \notin Space \/ document[a + i - 1] \notin Space
      <4>1. \A x : x \in K <=>
              /\ x \in DOMAIN document
              /\ document[x] \notin Space \/ (x > 1 /\ document[x - 1] \notin Space)
        BY DEF K, Kept
      <4>2. a + i \in Int
        BY ONLY <1>6, i \in 1..(b - a)
      <4> QED BY ONLY <1>6, <3>1, <3>2, <4>1, <4>2
    <3> QED BY <3>2, <3>3, <3>4
  <2> QED BY <2>1, <2>2
<1>11. L \in SUBSET (1..(b - a)) /\ L \in SUBSET Int
  BY <1>9 DEF Kept
<1> HIDE DEF L
<1>12. /\ \A k \in 1..n : /\ A[at + k] \in K /\ A[at + k] \in Int
                          /\ A[at + 1] <= A[at + k] /\ A[at + k] <= b
       /\ \A k, l \in 1..n : k < l => A[at + k] < A[at + l]
  <2>1. \A k \in 1..n : A[at + k] \in K /\ A[at + k] \in Int
    BY <1>2, <1>4
  <2>2. \A k, l \in 1..n : k < l => at + k < at + l
    OBVIOUS
  <2> QED BY <1>3, <1>4, <1>5, <2>1, <2>2
<1>13. g \in [1..n -> L]
  <2> SUFFICES ASSUME NEW k \in 1..n PROVE A[at + k] - a \in L
    OBVIOUS
  <2>1. A[at + k] \in K /\ A[at + k] \in Int /\ a + 1 <= A[at + k] /\ A[at + k] <= b
    BY <1>6, <1>12
  <2>2. A[at + k] - a \in 1..(b - a) /\ a + (A[at + k] - a) = A[at + k]
    BY ONLY <1>6, <2>1
  <2> QED BY <1>10, <2>1, <2>2
<1>14. \A k, l \in 1..n : k < l => g[k] < g[l]
  <2> SUFFICES ASSUME NEW k \in 1..n, NEW l \in 1..n, k < l PROVE A[at + k] - a < A[at + l] - a
    OBVIOUS
  <2>1. A[at + k] < A[at + l] /\ A[at + k] \in Int /\ A[at + l] \in Int
    BY <1>12
  <2> QED BY ONLY <1>6, <2>1
<1>15. \A i \in L : \E k \in 1..n : g[k] = i
  <2> TAKE i \in L
  <2>1. i \in 1..(b - a) /\ a + i \in K
    BY <1>10, <1>11
  <2>2. a + 1 <= a + i /\ a + i <= b
    BY ONLY <1>6, <2>1
  <2>3. PICK k \in 1..n : a + i = A[at + k]
    BY <1>5, <1>6, <2>1, <2>2
  <2>4. g[k] = i
    <3>1. a + i - a = i
      BY ONLY <1>6, <2>1
    <3>2. g[k] = A[at + k] - a
      OBVIOUS
    <3> HIDE DEF g
    <3> QED BY ONLY <1>6, <2>1, <2>3, <3>1, <3>2
  <2> QED BY <2>4
<1>16. Cardinality(L) = n /\ \A k \in 1..n : Ascending(L)[k] = g[k]
  <2>1. n \in Nat
    OBVIOUS
  <2> HIDE DEF g
  <2> QED BY ONLY <1>11, <1>13, <1>14, <1>15, <2>1, OrderIsUnique
<1>17. /\ Folded(u) = [k \in 1..n |-> Folded(u)[k]]
       /\ \A k \in 1..n : Folded(u)[k] = Said(u[Ascending(L)[k]])
  BY <1>9, <1>16, FoldedIs DEF L
<1>18. ASSUME NEW k \in 1..n PROVE Folded(u)[k] = F[at + k]
  <2>1. Ascending(L)[k] = A[at + k] - a
    BY <1>16
  <2>2. A[at + k] - a \in 1..(b - a) /\ a + (A[at + k] - a) = A[at + k]
    <3>1. A[at + k] \in Int /\ a + 1 <= A[at + k] /\ A[at + k] <= b
      BY <1>6, <1>12
    <3> QED BY ONLY <1>6, <3>1
  <2>3. u[A[at + k] - a] = document[A[at + k]]
    BY <1>9, <2>2
  <2>4. F[at + k] = Said(document[A[at + k]])
    BY <1>2, <1>4
  <2> QED BY <1>17, <2>1, <2>3, <2>4
<1>19. Folded(u) = [k \in 1..n |-> F[at + k]]
  BY <1>17, <1>18
<1>20. <<a, b>> \in (0..Len(document)) \X (0..Len(document))
  BY ONLY <1>1, <1>6
<1> QED BY <1>6, <1>8, <1>19, <1>20 DEF u, F

\* What QuotesHold says, of every document and every quote: the place is where the source
\* says it, and a quote that is reported missing is not there in any case or wrapping
\* (context.py).
THEOREM QuotesAreAlwaysFound ==
  ASSUME NEW document \in Seq(DOMAIN Lower \cup Space), NEW quote \in Seq(DOMAIN Lower \cup Space)
  PROVE  QuotesHold(document, quote)
<1> DEFINE C == DOMAIN Lower \cup Space
           exact == {at \in 0..Len(document) : Occurs(document, quote, at)}
           loose == Matches(document, quote)
           m == Min(exact)
           q == CHOOSE x \in loose : \A y \in loose : x[1] <= y[1]
           place == Locate(document, quote)
           t == Trim(quote)
           said == Folded(t)
           source == Folded(document)
           n == Len(said)
<1>1. /\ document \in Seq(C) /\ quote \in Seq(C)
      /\ Len(document) \in Nat /\ Len(quote) \in Nat
  OBVIOUS
<1>2. place = IF exact # {} THEN <<m, m + Len(quote)>> ELSE IF loose # {} THEN q ELSE <<>>
  BY DEF Locate, NotFound
<1> HIDE DEF C, place
<1>3. ASSUME exact # {} PROVE Folded(Trim(Slice(document, place))) = said
  <2>1. exact \in SUBSET Nat
    OBVIOUS
  <2>2. m \in exact
    <3>1. \E x \in exact : \A y \in exact : x <= y
      <4> HIDE DEF exact
      <4> QED BY <1>3, <2>1, HasLeast
    <3> HIDE DEF exact
    <3> QED BY <3>1 DEF Min
  <2>3. SubSeq(document, m + 1, m + Len(quote)) = quote
    <3> HIDE DEF m
    <3> QED BY <2>2 DEF Occurs
  <2> HIDE DEF exact, m
  <2>4. place = <<m, m + Len(quote)>>
    BY <1>2, <1>3
  <2>5. Slice(document, place) = quote
    BY <2>3, <2>4 DEF Slice
  <2> QED BY <2>5
<1>4. /\ loose \in SUBSET (Nat \X Nat)
      /\ \A p \in loose : /\ p[1] < p[2] /\ p[2] <= Len(document)
                          /\ p[1] + 1 \in Ink(document) /\ p[2] \in Ink(document)
                          /\ Folded(Slice(document, p)) = said
  <2>1. loose \in SUBSET ((0..Len(document)) \X (0..Len(document)))
    BY DEF Matches
  <2>2. \A p \in loose : /\ p[1] < p[2] /\ {p[1] + 1, p[2]} \subseteq Ink(document)
                         /\ Folded(Slice(document, p)) = said
    BY DEF Matches
  <2> HIDE DEF loose, said
  <2>3. \A p \in (0..Len(document)) \X (0..Len(document)) :
          p \in Nat \X Nat /\ p[2] <= Len(document)
    BY <1>1
  <2> QED BY <2>1, <2>2, <2>3
<1>5. ASSUME loose # {} PROVE q \in loose
  <2> HIDE DEF loose
  <2> DEFINE S == {p[1] : p \in loose}
  <2>1. S \in SUBSET Nat /\ S # {}
    BY <1>4, <1>5
  <2>2. PICK x \in S : \A y \in S : x <= y
    <3> HIDE DEF S
    <3> QED BY <2>1, HasLeast
  <2>3. \E p \in loose : \A r \in loose : p[1] <= r[1]
    <3>1. PICK p \in loose : p[1] = x
      BY <2>2
    <3>2. \A r \in loose : x <= r[1]
      BY <2>2
    <3> QED BY <3>1, <3>2
  <2> QED BY <2>3
<1>6. ASSUME exact = {}, loose # {} PROVE Folded(Trim(Slice(document, place))) = said
  <2>1. place = q /\ q \in loose
    BY <1>2, <1>5, <1>6
  <2> HIDE DEF loose, q, said
  <2>2. PICK a \in Nat, b \in Nat : q = <<a, b>>
    BY <1>4, <2>1
  <2>3. /\ a < b /\ b <= Len(document) /\ a + 1 \in Ink(document) /\ b \in Ink(document)
        /\ Folded(Slice(document, <<a, b>>)) = said
    BY <1>4, <2>1, <2>2
  <2> DEFINE u == Slice(document, <<a, b>>)
  <2>4. /\ u \in Seq(C) /\ Len(u) = b - a /\ DOMAIN u = 1..(b - a)
        /\ \A i \in 1..(b - a) : u[i] = document[a + i]
    BY ONLY <1>1, <2>3, SliceIs, a \in Nat, b \in Nat DEF u
  <2> HIDE DEF u
  <2>5. 1 \in Ink(u) /\ Len(u) \in Ink(u)
    <3>1. 1 \in 1..(b - a) /\ b - a \in 1..(b - a) /\ a + (b - a) = b
      BY <2>3
    <3>2. document[a + 1] \notin Space /\ document[b] \notin Space
      BY <2>3 DEF Ink
    <3> QED BY <2>4, <3>1, <3>2 DEF Ink
  <2>6. Trim(u) = u
    BY <2>4, <2>5, TrimmedText
  <2> QED BY <2>1, <2>2, <2>3, <2>6 DEF u
<1>7. ASSUME exact = {}, loose = {}, said # <<>>,
             NEW at \in 0..Len(source), Occurs(source, said, at)
      PROVE  FALSE
  <2> DEFINE K == Kept(t)
             A == Ascending(K)
  <2>1. t \in Seq(C) /\ (t = <<>> \/ (1 \in Ink(t) /\ Len(t) \in Ink(t)))
    BY <1>1, TrimmedText
  <2> HIDE DEF t
  <2>2. /\ K \in SUBSET (1..Len(t)) /\ K \in SUBSET Int /\ IsFiniteSet(K)
        /\ Cardinality(K) \in Nat /\ n = Cardinality(K) /\ DOMAIN said = 1..n
        /\ said = [k \in 1..n |-> said[k]]
        /\ \A k \in 1..n : said[k] = Said(t[A[k]])
    BY <2>1, FoldedIs
  <2>3. t # <<>>
    <3> SUFFICES ASSUME t = <<>> PROVE FALSE
      OBVIOUS
    <3>1. Len(t) = 0
      OBVIOUS
    <3>2. K = {}
      <4> HIDE DEF K
      <4> QED BY <2>2, <3>1
    <3>3. n = 0
      <4> HIDE DEF K, n
      <4> QED BY <2>2, <3>2, FS_EmptySet
    <3>4. said = [k \in 1..0 |-> said[k]]
      <4> HIDE DEF said
      <4> QED BY <2>2, <3>3
    <3> HIDE DEF said
    <3>5. said = <<>>
      BY <3>4
    <3> QED BY <1>7, <3>5
  <2>4. /\ 1 \in K /\ Len(t) \in K /\ \A x \in K : 1 <= x /\ x <= Len(t)
        /\ t[1] \notin Space /\ t[Len(t)] \notin Space
    <3>1. 1 \in DOMAIN t /\ Len(t) \in DOMAIN t /\ t[1] \notin Space /\ t[Len(t)] \notin Space
      BY <2>1, <2>3 DEF Ink
    <3>2. 1 \in K /\ Len(t) \in K
      BY <3>1 DEF Kept
    <3> HIDE DEF K
    <3> QED BY <2>2, <3>1, <3>2
  <2>5. /\ 1 \in 1..n /\ A[1] = 1 /\ A[n] = Len(t) /\ n \in Nat
    <3> HIDE DEF K, n
    <3> QED BY <2>2, <2>4, OrderEnds DEF A
  <2>6. \A c \in C : c \notin Space => Said(c) \notin Space
    BY PassagesAssumption DEF Said, C
  <2>7. said[1] \notin Space /\ said[n] \notin Space
    <3>1. 1 \in DOMAIN t /\ Len(t) \in DOMAIN t
      BY <2>1, <2>3 DEF Ink
    <3>2. t[1] \in C /\ t[Len(t)] \in C
      BY <2>1, <3>1
    <3>3. said[1] = Said(t[1]) /\ said[n] = Said(t[Len(t)])
      <4> HIDE DEF K, A, n, said
      <4>1. n \in 1..n
        BY <2>5
      <4> QED BY <2>2, <2>5, <4>1
    <3> QED BY <2>4, <2>6, <3>2, <3>3
  <2>8. /\ at \in Nat /\ at + n <= Len(source)
        /\ SubSeq(source, at + 1, at + n) = said
    <3>1. Len(source) \in Nat
      <4>1. Len(source) = Cardinality(Kept(document)) /\ Cardinality(Kept(document)) \in Nat
        BY <1>1, FoldedIs
      <4> QED BY <4>1
    <3> HIDE DEF source, said
    <3> QED BY <1>7, <3>1 DEF Occurs
  <2>9. \A k \in 1..n : source[at + k] = said[k]
    <3> HIDE DEF source, said, n
    <3>1. at + 1 \in Int /\ at + n \in Int /\ at + n - (at + 1) + 1 = n
          /\ \A k \in 1..n : at + 1 + k - 1 = at + k
      BY <2>5, <2>8
    <3> DEFINE x == at + 1
               y == at + n
               R == {source[i] : i \in x..y}
    <3>2. \A i \in x..y : source[i] \in R
      OBVIOUS
    <3>3. x \in Int /\ y \in Int /\ y - x + 1 = n /\ \A k \in 1..n : x + k - 1 = at + k
      <4>1. at \in Int /\ n \in Int
        BY ONLY <2>5, <2>8
      <4> QED BY ONLY <4>1
    <3>4. SubSeq(source, x, y) = said
      BY <2>8
    <3> HIDE DEF R, x, y
    <3>5. \A k \in 1..(y - x + 1) : SubSeq(source, x, y)[k] = source[x + k - 1]
      BY ONLY <3>2, <3>3, SubSeqProperties
    <3> QED BY ONLY <3>3, <3>4, <3>5
  <2>10. source[at + 1] \notin Space /\ source[at + n] \notin Space
    <3> HIDE DEF source, said, n
    <3>1. 1 \in 1..n /\ n \in 1..n
      BY <2>5
    <3> QED BY <2>7, <2>9, <3>1
  <2>11. n \in Nat \ {0}
    <3> HIDE DEF n
    <3> QED BY <2>5
  <2>12. PICK span \in (0..Len(document)) \X (0..Len(document)) :
           /\ span[1] < span[2] /\ {span[1] + 1, span[2]} \subseteq Ink(document)
           /\ Folded(Slice(document, span)) = [k \in 1..n |-> source[at + k]]
    <3> HIDE DEF n
    <3> QED BY <2>8, <2>10, <2>11, FoldedSaysWhatTheTextSays DEF source
  <2>13. Folded(Slice(document, span)) = said
    <3> HIDE DEF n, said, source
    <3>1. [k \in 1..n |-> source[at + k]] = [k \in 1..n |-> said[k]]
      BY <2>9
    <3> QED BY <2>2, <2>12, <3>1
  <2>14. span \in loose
    BY <2>12, <2>13 DEF Matches, t
  <2> QED BY <1>7, <2>14
<1>8. ASSUME said # <<>>
      PROVE  /\ place # NotFound => Folded(Trim(Slice(document, place))) = said
             /\ place = NotFound => ~\E at \in 0..Len(source) : Occurs(source, said, at)
  <2>1. place = NotFound => exact = {} /\ loose = {}
    <3>1. exact # {} => place # <<>>
      <4> HIDE DEF exact, m, loose, q
      <4> QED BY <1>2
    <3>2. exact = {} /\ loose # {} => place # <<>>
      <4>1. \A x, y : <<x, y>> # <<>>
        OBVIOUS
      <4>2. \A p \in Nat \X Nat : p = <<p[1], p[2]>>
        OBVIOUS
      <4> HIDE DEF exact, m, loose, q
      <4> QED BY <1>2, <1>4, <1>5, <4>1, <4>2
    <3> HIDE DEF exact, loose
    <3> QED BY <3>1, <3>2 DEF NotFound
  <2>2. place # NotFound => exact # {} \/ (exact = {} /\ loose # {})
    <3> HIDE DEF exact, loose, m, q
    <3> QED BY <1>2 DEF NotFound
  <2> HIDE DEF exact, loose, source, said
  <2> QED BY <1>3, <1>6, <1>7, <1>8, <2>1, <2>2
<1> HIDE DEF t, source
<1> QED BY <1>8 DEF QuotesHold, place, said, t, source

-------------------------------------------------------------------------------
(* Forms: types and inputs *)

\* The types the schema is built from: leaves,
LeafNode(node) ==
  /\ node.type \in {"string", "enum", "boolean", "strings"}
  /\ node.nullable \in BOOLEAN
  /\ node.type = "strings" => ~node.nullable

\* Every object of a list has a text that must be there.
RowNode(node) ==
  /\ node.type = "object" /\ node.nullable = FALSE
  /\ \A m \in DOMAIN node.members : LeafNode(node.members[m])
  /\ \E m \in DOMAIN node.members : node.members[m].type = "string" /\ ~node.members[m].nullable

\* the parts of an object,
PartNode(node) ==
  LeafNode(node) \/ (node.type = "objects" /\ node.nullable = FALSE /\ RowNode(node.item))

\* and fields.
FieldNode(node) ==
  \/ PartNode(node)
  \/ /\ node.type = "object" /\ node.nullable \in BOOLEAN
     /\ \A m \in DOMAIN node.members : PartNode(node.members[m])

\* The leaf types of the schema.
LEMMA LeavesAreLeaves ==
  /\ LeafNode(Str) /\ Str.type = "string" /\ Str.nullable = FALSE
  /\ LeafNode(Opt(AnyStr)) /\ LeafNode(Enum) /\ LeafNode(Bool) /\ LeafNode(Opt(Bool))
  /\ LeafNode(Strs)
BY DEF LeafNode, Str, AnyStr, Opt, Enum, Bool, Strs

\* What an object type is made of, optional or not.
LEMMA ObjectNodes ==
  ASSUME NEW members
  PROVE  /\ Obj(members).type = "object" /\ Obj(members).nullable = FALSE
         /\ Obj(members).members = members
         /\ Opt(Obj(members)).type = "object" /\ Opt(Obj(members)).nullable = TRUE
         /\ Opt(Obj(members)).members = members
BY DEF Obj, Opt

\* The objects of which the schema has lists.
LEMMA RowTypes == 
  /\ RowNode(ContributingFactor) /\ RowNode(Action) /\ RowNode(Quantity)
<1>1. RowNode(ContributingFactor)
  BY LeavesAreLeaves DEF RowNode, ContributingFactor, Obj
<1>2. RowNode(Action)
  BY LeavesAreLeaves DEF RowNode, Action, Obj
<1>3. RowNode(Quantity)
  BY LeavesAreLeaves DEF RowNode, Quantity, Obj
<1> QED BY <1>1, <1>2, <1>3

\* The fields of the schema that are objects.
LEMMA ObjectTypes ==
  /\ FieldNode(Cause) /\ FieldNode(Opt(Cause)) /\ FieldNode(Opt(TimeAnchor))
  /\ FieldNode(AffectedScope) /\ FieldNode(BlastRadius)
<1>1. ASSUME NEW members, \A m \in DOMAIN members : LeafNode(members[m])
      PROVE  FieldNode(Obj(members)) /\ FieldNode(Opt(Obj(members)))
  BY <1>1, ObjectNodes DEF FieldNode, PartNode
<1>2. FieldNode(Cause) /\ FieldNode(Opt(Cause))
  BY <1>1, LeavesAreLeaves DEF Cause
<1>3. FieldNode(Opt(TimeAnchor))
  BY <1>1, LeavesAreLeaves DEF TimeAnchor
<1>4. FieldNode(AffectedScope)
  BY <1>1, LeavesAreLeaves DEF AffectedScope
<1>5. FieldNode(BlastRadius)
  <2>1. PartNode(Objs(Quantity))
    BY RowTypes DEF PartNode, Objs
  <2> QED BY <2>1, LeavesAreLeaves DEF FieldNode, PartNode, BlastRadius, Obj
<1> QED BY <1>2, <1>3, <1>4, <1>5

\* Every field of the schema nests as deep as is assumed, and no deeper (schema.py).
LEMMA FieldTypes ==
  ASSUME NEW field \in DOMAIN IncidentRecord
  PROVE  FieldNode(IncidentRecord[field])
<1>1. \A node :
        \/ LeafNode(node)
        \/ node.type = "objects" /\ node.nullable = FALSE /\ RowNode(node.item)
        => FieldNode(node)
  BY DEF FieldNode, PartNode
<1>2. FieldNode(Str) /\ FieldNode(Opt(AnyStr)) /\ FieldNode(Enum)
  BY <1>1, LeavesAreLeaves
<1>3. FieldNode(Objs(ContributingFactor)) /\ FieldNode(Objs(Action))
  BY <1>1, RowTypes DEF Objs
<1> QED BY <1>2, <1>3, ObjectTypes DEF IncidentRecord

\* The inputs the form is built from: those of leaves,
LeafSpec(spec) ==
  /\ spec.kind \in {"text", "textarea", "lines", "select", "bool"}
  /\ spec.nullable \in BOOLEAN

\* of objects of a list,
RowSpec(spec) ==
  /\ spec.kind = "object" /\ spec.nullable = FALSE
  /\ \A c \in DOMAIN spec.children : LeafSpec(spec.children[c])

\* of parts of an object,
PartSpec(spec) == LeafSpec(spec) \/ (spec.kind = "rows" /\ RowSpec(spec.row))

\* and of fields.
FieldSpec(spec) ==
  \/ PartSpec(spec)
  \/ /\ spec.kind = "object" /\ spec.nullable \in BOOLEAN
     /\ \A c \in DOMAIN spec.children : PartSpec(spec.children[c])

\* The input of a leaf: its kind says the type (forms.py).
LEMMA LeafInputs ==
  ASSUME NEW label, NEW node, LeafNode(node)
  PROVE  /\ LeafSpec(BuildLeaf(label, node))
         /\ BuildLeaf(label, node).nullable = node.nullable
         /\ node.type = "string" <=> BuildLeaf(label, node).kind \in {"text", "textarea"}
         /\ node.type = "enum" <=> BuildLeaf(label, node).kind = "select"
         /\ node.type = "boolean" <=> BuildLeaf(label, node).kind = "bool"
         /\ node.type = "strings" <=> BuildLeaf(label, node).kind = "lines"
BY DEF LeafNode, LeafSpec, BuildLeaf

\* The inputs of an object of a list.
LEMMA RowInputs ==
  ASSUME NEW node, RowNode(node)
  PROVE  /\ RowSpec(BuildObject(BuildLeaf, node))
         /\ DOMAIN BuildObject(BuildLeaf, node).children = DOMAIN node.members
         /\ \A m \in DOMAIN node.members :
              BuildObject(BuildLeaf, node).children[m] = BuildLeaf(m, node.members[m])
<1> DEFINE spec == BuildObject(BuildLeaf, node)
<1>1. /\ spec.kind = "object" /\ spec.nullable = FALSE
      /\ DOMAIN spec.children = DOMAIN node.members
      /\ \A m \in DOMAIN node.members : spec.children[m] = BuildLeaf(m, node.members[m])
  BY DEF BuildObject, RowNode
<1>2. \A m \in DOMAIN node.members : LeafSpec(BuildLeaf(m, node.members[m]))
  BY LeafInputs DEF RowNode
<1> HIDE DEF spec
<1> QED BY <1>1, <1>2 DEF RowSpec, spec

\* The inputs of a part of an object.
LEMMA PartInputs ==
  ASSUME NEW label, NEW node, PartNode(node)
  PROVE  /\ PartSpec(BuildPart(label, node))
         /\ LeafNode(node) => BuildPart(label, node) = BuildLeaf(label, node)
         /\ ~LeafNode(node) => /\ node.type = "objects" /\ RowNode(node.item)
                               /\ BuildPart(label, node).kind = "rows"
                               /\ BuildPart(label, node).row = BuildObject(BuildLeaf, node.item)
<1>1. CASE LeafNode(node)
  <2>1. node.type # "objects"
    BY <1>1 DEF LeafNode
  <2> QED BY <1>1, <2>1, LeafInputs DEF BuildPart, PartSpec
<1>2. CASE ~LeafNode(node)
  <2>1. node.type = "objects" /\ RowNode(node.item)
    BY <1>2 DEF PartNode
  <2>2. RowSpec(BuildObject(BuildLeaf, node.item))
    BY <2>1, RowInputs
  <2>3. /\ BuildPart(label, node).kind = "rows"
        /\ BuildPart(label, node).row = BuildObject(BuildLeaf, node.item)
    BY <2>1 DEF BuildPart
  <2> QED BY <1>2, <2>1, <2>2, <2>3 DEF PartSpec
<1> QED BY <1>1, <1>2

\* The inputs of a field.
LEMMA FieldInputs ==
  ASSUME NEW label, NEW node, FieldNode(node)
  PROVE  /\ FieldSpec(Build(label, node))
         /\ PartNode(node) => node.type # "object" /\ Build(label, node) = BuildPart(label, node)
         /\ ~PartNode(node) =>
              /\ node.type = "object" /\ Build(label, node).kind = "object"
              /\ Build(label, node).nullable = node.nullable
              /\ DOMAIN Build(label, node).children = DOMAIN node.members
              /\ \A m \in DOMAIN node.members :
                   /\ PartNode(node.members[m])
                   /\ Build(label, node).children[m] = BuildPart(m, node.members[m])
<1>1. CASE PartNode(node)
  <2>1. node.type # "object"
    BY <1>1 DEF PartNode, LeafNode
  <2> QED BY <1>1, <2>1, PartInputs DEF Build, FieldSpec
<1>2. CASE ~PartNode(node)
  <2> DEFINE spec == BuildObject(BuildPart, node)
  <2>1. /\ node.type = "object" /\ node.nullable \in BOOLEAN
        /\ \A m \in DOMAIN node.members : PartNode(node.members[m])
    BY <1>2 DEF FieldNode
  <2>2. /\ spec.kind = "object" /\ spec.nullable = node.nullable
        /\ DOMAIN spec.children = DOMAIN node.members
        /\ \A m \in DOMAIN node.members : spec.children[m] = BuildPart(m, node.members[m])
    BY DEF BuildObject
  <2>3. \A m \in DOMAIN node.members : PartSpec(BuildPart(m, node.members[m]))
    BY <2>1, PartInputs
  <2>4. Build(label, node) = spec
    BY <2>1 DEF Build
  <2> HIDE DEF spec
  <2> QED BY <1>2, <2>1, <2>2, <2>3, <2>4 DEF FieldSpec
<1> QED BY <1>1, <1>2

-------------------------------------------------------------------------------
(* Forms: texts *)

\* A text, or a list of anything.
IsText(t) == t \in Seq(ToSet(t))

\* A text is a sequence of anything.
LEMMA TextsAreSequences ==
  ASSUME NEW t
  PROVE  IsText(t) <=> \E C : t \in Seq(C)
<1>1. ASSUME NEW C, t \in Seq(C) PROVE IsText(t)
  <2>1. Len(t) \in Nat /\ DOMAIN t = 1..Len(t) /\ t \in [1..Len(t) -> C]
    BY <1>1
  <2>2. t = [i \in 1..Len(t) |-> t[i]] /\ \A i \in 1..Len(t) : t[i] \in ToSet(t)
    BY <2>1 DEF ToSet
  <2>3. t \in [1..Len(t) -> ToSet(t)]
    BY <2>2
  <2> QED BY <2>1, <2>3 DEF IsText
<1> QED BY <1>1 DEF IsText

\* The text between the first and the last of some positions.
LEMMA Margins ==
  ASSUME NEW C, NEW t \in Seq(C), NEW ink \in SUBSET DOMAIN t, NEW a \in ink, NEW b \in ink,
         \A x \in ink : a <= x /\ x <= b
  PROVE  /\ SubSeq(t, a, b) \in Seq(C) /\ Len(SubSeq(t, a, b)) > 0
         /\ SubSeq(t, a, b)[1] = t[a] /\ SubSeq(t, a, b)[Len(SubSeq(t, a, b))] = t[b]
         /\ \A i \in DOMAIN SubSeq(t, a, b) : \E j \in DOMAIN t : SubSeq(t, a, b)[i] = t[j]
         /\ 1 \in ink /\ Len(t) \in ink => SubSeq(t, a, b) = t
<1> DEFINE u == SubSeq(t, a, b)
<1>1. Len(t) \in Nat /\ DOMAIN t = 1..Len(t) /\ ink \in SUBSET (1..Len(t))
  BY Positions
<1>2. a \in ink /\ b \in ink /\ \A x \in ink : a <= x /\ x <= b
  OBVIOUS
<1>4. u = SubSeq(t, a, b)
  OBVIOUS
<1> HIDE DEF u
<1>3. a \in 1..Len(t) /\ b \in 1..Len(t) /\ a <= b
  BY <1>1, <1>2
<1>5. u \in Seq(C) /\ Len(u) = b - a + 1 /\ \A i \in 1..(b - a + 1) : u[i] = t[a + i - 1]
  <2>1. a \in Int /\ b \in Int /\ a <= b /\ a..b \subseteq 1..Len(t)
    BY ONLY <1>1, <1>3
  <2>2. \A i \in a..b : t[i] \in C
    BY <1>1, <2>1
  <2> QED BY ONLY <1>4, <2>1, <2>2, SubSeqProperties
<1>6. 1 \in 1..(b - a + 1) /\ b - a + 1 \in 1..(b - a + 1) /\ a + 1 - 1 = a
      /\ a + (b - a + 1) - 1 = b /\ b - a + 1 > 0
  BY ONLY <1>1, <1>3
<1>7. u[1] = t[a] /\ u[Len(u)] = t[b] /\ Len(u) > 0
  BY <1>5, <1>6
<1>8. \A i \in DOMAIN u : \E j \in DOMAIN t : u[i] = t[j]
  <2> TAKE i \in DOMAIN u
  <2>1. i \in 1..(b - a + 1)
    BY <1>5
  <2>2. a + i - 1 \in 1..Len(t)
    BY ONLY <1>1, <1>3, <2>1
  <2> QED BY <1>1, <1>5, <2>1, <2>2
<1>9. ASSUME 1 \in ink, Len(t) \in ink PROVE u = t
  <2>1. a <= 1 /\ Len(t) <= b
    BY <1>2, <1>9
  <2>2. \A x, y, n \in Int : 1 <= x /\ x <= 1 /\ n <= y /\ y <= n => x = 1 /\ y = n
    OBVIOUS
  <2>3. a \in Int /\ b \in Int /\ Len(t) \in Int /\ 1 <= a /\ b <= Len(t)
    BY ONLY <1>1, <1>3
  <2>4. a = 1 /\ b = Len(t)
    BY ONLY <2>1, <2>2, <2>3
  <2> QED BY <2>4, <1>1, <1>4
<1> QED BY <1>5, <1>7, <1>8, <1>9 DEF u

\* The positions that stripping may not remove.
Inked(t) == {i \in DOMAIN t : t[i] \notin Blank}

\* A stripped text is part of the text, and is left as it is when stripped again.
LEMMA StrippedText ==
  ASSUME NEW C, NEW t \in Seq(C)
  PROVE  /\ Strip(t) \in Seq(C)
         /\ Strip(Strip(t)) = Strip(t)
         /\ \A i \in DOMAIN Strip(t) : \E j \in DOMAIN t : Strip(t)[i] = t[j]
<1>1. \A s : Inked(s) \in SUBSET DOMAIN s
  BY DEF Inked
<1>2. \A s : Strip(s) = IF Inked(s) = {} THEN <<>> ELSE SubSeq(s, Min(Inked(s)), Max(Inked(s)))
  BY DEF Strip, Inked
<1>3. CASE Inked(t) = {}
  <2>1. Strip(t) = <<>>
    BY <1>2, <1>3
  <2>2. <<>> \in Seq(C) /\ DOMAIN <<>> = {}
    OBVIOUS
  <2>3. Strip(<<>>) = <<>>
    BY <1>1, <1>2, <2>2
  <2> QED BY <2>1, <2>2, <2>3
<1>4. ASSUME NEW s \in Seq(C), Inked(s) # {}
      PROVE  /\ Strip(s) \in Seq(C) /\ Len(Strip(s)) > 0
             /\ Strip(s)[1] \notin Blank /\ Strip(s)[Len(Strip(s))] \notin Blank
             /\ \A i \in DOMAIN Strip(s) : \E j \in DOMAIN s : Strip(s)[i] = s[j]
             /\ 1 \in Inked(s) /\ Len(s) \in Inked(s) => Strip(s) = s
  <2>1. PICK ink : ink = Inked(s)
    OBVIOUS
  <2>2. ink \in SUBSET DOMAIN s /\ ink # {} /\ \A x \in ink : s[x] \notin Blank
    BY <1>4, <2>1 DEF Inked
  <2>3. PICK a, b : a = Min(ink) /\ b = Max(ink)
    OBVIOUS
  <2>4. a \in ink /\ b \in ink /\ \A x \in ink : a <= x /\ x <= b
    <3>1. Len(s) \in Nat /\ ink \in SUBSET (1..Len(s))
      BY <2>2, Positions
    <3> QED BY <2>2, <2>3, <3>1, Extremes
  <2>5. Strip(s) = SubSeq(s, a, b)
    BY <1>2, <1>4, <2>1, <2>3
  <2>6. /\ SubSeq(s, a, b) \in Seq(C) /\ Len(SubSeq(s, a, b)) > 0
        /\ SubSeq(s, a, b)[1] = s[a] /\ SubSeq(s, a, b)[Len(SubSeq(s, a, b))] = s[b]
        /\ \A i \in DOMAIN SubSeq(s, a, b) : \E j \in DOMAIN s : SubSeq(s, a, b)[i] = s[j]
        /\ 1 \in ink /\ Len(s) \in ink => SubSeq(s, a, b) = s
    BY ONLY <2>2, <2>4, s \in Seq(C), Margins
  <2> QED BY <2>1, <2>2, <2>4, <2>5, <2>6
<1>5. CASE Inked(t) # {}
  <2>1. PICK u : u = Strip(t)
    OBVIOUS
  <2>2. /\ u \in Seq(C) /\ Len(u) > 0 /\ u[1] \notin Blank /\ u[Len(u)] \notin Blank
        /\ \A i \in DOMAIN u : \E j \in DOMAIN t : u[i] = t[j]
    BY <1>4, <1>5, <2>1
  <2>3. 1 \in DOMAIN u /\ Len(u) \in DOMAIN u
    BY <2>2
  <2>4. 1 \in Inked(u) /\ Len(u) \in Inked(u)
    BY <2>2, <2>3 DEF Inked
  <2>5. Strip(u) = u
    BY <1>4, <2>2, <2>4
  <2> QED BY <2>1, <2>2, <2>5
<1> QED BY <1>3, <1>5

\* All of a sequence is picked.
LEMMA PickedAll ==
  ASSUME NEW n \in Nat, NEW t, t = [i \in 1..n |-> t[i]]
  PROVE  Picked(t, 1..n) = t
<1> DEFINE S == 1..n
           g == [i \in S |-> i]
<1>1. /\ S \in SUBSET Int /\ g \in [S -> S]
      /\ \A k, l \in S : k < l => g[k] < g[l]
      /\ \A x \in S : \E k \in S : g[k] = x
  OBVIOUS
<1> HIDE DEF g
<1>2. Cardinality(S) = n /\ \A k \in S : Ascending(S)[k] = g[k]
  BY <1>1, OrderIsUnique
<1>3. \A k \in S : Ascending(S)[k] = k
  BY <1>2 DEF g
<1>4. Picked(t, S) = [k \in S |-> t[Ascending(S)[k]]]
  BY <1>2 DEF Picked
<1> QED BY <1>3, <1>4

\* What the browser leaves as it is.
LEMMA TypedAsItIs ==
  ASSUME NEW C, NEW t \in Seq(C)
  PROVE  /\ (\A i \in DOMAIN t : t[i] \notin Break) => TypedIn(t) = t
         /\ (\A i \in DOMAIN t : t[i] # "nl") => Posted(t) = t
<1>1. Len(t) \in Nat /\ DOMAIN t = 1..Len(t) /\ t = [i \in 1..Len(t) |-> t[i]]
  OBVIOUS
<1>2. ASSUME \A i \in DOMAIN t : t[i] \notin Break PROVE TypedIn(t) = t
  <2>1. {i \in DOMAIN t : t[i] \notin Break} = 1..Len(t)
    BY <1>1, <1>2
  <2>2. TypedIn(t) = Picked(t, 1..Len(t))
    BY <2>1 DEF TypedIn
  <2> QED BY <1>1, <2>2, PickedAll
<1>3. ASSUME \A i \in DOMAIN t : t[i] # "nl" PROVE Posted(t) = t
  BY <1>1, <1>3 DEF Posted
<1> QED BY <1>2, <1>3

\* A step of FlattenSeq.
Flatten(seqs, g, i) == IF i = 1 THEN seqs[i] ELSE g[i - 1] \o seqs[i]

\* The recursion over the sequences defines a function.
LEMMA FlattenIsDefined ==
  ASSUME NEW C, NEW seqs \in Seq(Seq(C)), Len(seqs) # 0
  PROVE  \E g : /\ FlattenSeq(seqs) = g[Len(seqs)]
                /\ \A i \in 1..Len(seqs) : g[i] = Flatten(seqs, g, i)
<1> DEFINE n == Len(seqs)
           Good(g, m) == \A k \in 1..n : k <= m => g[k] = Flatten(seqs, g, k)
           G == {m \in Nat : \E g : Good(g, m)}
           Is(g) == g = [k \in 1..n |-> Flatten(seqs, g, k)]
<1>0. n \in Nat
  OBVIOUS
<1> HIDE DEF n
<1>1. 0 \in G
  <2>1. Good([k \in 1..n |-> 0], 0)
    BY <1>0
  <2> HIDE DEF Good
  <2> QED BY <2>1
<1>2. ASSUME NEW m \in G PROVE m + 1 \in G
  <2>1. PICK g : Good(g, m)
    <3> HIDE DEF Good
    <3> QED OBVIOUS
  <2> DEFINE h == [k \in 1..n |-> Flatten(seqs, g, k)]
  <2>2. ASSUME NEW k \in 1..n, k <= m + 1
        PROVE  Flatten(seqs, g, k) = Flatten(seqs, h, k)
    <3>1. CASE k # 1
      <4>1. k - 1 \in 1..n /\ k - 1 <= m
        BY <1>0, <2>2, <3>1
      <4>2. h[k - 1] = g[k - 1]
        BY <2>1, <4>1
      <4> HIDE DEF h
      <4> QED BY <4>2 DEF Flatten
    <3>2. CASE k = 1
      BY <3>2 DEF Flatten
    <3> QED BY <3>1, <3>2
  <2>3. Good(h, m + 1)
    BY <2>2
  <2> HIDE DEF Good, h
  <2> QED BY <2>3
<1>3. G = Nat
  <2>1. G \in SUBSET Nat
    OBVIOUS
  <2> HIDE DEF G
  <2> QED BY <1>1, <1>2, <2>1, NumberInduction
<1>4. PICK g : Good(g, n)
  <2>1. n \in G
    BY <1>0, <1>3
  <2> HIDE DEF Good
  <2> QED BY <2>1
<1>5. \E h : Is(h)
  <2> DEFINE h == [k \in 1..n |-> g[k]]
  <2>1. ASSUME NEW k \in 1..n
        PROVE  h[k] = Flatten(seqs, h, k)
    <3>1. h[k] = Flatten(seqs, g, k)
      BY <1>0, <1>4
    <3>2. k # 1 => h[k - 1] = g[k - 1]
      BY <1>0
    <3> HIDE DEF h
    <3> QED BY <3>1, <3>2 DEF Flatten
  <2>2. h = [k \in 1..n |-> h[k]]
    OBVIOUS
  <2>3. [k \in 1..n |-> h[k]] = [k \in 1..n |-> Flatten(seqs, h, k)]
    <3> HIDE DEF h
    <3> QED BY <2>1
  <2>4. Is(h)
    <3> HIDE DEF h
    <3> QED BY <2>2, <2>3
  <2> HIDE DEF Is, h
  <2> QED BY <2>4
<1>6. FlattenSeq(seqs) = (CHOOSE h : Is(h))[n]
  BY DEF FlattenSeq, Flatten, n
<1>7. PICK h : h = CHOOSE g1 : Is(g1)
  OBVIOUS
<1>8. Is(h)
  <2> HIDE DEF Is
  <2> QED BY <1>5, <1>7
<1>9. \A k \in 1..n : h[k] = Flatten(seqs, h, k)
  BY <1>8
<1> HIDE DEF Is
<1> QED BY <1>6, <1>7, <1>9 DEF n

\* The first k of the sequences, joined to J[k], end at pos[1] to pos[k].
Laid(C, seqs, J, pos, k) ==
  /\ J[k] \in Seq(C) /\ pos[k] = Len(J[k])
  /\ \A j \in 0..(k - 1) : pos[j] \in Nat /\ pos[j] < pos[k]
  /\ \A j \in 1..k : /\ pos[j] = pos[j - 1] + Len(seqs[j])
                     /\ \A i \in 1..Len(seqs[j]) : J[k][pos[j - 1] + i] = seqs[j][i]
  /\ \A i \in 1..pos[k] : \E j \in 1..k : pos[j - 1] < i /\ i <= pos[j]

\* One more text is joined to those before it.
LEMMA LaidOneMore ==
  ASSUME NEW C, NEW seqs, NEW J, NEW pos, NEW k \in Nat, NEW s, s = seqs[k + 1],
         NEW l, l = J[k], s \in Seq(C), s # <<>>,
         J[k + 1] = l \o s, pos[k + 1] = Len(J[k + 1]), Laid(C, seqs, J, pos, k),
         \A j \in 1..k : Len(seqs[j]) \in Nat
  PROVE  Laid(C, seqs, J, pos, k + 1)
<1>1. /\ s \in Seq(C) /\ Len(s) \in Nat \ {0} /\ l \in Seq(C) /\ Len(l) \in Nat
      /\ pos[k] = Len(l)
  BY DEF Laid
<1>2. /\ J[k + 1] \in Seq(C) /\ pos[k + 1] = Len(l) + Len(s)
      /\ \A i \in 1..Len(l) : J[k + 1][i] = l[i]
      /\ \A i \in 1..Len(s) : J[k + 1][Len(l) + i] = s[i]
  <2>1. /\ l \o s \in Seq(C) /\ Len(l \o s) = Len(l) + Len(s)
        /\ \A i \in 1 .. Len(l) + Len(s) :
             (l \o s)[i] = IF i <= Len(l) THEN l[i] ELSE s[i - Len(l)]
    BY ONLY <1>1, ConcatProperties
  <2>2. ASSUME NEW i \in 1..Len(l) PROVE (l \o s)[i] = l[i]
    <3>1. i \in 1 .. Len(l) + Len(s) /\ i <= Len(l)
      BY ONLY <1>1, i \in 1..Len(l)
    <3> QED BY ONLY <2>1, <3>1
  <2>3. ASSUME NEW i \in 1..Len(s) PROVE (l \o s)[Len(l) + i] = s[i]
    <3>1. Len(l) + i \in 1 .. Len(l) + Len(s) /\ ~(Len(l) + i <= Len(l)) /\ Len(l) + i - Len(l) = i
      BY ONLY <1>1, i \in 1..Len(s)
    <3> QED BY ONLY <2>1, <3>1
  <2> QED BY <1>1, <2>1, <2>2, <2>3
<1>3. /\ \A j \in 0..(k - 1) : pos[j] \in Nat /\ pos[j] < pos[k]
      /\ \A j \in 1..k : /\ pos[j] = pos[j - 1] + Len(seqs[j])
                         /\ \A i \in 1..Len(seqs[j]) : l[pos[j - 1] + i] = seqs[j][i]
      /\ \A i \in 1..pos[k] : \E j \in 1..k : pos[j - 1] < i /\ i <= pos[j]
  BY DEF Laid
<1>4. \A j \in 0..k : pos[j] \in Nat /\ pos[j] <= pos[k] /\ pos[j] < pos[k + 1]
  <2> TAKE j \in 0..k
  <2>1. j = k \/ j \in 0..(k - 1)
    BY ONLY k \in Nat, j \in 0..k
  <2>2. pos[j] \in Nat /\ pos[j] <= pos[k]
    BY ONLY <1>1, <1>3, <2>1
  <2> QED BY ONLY <1>1, <1>2, <2>2
<1>5. ASSUME NEW j \in 1..(k + 1)
      PROVE  /\ pos[j] = pos[j - 1] + Len(seqs[j])
             /\ \A i \in 1..Len(seqs[j]) : J[k + 1][pos[j - 1] + i] = seqs[j][i]
  <2>1. CASE j = k + 1
    <3>1. j - 1 = k /\ seqs[j] = s
      BY <2>1
    <3>2. pos[j - 1] = Len(l) /\ pos[j] = Len(l) + Len(s) /\ J[j] = J[k + 1]
      BY ONLY <1>1, <1>2, <2>1, <3>1
    <3> QED BY ONLY <1>2, <3>1, <3>2
  <2>2. CASE j # k + 1
    <3>1. j \in 1..k /\ j \in 0..k /\ j - 1 \in 0..k
      BY ONLY k \in Nat, <2>2, j \in 1..(k + 1)
    <3>2. /\ pos[j] = pos[j - 1] + Len(seqs[j]) /\ pos[j] <= pos[k]
          /\ pos[j] \in Nat /\ pos[j - 1] \in Nat /\ Len(seqs[j]) \in Nat
      BY <1>3, <1>4, <3>1
    <3>3. ASSUME NEW i \in 1..Len(seqs[j]) PROVE J[k + 1][pos[j - 1] + i] = seqs[j][i]
      <4>1. pos[j - 1] + i \in 1..Len(l)
        BY ONLY <1>1, <3>2, i \in 1..Len(seqs[j])
      <4>2. l[pos[j - 1] + i] = seqs[j][i]
        BY <1>3, <3>1
      <4> QED BY <1>2, <4>1, <4>2
    <3> QED BY <3>2, <3>3
  <2> QED BY <2>1, <2>2
<1>6. ASSUME NEW i \in 1..pos[k + 1] PROVE \E j \in 1..(k + 1) : pos[j - 1] < i /\ i <= pos[j]
  <2>1. CASE i <= pos[k]
    <3>1. i \in 1..pos[k]
      BY ONLY <1>1, <1>2, <2>1, i \in 1..pos[k + 1]
    <3>2. PICK j \in 1..k : pos[j - 1] < i /\ i <= pos[j]
      BY <1>3, <3>1
    <3>3. j \in 1..(k + 1)
      BY ONLY k \in Nat, j \in 1..k
    <3> QED BY <3>2, <3>3
  <2>2. CASE ~(i <= pos[k])
    <3>1. pos[k] < i /\ i <= pos[k + 1]
      BY ONLY <1>1, <1>2, <2>2, i \in 1..pos[k + 1]
    <3>2. k + 1 \in 1..(k + 1) /\ k + 1 - 1 = k
      OBVIOUS
    <3> QED BY ONLY <3>1, <3>2
  <2> QED BY <2>1, <2>2
<1>7. PICK m : m = k + 1
  OBVIOUS
<1>8. m - 1 = k
  BY <1>7
<1>9. /\ J[m] \in Seq(C) /\ pos[m] = Len(J[m])
      /\ \A j \in 0..(m - 1) : pos[j] \in Nat /\ pos[j] < pos[m]
  BY <1>2, <1>4, <1>7, <1>8
<1>10. \A j \in 1..m : /\ pos[j] = pos[j - 1] + Len(seqs[j])
                       /\ \A i \in 1..Len(seqs[j]) : J[m][pos[j - 1] + i] = seqs[j][i]
  BY <1>5, <1>7
<1>11. \A i \in 1..pos[m] : \E j \in 1..m : pos[j - 1] < i /\ i <= pos[j]
  BY <1>6, <1>7
<1>12. Laid(C, seqs, J, pos, m)
  BY ONLY <1>9, <1>10, <1>11, Zenon DEF Laid
<1> QED BY <1>7, <1>12

\* The sequences are joined to t, in which they end at pos[1] to pos[n].
Joined(seqs, t, n, pos) ==
  /\ pos \in [0..n -> Nat] /\ pos[0] = 0 /\ pos[n] = Len(t)
  /\ \A k \in 1..n : pos[k] = pos[k - 1] + Len(seqs[k])
  /\ \A j, k \in 0..n : j < k => pos[j] < pos[k]
  /\ \A k \in 1..n : \A i \in 1..Len(seqs[k]) : t[pos[k - 1] + i] = seqs[k][i]
  /\ \A i \in 1..pos[n] : \E k \in 1..n : pos[k - 1] < i /\ i <= pos[k]

\* Where each of the sequences is found in the sequence of all their elements.
LEMMA FlattenedIs ==
  ASSUME NEW C, NEW seqs \in Seq(Seq(C)), NEW n, n = Len(seqs),
         \A k \in 1..n : seqs[k] # <<>>
  PROVE  /\ FlattenSeq(seqs) \in Seq(C)
         /\ \E pos : Joined(seqs, FlattenSeq(seqs), n, pos)
<1>1. n \in Nat /\ \A k \in 1..n : seqs[k] \in Seq(C) /\ Len(seqs[k]) \in Nat \ {0}
  OBVIOUS
<1>2. \E J : /\ J[0] = <<>> /\ J[n] = FlattenSeq(seqs)
             /\ \A k \in 1..n : J[k] = J[k - 1] \o seqs[k]
  <2>1. CASE n = 0
    <3>1. FlattenSeq(seqs) = seqs
      BY <2>1, Zenon DEF FlattenSeq
    <3>2. seqs = <<>>
      BY <2>1, EmptySeq
    <3> DEFINE J == [k \in 0..n |-> <<>>]
    <3>3. J[0] = <<>> /\ J[n] = <<>> /\ 1..n = {}
      BY <2>1
    <3> HIDE DEF J
    <3> QED BY <3>1, <3>2, <3>3
  <2>2. CASE n # 0
    <3>1. PICK g : /\ FlattenSeq(seqs) = g[n]
                   /\ \A i \in 1..n : g[i] = Flatten(seqs, g, i)
      BY <2>2, FlattenIsDefined
    <3> DEFINE J == [k \in 0..n |-> IF k = 0 THEN <<>> ELSE g[k]]
    <3>2. J[0] = <<>> /\ \A k \in 1..n : J[k] = g[k]
      BY <1>1
    <3>3. n \in 1..n
      BY <1>1, <2>2
    <3> HIDE DEF J
    <3>4. ASSUME NEW k \in 1..n PROVE J[k] = J[k - 1] \o seqs[k]
      <4>1. CASE k = 1
        <5>1. J[k] = seqs[k]
          BY <3>1, <3>2, <4>1 DEF Flatten
        <5>2. J[k - 1] = <<>>
          <6>1. k - 1 = 0
            BY <4>1
          <6> QED BY <3>2, <6>1
        <5> QED BY <1>1, <5>1, <5>2, ConcatEmptySeq
      <4>2. CASE k # 1
        <5>1. k - 1 \in 1..n
          BY <1>1, <4>2
        <5> QED BY <3>1, <3>2, <4>2, <5>1 DEF Flatten
      <4> QED BY <4>1, <4>2
    <3> QED BY <3>1, <3>2, <3>3, <3>4
  <2> QED BY <2>1, <2>2
<1>3. PICK J : /\ J[0] = <<>> /\ J[n] = FlattenSeq(seqs)
               /\ \A k \in 1..n : J[k] = J[k - 1] \o seqs[k]
  BY <1>2
<1> DEFINE pos == [k \in 0..n |-> Len(J[k])]
           G == {k \in Nat : k <= n => Laid(C, seqs, J, pos, k)}
<1>4. \A k \in 0..n : pos[k] = Len(J[k])
  OBVIOUS
<1> HIDE DEF pos
<1>5. 0 \in G
  <2>1. J[0] \in Seq(C) /\ pos[0] = 0 /\ Len(J[0]) = 0
    <3>1. 0 \in 0..n /\ <<>> \in Seq(C) /\ Len(<<>>) = 0
      BY <1>1
    <3> QED BY <1>3, <1>4, <3>1
  <2>2. 0..(0 - 1) = {} /\ 1..0 = {}
    OBVIOUS
  <2>3. Laid(C, seqs, J, pos, 0)
    BY <2>1, <2>2 DEF Laid
  <2> QED BY <2>3
<1>6. ASSUME NEW k \in G PROVE k + 1 \in G
  <2>1. k \in Nat /\ (k <= n => Laid(C, seqs, J, pos, k))
    OBVIOUS
  <2>2. ASSUME k + 1 <= n PROVE Laid(C, seqs, J, pos, k + 1)
    <3>1. k <= n /\ k + 1 \in 1..n /\ k + 1 \in 0..n /\ k + 1 - 1 = k /\ 1..k \subseteq 1..n
      BY ONLY <1>1, <2>1, <2>2
    <3>2. seqs[k + 1] \in Seq(C) /\ seqs[k + 1] # <<>> /\ J[k + 1] = J[k] \o seqs[k + 1]
          /\ pos[k + 1] = Len(J[k + 1]) /\ \A j \in 1..k : Len(seqs[j]) \in Nat
      <4>1. J[k + 1] = J[k] \o seqs[k + 1]
        <5> PICK m \in 1..n : m = k + 1
          BY <3>1
        <5>1. J[m] = J[m - 1] \o seqs[m]
          BY <1>3
        <5>2. m - 1 = k
          BY <3>1
        <5> QED BY <5>1, <5>2
      <4> QED BY <1>1, <1>4, <3>1, <4>1
    <3> QED BY <2>1, <3>1, <3>2, LaidOneMore
  <2>3. k + 1 \in Nat
    BY <2>1
  <2> QED BY <2>2, <2>3
<1>7. G = Nat
  <2>1. G \in SUBSET Nat
    OBVIOUS
  <2> HIDE DEF G
  <2> QED BY <1>5, <1>6, <2>1, NumberInduction
<1>8. \A k \in 0..n : Laid(C, seqs, J, pos, k)
  <2> TAKE k \in 0..n
  <2>1. k \in Nat /\ k <= n
    BY <1>1
  <2> QED BY <1>7, <2>1
<1>9. n \in 0..n /\ 0 \in 0..n
  BY <1>1
<1>10. \A k \in 0..n : pos[k] \in Nat
  BY <1>4, <1>8 DEF Laid
<1>11. pos \in [0..n -> Nat]
  <2>1. pos = [k \in 0..n |-> pos[k]]
    BY DEF pos
  <2> QED BY <1>10, <2>1
<1>12. \A j, k \in 0..n : j < k => pos[j] < pos[k]
  <2> TAKE j \in 0..n, k \in 0..n
  <2>1. ASSUME j < k PROVE pos[j] < pos[k]
    <3>1. j \in 0..(k - 1)
      BY <1>1, <2>1
    <3> QED BY <1>8, <3>1 DEF Laid
  <2> QED BY <2>1
<1>13. pos[n] = Len(FlattenSeq(seqs)) /\ pos[0] = 0 /\ FlattenSeq(seqs) \in Seq(C)
  <2>1. J[n] \in Seq(C) /\ pos[n] = Len(J[n]) /\ pos[0] = Len(J[0]) /\ Len(<<>>) = 0
    BY <1>8, <1>9, <1>4 DEF Laid
  <2> QED BY <1>3, <2>1
<1>14. /\ \A k \in 1..n : /\ pos[k] = pos[k - 1] + Len(seqs[k])
                          /\ \A i \in 1..Len(seqs[k]) : J[n][pos[k - 1] + i] = seqs[k][i]
       /\ \A i \in 1..pos[n] : \E k \in 1..n : pos[k - 1] < i /\ i <= pos[k]
  <2>1. Laid(C, seqs, J, pos, n)
    BY <1>8, <1>9
  <2> QED BY <2>1 DEF Laid
<1>15. \A k \in 1..n : /\ pos[k] = pos[k - 1] + Len(seqs[k])
                      /\ \A i \in 1..Len(seqs[k]) : FlattenSeq(seqs)[pos[k - 1] + i] = seqs[k][i]
  BY <1>3, <1>14
<1>16. Joined(seqs, FlattenSeq(seqs), n, pos)
  BY ONLY <1>11, <1>12, <1>13, <1>14, <1>15, Zenon DEF Joined
<1> QED BY <1>13, <1>16

\* The least of some integers.
LEMMA LeastIs ==
  ASSUME NEW S \in SUBSET Int, NEW m \in S, \A x \in S : m <= x
  PROVE  Min(S) = m
<1>1. Min(S) = CHOOSE x \in S : \A y \in S : x <= y
  BY DEF Min
<1>2. \A x \in S : (\A y \in S : x <= y) => x = m
  OBVIOUS
<1> QED BY <1>1, <1>2

\* The line between two line breaks.
LEMMA LineBetween ==
  ASSUME NEW C, NEW t \in Seq(C), NEW a \in Nat, NEW b \in Nat, a < b, b <= Len(t),
         t[b] \in Break, \A i \in (a + 1)..(b - 1) : t[i] \notin Break,
         NEW line \in Seq(C), Len(line) = b - 1 - a, Strip(line) = line,
         \A i \in 1..Len(line) : t[a + i] = line[i]
  PROVE  LineAfter(t, a) = line
<1> DEFINE S == {c \in (a + 1)..Len(t) : t[c] \in Break} \cup {Len(t) + 1}
<1>1. Len(t) \in Nat
  OBVIOUS
<1>2. S \in SUBSET Int /\ b \in S
  BY <1>1
<1>3. ASSUME NEW c \in S PROVE b <= c
  <2>1. CASE c = Len(t) + 1
    BY <1>1, <2>1
  <2>2. CASE c \in (a + 1)..Len(t) /\ t[c] \in Break
    <3>1. c \in Int /\ a + 1 <= c
      BY <1>1, <2>2
    <3>2. ~(c \in (a + 1)..(b - 1))
      BY <2>2
    <3> QED BY ONLY <3>1, <3>2, b \in Nat
  <2> QED BY <2>1, <2>2
<1>4. Min(S) = b
  <2> HIDE DEF S
  <2> QED BY <1>2, <1>3, LeastIs
<1>5. LineAfter(t, a) = Strip(SubSeq(t, a + 1, b - 1))
  BY <1>4 DEF LineAfter
<1>6. SubSeq(t, a + 1, b - 1) = line
  <2> PICK u : u = SubSeq(t, a + 1, b - 1)
    OBVIOUS
  <2>1. /\ a + 1 \in Int /\ b - 1 \in Int /\ DOMAIN t = 1..Len(t)
        /\ (a + 1)..(b - 1) \subseteq 1..Len(t)
    BY <1>1
  <2>2. \A i \in (a + 1)..(b - 1) : t[i] \in C
    BY <2>1
  <2>3. /\ u \in Seq(C)
        /\ Len(u) = IF a + 1 <= b - 1 THEN b - 1 - (a + 1) + 1 ELSE 0
        /\ \A i \in 1 .. b - 1 - (a + 1) + 1 : u[i] = t[a + 1 + i - 1]
    <3>1. PICK p \in Int, q \in Int : p = a + 1 /\ q = b - 1
      BY <2>1
    <3>2. u = SubSeq(t, p, q) /\ \A i \in p..q : t[i] \in C
      BY <2>2, <3>1
    <3>3. /\ u \in Seq(C) /\ Len(u) = IF p <= q THEN q - p + 1 ELSE 0
          /\ \A i \in 1 .. q - p + 1 : u[i] = t[p + i - 1]
      BY ONLY <3>1, <3>2, SubSeqProperties
    <3> QED BY <3>1, <3>3
  <2>4. Len(line) \in Nat /\ Len(u) = Len(line)
        /\ 1 .. b - 1 - (a + 1) + 1 = 1..Len(line)
    BY ONLY <2>3, a \in Nat, b \in Nat, a < b, Len(line) = b - 1 - a
  <2>5. ASSUME NEW i \in 1..Len(line) PROVE u[i] = line[i]
    <3>1. u[i] = t[a + 1 + i - 1] /\ a + 1 + i - 1 = a + i
      BY <2>3, <2>4
    <3> QED BY <3>1
  <2> QED BY <2>3, <2>4, <2>5
<1> QED BY <1>5, <1>6

\* No line comes after the end of a text.
LEMMA NoLineAfterTheEnd ==
  ASSUME NEW C, NEW t \in Seq(C)
  PROVE  LineAfter(t, Len(t)) = <<>>
<1> DEFINE n == Len(t)
           S == {c \in (n + 1)..n : t[c] \in Break} \cup {n + 1}
<1>1. n \in Nat
  OBVIOUS
<1> HIDE DEF n
<1>2. S = {n + 1}
  BY <1>1
<1>3. Min(S) = n + 1
  <2>1. S \in SUBSET Int /\ n + 1 \in S /\ \A x \in S : n + 1 <= x
    BY <1>1, <1>2
  <2> HIDE DEF S
  <2> QED BY <2>1, LeastIs
<1>4. LineAfter(t, n) = Strip(SubSeq(t, n + 1, n + 1 - 1))
  BY <1>3 DEF LineAfter, n
<1>5. SubSeq(t, n + 1, n + 1 - 1) = <<>>
  BY <1>1, SubSeqEmpty
<1>6. Strip(<<>>) = <<>>
  BY DEF Strip
<1> QED BY <1>4, <1>5, <1>6 DEF n

\* Whether a text is a line that splitting leaves as it is.
IsLine(t) ==
  IsText(t) /\ t # <<>> /\ Strip(t) = t /\ \A i \in DOMAIN t : t[i] \notin Break

\* Lines that are joined are split again.
LEMMA JoinedLinesSplit ==
  ASSUME NEW ls, IsText(ls), \A k \in DOMAIN ls : IsLine(ls[k])
  PROVE  SplitLines(FlattenSeq([i \in DOMAIN ls |-> Posted(ls[i]) \o <<"crlf">>])) = ls
<1> DEFINE n == Len(ls)
           seqs == [i \in DOMAIN ls |-> Posted(ls[i]) \o <<"crlf">>]
           t == FlattenSeq(seqs)
           D == UNION {ToSet(ls[k]) : k \in DOMAIN ls}
           C == D \cup {"crlf"}
<1>1. n \in Nat /\ DOMAIN ls = 1..n /\ ls = [k \in 1..n |-> ls[k]]
  BY DEF IsText
<1> HIDE DEF n
<1>2. ASSUME NEW k \in 1..n
      PROVE  /\ ls[k] \in Seq(C) /\ Len(ls[k]) \in Nat \ {0} /\ Strip(ls[k]) = ls[k]
             /\ \A i \in 1..Len(ls[k]) : ls[k][i] \notin Break
             /\ seqs[k] \in Seq(C) /\ Len(seqs[k]) = Len(ls[k]) + 1
             /\ \A i \in 1..Len(ls[k]) : seqs[k][i] = ls[k][i]
             /\ seqs[k][Len(ls[k]) + 1] = "crlf"
  <2>1. /\ ls[k] \in Seq(ToSet(ls[k])) /\ ls[k] # <<>> /\ Strip(ls[k]) = ls[k]
        /\ \A i \in DOMAIN ls[k] : ls[k][i] \notin Break
    BY <1>1 DEF IsLine, IsText
  <2>a. ToSet(ls[k]) \subseteq C
    BY <1>1
  <2>b. "crlf" \in C
    <3> HIDE DEF D
    <3> QED OBVIOUS
  <2> HIDE DEF C
  <2>2. ToSet(ls[k]) \subseteq C /\ <<"crlf">> \in Seq(C)
    BY <2>a, <2>b
  <2> PICK l : l = ls[k]
    OBVIOUS
  <2>3. l \in Seq(C) /\ Len(l) \in Nat \ {0} /\ DOMAIN l = 1..Len(l)
    BY <2>1, <2>2
  <2>4. Posted(l) = l
    <3>1. \A i \in DOMAIN l : l[i] # "nl"
      BY <2>1 DEF Break
    <3> QED BY <2>3, <3>1, TypedAsItIs
  <2>5. seqs[k] = l \o <<"crlf">>
    BY <1>1, <2>4
  <2>6. /\ l \o <<"crlf">> \in Seq(C) /\ Len(l \o <<"crlf">>) = Len(l) + 1
        /\ \A i \in 1 .. Len(l) + 1 :
             (l \o <<"crlf">>)[i] = IF i <= Len(l) THEN l[i] ELSE <<"crlf">>[i - Len(l)]
    <3>1. Len(<<"crlf">>) = 1
      OBVIOUS
    <3> QED BY ONLY <2>2, <2>3, <3>1, ConcatProperties
  <2>7. ASSUME NEW i \in 1..Len(l) PROVE (l \o <<"crlf">>)[i] = l[i]
    <3>1. i \in 1 .. Len(l) + 1 /\ i <= Len(l)
      BY ONLY <2>3, i \in 1..Len(l)
    <3> QED BY ONLY <2>6, <3>1
  <2>8. (l \o <<"crlf">>)[Len(l) + 1] = "crlf"
    <3>1. Len(l) + 1 \in 1 .. Len(l) + 1 /\ ~(Len(l) + 1 <= Len(l)) /\ Len(l) + 1 - Len(l) = 1
      BY ONLY <2>3
    <3>2. <<"crlf">>[1] = "crlf"
      OBVIOUS
    <3> QED BY ONLY <2>6, <3>1, <3>2
  <2> HIDE DEF seqs
  <2> QED BY <2>1, <2>3, <2>5, <2>6, <2>7, <2>8
<1>3. Len(seqs) = n /\ seqs \in Seq(Seq(C)) /\ \A k \in 1..n : seqs[k] # <<>>
  <2>1. seqs = [k \in 1..n |-> seqs[k]]
    BY <1>1
  <2> HIDE DEF seqs, C
  <2>2. \A k \in 1..n : seqs[k] \in Seq(C)
    BY <1>2
  <2>3. seqs \in [1..n -> Seq(C)]
    BY <2>1, <2>2
  <2>4. seqs \in Seq(Seq(C)) /\ Len(seqs) = n
    BY <1>1, <2>3
  <2>5. \A k \in 1..n : seqs[k] # <<>>
    <3> TAKE k \in 1..n
    <3>1. Len(seqs[k]) # 0
      BY <1>2
    <3> QED BY <3>1, EmptySeq
  <2> QED BY <2>4, <2>5
<1> HIDE DEF C, D, seqs
<1>4. PICK pos : Joined(seqs, t, n, pos)
  BY <1>3, FlattenedIs
<1>a. /\ pos \in [0..n -> Nat] /\ pos[0] = 0 /\ pos[n] = Len(t)
      /\ \A k \in 1..n : pos[k] = pos[k - 1] + Len(seqs[k])
      /\ \A j, k \in 0..n : j < k => pos[j] < pos[k]
      /\ \A k \in 1..n : \A i \in 1..Len(seqs[k]) : t[pos[k - 1] + i] = seqs[k][i]
      /\ \A i \in 1..pos[n] : \E k \in 1..n : pos[k - 1] < i /\ i <= pos[k]
  BY <1>4 DEF Joined
<1>5. t \in Seq(C)
  BY <1>3, FlattenedIs
<1> HIDE DEF t
<1>6. ASSUME NEW k \in 1..n
      PROVE  /\ pos[k - 1] \in Nat /\ pos[k] \in Nat /\ pos[k - 1] < pos[k] /\ pos[k] <= Len(t)
             /\ pos[k] = pos[k - 1] + Len(ls[k]) + 1
             /\ t[pos[k]] = "crlf"
             /\ \A i \in 1..Len(ls[k]) : t[pos[k - 1] + i] = ls[k][i]
  <2>1. k \in 0..n /\ k - 1 \in 0..n /\ n \in 0..n /\ (k = n \/ k < n)
    BY <1>1
  <2>2. pos[k - 1] \in Nat /\ pos[k] \in Nat /\ pos[k] <= Len(t)
    <3>1. pos[k - 1] \in Nat /\ pos[k] \in Nat /\ pos[n] \in Nat
      BY <1>a, <2>1
    <3>2. k < n => pos[k] < pos[n]
      BY <1>a, <2>1
    <3>3. pos[k] <= pos[n]
      BY ONLY <2>1, <3>1, <3>2
    <3> QED BY <1>a, <3>1, <3>3
  <2>3. pos[k] = pos[k - 1] + Len(ls[k]) + 1 /\ Len(ls[k]) \in Nat
    BY <1>2, <1>a, <2>2
  <2>4. Len(ls[k]) + 1 \in 1..Len(seqs[k]) /\ 1..Len(ls[k]) \subseteq 1..Len(seqs[k])
    BY <1>2, <2>3
  <2>5. t[pos[k - 1] + (Len(ls[k]) + 1)] = "crlf"
    BY <1>2, <1>a, <2>4
  <2>6. pos[k - 1] + (Len(ls[k]) + 1) = pos[k]
    BY <2>2, <2>3
  <2>7. \A i \in 1..Len(ls[k]) : t[pos[k - 1] + i] = ls[k][i]
    BY <1>2, <1>a, <2>4
  <2>8. pos[k - 1] < pos[k]
    BY ONLY <2>2, <2>3
  <2>9. t[pos[k]] = "crlf"
    BY ONLY <2>5, <2>6
  <2> QED BY ONLY <2>2, <2>3, <2>7, <2>8, <2>9
<1>7. ASSUME NEW k \in 1..n, NEW i \in (pos[k - 1] + 1)..(pos[k] - 1)
      PROVE  t[i] \notin Break
  <2>1. Len(ls[k]) \in Nat
    BY <1>2
  <2>2. PICK j : j = i - pos[k - 1]
    OBVIOUS
  <2>3. j \in 1..Len(ls[k]) /\ pos[k - 1] + j = i
    <3>1. pos[k - 1] \in Nat /\ pos[k] \in Nat /\ pos[k] = pos[k - 1] + Len(ls[k]) + 1
      BY <1>6
    <3> QED BY ONLY <2>1, <2>2, <3>1, i \in (pos[k - 1] + 1)..(pos[k] - 1)
  <2> QED BY <1>2, <1>6, <2>3
<1>8. \A k \in 1..n : LineAfter(t, pos[k - 1]) = ls[k]
  <2> TAKE k \in 1..n
  <2>1. "crlf" \in Break
    BY DEF Break
  <2>2. Len(ls[k]) = pos[k] - 1 - pos[k - 1]
    BY <1>2, <1>6
  <2>3. PICK line, a, b : line = ls[k] /\ a = pos[k - 1] /\ b = pos[k]
    OBVIOUS
  <2>4. /\ a \in Nat /\ b \in Nat /\ a < b /\ b <= Len(t) /\ t[b] \in Break
        /\ \A i \in (a + 1)..(b - 1) : t[i] \notin Break
        /\ line \in Seq(C) /\ Len(line) = b - 1 - a /\ Strip(line) = line
        /\ \A i \in 1..Len(line) : t[a + i] = line[i]
    BY <1>2, <1>6, <1>7, <2>1, <2>2, <2>3
  <2>5. LineAfter(t, a) = line
    BY ONLY <1>5, <2>4, LineBetween
  <2> QED BY <2>3, <2>5
<1>9. LineAfter(t, pos[n]) = <<>>
  BY <1>a, <1>5, NoLineAfterTheEnd
<1> DEFINE starts == {i \in {0} \cup {b \in DOMAIN t : t[b] \in Break} : LineAfter(t, i) # <<>>}
           g == [k \in 1..n |-> pos[k - 1]]
<1>10. ASSUME NEW k \in 1..n PROVE g[k] \in starts
  <2>1. LineAfter(t, pos[k - 1]) # <<>>
    BY <1>2, <1>8
  <2>2. CASE k = 1
    BY <1>a, <2>1, <2>2
  <2>3. CASE k # 1
    <3>1. k - 1 \in 1..n
      BY <1>1, <2>3
    <3>2. pos[k - 1] \in Nat \ {0} /\ pos[k - 1] <= Len(t) /\ t[pos[k - 1]] \in Break
      BY <1>6, <3>1 DEF Break
    <3>3. pos[k - 1] \in DOMAIN t
      BY <1>5, <3>2
    <3> QED BY <2>1, <3>2, <3>3
  <2> QED BY <2>2, <2>3
<1>11. ASSUME NEW i \in starts PROVE \E k \in 1..n : g[k] = i
  <2>1. CASE i = 0
    <3>1. n # 0
      BY <1>a, <1>9, <2>1
    <3>2. 1 \in 1..n /\ 1 - 1 = 0
      BY <1>1, <3>1
    <3> QED BY <1>a, <2>1, <3>2
  <2>2. CASE i \in DOMAIN t /\ t[i] \in Break
    <3>1. i \in 1..pos[n]
      BY <1>a, <1>5, <2>2
    <3>2. PICK k \in 1..n : pos[k - 1] < i /\ i <= pos[k]
      BY <1>a, <3>1
    <3>3. i = pos[k]
      <4>1. ~(i \in (pos[k - 1] + 1)..(pos[k] - 1))
        BY <1>7, <2>2
      <4>2. i \in Nat /\ pos[k] \in Nat /\ pos[k - 1] \in Nat
        BY <1>6, <3>1
      <4> QED BY ONLY <3>2, <4>1, <4>2
    <3>4. k # n
      BY <1>9, <3>3
    <3>5. k + 1 \in 1..n /\ k + 1 - 1 = k
      BY <1>1, <3>4
    <3> QED BY <3>3, <3>5
  <2> QED BY <2>1, <2>2
<1>12. starts \in SUBSET Int
  BY <1>5
<1>13. \A k, l \in 1..n : k < l => g[k] < g[l]
  <2> TAKE k \in 1..n, l \in 1..n
  <2>1. k - 1 \in 0..n /\ l - 1 \in 0..n /\ (k < l => k - 1 < l - 1)
    BY <1>1
  <2> QED BY <1>a, <2>1
<1>14. g \in [1..n -> starts]
  <2> HIDE DEF starts
  <2>1. \A k \in 1..n : g[k] \in starts
    BY <1>10
  <2> QED BY <2>1
<1>15. SplitLines(t) = Picked([i \in starts |-> LineAfter(t, i)], starts)
  BY DEF SplitLines
<1>16. \A k \in 1..n : LineAfter(t, g[k]) = ls[k]
  BY <1>8
<1> HIDE DEF starts, g
<1>17. Cardinality(starts) = n /\ \A k \in 1..n : Ascending(starts)[k] = g[k]
  BY <1>1, <1>11, <1>12, <1>13, <1>14, OrderIsUnique
<1>18. SplitLines(t) = [k \in 1..n |-> LineAfter(t, g[k])]
  <2>1. Picked([i \in starts |-> LineAfter(t, i)], starts)
          = [k \in 1..n |-> [i \in starts |-> LineAfter(t, i)][Ascending(starts)[k]]]
    BY <1>17 DEF Picked
  <2>2. \A k \in 1..n : [i \in starts |-> LineAfter(t, i)][Ascending(starts)[k]]
                            = LineAfter(t, g[k])
    BY <1>14, <1>17
  <2> QED BY <1>15, <2>1, <2>2
<1>19. SplitLines(t) = ls
  BY <1>1, <1>16, <1>18
<1> QED BY <1>19 DEF t, seqs

\* A line has no line break and nothing around it.
LEMMA LinesAreStripped ==
  ASSUME NEW C, NEW t \in Seq(C), NEW a \in 0..Len(t)
  PROVE  /\ LineAfter(t, a) \in Seq(C) /\ Strip(LineAfter(t, a)) = LineAfter(t, a)
         /\ \A i \in DOMAIN LineAfter(t, a) : LineAfter(t, a)[i] \notin Break
<1> DEFINE S == {c \in (a + 1)..Len(t) : t[c] \in Break} \cup {Len(t) + 1}
           b == Min(S)
           u == SubSeq(t, a + 1, b - 1)
<1>1. Len(t) \in Nat /\ DOMAIN t = 1..Len(t) /\ a \in Nat /\ a <= Len(t)
  OBVIOUS
<1>2. /\ S \in SUBSET (1..(Len(t) + 1)) /\ S # {}
      /\ \A c \in S : a + 1 <= c
      /\ \A c \in 1..Len(t) : a + 1 <= c /\ t[c] \in Break => c \in S
  BY <1>1
<1>3. b \in S /\ \A c \in S : b <= c
  <2>1. Len(t) + 1 \in Nat
    BY <1>1
  <2> HIDE DEF S
  <2> QED BY <1>2, <2>1, Extremes
<1>4. LineAfter(t, a) = Strip(u)
  BY DEF LineAfter
<1> HIDE DEF S, b
<1>5. b \in Nat /\ a + 1 <= b /\ b <= Len(t) + 1
  BY <1>1, <1>2, <1>3
<1>6. \A c \in (a + 1)..(b - 1) : c \in 1..Len(t) /\ t[c] \in C /\ t[c] \notin Break
  <2> TAKE c \in (a + 1)..(b - 1)
  <2>1. c \in 1..Len(t) /\ a + 1 <= c /\ ~(b <= c)
    BY ONLY <1>1, <1>5, c \in (a + 1)..(b - 1)
  <2> QED BY <1>1, <1>2, <1>3, <2>1
<1>7. /\ u \in Seq(C)
      /\ \A i \in DOMAIN u : u[i] \notin Break
  <2>1. u = SubSeq(t, a + 1, b - 1)
    OBVIOUS
  <2> HIDE DEF u
  <2>2. a + 1 \in Int /\ b - 1 \in Int
    BY ONLY <1>1, <1>5
  <2>3. \A c \in (a + 1)..(b - 1) : t[c] \in C
    BY <1>6
  <2>4. /\ u \in Seq(C)
        /\ Len(u) = IF a + 1 <= b - 1 THEN b - 1 - (a + 1) + 1 ELSE 0
        /\ \A i \in 1 .. b - 1 - (a + 1) + 1 : u[i] = t[a + 1 + i - 1]
    BY ONLY <2>1, <2>2, <2>3, SubSeqProperties
  <2>5. ASSUME NEW i \in DOMAIN u PROVE u[i] \notin Break
    <3>1. i \in 1..Len(u)
      BY <2>4
    <3>2. i \in 1 .. b - 1 - (a + 1) + 1 /\ a + 1 + i - 1 \in (a + 1)..(b - 1)
      BY ONLY <1>1, <1>5, <2>4, <3>1
    <3> QED BY <1>6, <2>4, <3>2
  <2> QED BY <2>4, <2>5
<1> HIDE DEF u
<1>8. /\ Strip(u) \in Seq(C) /\ Strip(Strip(u)) = Strip(u)
      /\ \A i \in DOMAIN Strip(u) : \E j \in DOMAIN u : Strip(u)[i] = u[j]
  BY <1>7, StrippedText
<1>9. \A i \in DOMAIN Strip(u) : Strip(u)[i] \notin Break
  BY <1>7, <1>8
<1> QED BY <1>4, <1>8, <1>9

\* Whatever is split, the lines are ones that splitting leaves as they are.
LEMMA SplitTextIsLines ==
  ASSUME NEW t, IsText(t)
  PROVE  IsText(SplitLines(t)) /\ \A k \in DOMAIN SplitLines(t) : IsLine(SplitLines(t)[k])
<1> PICK C : t \in Seq(C)
  BY DEF IsText
<1> DEFINE starts == {i \in {0} \cup {b \in DOMAIN t : t[b] \in Break} : LineAfter(t, i) # <<>>}
           f == [i \in starts |-> LineAfter(t, i)]
<1>1. Len(t) \in Nat /\ DOMAIN t = 1..Len(t) /\ IsFiniteSet(DOMAIN t)
  BY Positions
<1>2. starts \in SUBSET (0..Len(t)) /\ \A i \in starts : LineAfter(t, i) # <<>>
  BY <1>1
<1>3. SplitLines(t) = Picked(f, starts)
  BY DEF SplitLines
<1>4. \A i \in starts : f[i] = LineAfter(t, i)
  OBVIOUS
<1> HIDE DEF starts, f
<1>5. starts \in SUBSET Int /\ IsFiniteSet(starts)
  <2>1. 0 \in Int /\ Len(t) \in Int
    BY <1>1
  <2>2. IsFiniteSet(0..Len(t)) /\ 0..Len(t) \in SUBSET Int
    BY <2>1, FS_Interval
  <2> QED BY <1>2, <2>2, FS_Subset
<1>6. \A i \in starts : IsLine(f[i])
  <2> TAKE i \in starts
  <2>1. i \in 0..Len(t)
    BY <1>2
  <2>2. /\ LineAfter(t, i) \in Seq(C) /\ Strip(LineAfter(t, i)) = LineAfter(t, i)
        /\ \A j \in DOMAIN LineAfter(t, i) : LineAfter(t, i)[j] \notin Break
    BY <2>1, LinesAreStripped
  <2>3. IsText(LineAfter(t, i))
    BY <2>2, TextsAreSequences
  <2> QED BY <1>2, <1>4, <2>2, <2>3 DEF IsLine
<1> DEFINE F == {f[i] : i \in starts}
           p == SplitLines(t)
<1>7. \A x \in F : IsLine(x)
  BY <1>6
<1>8. p \in Seq(F)
  BY <1>3, <1>5, PickedInOrder
<1> HIDE DEF F, p
<1>9. IsText(p)
  BY <1>8, TextsAreSequences
<1>10. \A k \in DOMAIN p : IsLine(p[k])
  BY <1>7, <1>8
<1> QED BY <1>9, <1>10 DEF p

-------------------------------------------------------------------------------
(* Forms: values that are kept *)

\* What the values are made of.
LEMMA ValueParts ==
  /\ Null.is = "null" /\ Truth(TRUE).is = "truth" /\ Truth(FALSE).is = "truth"
  /\ \A x : /\ Text(x).is = "text" /\ Text(x).text = x
            /\ Choice(x).is = "choice" /\ Choice(x).option = x
            /\ Truth(x).is = "truth" /\ Truth(x).bool = x
            /\ Lines(x).is = "lines" /\ Lines(x).lines = x
            /\ Dict(x).is = "dict" /\ Dict(x).of = x
            /\ List(x).is = "list" /\ List(x).items = x
BY DEF Null, Text, Choice, Truth, Lines, Dict, List

\* Values that an input shows, takes and gives back as they are.
SettledText(spec, t) ==
  /\ IsText(t) /\ Strip(t) = t /\ (spec.nullable => t # <<>>)
  /\ \A i \in DOMAIN t : t[i] # "nl" /\ (spec.kind = "text" => t[i] # "crlf")

SettledLeaf(spec, v) ==
  CASE spec.kind \in {"text", "textarea"} ->
         (spec.nullable /\ v = Null) \/ (v = Text(v.text) /\ SettledText(spec, v.text))
    [] spec.kind = "select" ->
         v \in {Choice(o) : o \in Options} \/ v = IF spec.nullable THEN Null ELSE Text(<<>>)
    [] spec.kind = "bool" -> v \in {Truth(TRUE), Truth(FALSE), Null}
    [] spec.kind = "lines" ->
         v = Lines(v.lines) /\ IsText(v.lines) /\ \A k \in DOMAIN v.lines : IsLine(v.lines[k])

\* A leaf that is settled is rendered, posted and parsed to itself.
LEMMA LeavesAreKept ==
  ASSUME NEW spec, LeafSpec(spec), NEW v, SettledLeaf(spec, v),
         NEW null, null \in {FALSE, spec.nullable /\ IsNull(v)}
  PROVE  ParseLeaf(spec, PostLeaf(spec, BindLeaf(spec, v), null)) = v
<1> DEFINE b == BindLeaf(spec, v)
           d == PostLeaf(spec, b, null)
<1> SUFFICES ParseLeaf(spec, d) = v
  OBVIOUS
<1>1. CASE spec.kind = "lines"
  <2>1. v = Lines(v.lines) /\ IsText(v.lines) /\ \A k \in DOMAIN v.lines : IsLine(v.lines[k])
    BY <1>1 DEF SettledLeaf
  <2>2. v.is = "lines"
    BY <2>1, ValueParts
  <2>3. b.lines = v.lines
    BY <1>1, <2>2 DEF BindLeaf
  <2>4. d.text = FlattenSeq([i \in DOMAIN v.lines |-> Posted(v.lines[i]) \o <<"crlf">>])
    BY <1>1, <2>3 DEF PostLeaf
  <2>5. SplitLines(d.text) = v.lines
    BY <2>1, <2>4, JoinedLinesSplit
  <2> HIDE DEF d
  <2> QED BY <1>1, <2>1, <2>5 DEF ParseLeaf
<1>2. CASE spec.kind # "lines"
  <2>1. b.is_null = IsNull(v) /\ b.value = v /\ b.choose = NeedsChoice(spec, v)
    BY <1>2 DEF BindLeaf
  <2>2. null = TRUE => spec.nullable /\ v = Null
    BY DEF IsNull
  <2>3. null \in BOOLEAN
    BY DEF IsNull, LeafSpec
  <2> HIDE DEF b
  <2>4. CASE spec.kind \in {"text", "textarea"}
    <3> DEFINE t == Shown(v)
    <3>1. /\ d.null = null
          /\ d.text = IF spec.kind = "text" THEN TypedIn(t) ELSE Posted(t)
      BY <2>1, <2>4 DEF PostLeaf
    <3> HIDE DEF d
    <3>2. ParseLeaf(spec, d) =
            IF spec.nullable /\ null THEN Null
            ELSE IF Strip(d.text) = <<>> /\ spec.nullable THEN Null ELSE Text(Strip(d.text))
      BY <2>4, <3>1 DEF ParseLeaf
    <3>3. CASE spec.nullable /\ v = Null
      <4>1. t = <<>>
        BY <3>3, ValueParts DEF Shown
      <4>2. <<>> \in Seq({}) /\ DOMAIN <<>> = {}
        OBVIOUS
      <4>3. TypedIn(<<>>) = <<>> /\ Posted(<<>>) = <<>>
        BY <4>2, TypedAsItIs
      <4>4. Strip(<<>>) = <<>>
        BY DEF Strip
      <4> QED BY <3>1, <3>2, <3>3, <4>1, <4>3, <4>4
    <3>4. CASE v = Text(v.text) /\ SettledText(spec, v.text)
      <4>1. v.is = "text" /\ v # Null
        BY <3>4, ValueParts
      <4>2. t = v.text
        BY <4>1 DEF Shown
      <4> HIDE DEF t
      <4>3. t \in Seq(ToSet(t)) /\ Strip(t) = t /\ (spec.nullable => t # <<>>)
        BY <3>4, <4>2 DEF SettledText, IsText
      <4>4. d.text = t
        <5>1. \A i \in DOMAIN t : t[i] # "nl" /\ (spec.kind = "text" => t[i] \notin Break)
          BY <3>4, <4>2 DEF SettledText, Break
        <5> QED BY <3>1, <4>3, <5>1, TypedAsItIs
      <4>5. null = FALSE
        BY <2>2, <2>3, <4>1
      <4> QED BY <3>2, <3>4, <4>2, <4>3, <4>4, <4>5
    <3>5. (spec.nullable /\ v = Null) \/ (v = Text(v.text) /\ SettledText(spec, v.text))
      BY <2>4 DEF SettledLeaf
    <3> QED BY <3>3, <3>4, <3>5
  <2>5. CASE spec.kind = "select"
    <3>1. /\ d.null = null
          /\ d.pick = Chosen(spec, b, {Choice(o) : o \in Options})
      BY <2>5 DEF PostLeaf
    <3> HIDE DEF d
    <3>2. ParseLeaf(spec, d) =
            IF spec.nullable /\ null THEN Null
            ELSE IF d.pick = Null /\ ~spec.nullable THEN Text(<<>>) ELSE d.pick
      BY <2>5, <3>1 DEF ParseLeaf
    <3>3. v \in {Choice(o) : o \in Options} \/ v = IF spec.nullable THEN Null ELSE Text(<<>>)
      BY <2>5 DEF SettledLeaf
    <3>4. CASE v \in {Choice(o) : o \in Options}
      <4>1. v # Null
        BY <3>4, ValueParts
      <4>2. d.pick = v
        BY <2>1, <3>1, <3>4 DEF Chosen
      <4> QED BY <2>2, <2>3, <3>2, <4>1, <4>2
    <3>5. CASE v \notin {Choice(o) : o \in Options}
      <4>1. b.choose = TRUE
        BY <2>1, <2>5, <3>5 DEF NeedsChoice
      <4>2. d.pick = Null
        BY <2>1, <3>1, <3>5, <4>1 DEF Chosen
      <4> QED BY <3>2, <3>3, <3>5, <4>2
    <3> QED BY <3>4, <3>5
  <2>6. CASE spec.kind = "bool"
    <3>1. /\ d.null = null
          /\ d.pick = Chosen(spec, b, {Truth(TRUE), Truth(FALSE)})
      BY <2>6 DEF PostLeaf
    <3> HIDE DEF d
    <3>2. ParseLeaf(spec, d) = IF spec.nullable /\ null THEN Null ELSE d.pick
      BY <2>6, <3>1 DEF ParseLeaf
    <3>3. v \in {Truth(TRUE), Truth(FALSE), Null}
      BY <2>6 DEF SettledLeaf
    <3>4. CASE v \in {Truth(TRUE), Truth(FALSE)}
      <4>1. v # Null
        BY <3>4, ValueParts
      <4>2. d.pick = v
        BY <2>1, <3>1, <3>4 DEF Chosen
      <4> QED BY <2>2, <2>3, <3>2, <4>1, <4>2
    <3>5. CASE v = Null
      <4>1. b.choose = TRUE
        BY <2>1, <2>6, <3>5 DEF NeedsChoice
      <4>2. v \notin {Truth(TRUE), Truth(FALSE)}
        BY <3>5, ValueParts
      <4>3. d.pick = Null
        BY <2>1, <3>1, <4>1, <4>2 DEF Chosen
      <4> QED BY <3>2, <3>5, <4>3
    <3> QED BY <3>3, <3>4, <3>5
  <2> QED BY <1>2, <2>4, <2>5, <2>6 DEF LeafSpec
<1> QED BY <1>1, <1>2

SettledObject(SettledMember(_, _), spec, v) ==
  \/ spec.nullable /\ v = Null
  \/ /\ v = Dict(v.of) /\ v.of = [c \in DOMAIN spec.children |-> v.of[c]]
     /\ \A c \in DOMAIN spec.children : SettledMember(spec.children[c], v.of[c])

SettledRows(spec, v) ==
  /\ v = List(v.items) /\ IsText(v.items)
  /\ \A i \in DOMAIN v.items :
       SettledObject(SettledLeaf, spec.row, v.items[i]) /\ ~BlankRow(spec.row, v.items[i])

SettledPart(spec, v) == IF spec.kind = "rows" THEN SettledRows(spec, v) ELSE SettledLeaf(spec, v)

Settled(spec, v) ==
  IF spec.kind = "object" THEN SettledObject(SettledPart, spec, v) ELSE SettledPart(spec, v)

\* A member of an object is the one it has.
LEMMA MembersOfAnObject ==
  ASSUME NEW f, NEW c \in DOMAIN f
  PROVE  Member(Dict(f), c) = f[c]
BY ValueParts DEF Member

\* The same of a leaf that has no null toggle of its own.
LEMMA MembersAreKept ==
  ASSUME NEW spec, LeafSpec(spec), NEW v, SettledLeaf(spec, v)
  PROVE  ParseLeaf(spec, PostLeaf(spec, BindLeaf(spec, v), FALSE)) = v
<1>1. PICK null : null = FALSE
  OBVIOUS
<1>2. ParseLeaf(spec, PostLeaf(spec, BindLeaf(spec, v), null)) = v
  BY <1>1, LeavesAreKept
<1> QED BY <1>1, <1>2

\* An object of a list that is settled is rendered, posted and parsed to itself,
LEMMA RowsAreKept ==
  ASSUME NEW spec, RowSpec(spec), NEW v, SettledObject(SettledLeaf, spec, v)
  PROVE  ParseObject(ParseLeaf, spec,
                     PostObject(PostMember, spec, BindObject(BindLeaf, spec, v))) = v
<1> DEFINE b == BindObject(BindLeaf, spec, v)
           d == PostObject(PostMember, spec, b)
<1> SUFFICES ParseObject(ParseLeaf, spec, d) = v
  OBVIOUS
<1>1. /\ v = Dict(v.of) /\ v.of = [c \in DOMAIN spec.children |-> v.of[c]]
      /\ \A c \in DOMAIN spec.children : SettledLeaf(spec.children[c], v.of[c])
  BY DEF SettledObject, RowSpec
<1>2. \A c \in DOMAIN spec.children : b.children[c] = BindLeaf(spec.children[c], v.of[c])
  <2> TAKE c \in DOMAIN spec.children
  <2>1. b.children[c] = BindLeaf(spec.children[c], Member(v, c))
    BY DEF BindObject
  <2>2. Member(v, c) = v.of[c]
    BY <1>1, MembersOfAnObject
  <2> QED BY <2>1, <2>2
<1> HIDE DEF b
<1>3. \A c \in DOMAIN spec.children :
        d.children[c] = PostLeaf(spec.children[c], BindLeaf(spec.children[c], v.of[c]), FALSE)
  BY <1>2 DEF PostObject, PostMember
<1> HIDE DEF d
<1>4. \A c \in DOMAIN spec.children : ParseLeaf(spec.children[c], d.children[c]) = v.of[c]
  <2> TAKE c \in DOMAIN spec.children
  <2>1. LeafSpec(spec.children[c])
    BY DEF RowSpec
  <2>2. PICK s, w : s = spec.children[c] /\ w = v.of[c]
    OBVIOUS
  <2>3. ParseLeaf(s, PostLeaf(s, BindLeaf(s, w), FALSE)) = w
    BY <1>1, <2>1, <2>2, MembersAreKept
  <2> QED BY <1>3, <2>2, <2>3
<1>5. ParseObject(ParseLeaf, spec, d)
        = Dict([c \in DOMAIN spec.children |-> ParseLeaf(spec.children[c], d.children[c])])
  BY DEF ParseObject, RowSpec
<1>6. [c \in DOMAIN spec.children |-> ParseLeaf(spec.children[c], d.children[c])]
        = [c \in DOMAIN spec.children |-> v.of[c]]
  BY <1>4
<1> QED BY <1>1, <1>5, <1>6

\* a list of them, none of which is dropped as blank,
LEMMA ListsAreKept ==
  ASSUME NEW spec, spec.kind = "rows", RowSpec(spec.row), NEW v, SettledRows(spec, v)
  PROVE  ParseRows(spec, PostRows(spec, BindPart(spec, v))) = v
<1> DEFINE b == BindPart(spec, v)
           d == PostRows(spec, b)
           rows == [i \in DOMAIN d.rows |-> ParseObject(ParseLeaf, spec.row, d.rows[i])]
           kept == {i \in DOMAIN rows : ~BlankRow(spec.row, rows[i])}
           n == Len(v.items)
<1> SUFFICES ParseRows(spec, d) = v
  OBVIOUS
<1>1. /\ v = List(v.items) /\ v.is = "list"
      /\ n \in Nat /\ DOMAIN v.items = 1..n /\ v.items = [i \in 1..n |-> v.items[i]]
  BY ValueParts DEF SettledRows, IsText
<1> HIDE DEF n
<1>2. b.rows = [i \in 1..n |-> BindObject(BindLeaf, spec.row, v.items[i])]
  BY <1>1 DEF BindPart
<1> HIDE DEF b
<1>3. d.rows = [i \in 1..n |->
        PostObject(PostMember, spec.row, BindObject(BindLeaf, spec.row, v.items[i]))]
  BY <1>2 DEF PostRows
<1> HIDE DEF d
<1>4. ASSUME NEW i \in 1..n
      PROVE  ParseObject(ParseLeaf, spec.row, d.rows[i]) = v.items[i]
  <2>1. SettledObject(SettledLeaf, spec.row, v.items[i])
    BY <1>1 DEF SettledRows
  <2> QED BY <1>3, <2>1, RowsAreKept
<1>5. rows = v.items
  <2>1. DOMAIN d.rows = 1..n
    BY <1>3
  <2>2. rows = [i \in 1..n |-> v.items[i]]
    BY <1>4, <2>1
  <2> QED BY <1>1, <2>2
<1>6. kept = 1..n
  <2> HIDE DEF rows
  <2>1. \A i \in 1..n : ~BlankRow(spec.row, rows[i])
    BY <1>1, <1>5 DEF SettledRows
  <2> QED BY <1>1, <1>5, <2>1
<1>7. ParseRows(spec, d) = List(Picked(rows, kept))
  BY DEF ParseRows
<1> HIDE DEF rows, kept
<1>8. Picked(v.items, 1..n) = v.items
  BY <1>1, PickedAll
<1> QED BY <1>1, <1>5, <1>6, <1>7, <1>8

\* and a part of an object.
LEMMA PartsAreKept ==
  ASSUME NEW spec, PartSpec(spec), NEW v, SettledPart(spec, v)
  PROVE  ParsePart(spec, PostPart(spec, BindPart(spec, v))) = v
<1>1. CASE spec.kind = "rows"
  <2>1. RowSpec(spec.row) /\ SettledRows(spec, v)
    BY <1>1 DEF PartSpec, LeafSpec, SettledPart
  <2>2. /\ PostPart(spec, BindPart(spec, v)) = PostRows(spec, BindPart(spec, v))
        /\ \A d : ParsePart(spec, d) = ParseRows(spec, d)
    BY <1>1 DEF PostPart, ParsePart
  <2> QED BY <1>1, <2>1, <2>2, ListsAreKept
<1>2. CASE spec.kind # "rows"
  <2>1. LeafSpec(spec) /\ SettledLeaf(spec, v)
    BY <1>2 DEF PartSpec, SettledPart
  <2>2. ParsePart(spec, PostPart(spec, BindPart(spec, v)))
          = ParseLeaf(spec, PostLeaf(spec, BindLeaf(spec, v), FALSE))
    BY <1>2 DEF BindPart, PostPart, ParsePart, PostMember
  <2> QED BY <2>1, <2>2, LeavesAreKept
<1> QED BY <1>1, <1>2

\* The form of a value that is settled says that value.
LEMMA SettledValuesAreKept ==
  ASSUME NEW spec, FieldSpec(spec), NEW v, Settled(spec, v)
  PROVE  Parse(spec, Post(spec, Bind(spec, v))) = v
<1>1. CASE spec.kind = "object"
  <2> DEFINE b == BindObject(BindPart, spec, v)
             d == PostObject(PostPart, spec, b)
  <2>1. Bind(spec, v) = b /\ Post(spec, b) = d /\ Parse(spec, d) = ParseObject(ParsePart, spec, d)
    BY <1>1 DEF Bind, Post, Parse
  <2>2. d.null = (spec.nullable /\ IsNull(v))
    BY DEF BindObject, PostObject
  <2>3. CASE spec.nullable /\ v = Null
    <3>1. d.null
      BY <2>2, <2>3 DEF IsNull
    <3> HIDE DEF d
    <3>2. ParseObject(ParsePart, spec, d) = Null
      BY <2>3, <3>1 DEF ParseObject
    <3> QED BY <2>1, <2>3, <3>2
  <2>4. CASE ~(spec.nullable /\ v = Null)
    <3>1. /\ v = Dict(v.of) /\ v.of = [c \in DOMAIN spec.children |-> v.of[c]]
          /\ \A c \in DOMAIN spec.children : SettledPart(spec.children[c], v.of[c])
      BY <1>1, <2>4 DEF Settled, SettledObject
    <3>2. ~(spec.nullable /\ d.null)
      <4>1. v # Null
        <5>1. PICK f : v = Dict(f)
          BY <3>1
        <5> QED BY ONLY <5>1, ValueParts, "dict" # "null"
      <4> HIDE DEF d
      <4> QED BY <2>2, <4>1 DEF IsNull
    <3>3. \A c \in DOMAIN spec.children : b.children[c] = BindPart(spec.children[c], v.of[c])
      <4> TAKE c \in DOMAIN spec.children
      <4>1. b.children[c] = BindPart(spec.children[c], Member(v, c))
        BY DEF BindObject
      <4>2. Member(v, c) = v.of[c]
        BY <3>1, MembersOfAnObject
      <4> QED BY <4>1, <4>2
    <3> HIDE DEF b
    <3>4. \A c \in DOMAIN spec.children :
            d.children[c] = PostPart(spec.children[c], BindPart(spec.children[c], v.of[c]))
      BY <3>3 DEF PostObject
    <3> HIDE DEF d
    <3>5. \A c \in DOMAIN spec.children : ParsePart(spec.children[c], d.children[c]) = v.of[c]
      <4> TAKE c \in DOMAIN spec.children
      <4>1. PartSpec(spec.children[c])
        BY <1>1 DEF FieldSpec, PartSpec, LeafSpec
      <4>2. PICK s, w : s = spec.children[c] /\ w = v.of[c]
        OBVIOUS
      <4>3. ParsePart(s, PostPart(s, BindPart(s, w))) = w
        BY <3>1, <4>1, <4>2, PartsAreKept
      <4> QED BY <3>4, <4>2, <4>3
    <3>6. ParseObject(ParsePart, spec, d)
            = Dict([c \in DOMAIN spec.children |-> ParsePart(spec.children[c], d.children[c])])
      BY <3>2 DEF ParseObject
    <3>7. [c \in DOMAIN spec.children |-> ParsePart(spec.children[c], d.children[c])]
            = [c \in DOMAIN spec.children |-> v.of[c]]
      BY <3>5
    <3> QED BY <2>1, <3>1, <3>6, <3>7
  <2> QED BY <2>3, <2>4
<1>2. CASE spec.kind = "rows"
  <2>1. RowSpec(spec.row) /\ SettledRows(spec, v)
    BY <1>2 DEF FieldSpec, PartSpec, LeafSpec, Settled, SettledPart
  <2>2. Parse(spec, Post(spec, Bind(spec, v))) = ParseRows(spec, PostRows(spec, BindPart(spec, v)))
    BY <1>2 DEF Parse, ParsePart, Post, Bind
  <2> QED BY <1>2, <2>1, <2>2, ListsAreKept
<1>3. CASE spec.kind \notin {"object", "rows"}
  <2>1. LeafSpec(spec) /\ SettledLeaf(spec, v)
    BY <1>3 DEF FieldSpec, PartSpec, Settled, SettledPart
  <2> DEFINE b == BindLeaf(spec, v)
             null == spec.kind # "lines" /\ spec.nullable /\ IsNull(v)
  <2>2. Bind(spec, v) = b
    BY <1>3 DEF Bind, BindPart
  <2>3. spec.kind # "lines" => b.is_null = IsNull(v)
    BY DEF BindLeaf
  <2>4. spec.nullable \in BOOLEAN /\ IsNull(v) \in BOOLEAN
    BY <2>1 DEF LeafSpec, IsNull
  <2> HIDE DEF b
  <2>5. Post(spec, b) = PostLeaf(spec, b, null)
    BY <1>3, <2>3, <2>4 DEF Post
  <2>6. \A d : Parse(spec, d) = ParseLeaf(spec, d)
    BY <1>3 DEF Parse, ParsePart
  <2>7. null \in {FALSE, spec.nullable /\ IsNull(v)}
    BY <2>4
  <2>8. PICK nl : nl = null
    OBVIOUS
  <2>9. nl \in {FALSE, spec.nullable /\ IsNull(v)}
    BY <2>7, <2>8
  <2>10. ParseLeaf(spec, PostLeaf(spec, BindLeaf(spec, v), nl)) = v
    BY ONLY <2>1, <2>9, LeavesAreKept
  <2> HIDE DEF null
  <2> QED BY <2>2, <2>5, <2>6, <2>8, <2>10 DEF b
<1> QED BY <1>1, <1>2, <1>3

-------------------------------------------------------------------------------
(* Forms: submissions *)

\* What a browser may post for an input.
PostableLeaf(spec, d) ==
  CASE spec.kind = "text" -> IsText(d.text) /\ \A i \in DOMAIN d.text : d.text[i] \notin Break
    [] spec.kind = "textarea" -> IsText(d.text) /\ \A i \in DOMAIN d.text : d.text[i] # "nl"
    [] spec.kind = "lines" -> IsText(d.text)
    [] spec.kind = "select" -> d.pick \in {Choice(o) : o \in Options} \cup {Null}
    [] spec.kind = "bool" -> d.pick \in {Truth(TRUE), Truth(FALSE), Null}

PostableObject(PostableMember(_, _), spec, d) ==
  \A c \in DOMAIN spec.children : PostableMember(spec.children[c], d.children[c])

\* Rows are posted under any indices.
PostableRows(spec, d) ==
  /\ IsFiniteSet(DOMAIN d.rows) /\ DOMAIN d.rows \subseteq Int
  /\ \A i \in DOMAIN d.rows : PostableObject(PostableLeaf, spec.row, d.rows[i])

PostablePart(spec, d) == IF spec.kind = "rows" THEN PostableRows(spec, d) ELSE PostableLeaf(spec, d)

Postable(spec, d) ==
  IF spec.kind = "object" THEN PostableObject(PostablePart, spec, d) ELSE PostablePart(spec, d)

\* Whatever is posted for a leaf, what is parsed is settled,
LEMMA ParsedLeaves ==
  ASSUME NEW spec, LeafSpec(spec), NEW d, PostableLeaf(spec, d)
  PROVE  SettledLeaf(spec, ParseLeaf(spec, d))
<1>1. CASE spec.kind = "lines"
  <2>1. IsText(d.text)
    BY <1>1 DEF PostableLeaf
  <2>2. PICK ls : ls = SplitLines(d.text)
    OBVIOUS
  <2>3. IsText(ls) /\ \A k \in DOMAIN ls : IsLine(ls[k])
    BY <2>1, <2>2, SplitTextIsLines
  <2>4. ParseLeaf(spec, d) = Lines(ls)
    BY <1>1, <2>2 DEF ParseLeaf
  <2>5. Lines(ls).lines = ls
    BY ValueParts
  <2> QED BY <1>1, <2>3, <2>4, <2>5 DEF SettledLeaf
<1>2. CASE spec.kind \in {"text", "textarea"}
  <2>1. /\ IsText(d.text)
        /\ \A i \in DOMAIN d.text : d.text[i] # "nl" /\ (spec.kind = "text" => d.text[i] # "crlf")
    BY <1>2 DEF PostableLeaf, Break
  <2>2. PICK s, t : t = d.text /\ s = Strip(t)
    OBVIOUS
  <2>3. PICK C : t \in Seq(C)
    BY <2>1, <2>2 DEF IsText
  <2>4. s \in Seq(C) /\ Strip(s) = s /\ \A i \in DOMAIN s : \E j \in DOMAIN t : s[i] = t[j]
    BY <2>2, <2>3, StrippedText
  <2>5. IsText(s)
    BY <2>4, TextsAreSequences
  <2>6. \A i \in DOMAIN s : s[i] # "nl" /\ (spec.kind = "text" => s[i] # "crlf")
    BY <2>1, <2>2, <2>4
  <2>7. ParseLeaf(spec, d) =
          IF spec.nullable /\ d.null THEN Null
          ELSE IF s = <<>> /\ spec.nullable THEN Null ELSE Text(s)
    BY <1>2, <2>2 DEF ParseLeaf
  <2>8. Text(s).text = s
    BY ValueParts
  <2>9. CASE ParseLeaf(spec, d) = Null /\ spec.nullable
    BY <1>2, <2>9 DEF SettledLeaf
  <2>10. CASE ParseLeaf(spec, d) = Text(s) /\ (spec.nullable => s # <<>>)
    <3>1. SettledText(spec, s)
      BY <2>4, <2>5, <2>6, <2>10 DEF SettledText
    <3> QED BY <1>2, <2>8, <2>10, <3>1 DEF SettledLeaf
  <2> QED BY <2>7, <2>9, <2>10
<1>3. CASE spec.kind = "select"
  <2>1. d.pick \in {Choice(o) : o \in Options} \cup {Null}
    BY <1>3 DEF PostableLeaf
  <2>2. ParseLeaf(spec, d) =
          IF spec.nullable /\ d.null THEN Null
          ELSE IF d.pick = Null /\ ~spec.nullable THEN Text(<<>>) ELSE d.pick
    BY <1>3 DEF ParseLeaf
  <2>3. PICK v : v = ParseLeaf(spec, d)
    OBVIOUS
  <2>4. v \in {Choice(o) : o \in Options} \/ v = IF spec.nullable THEN Null ELSE Text(<<>>)
    BY <2>1, <2>2, <2>3
  <2> QED BY <1>3, <2>3, <2>4 DEF SettledLeaf
<1>4. CASE spec.kind = "bool"
  <2>1. d.pick \in {Truth(TRUE), Truth(FALSE), Null}
    BY <1>4 DEF PostableLeaf
  <2>2. ParseLeaf(spec, d) = IF spec.nullable /\ d.null THEN Null ELSE d.pick
    BY <1>4 DEF ParseLeaf
  <2>3. PICK v : v = ParseLeaf(spec, d)
    OBVIOUS
  <2>4. v \in {Truth(TRUE), Truth(FALSE), Null}
    BY <2>1, <2>2, <2>3
  <2> QED BY <1>4, <2>3, <2>4 DEF SettledLeaf
<1> QED BY <1>1, <1>2, <1>3, <1>4 DEF LeafSpec

\* and for an object of a list,
LEMMA ParsedRows ==
  ASSUME NEW spec, RowSpec(spec), NEW d, PostableObject(PostableLeaf, spec, d)
  PROVE  SettledObject(SettledLeaf, spec, ParseObject(ParseLeaf, spec, d))
<1>1. PICK f : f = [c \in DOMAIN spec.children |-> ParseLeaf(spec.children[c], d.children[c])]
  OBVIOUS
<1>2. ParseObject(ParseLeaf, spec, d) = Dict(f)
  BY <1>1 DEF ParseObject, RowSpec
<1>3. \A c \in DOMAIN spec.children : SettledLeaf(spec.children[c], f[c])
  <2> TAKE c \in DOMAIN spec.children
  <2>1. PICK s, w : s = spec.children[c] /\ w = d.children[c]
    OBVIOUS
  <2>2. LeafSpec(s) /\ PostableLeaf(s, w)
    BY <2>1 DEF RowSpec, PostableObject
  <2>3. SettledLeaf(s, ParseLeaf(s, w))
    BY <2>2, ParsedLeaves
  <2> QED BY <1>1, <2>1, <2>3
<1>4. Dict(f).of = f /\ f = [c \in DOMAIN spec.children |-> f[c]]
  BY <1>1, ValueParts
<1> QED BY <1>2, <1>3, <1>4 DEF SettledObject

\* a list, of which no blank row is kept,
LEMMA ParsedLists ==
  ASSUME NEW spec, spec.kind = "rows", RowSpec(spec.row), NEW d, PostableRows(spec, d)
  PROVE  SettledRows(spec, ParseRows(spec, d))
<1> DEFINE rows == [i \in DOMAIN d.rows |-> ParseObject(ParseLeaf, spec.row, d.rows[i])]
           kept == {i \in DOMAIN rows : ~BlankRow(spec.row, rows[i])}
<1>1. IsFiniteSet(DOMAIN d.rows) /\ DOMAIN d.rows \subseteq Int
  BY DEF PostableRows
<1>2. \A i \in DOMAIN d.rows : SettledObject(SettledLeaf, spec.row, rows[i])
  <2> TAKE i \in DOMAIN d.rows
  <2>1. PICK w : w = d.rows[i]
    OBVIOUS
  <2>2. PostableObject(PostableLeaf, spec.row, w)
    BY <2>1 DEF PostableRows
  <2> QED BY <2>1, <2>2, ParsedRows
<1>3. DOMAIN rows = DOMAIN d.rows
  OBVIOUS
<1>4. ParseRows(spec, d) = List(Picked(rows, kept))
  BY DEF ParseRows
<1> HIDE DEF rows
<1>5. kept \in SUBSET Int /\ IsFiniteSet(kept)
  BY <1>1, <1>3, FS_Subset
<1>6. PICK l : l = Picked(rows, kept)
  OBVIOUS
<1>7. l \in Seq({rows[i] : i \in kept}) /\ ToSet(l) = {rows[i] : i \in kept}
  <2> HIDE DEF kept
  <2>1. PICK K, r : K = kept /\ r = rows
    OBVIOUS
  <2>2. K \in SUBSET Int /\ IsFiniteSet(K)
    BY <1>5, <2>1
  <2>3. Picked(r, K) \in Seq({r[x] : x \in K})
    BY ONLY <2>2, PickedInOrder
  <2>4. ToSet(Picked(r, K)) = {r[x] : x \in K}
    BY ONLY <2>2, PickedInOrder
  <2> QED BY <1>6, <2>1, <2>3, <2>4
<1>8. IsText(l)
  BY <1>7, TextsAreSequences
<1>9. \A k \in DOMAIN l :
        SettledObject(SettledLeaf, spec.row, l[k]) /\ ~BlankRow(spec.row, l[k])
  <2> TAKE k \in DOMAIN l
  <2>1. PICK i \in kept : l[k] = rows[i]
    BY <1>7
  <2> QED BY <1>2, <1>3, <2>1
<1>10. List(l).items = l
  BY ValueParts
<1> QED BY <1>4, <1>6, <1>8, <1>9, <1>10 DEF SettledRows

\* and a part of an object.
LEMMA ParsedParts ==
  ASSUME NEW spec, PartSpec(spec), NEW d, PostablePart(spec, d)
  PROVE  SettledPart(spec, ParsePart(spec, d))
<1>1. CASE spec.kind = "rows"
  <2>1. RowSpec(spec.row) /\ PostableRows(spec, d)
    BY <1>1 DEF PartSpec, LeafSpec, PostablePart
  <2>2. SettledRows(spec, ParseRows(spec, d))
    BY <1>1, <2>1, ParsedLists
  <2> QED BY <1>1, <2>2 DEF ParsePart, SettledPart
<1>2. CASE spec.kind # "rows"
  <2>1. LeafSpec(spec) /\ PostableLeaf(spec, d)
    BY <1>2 DEF PartSpec, PostablePart
  <2>2. SettledLeaf(spec, ParseLeaf(spec, d))
    BY <2>1, ParsedLeaves
  <2> QED BY <1>2, <2>2 DEF ParsePart, SettledPart
<1> QED BY <1>1, <1>2

\* Whatever a browser posts, the value read from it is settled.
LEMMA ParsedValuesAreSettled ==
  ASSUME NEW spec, FieldSpec(spec), NEW d, Postable(spec, d)
  PROVE  Settled(spec, Parse(spec, d))
<1>1. CASE spec.kind = "object"
  <2>1. PostableObject(PostablePart, spec, d)
    BY <1>1 DEF Postable
  <2>2. PICK v : v = ParseObject(ParsePart, spec, d)
    OBVIOUS
  <2>3. SettledObject(SettledPart, spec, v)
    <3>1. CASE spec.nullable /\ d.null
      BY <2>2, <3>1 DEF ParseObject, SettledObject
    <3>2. CASE ~(spec.nullable /\ d.null)
      <4>1. PICK f : f = [c \in DOMAIN spec.children |-> ParsePart(spec.children[c], d.children[c])]
        OBVIOUS
      <4>2. v = Dict(f)
        BY <2>2, <3>2, <4>1 DEF ParseObject
      <4>3. \A c \in DOMAIN spec.children : SettledPart(spec.children[c], f[c])
        <5> TAKE c \in DOMAIN spec.children
        <5>1. PICK s, w : s = spec.children[c] /\ w = d.children[c]
          OBVIOUS
        <5>2. PartSpec(s)
          BY <1>1, <5>1 DEF FieldSpec, PartSpec, LeafSpec
        <5>3. PostablePart(s, w)
          BY <2>1, <5>1 DEF PostableObject
        <5>4. SettledPart(s, ParsePart(s, w))
          BY <5>2, <5>3, ParsedParts
        <5> QED BY <4>1, <5>1, <5>4
      <4>4. Dict(f).of = f /\ f = [c \in DOMAIN spec.children |-> f[c]]
        BY <4>1, ValueParts
      <4> QED BY <4>2, <4>3, <4>4 DEF SettledObject
    <3> QED BY <3>1, <3>2
  <2> QED BY <1>1, <2>2, <2>3 DEF Settled, Parse
<1>2. CASE spec.kind # "object"
  <2>1. PartSpec(spec) /\ PostablePart(spec, d)
    BY <1>2 DEF FieldSpec, Postable
  <2>2. SettledPart(spec, ParsePart(spec, d))
    BY <2>1, ParsedParts
  <2> QED BY <1>2, <2>2 DEF Settled, Parse
<1> QED BY <1>1, <1>2

\* "A rejected correction is never lost": whatever a browser posts, the page that is rendered
\* for what was parsed says the same when it is posted again (review_ui.py _decide, _render).
THEOREM EveryRejectionIsKept ==
  ASSUME NEW field \in DOMAIN IncidentRecord, NEW d, Postable(form_spec[field], d)
  PROVE  RejectionIsKept(field, d)
<1>1. PICK spec : spec = form_spec[field]
  OBVIOUS
<1>2. FieldSpec(spec)
  <2>1. spec = Build(field, IncidentRecord[field])
    BY <1>1 DEF form_spec
  <2> QED BY <2>1, FieldTypes, FieldInputs
<1>3. PICK v : v = Parse(spec, d)
  OBVIOUS
<1>4. Settled(spec, v)
  BY <1>1, <1>2, <1>3, ParsedValuesAreSettled
<1>5. Parse(spec, Post(spec, Bind(spec, v))) = v
  BY <1>2, <1>4, SettledValuesAreKept
<1> QED BY <1>1, <1>3, <1>5 DEF RejectionIsKept, Untouched

-------------------------------------------------------------------------------
(* Forms: stored values *)

\* What may be stored where an input is filled from: nothing is assumed of it but that a
\* truth is stored where one belongs.
Scalar(v) ==
  \/ v \in {Null, Truth(TRUE), Truth(FALSE)}
  \/ v = Choice(v.option)
  \/ v = Text(v.text) /\ IsText(v.text)
  \/ v = Lines(v.lines) /\ IsText(v.lines) /\ \A k \in DOMAIN v.lines : IsText(v.lines[k])

StoredLeaf(spec, v) ==
  Scalar(v) /\ (spec.kind = "bool" => v \in {Truth(TRUE), Truth(FALSE), Null})

StoredObject(StoredMember(_, _), spec, v) ==
  \/ Scalar(v)
  \/ /\ v = Dict(v.of) /\ v.of = [m \in DOMAIN v.of |-> v.of[m]]
     /\ \A c \in DOMAIN spec.children \cap DOMAIN v.of : StoredMember(spec.children[c], v.of[c])

StoredRows(spec, v) ==
  \/ Scalar(v)
  \/ /\ v = List(v.items) /\ IsText(v.items)
     /\ \A i \in DOMAIN v.items : StoredObject(StoredLeaf, spec.row, v.items[i])

StoredPart(spec, v) == IF spec.kind = "rows" THEN StoredRows(spec, v) ELSE StoredLeaf(spec, v)

Stored(spec, v) ==
  IF spec.kind = "object" THEN StoredObject(StoredPart, spec, v) ELSE StoredPart(spec, v)

\* What a value that is no object and no list may be.
LEMMA ScalarValues ==
  ASSUME NEW v, Scalar(v)
  PROVE  /\ v.is \in {"null", "truth", "choice", "text", "lines"}
         /\ v.is = "text" => v = Text(v.text) /\ IsText(v.text)
         /\ v.is = "choice" => v = Choice(v.option)
         /\ v.is = "lines" => /\ v = Lines(v.lines) /\ IsText(v.lines)
                              /\ \A k \in DOMAIN v.lines : IsText(v.lines[k])
         /\ Inside(v) = {}
<1>1. CASE v \in {Null, Truth(TRUE), Truth(FALSE)}
  BY <1>1, ValueParts DEF Inside
<1>2. CASE v = Choice(v.option)
  <2>1. v.is = "choice"
    BY <1>2, ValueParts
  <2> QED BY <1>2, <2>1 DEF Inside
<1>3. CASE v = Text(v.text) /\ IsText(v.text)
  <2>1. v.is = "text"
    BY <1>3, ValueParts
  <2> QED BY <1>3, <2>1 DEF Inside
<1>4. CASE v = Lines(v.lines) /\ IsText(v.lines) /\ \A k \in DOMAIN v.lines : IsText(v.lines[k])
  <2>1. v.is = "lines"
    BY <1>4, ValueParts
  <2> QED BY <1>4, <2>1 DEF Inside
<1> QED BY <1>1, <1>2, <1>3, <1>4 DEF Scalar

\* Null may be stored anywhere.
LEMMA NothingIsStored ==
  /\ Scalar(Null)
  /\ \A spec : StoredLeaf(spec, Null) /\ StoredPart(spec, Null)
<1>1. Scalar(Null)
  BY DEF Scalar
<1> QED BY <1>1 DEF StoredLeaf, StoredPart, StoredRows

\* What objects and lists hold.
LEMMA ValuesInside ==
  /\ \A v : v.is \notin {"dict", "list"} => Inside(v) = {}
  /\ \A f : Inside(Dict(f)) = {f[m] : m \in DOMAIN f}
  /\ \A l : Inside(List(l)) = {l[i] : i \in DOMAIN l}
<1>1. ASSUME NEW v, v.is \notin {"dict", "list"} PROVE Inside(v) = {}
  BY <1>1 DEF Inside
<1>2. ASSUME NEW v, v.is = "dict" PROVE Inside(v) = {v.of[m] : m \in DOMAIN v.of}
  BY <1>2 DEF Inside
<1>3. ASSUME NEW v, v.is = "list" PROVE Inside(v) = {v.items[i] : i \in DOMAIN v.items}
  BY <1>3 DEF Inside
<1>4. ASSUME NEW f PROVE Inside(Dict(f)) = {f[m] : m \in DOMAIN f}
  <2>1. PICK v : v = Dict(f)
    OBVIOUS
  <2>2. v.is = "dict" /\ v.of = f
    BY <2>1, ValueParts
  <2> QED BY <1>2, <2>1, <2>2
<1>5. ASSUME NEW l PROVE Inside(List(l)) = {l[i] : i \in DOMAIN l}
  <2>1. PICK v : v = List(l)
    OBVIOUS
  <2>2. v.is = "list" /\ v.items = l
    BY <2>1, ValueParts
  <2> QED BY <1>3, <2>1, <2>2
<1> QED BY <1>1, <1>4, <1>5

\* The parts of a value are itself and what is up to three levels inside it.
LEMMA PartsByDepth ==
  ASSUME NEW v, NEW p
  PROVE  p \in Parts(v) <=>
           \/ p = v
           \/ p \in Inside(v)
           \/ \E x \in Inside(v) : p \in Inside(x)
           \/ \E x \in Inside(v) : \E y \in Inside(x) : p \in Inside(y)
<1>1. ASSUME NEW S, NEW q
      PROVE  q \in With(S) <=> q \in S \/ \E x \in S : q \in Inside(x)
  BY DEF With
<1>2. PICK A : A = With({v})
  OBVIOUS
<1>3. PICK B : B = With(A)
  OBVIOUS
<1>4. \A q : q \in A <=> q = v \/ q \in Inside(v)
  BY <1>1, <1>2
<1>5. \A q : q \in B <=> q \in A \/ \E x \in A : q \in Inside(x)
  BY <1>1, <1>3
<1>6. p \in Parts(v) <=> p \in B \/ \E x \in B : p \in Inside(x)
  BY <1>1, <1>2, <1>3 DEF Parts
<1> QED BY <1>4, <1>5, <1>6

Names(p) == p.is \in {"choice", "truth"}

\* An input that is shown for a leaf names an option only where the leaf does,
LEMMA MembersInventNothing ==
  ASSUME NEW spec, LeafSpec(spec), NEW v, StoredLeaf(spec, v),
         NEW u, u = ParseLeaf(spec, PostLeaf(spec, BindLeaf(spec, v), FALSE))
  PROVE  Inside(u) = {} /\ (Names(u) => u = v)
<1> DEFINE b == BindLeaf(spec, v)
<1>0. PICK nl, d : nl = FALSE /\ d = PostLeaf(spec, b, nl)
  OBVIOUS
<1>1. CASE spec.kind = "lines"
  <2>1. u = Lines(SplitLines(d.text))
    BY <1>0, <1>1 DEF ParseLeaf
  <2>2. u.is = "lines"
    BY ONLY <2>1, ValueParts
  <2> QED BY <2>2, ValuesInside DEF Names
<1>2. CASE spec.kind \in {"text", "textarea"}
  <2>1. u = Null \/ u = Text(Strip(d.text))
    BY <1>0, <1>2 DEF ParseLeaf
  <2>2. u.is \in {"null", "text"}
    BY ONLY <2>1, ValueParts
  <2> QED BY <2>2, ValuesInside DEF Names
<1>3. CASE spec.kind = "select"
  <2>1. b.value = v /\ b.choose = NeedsChoice(spec, v)
    BY <1>3 DEF BindLeaf
  <2> HIDE DEF b
  <2>2. d.pick = Chosen(spec, b, {Choice(o) : o \in Options})
    BY <1>0, <1>3 DEF PostLeaf
  <2>3. u = Null \/ u = Text(<<>>) \/ u = d.pick
    <3>1. u = ParseLeaf(spec, d)
      BY <1>0 DEF b
    <3>2. ParseLeaf(spec, d) =
            IF spec.nullable /\ d.null THEN Null
            ELSE IF d.pick = Null /\ ~spec.nullable THEN Text(<<>>) ELSE d.pick
      BY <1>3 DEF ParseLeaf
    <3> QED BY <3>1, <3>2
  <2>4. CASE v \in {Choice(o) : o \in Options}
    <3>1. d.pick = v
      BY <2>1, <2>2, <2>4 DEF Chosen
    <3>2. v.is = "choice"
      BY <2>4, ValueParts
    <3>3. u.is \in {"null", "text", "choice"} /\ (Names(u) => u = v)
      BY ONLY <2>3, <3>1, <3>2, ValueParts DEF Names
    <3> QED BY <3>3, ValuesInside
  <2>5. CASE v \notin {Choice(o) : o \in Options}
    <3>1. d.pick = Null
      BY <1>3, <2>1, <2>2, <2>5 DEF Chosen, NeedsChoice
    <3>2. u.is \in {"null", "text"}
      BY ONLY <2>3, <3>1, ValueParts
    <3> QED BY <3>2, ValuesInside DEF Names
  <2> QED BY <2>4, <2>5
<1>4. CASE spec.kind = "bool"
  <2>1. SettledLeaf(spec, v)
    BY <1>4 DEF StoredLeaf, SettledLeaf
  <2>2. u = v
    BY <2>1, MembersAreKept
  <2>3. v \in {Truth(TRUE), Truth(FALSE), Null}
    BY <1>4 DEF StoredLeaf
  <2>4. v.is \in {"truth", "null"}
    BY <2>3, ValueParts
  <2> QED BY <2>2, <2>4, ValuesInside
<1> QED BY <1>1, <1>2, <1>3, <1>4 DEF LeafSpec

\* The members of an object are stored as its form expects them.
LEMMA StoredMembers ==
  ASSUME NEW f, NEW v, Scalar(v) \/ v = Dict(f), NEW c
  PROVE  IF v = Dict(f) /\ c \in DOMAIN f
           THEN Member(v, c) = f[c] /\ f[c] \in Inside(v)
           ELSE Member(v, c) = Null
<1>1. CASE v = Dict(f)
  <2>1. v.is = "dict" /\ v.of = f
    BY <1>1, ValueParts
  <2> QED BY <1>1, <2>1, ValuesInside DEF Member
<1>2. CASE Scalar(v) /\ v # Dict(f)
  <2>1. v.is # "dict"
    BY <1>2, ScalarValues
  <2> QED BY <1>2, <2>1 DEF Member
<1> QED BY <1>1, <1>2

\* the inputs of an object of a list only where a member does,
LEMMA RowsInventNothing ==
  ASSUME NEW spec, RowSpec(spec), NEW v, StoredObject(StoredLeaf, spec, v),
         NEW u,
         u = ParseObject(ParseLeaf, spec,
                         PostObject(PostMember, spec, BindObject(BindLeaf, spec, v)))
  PROVE  /\ u.is = "dict"
         /\ \A p \in Inside(u) : Inside(p) = {} /\ (Names(p) => p \in Inside(v))
<1> DEFINE b == BindObject(BindLeaf, spec, v)
<1>1. \A c \in DOMAIN spec.children : b.children[c] = BindLeaf(spec.children[c], Member(v, c))
  BY DEF BindObject
<1> HIDE DEF b
<1>2. PICK d : d = PostObject(PostMember, spec, b)
  OBVIOUS
<1>3. \A c \in DOMAIN spec.children :
        d.children[c] = PostLeaf(spec.children[c], BindLeaf(spec.children[c], Member(v, c)), FALSE)
  BY <1>1, <1>2 DEF PostObject, PostMember
<1>4. PICK f : f = [c \in DOMAIN spec.children |-> ParseLeaf(spec.children[c], d.children[c])]
  OBVIOUS
<1>5. u = Dict(f)
  BY <1>2, <1>4 DEF ParseObject, RowSpec, b
<1>6. \A c \in DOMAIN spec.children :
        Inside(f[c]) = {} /\ (Names(f[c]) => f[c] \in Inside(v))
  <2> TAKE c \in DOMAIN spec.children
  <2>1. PICK s, w, x : s = spec.children[c] /\ w = Member(v, c) /\ x = f[c]
    OBVIOUS
  <2>2. LeafSpec(s)
    BY <2>1 DEF RowSpec
  <2>3. PICK g : \/ Scalar(v)
                 \/ /\ v = Dict(g)
                    /\ \A m \in DOMAIN spec.children \cap DOMAIN g :
                         StoredLeaf(spec.children[m], g[m])
    BY DEF StoredObject
  <2>4. StoredLeaf(s, w) /\ (w = Null \/ w \in Inside(v))
    <3>1. IF v = Dict(g) /\ c \in DOMAIN g THEN w = g[c] /\ g[c] \in Inside(v) ELSE w = Null
      BY <2>1, <2>3, StoredMembers
    <3>2. CASE v = Dict(g) /\ c \in DOMAIN g
      <4>1. ~Scalar(v)
        <5>1. v.is = "dict"
          BY <3>2, ValueParts
        <5> QED BY <5>1, ScalarValues
      <4> QED BY <2>1, <2>3, <3>1, <3>2, <4>1
    <3>3. CASE ~(v = Dict(g) /\ c \in DOMAIN g)
      BY <3>1, <3>3, NothingIsStored
    <3> QED BY <3>2, <3>3
  <2>6. x = ParseLeaf(s, PostLeaf(s, BindLeaf(s, w), FALSE))
    BY <1>3, <1>4, <2>1
  <2>7. Inside(x) = {} /\ (Names(x) => x = w)
    <3>1. StoredLeaf(s, w)
      BY <2>4
    <3>2. LeafSpec(s)
      BY <2>2
    <3>3. x = ParseLeaf(s, PostLeaf(s, BindLeaf(s, w), FALSE))
      BY <2>6
    <3> QED BY ONLY <3>1, <3>2, <3>3, MembersInventNothing, Zenon
  <2>8. ~Names(Null)
    BY ValueParts DEF Names
  <2> QED BY <2>1, <2>4, <2>7, <2>8
<1>7. u.is = "dict" /\ Inside(u) = {f[c] : c \in DOMAIN f}
  BY <1>5, ValueParts, ValuesInside
<1> QED BY <1>4, <1>6, <1>7

\* What is said of a part of an object, or of a list: no option is named in it that the
\* stored value does not name at the same depth.
InventsNothing(u, v) ==
  /\ Names(u) => u = v
  /\ \A x \in Inside(u) :
       /\ ~Names(x)
       /\ \A y \in Inside(x) : /\ Inside(y) = {}
                               /\ Names(y) => \E z \in Inside(v) : y \in Inside(z)

\* those of a list only where an object of it does,
LEMMA ListsInventNothing ==
  ASSUME NEW spec, spec.kind = "rows", RowSpec(spec.row), NEW v, StoredRows(spec, v),
         NEW u, u = ParseRows(spec, PostRows(spec, BindPart(spec, v)))
  PROVE  InventsNothing(u, v)
<1>1. PICK n, items :
        /\ n \in Nat
        /\ DOMAIN items = 1..n
        /\ (v.is = "list" => v = List(items))
        /\ items = IF v.is = "list" THEN v.items ELSE <<>>
        /\ \A i \in 1..n : StoredObject(StoredLeaf, spec.row, items[i]) /\ items[i] \in Inside(v)
  <2>1. CASE v.is = "list"
    <3>1. v = List(v.items) /\ IsText(v.items)
          /\ \A i \in DOMAIN v.items : StoredObject(StoredLeaf, spec.row, v.items[i])
      <4>1. ~Scalar(v)
        BY <2>1, ScalarValues
      <4> QED BY <4>1 DEF StoredRows
    <3>2. PICK items : items = v.items
      OBVIOUS
    <3>3. Len(items) \in Nat /\ DOMAIN items = 1..Len(items)
      BY <3>1, <3>2 DEF IsText
    <3>4. \A i \in DOMAIN items : items[i] \in Inside(v)
      <4>1. v = List(items)
        BY <3>1, <3>2
      <4> QED BY <4>1, ValuesInside
    <3> QED BY <2>1, <3>1, <3>2, <3>3, <3>4
  <2>2. CASE v.is # "list"
    <3>1. DOMAIN <<>> = 1..0 /\ 1..0 = {}
      OBVIOUS
    <3> QED BY <2>2, <3>1
  <2> QED BY <2>1, <2>2
<1> DEFINE b == BindPart(spec, v)
<1>2. b.rows = [i \in 1..n |-> BindObject(BindLeaf, spec.row, items[i])]
  <2>1. CASE v.is = "list"
    <3>1. b.rows = [i \in DOMAIN v.items |-> BindObject(BindLeaf, spec.row, v.items[i])]
      BY <2>1 DEF BindPart
    <3>2. v.items = items
      BY <1>1, <2>1
    <3> QED BY <1>1, <3>1, <3>2
  <2>2. CASE v.is # "list"
    <3>1. b.rows = <<>>
      BY <2>2 DEF BindPart
    <3>2. items = <<>> /\ DOMAIN <<>> = {}
      BY <1>1, <2>2
    <3>3. 1..n = {}
      BY <1>1, <3>2
    <3>4. <<>> = [i \in {} |-> BindObject(BindLeaf, spec.row, items[i])]
      OBVIOUS
    <3> QED BY <3>1, <3>3, <3>4
  <2> QED BY <2>1, <2>2
<1> HIDE DEF b
<1>3. PICK d : d = PostRows(spec, b)
  OBVIOUS
<1>4. d.rows = [i \in 1..n |->
        PostObject(PostMember, spec.row, BindObject(BindLeaf, spec.row, items[i]))]
  BY <1>2, <1>3 DEF PostRows
<1> DEFINE rows == [i \in DOMAIN d.rows |-> ParseObject(ParseLeaf, spec.row, d.rows[i])]
           kept == {i \in DOMAIN rows : ~BlankRow(spec.row, rows[i])}
<1>5. DOMAIN rows = 1..n
  BY <1>4
<1>6. \A i \in 1..n :
        /\ rows[i].is = "dict"
        /\ \A p \in Inside(rows[i]) : Inside(p) = {} /\ (Names(p) => p \in Inside(items[i]))
  <2> TAKE i \in 1..n
  <2>1. PICK w, r : w = items[i] /\ r = rows[i]
    OBVIOUS
  <2>2. StoredObject(StoredLeaf, spec.row, w)
    BY <1>1, <2>1
  <2>3. r = ParseObject(ParseLeaf, spec.row,
                        PostObject(PostMember, spec.row, BindObject(BindLeaf, spec.row, w)))
    BY <1>4, <2>1
  <2>4. /\ r.is = "dict"
        /\ \A p \in Inside(r) : Inside(p) = {} /\ (Names(p) => p \in Inside(w))
    BY <2>2, <2>3, RowsInventNothing
  <2> QED BY <2>1, <2>4
<1>7. u = List(Picked(rows, kept))
  BY <1>3 DEF ParseRows, b
<1> HIDE DEF rows
<1>8. kept \in SUBSET Int /\ IsFiniteSet(kept) /\ kept \subseteq 1..n
  <2>1. IsFiniteSet(1..n) /\ 1..n \subseteq Int
    <3>1. 1 \in Int /\ n \in Int
      BY <1>1
    <3> QED BY <3>1, FS_Interval
  <2> QED BY <1>5, <2>1, FS_Subset
<1>9. PICK l : l = Picked(rows, kept)
  OBVIOUS
<1>10. l \in Seq({rows[i] : i \in kept})
  BY <1>8, <1>9, PickedInOrder
<1>11. Inside(u) = {l[k] : k \in DOMAIN l} /\ u.is = "list"
  <2>1. u = List(l)
    BY <1>7, <1>9
  <2> QED BY ONLY <2>1, ValuesInside, ValueParts
<1>12. \A x \in Inside(u) : \E i \in 1..n : x = rows[i]
  BY <1>8, <1>10, <1>11
<1>13. \A x \in Inside(u) :
         /\ ~Names(x)
         /\ \A y \in Inside(x) : /\ Inside(y) = {}
                                 /\ Names(y) => \E z \in Inside(v) : y \in Inside(z)
  <2> TAKE x \in Inside(u)
  <2>1. PICK i \in 1..n : x = rows[i]
    BY <1>12
  <2>2. x.is = "dict" /\ items[i] \in Inside(v)
        /\ \A p \in Inside(x) : Inside(p) = {} /\ (Names(p) => p \in Inside(items[i]))
    BY <1>1, <1>6, <2>1
  <2>3. ~Names(x)
    BY <2>2 DEF Names
  <2> QED BY <2>2, <2>3
<1>14. ~Names(u)
  BY <1>11 DEF Names
<1> QED BY <1>13, <1>14 DEF InventsNothing

\* and those of a part of an object.
LEMMA PartsInventNothing ==
  ASSUME NEW spec, PartSpec(spec), NEW v, StoredPart(spec, v),
         NEW u, u = ParsePart(spec, PostPart(spec, BindPart(spec, v)))
  PROVE  InventsNothing(u, v)
<1>1. CASE spec.kind = "rows"
  <2>1. RowSpec(spec.row) /\ StoredRows(spec, v)
    BY <1>1 DEF PartSpec, LeafSpec, StoredPart
  <2>2. u = ParseRows(spec, PostRows(spec, BindPart(spec, v)))
    BY <1>1 DEF PostPart, ParsePart
  <2> QED BY <1>1, <2>1, <2>2, ListsInventNothing
<1>2. CASE spec.kind # "rows"
  <2>1. LeafSpec(spec) /\ StoredLeaf(spec, v)
    BY <1>2 DEF PartSpec, StoredPart
  <2>2. u = ParseLeaf(spec, PostLeaf(spec, BindLeaf(spec, v), FALSE))
    BY <1>2 DEF BindPart, PostPart, ParsePart, PostMember
  <2>3. Inside(u) = {} /\ (Names(u) => u = v)
    BY ONLY <2>1, <2>2, MembersInventNothing, Zenon
  <2> QED BY <2>3 DEF InventsNothing
<1> QED BY <1>1, <1>2

\* Where nothing is invented at any depth, no option is.
LEMMA InventsNothingOfIt ==
  ASSUME NEW u, NEW v, InventsNothing(u, v)
  PROVE  Picks(u) \subseteq Picks(v)
<1> SUFFICES ASSUME NEW p \in Picks(u) PROVE p \in Picks(v)
  OBVIOUS
<1>1. p \in Parts(u) /\ Names(p)
  BY DEF Picks, Names
<1>2. p \in Parts(v)
  <2>1. \/ p = u
        \/ p \in Inside(u)
        \/ \E x \in Inside(u) : p \in Inside(x)
        \/ \E x \in Inside(u) : \E y \in Inside(x) : p \in Inside(y)
    BY <1>1, PartsByDepth
  <2>2. p = v \/ \E z \in Inside(v) : p \in Inside(z)
    BY <1>1, <2>1 DEF InventsNothing
  <2> QED BY <2>2, PartsByDepth
<1> QED BY <1>1, <1>2 DEF Picks, Names

\* No form names an option that the stored value does not name (review.html).
LEMMA FormsInventNothing ==
  ASSUME NEW spec, FieldSpec(spec), NEW v, Stored(spec, v)
  PROVE  Picks(Parse(spec, Post(spec, Bind(spec, v)))) \subseteq Picks(v)
<1>0. PICK u : u = Parse(spec, Post(spec, Bind(spec, v)))
  OBVIOUS
<1>1. CASE spec.kind = "object"
  <2> DEFINE b == BindObject(BindPart, spec, v)
  <2>1. PICK d : d = PostObject(PostPart, spec, b)
    OBVIOUS
  <2>2. u = ParseObject(ParsePart, spec, d)
    BY <1>0, <1>1, <2>1 DEF Bind, Post, Parse
  <2>3. \A c \in DOMAIN spec.children : b.children[c] = BindPart(spec.children[c], Member(v, c))
    BY DEF BindObject
  <2> HIDE DEF b
  <2>4. \A c \in DOMAIN spec.children :
          d.children[c] = PostPart(spec.children[c], BindPart(spec.children[c], Member(v, c)))
    BY <2>1, <2>3 DEF PostObject
  <2>5. CASE u = Null
    <3>1. u.is = "null" /\ Inside(u) = {}
      BY <2>5, ValueParts, ValuesInside
    <3>2. InventsNothing(u, v)
      BY <3>1 DEF InventsNothing, Names
    <3> QED BY <1>0, <3>2, InventsNothingOfIt
  <2>6. CASE u # Null
    <3>1. PICK f : f = [c \in DOMAIN spec.children |-> ParsePart(spec.children[c], d.children[c])]
      OBVIOUS
    <3>2. u = Dict(f)
      BY <2>2, <2>6, <3>1 DEF ParseObject
    <3>3. \A c \in DOMAIN spec.children :
            /\ InventsNothing(f[c], Member(v, c))
            /\ Member(v, c) = Null \/ Member(v, c) \in Inside(v)
      <4> TAKE c \in DOMAIN spec.children
      <4>1. PICK s, w, x : s = spec.children[c] /\ w = Member(v, c) /\ x = f[c]
        OBVIOUS
      <4>2. PartSpec(s)
        BY <1>1, <4>1 DEF FieldSpec, PartSpec, LeafSpec
      <4>3. PICK g : \/ Scalar(v)
                     \/ /\ v = Dict(g)
                        /\ \A m \in DOMAIN spec.children \cap DOMAIN g :
                             StoredPart(spec.children[m], g[m])
        BY <1>1 DEF Stored, StoredObject
      <4>4. StoredPart(s, w) /\ (w = Null \/ w \in Inside(v))
        <5>1. IF v = Dict(g) /\ c \in DOMAIN g THEN w = g[c] /\ g[c] \in Inside(v) ELSE w = Null
          BY <4>1, <4>3, StoredMembers
        <5>2. CASE v = Dict(g) /\ c \in DOMAIN g
          <6>1. ~Scalar(v)
            <7>1. v.is = "dict"
              BY <5>2, ValueParts
            <7> QED BY <7>1, ScalarValues
          <6> QED BY <4>1, <4>3, <5>1, <5>2, <6>1
        <5>3. CASE ~(v = Dict(g) /\ c \in DOMAIN g)
          BY <5>1, <5>3, NothingIsStored
        <5> QED BY <5>2, <5>3
      <4>5. x = ParsePart(s, PostPart(s, BindPart(s, w)))
        BY <2>4, <3>1, <4>1
      <4>6. StoredPart(s, w)
        BY <4>4
      <4>7. InventsNothing(x, w)
        BY ONLY <4>2, <4>5, <4>6, PartsInventNothing, Zenon
      <4> QED BY <4>1, <4>4, <4>7
    <3>4. ~Names(Null) /\ Inside(Null) = {}
      BY ValueParts, ValuesInside DEF Names
    <3>5. u.is = "dict" /\ Inside(u) = {f[c] : c \in DOMAIN f} /\ DOMAIN f = DOMAIN spec.children
      BY <3>1, <3>2, ValueParts, ValuesInside
    <3> SUFFICES ASSUME NEW p \in Picks(u) PROVE p \in Picks(v)
      BY <1>0
    <3>6. p \in Parts(u) /\ Names(p)
      BY DEF Picks, Names
    <3>7. ~Names(u)
      BY <3>5 DEF Names
    <3>8. PICK x \in Inside(u) : \/ p = x
                                 \/ p \in Inside(x)
                                 \/ \E y \in Inside(x) : p \in Inside(y)
      BY <3>6, <3>7, PartsByDepth
    <3>9. PICK w : InventsNothing(x, w) /\ (w = Null \/ w \in Inside(v))
      BY <3>3, <3>5
    <3>10. p = w \/ \E z \in Inside(w) : p \in Inside(z)
      BY <3>6, <3>8, <3>9 DEF InventsNothing
    <3>11. p \in Parts(v)
      BY <3>4, <3>6, <3>9, <3>10, PartsByDepth
    <3> QED BY <3>6, <3>11 DEF Picks, Names
  <2> QED BY <2>5, <2>6
<1>2. CASE spec.kind # "object"
  <2>1. PartSpec(spec) /\ StoredPart(spec, v)
    BY <1>2 DEF FieldSpec, Stored
  <2>2. CASE spec.kind = "rows"
    <3>1. u = ParsePart(spec, PostPart(spec, BindPart(spec, v)))
      BY <1>0, <2>2 DEF Parse, Post, Bind, PostPart
    <3>2. InventsNothing(u, v)
      BY ONLY <2>1, <3>1, PartsInventNothing, Zenon
    <3> QED BY <1>0, <3>2, InventsNothingOfIt
  <2>3. CASE spec.kind # "rows"
    <3>1. LeafSpec(spec) /\ StoredLeaf(spec, v)
      BY <2>1, <2>3 DEF PartSpec, StoredPart
    <3>2. PICK b : b = BindLeaf(spec, v)
      OBVIOUS
    <3>3. Bind(spec, v) = b
      BY <1>2, <2>3, <3>2 DEF Bind, BindPart
    <3>4. spec.kind # "lines" => b.is_null = IsNull(v)
      BY <3>2 DEF BindLeaf
    <3>5. spec.nullable \in BOOLEAN /\ IsNull(v) \in BOOLEAN
      BY <3>1 DEF LeafSpec, IsNull
    <3>6. PICK null : null = (spec.kind # "lines" /\ spec.nullable /\ IsNull(v))
      OBVIOUS
    <3>7. Post(spec, b) = PostLeaf(spec, b, null)
      BY <1>2, <2>3, <3>4, <3>5, <3>6 DEF Post
    <3>8. u = ParseLeaf(spec, PostLeaf(spec, BindLeaf(spec, v), null))
      BY <1>0, <1>2, <2>3, <3>2, <3>3, <3>7 DEF Parse, ParsePart
    <3>10. LeafSpec(spec)
      BY <3>1
    <3>11. StoredLeaf(spec, v)
      BY <3>1
    <3>12. Inside(u) = {} /\ (Names(u) => u = v)
      <4>1. CASE null = FALSE
        <5>1. u = ParseLeaf(spec, PostLeaf(spec, BindLeaf(spec, v), FALSE))
          BY <3>8, <4>1
        <5> QED BY ONLY <3>10, <3>11, <5>1, MembersInventNothing, Zenon
      <4>2. CASE null # FALSE
        <5>1. spec.kind # "lines" /\ spec.nullable /\ v = Null /\ null = TRUE
          BY <3>5, <3>6, <4>2 DEF IsNull
        <5>2. PICK d : d = PostLeaf(spec, BindLeaf(spec, v), null)
          OBVIOUS
        <5>3. d.null = TRUE
          BY <3>10, <5>1, <5>2 DEF PostLeaf, LeafSpec
        <5>4. u = Null
          BY <3>8, <5>1, <5>2, <5>3 DEF ParseLeaf
        <5> QED BY <5>1, <5>4, ValueParts, ValuesInside
      <4> QED BY <4>1, <4>2
    <3>13. InventsNothing(u, v)
      BY <3>12 DEF InventsNothing
    <3> QED BY <1>0, <3>13, InventsNothingOfIt
  <2> QED BY <2>2, <2>3
<1> QED BY <1>1, <1>2

\* A text or a list of lines that is tidy.
IsTidy(p) == /\ p.is = "text" => TidyText(p.text)
             /\ p.is = "lines" => \A i \in DOMAIN p.lines : TidyText(p.lines[i])

\* All the texts of a tidy value are tidy, at every depth.
LEMMA TidyParts ==
  ASSUME NEW v, Tidy(v)
  PROVE  /\ IsTidy(v)
         /\ \A x \in Inside(v) : /\ IsTidy(x)
                                 /\ \A y \in Inside(x) : /\ IsTidy(y)
                                                         /\ \A z \in Inside(y) : IsTidy(z)
<1>1. \A p \in Parts(v) : IsTidy(p)
  BY DEF Tidy, IsTidy
<1> QED BY <1>1, PartsByDepth

\* A tidy leaf that its type accepts is settled, and says something where it must,
LEMMA LeavesSettle ==
  ASSUME NEW label, NEW node, LeafNode(node), NEW spec, spec = BuildLeaf(label, node),
         NEW v, StoredLeaf(spec, v), ValidLeaf(node, v), IsTidy(v)
  PROVE  /\ SettledLeaf(spec, v)
         /\ node.type = "string" /\ ~node.nullable => v \notin {Null, Text(<<>>)}
<1>1. /\ LeafSpec(spec) /\ spec.nullable = node.nullable
      /\ node.type = "string" <=> spec.kind \in {"text", "textarea"}
      /\ node.type = "enum" <=> spec.kind = "select"
      /\ node.type = "boolean" <=> spec.kind = "bool"
      /\ node.type = "strings" <=> spec.kind = "lines"
  BY LeafInputs
<1>2. CASE v = Null /\ node.nullable
  <2>1. spec.kind # "lines"
    BY <1>1, <1>2 DEF LeafNode
  <2> QED BY <1>1, <1>2, <2>1 DEF SettledLeaf, LeafSpec
<1>3. CASE node.type = "string" /\ v.is = "text"
  <2>1. v = Text(v.text) /\ IsText(v.text)
    BY <1>3, ScalarValues DEF StoredLeaf
  <2>2. TidyText(v.text)
    BY <1>3 DEF IsTidy
  <2>3. SettledText(spec, v.text)
    BY <2>1, <2>2 DEF TidyText, SettledText, Break
  <2>4. v \notin {Null, Text(<<>>)}
    <3>1. v.text # <<>>
      BY <2>2 DEF TidyText
    <3>2. PICK t : t = v.text
      OBVIOUS
    <3>3. v.is = "text" /\ v.text = t /\ t # <<>>
      BY <1>3, <3>1, <3>2
    <3>4. Null.is = "null" /\ Text(<<>>).text = <<>>
      BY ValueParts
    <3> QED BY <3>3, <3>4
  <2> QED BY <1>1, <1>3, <2>1, <2>3, <2>4 DEF SettledLeaf
<1>4. CASE node.type = "enum" /\ v.is = "choice" /\ v.option \in Options
  <2>1. v = Choice(v.option)
    BY <1>4, ScalarValues DEF StoredLeaf
  <2> QED BY <1>1, <1>4, <2>1 DEF SettledLeaf
<1>5. CASE node.type = "boolean" /\ v.is = "truth"
  BY <1>1, <1>5 DEF SettledLeaf, StoredLeaf
<1>6. CASE node.type = "strings" /\ v.is = "lines"
  <2>1. v = Lines(v.lines) /\ IsText(v.lines) /\ \A k \in DOMAIN v.lines : IsText(v.lines[k])
    BY <1>6, ScalarValues DEF StoredLeaf
  <2>2. \A k \in DOMAIN v.lines : TidyText(v.lines[k])
    BY <1>6 DEF IsTidy
  <2>3. \A k \in DOMAIN v.lines : IsLine(v.lines[k])
    BY <2>1, <2>2 DEF TidyText, IsLine
  <2> QED BY <1>1, <1>6, <2>1, <2>3 DEF SettledLeaf
<1> QED BY <1>2, <1>3, <1>4, <1>5, <1>6 DEF ValidLeaf

\* an object of a list that its type accepts is settled, and is no blank row,
LEMMA RowsSettle ==
  ASSUME NEW node, RowNode(node), NEW spec, spec = BuildObject(BuildLeaf, node),
         NEW v, StoredObject(StoredLeaf, spec, v), ValidObject(ValidLeaf, node, v),
         \A x \in Inside(v) : IsTidy(x)
  PROVE  SettledObject(SettledLeaf, spec, v) /\ ~BlankRow(spec, v)
<1>1. /\ RowSpec(spec) /\ DOMAIN spec.children = DOMAIN node.members
      /\ \A m \in DOMAIN node.members : spec.children[m] = BuildLeaf(m, node.members[m])
  BY RowInputs
<1>2. /\ v.is = "dict" /\ DOMAIN v.of = DOMAIN node.members
      /\ \A m \in DOMAIN v.of : ValidLeaf(node.members[m], v.of[m])
  BY DEF ValidObject, RowNode
<1>3. PICK f : /\ v = Dict(f) /\ f = v.of /\ f = [m \in DOMAIN f |-> f[m]]
               /\ \A c \in DOMAIN spec.children \cap DOMAIN f : StoredLeaf(spec.children[c], f[c])
  <2>1. ~Scalar(v)
    BY <1>2, ScalarValues
  <2> QED BY <2>1 DEF StoredObject
<1>4. \A m \in DOMAIN node.members :
        /\ SettledLeaf(spec.children[m], f[m])
        /\ node.members[m].type = "string" /\ ~node.members[m].nullable =>
             f[m] \notin {Null, Text(<<>>)}
  <2> TAKE m \in DOMAIN node.members
  <2>1. PICK n, s, w : n = node.members[m] /\ s = spec.children[m] /\ w = f[m]
    OBVIOUS
  <2>2. LeafNode(n)
    BY <2>1 DEF RowNode
  <2>3. s = BuildLeaf(m, n)
    BY <1>1, <2>1
  <2>4. StoredLeaf(s, w)
    BY <1>1, <1>2, <1>3, <2>1
  <2>5. ValidLeaf(n, w)
    BY <1>2, <1>3, <2>1
  <2>6. IsTidy(w)
    <3>1. w \in Inside(v)
      BY <1>2, <1>3, <2>1, ValuesInside
    <3> QED BY <3>1
  <2>7. /\ SettledLeaf(s, w)
        /\ n.type = "string" /\ ~n.nullable => w \notin {Null, Text(<<>>)}
    BY ONLY <2>2, <2>3, <2>4, <2>5, <2>6, LeavesSettle, Zenon
  <2> QED BY <2>1, <2>7
<1>5. v = Dict(v.of) /\ v.of = [c \in DOMAIN spec.children |-> v.of[c]]
  BY <1>1, <1>2, <1>3
<1>6. SettledObject(SettledLeaf, spec, v)
  BY <1>1, <1>3, <1>4, <1>5 DEF SettledObject
<1>7. ~BlankRow(spec, v)
  <2>1. PICK m \in DOMAIN node.members :
          node.members[m].type = "string" /\ ~node.members[m].nullable
    BY DEF RowNode
  <2>2. spec.children[m].kind \in {"text", "textarea"}
    <3>1. PICK n : n = node.members[m]
      OBVIOUS
    <3>2. LeafNode(n) /\ n.type = "string"
      BY <2>1, <3>1 DEF RowNode
    <3>3. BuildLeaf(m, n).kind \in {"text", "textarea"}
      BY <3>2, LeafInputs
    <3> QED BY <1>1, <3>1, <3>3
  <2>3. v.of[m] \notin {Null, Text(<<>>)}
    BY <1>3, <1>4, <2>1
  <2> QED BY <1>1, <2>1, <2>2, <2>3 DEF BlankRow
<1> QED BY <1>6, <1>7

\* and so is a part of an object.
LEMMA PartsSettle ==
  ASSUME NEW label, NEW node, PartNode(node), NEW spec, spec = BuildPart(label, node),
         NEW v, StoredPart(spec, v), ValidPart(node, v), IsTidy(v),
         \A x \in Inside(v) : \A y \in Inside(x) : IsTidy(y)
  PROVE  SettledPart(spec, v)
<1>1. CASE LeafNode(node)
  <2>1. spec = BuildLeaf(label, node) /\ LeafSpec(spec)
    <3>1. spec = BuildLeaf(label, node)
      BY <1>1, PartInputs
    <3> QED BY <1>1, <3>1, LeafInputs
  <2>2. spec.kind # "rows" /\ node.type # "objects"
    BY <1>1, <2>1 DEF LeafSpec, LeafNode
  <2>3. StoredLeaf(spec, v)
    BY <2>2 DEF StoredPart
  <2>4. ValidLeaf(node, v)
    BY <2>2 DEF ValidPart
  <2>5. SettledLeaf(spec, v)
    BY <1>1, <2>1, <2>3, <2>4, LeavesSettle
  <2> QED BY <2>2, <2>5 DEF SettledPart
<1>2. CASE ~LeafNode(node)
  <2>1. /\ node.type = "objects" /\ RowNode(node.item) /\ spec.kind = "rows"
        /\ spec.row = BuildObject(BuildLeaf, node.item)
    BY <1>2, PartInputs
  <2>2. v.is = "list" /\ \A i \in DOMAIN v.items : ValidObject(ValidLeaf, node.item, v.items[i])
    BY <2>1 DEF ValidPart
  <2>3. PICK l : /\ v = List(l) /\ l = v.items /\ IsText(l)
                 /\ \A i \in DOMAIN l : StoredObject(StoredLeaf, spec.row, l[i])
    <3>1. ~Scalar(v)
      BY <2>2, ScalarValues
    <3> QED BY <2>1, <3>1 DEF StoredPart, StoredRows
  <2>4. \A i \in DOMAIN l :
          SettledObject(SettledLeaf, spec.row, l[i]) /\ ~BlankRow(spec.row, l[i])
    <3> TAKE i \in DOMAIN l
    <3>1. PICK w, n, s : w = l[i] /\ n = node.item /\ s = spec.row
      OBVIOUS
    <3>2. RowNode(n) /\ s = BuildObject(BuildLeaf, n)
      BY <2>1, <3>1
    <3>3. StoredObject(StoredLeaf, s, w)
      BY <2>3, <3>1
    <3>4. ValidObject(ValidLeaf, n, w)
      BY <2>2, <2>3, <3>1
    <3>5. \A x \in Inside(w) : IsTidy(x)
      <4>1. w \in Inside(v)
        BY <2>3, <3>1, ValuesInside
      <4> QED BY <4>1
    <3>6. SettledObject(SettledLeaf, s, w) /\ ~BlankRow(s, w)
      BY <3>2, <3>3, <3>4, <3>5, RowsSettle
    <3> QED BY <3>1, <3>6
  <2>5. SettledRows(spec, v)
    BY <2>3, <2>4 DEF SettledRows
  <2> QED BY <2>1, <2>5 DEF SettledPart
<1> QED BY <1>1, <1>2

\* A tidy value that its type accepts is settled.
LEMMA TidyValuesAreSettled ==
  ASSUME NEW label, NEW node, FieldNode(node), NEW spec, spec = Build(label, node),
         NEW v, Stored(spec, v), Valid(node, v), Tidy(v)
  PROVE  Settled(spec, v)
<1>0. /\ IsTidy(v)
      /\ \A x \in Inside(v) : /\ IsTidy(x)
                              /\ \A y \in Inside(x) : /\ IsTidy(y)
                                                      /\ \A z \in Inside(y) : IsTidy(z)
  BY TidyParts
<1>1. CASE PartNode(node)
  <2>1. node.type # "object" /\ spec = BuildPart(label, node) /\ PartSpec(spec)
    BY <1>1, FieldInputs, PartInputs
  <2>2. spec.kind # "object"
    BY <2>1 DEF PartSpec, LeafSpec
  <2>3. StoredPart(spec, v)
    BY <2>2 DEF Stored
  <2>4. ValidPart(node, v)
    BY <2>1 DEF Valid
  <2>5. SettledPart(spec, v)
    BY <1>0, <1>1, <2>1, <2>3, <2>4, PartsSettle
  <2> QED BY <2>2, <2>5 DEF Settled
<1>2. CASE ~PartNode(node)
  <2>1. /\ node.type = "object" /\ spec.kind = "object" /\ spec.nullable = node.nullable
        /\ DOMAIN spec.children = DOMAIN node.members
        /\ \A m \in DOMAIN node.members :
             PartNode(node.members[m]) /\ spec.children[m] = BuildPart(m, node.members[m])
    BY <1>2, FieldInputs
  <2>2. StoredObject(StoredPart, spec, v) /\ ValidObject(ValidPart, node, v)
    BY <2>1 DEF Stored, Valid
  <2>3. CASE v = Null /\ node.nullable
    BY <2>1, <2>3 DEF Settled, SettledObject
  <2>4. CASE ~(v = Null /\ node.nullable)
    <3>1. /\ v.is = "dict" /\ DOMAIN v.of = DOMAIN node.members
          /\ \A m \in DOMAIN v.of : ValidPart(node.members[m], v.of[m])
      BY <2>2, <2>4 DEF ValidObject
    <3>2. PICK f : /\ v = Dict(f) /\ f = v.of /\ f = [m \in DOMAIN f |-> f[m]]
                   /\ \A c \in DOMAIN spec.children \cap DOMAIN f :
                        StoredPart(spec.children[c], f[c])
      <4>1. ~Scalar(v)
        BY <3>1, ScalarValues
      <4> QED BY <2>2, <4>1 DEF StoredObject
    <3>3. \A m \in DOMAIN node.members : SettledPart(spec.children[m], f[m])
      <4> TAKE m \in DOMAIN node.members
      <4>1. PICK n, s, w : n = node.members[m] /\ s = spec.children[m] /\ w = f[m]
        OBVIOUS
      <4>2. PartNode(n) /\ s = BuildPart(m, n)
        BY <2>1, <4>1
      <4>3. StoredPart(s, w)
        BY <2>1, <3>1, <3>2, <4>1
      <4>4. ValidPart(n, w)
        BY <3>1, <3>2, <4>1
      <4>5. IsTidy(w) /\ \A x \in Inside(w) : \A y \in Inside(x) : IsTidy(y)
        <5>1. w \in Inside(v)
          BY <3>1, <3>2, <4>1, ValuesInside
        <5> QED BY <1>0, <5>1
      <4>6. SettledPart(s, w)
        BY <4>2, <4>3, <4>4, <4>5, PartsSettle
      <4> QED BY <4>1, <4>6
    <3>4. v = Dict(v.of) /\ v.of = [c \in DOMAIN spec.children |-> v.of[c]]
      BY <2>1, <3>1, <3>2
    <3> QED BY <2>1, <3>2, <3>3, <3>4 DEF Settled, SettledObject
  <2> QED BY <2>3, <2>4
<1> QED BY <1>1, <1>2

\* The form of any stored value names no option that the value does not name ("a correction
\* never silently inherits the first option", forms.py), and says the value where it is valid
\* and tidy.
THEOREM EveryFormShowsItsValue ==
  ASSUME NEW field \in DOMAIN IncidentRecord, NEW v, Stored(form_spec[field], v)
  PROVE  FormShowsTheValue(field, v)
<1>1. PICK spec, node : spec = form_spec[field] /\ node = IncidentRecord[field]
  OBVIOUS
<1>2. FieldNode(node) /\ spec = Build(field, node) /\ FieldSpec(spec)
  <2>1. FieldNode(node) /\ spec = Build(field, node)
    BY <1>1, FieldTypes DEF form_spec
  <2> QED BY <2>1, FieldInputs
<1>3. Stored(spec, v)
  BY <1>1
<1>4. PICK said : said = Parse(spec, Post(spec, Bind(spec, v)))
  OBVIOUS
<1>5. Picks(said) \subseteq Picks(v)
  BY <1>2, <1>3, <1>4, FormsInventNothing
<1>6. ASSUME Valid(node, v), Tidy(v) PROVE said = v
  <2>1. Settled(spec, v)
    BY <1>2, <1>3, <1>6, TidyValuesAreSettled
  <2> QED BY <1>2, <1>4, <2>1, SettledValuesAreKept
<1> QED BY <1>1, <1>4, <1>5, <1>6 DEF FormShowsTheValue, Untouched

\* An untouched form of a valid, tidy value is no correction: it is answered with "use
\* accept" (fields.py record_decision).  UntouchedFormsAreRefused fails for other values only.
THEOREM UntouchedTidyFormsAreRefused ==
  ASSUME NEW field \in DOMAIN IncidentRecord, NEW v, Stored(form_spec[field], v),
         Valid(IncidentRecord[field], v), Tidy(v)
  PROVE  UntouchedIsNoCorrection(field, v)
<1>1. Parse(form_spec[field], Untouched(field, v)) = v
  BY EveryFormShowsItsValue DEF FormShowsTheValue
<1>2. Correct(field, v, Untouched(field, v)) = "equals the extracted value"
  BY <1>1 DEF Correct
<1> QED BY <1>2 DEF UntouchedIsNoCorrection

-------------------------------------------------------------------------------
(* The invariants *)

\* A state is an input that never changes.
LEMMA InputsStay ==
  ASSUME Next \/ UNCHANGED input
  PROVE  input' = input
BY DEF Next

\* The kind of an input says which it is of.
LEMMA KindsOfInputs ==
  ASSUME Init
  PROVE  /\ input.kind = "anchors" => input \in AnchorInputs
         /\ input.kind = "source" => input \in SourceInputs
         /\ input.kind = "quote" => input \in QuoteInputs
         /\ input.kind = "value" => input \in ValueInputs
         /\ input.kind = "submission" => input \in SubmissionInputs
         /\ input.kind = "split" => input \in SplitInputs
         /\ input.kind = "gate" => input \in GateInputs
         /\ input.kind = "scores" => input \in ScoreInputs
         /\ input.kind = "bar" => input \in BarInputs
         /\ input.kind = "report" => input \in ReportInputs
<1>1. /\ input \in AnchorInputs => input.kind = "anchors"
      /\ input \in SourceInputs => input.kind = "source"
      /\ input \in QuoteInputs => input.kind = "quote"
      /\ input \in SplitInputs => input.kind = "split"
      /\ input \in GateInputs => input.kind = "gate"
      /\ input \in ScoreInputs => input.kind = "scores"
      /\ input \in BarInputs => input.kind = "bar"
      /\ input \in ReportInputs => input.kind = "report"
  BY DEF AnchorInputs, SourceInputs, QuoteInputs, SplitInputs, GateInputs, ScoreInputs,
         BarInputs, ReportInputs
<1>2. input \in ValueInputs => input.kind = "value"
  BY DEF ValueInputs
<1>3. input \in SubmissionInputs => input.kind = "submission"
  BY DEF SubmissionInputs
<1> QED BY <1>1, <1>2, <1>3 DEF Init

\* Every derived duration is the time that passed if and only if its anchors share a
\* clock, for all times and offsets (derive.py derive_durations).
THEOREM DurationsAreAlwaysRightOnOneClock ==
  Spec => []DurationsAreRightOnOneClock
<1>1. Init => DurationsAreRightOnOneClock
  <2> SUFFICES ASSUME Init, input.kind = "anchors"
               PROVE  DurationsHold(input.start, input.ends[1], input.ends[2])
    BY DEF DurationsAreRightOnOneClock
  <2>1. input \in AnchorInputs
    BY KindsOfInputs
  <2>2. input.start \in Anchors /\ input.ends[1] \in Anchors /\ input.ends[2] \in Anchors
    BY <2>1 DEF AnchorInputs
  <2> QED BY <2>2, DurationsAlwaysHold
<1>2. DurationsAreRightOnOneClock /\ [Next]_input => DurationsAreRightOnOneClock'
  <2> SUFFICES ASSUME DurationsAreRightOnOneClock, [Next]_input PROVE DurationsAreRightOnOneClock'
    OBVIOUS
  <2>1. input' = input
    BY InputsStay
  <2> QED BY <2>1 DEF DurationsAreRightOnOneClock
<1> QED BY <1>1, <1>2, PTL DEF Spec

\* The passages and the candidates of a document, and the places of a quote, are what the
\* reviewer may take them for, for documents and quotes of any length (candidates.py,
\* context.py).
THEOREM SourcesAreAlwaysShown ==
  Spec => []SourceIsShown
<1>1. Init => SourceIsShown
  <2> SUFFICES ASSUME Init PROVE SourceIsShown
    OBVIOUS
  <2>1. MaxDocument \in Int /\ MaxQuote \in Int /\ {"w", "W", "."} \subseteq DOMAIN Lower
    BY AlgorithmsAssumption
  <2>2. \A S, n : n \in Int => UpTo(S, n) \subseteq Seq(S)
    BY DEF UpTo
  <2>3. ASSUME input.kind = "source" PROVE PassagesHold(input.document)
    <3>1. input \in SourceInputs
      BY <2>3, KindsOfInputs
    <3>2. \/ input.document \in UpTo({"cue", "sign", "nl"}, MaxDocument)
          \/ input.document \in UpTo({"cue", "w", ".", " ", "nl"}, MaxDocument - 2)
      BY <3>1 DEF SourceInputs
    <3>3. MaxDocument - 2 \in Int
      BY <2>1
    <3>4. \/ input.document \in Seq({"cue", "sign", "nl"})
          \/ input.document \in Seq({"cue", "w", ".", " ", "nl"})
      BY <2>1, <2>2, <3>2, <3>3
    <3> QED BY <3>4, PassagesAlwaysHold
  <2>4. ASSUME input.kind = "quote" PROVE QuotesHold(input.document, input.quote)
    <3>1. input \in QuoteInputs
      BY <2>4, KindsOfInputs
    <3>2. /\ input.document \in UpTo({"w", "W", ".", " ", "nl"}, MaxDocument - 3)
          /\ input.quote \in UpTo({"w", "W", " "}, MaxQuote)
      BY <3>1 DEF QuoteInputs
    <3>3. MaxDocument - 3 \in Int
      BY <2>1
    <3>4. /\ input.document \in Seq({"w", "W", ".", " ", "nl"})
          /\ input.quote \in Seq({"w", "W", " "})
      BY <2>1, <2>2, <3>2, <3>3
    <3>5. /\ {"w", "W", ".", " ", "nl"} \subseteq DOMAIN Lower \cup Space
          /\ {"w", "W", " "} \subseteq DOMAIN Lower \cup Space
      BY <2>1 DEF Space
    <3>6. \A S, T : S \subseteq T => Seq(S) \subseteq Seq(T)
      OBVIOUS
    <3>7. /\ input.document \in Seq(DOMAIN Lower \cup Space)
          /\ input.quote \in Seq(DOMAIN Lower \cup Space)
      BY <3>4, <3>5, <3>6
    <3> QED BY <3>7, QuotesAreAlwaysFound
  <2> QED BY <2>3, <2>4 DEF SourceIsShown
<1>2. SourceIsShown /\ [Next]_input => SourceIsShown'
  <2> SUFFICES ASSUME SourceIsShown, [Next]_input PROVE SourceIsShown'
    OBVIOUS
  <2>1. input' = input
    BY InputsStay
  <2> QED BY <2>1 DEF SourceIsShown
<1> QED BY <1>1, <1>2, PTL DEF Spec

\* The numbers up to n are n.
LEMMA NumbersUpTo ==
  ASSUME NEW n \in Nat
  PROVE  IsFiniteSet(1..n) /\ Cardinality(1..n) = n /\ 1..n \in SUBSET Nat
<1>1. 1 \in Int /\ n \in Int /\ (1 > n => n = 0) /\ n - 1 + 1 = n
  OBVIOUS
<1> QED BY <1>1, FS_Interval

\* The document of a split, a gate, a score or a bar is one the theorems speak of.
LEMMA EvaluationInputs ==
  ASSUME Init
  PROVE  /\ input.kind = "split" => /\ input.sizes \in [1..4 -> 1..MaxStratum]
                                    /\ input.dev \in 1..4
         /\ input.kind = "gate" => input.doc \in GoldDocument
         /\ input.kind = "scores" => \/ input.docs \in [1..2 -> ScoredDocument]
                                     \/ input.docs \in [1..1 -> ScoredDocument]
         /\ input.kind = "bar" => input.pairs \in [agree : Nat, others : Nat, differ : Nat]
<1>1. /\ input.kind = "split" => input \in SplitInputs
      /\ input.kind = "gate" => input \in GateInputs
      /\ input.kind = "scores" => input \in ScoreInputs
      /\ input.kind = "bar" => input \in BarInputs
  BY KindsOfInputs
<1>2. ScoredDocuments \subseteq ScoredDocument
  <2> SUFFICES ASSUME NEW d \in ScoredDocuments PROVE d \in ScoredDocument
    OBVIOUS
  <2>1. CASE d \in [gold : Labels \cup {NullLabel}, pred : Labels \cup {NullLabel},
                    confidence : {0, 1, 2, 14, 20}, extracted : {TRUE}]
    <3> DEFINE G == Labels \cup {NullLabel}
    <3>1. d.gold \in G /\ d.pred \in G
      BY <2>1
    <3>2. d.confidence \in 0..20 /\ d.extracted \in BOOLEAN
      <4>1. d.confidence \in {0, 1, 2, 14, 20} /\ d.extracted \in {TRUE}
        BY <2>1, Zenon
      <4>2. {0, 1, 2, 14, 20} \subseteq 0..20
        OBVIOUS
      <4>3. {TRUE} \subseteq BOOLEAN
        BY Zenon
      <4> QED BY <4>1, <4>2, <4>3, Zenon
    <3>3. d = [gold |-> d.gold, pred |-> d.pred, confidence |-> d.confidence,
               extracted |-> d.extracted]
      BY <2>1
    <3> HIDE DEF G
    <3>4. d \in [gold : G, pred : G, confidence : 0..20 \cup {Unrecorded}, extracted : BOOLEAN]
      BY ONLY <3>1, <3>2, <3>3
    <3> QED BY <3>4 DEF ScoredDocument, G
  <2>2. CASE d \in [gold : Labels \cup {NullLabel}, pred : {NullLabel}, confidence : {0},
                    extracted : {FALSE}]
    <3> DEFINE G == Labels \cup {NullLabel}
    <3>1. d.gold \in G /\ d.pred \in G
      BY <2>2
    <3>2. d.confidence \in 0..20 /\ d.extracted \in BOOLEAN
      <4>1. d.confidence \in {0} /\ d.extracted \in {FALSE}
        BY <2>2, Zenon
      <4>2. {0} \subseteq 0..20
        OBVIOUS
      <4>3. {FALSE} \subseteq BOOLEAN
        BY Zenon
      <4> QED BY <4>1, <4>2, <4>3, Zenon
    <3>3. d = [gold |-> d.gold, pred |-> d.pred, confidence |-> d.confidence,
               extracted |-> d.extracted]
      BY <2>2
    <3> HIDE DEF G
    <3>4. d \in [gold : G, pred : G, confidence : 0..20 \cup {Unrecorded}, extracted : BOOLEAN]
      BY ONLY <3>1, <3>2, <3>3
    <3> QED BY <3>4 DEF ScoredDocument, G
  <2> QED BY <2>1, <2>2 DEF ScoredDocuments
<1>3. input \in ScoreInputs => \/ input.docs \in [1..2 -> ScoredDocument]
                               \/ input.docs \in [1..1 -> ScoredDocument]
  <2> SUFFICES ASSUME input \in ScoreInputs
               PROVE  \/ input.docs \in [1..2 -> ScoredDocument]
                      \/ input.docs \in [1..1 -> ScoredDocument]
    OBVIOUS
  <2>1. input.docs \in [1..2 -> ScoredDocuments] \/ input.docs \in [1..1 -> ScoredDocuments]
    BY DEF ScoreInputs
  <2> QED BY <1>2, <2>1
<1>4. input \in GateInputs => input.doc \in GoldDocument
  BY DEF GateInputs, GoldDocuments, GoldDocument
<1>5. input \in SplitInputs => input.sizes \in [1..4 -> 1..MaxStratum] /\ input.dev \in 1..4
  BY DEF SplitInputs
<1>6. input \in BarInputs => input.pairs \in [agree : Nat, others : Nat, differ : Nat]
  BY DEF BarInputs
<1> QED BY <1>1, <1>3, <1>4, <1>5, <1>6

\* Four strata that are not empty have at least four documents.
LEMMA FourStrata ==
  ASSUME NEW sizes \in [1..4 -> Nat \ {0}]
  PROVE  4 <= Total(sizes)
<1>0. 4 \in Nat
  OBVIOUS
<1> DEFINE ones == [x \in 1..4 |-> IF x \in 1..4 THEN 1 ELSE 0]
<1>1. IsFiniteSet(1..4) /\ Cardinality(1..4) = 4
  BY <1>0, NumbersUpTo
<1>2. Total(ones) = 4
  <2>1. 1..4 \in SUBSET (1..4)
    OBVIOUS
  <2> QED BY <1>1, <2>1, SumOfOnes
<1>3. ones \in [1..4 -> Int] /\ sizes \in [1..4 -> Int] /\ \A x \in 1..4 : ones[x] <= sizes[x]
  OBVIOUS
<1> HIDE DEF ones
<1>4. Total(ones) <= Total(sizes)
  BY ONLY <1>1, <1>3, SumsCompare
<1> QED BY <1>2, <1>4

\* The split, the gate, the scores and the bar are right whatever the vocabulary is and
\* however large the strata are (eval/scripts, scripts/repro_check.py).
THEOREM EvaluationAlwaysAddsUp ==
  Spec => []EvaluationAddsUp
<1>1. Init => EvaluationAddsUp
  <2> SUFFICES ASSUME Init PROVE EvaluationAddsUp
    OBVIOUS
  <2>1. ASSUME input.kind = "split" PROVE SplitIsProportional(input.sizes, input.dev)
    <3>1. input.sizes \in [1..4 -> Nat \ {0}] /\ input.dev \in 1..4
      BY <2>1, EvaluationInputs, AlgorithmsAssumption
    <3>2. IsFiniteSet(1..4) /\ 1..4 # {}
      <4>1. 4 \in Nat /\ 1 \in 1..4
        OBVIOUS
      <4> QED BY <4>1, NumbersUpTo
    <3>3. input.dev \in 0..Total(input.sizes)
      <4>1. 4 <= Total(input.sizes)
        BY <3>1, FourStrata
      <4>2. Total(input.sizes) \in Int
        <5>1. input.sizes \in [1..4 -> Int]
          BY <3>1
        <5> QED BY <3>2, <5>1, TotalType
      <4> QED BY <3>1, <4>1, <4>2
    <3> QED BY <3>1, <3>2, <3>3, SplitIsAlwaysProportional
  <2>2. ASSUME input.kind = "gate" PROVE GateIsExact({input.doc})
    BY <2>2, EvaluationInputs, StrictGateIsExact
  <2>3. ASSUME input.kind = "scores" PROVE ScoresAddUp(input.docs)
    <3>1. IsFiniteSet(1..1) /\ IsFiniteSet(1..2)
      <4>1. 1 \in Nat /\ 2 \in Nat
        OBVIOUS
      <4> QED BY <4>1, NumbersUpTo
    <3> QED BY <2>3, <3>1, EvaluationInputs, ScoresAlwaysAddUp
  <2>4. ASSUME input.kind = "bar" PROVE BarIsNineTenthsRounded(input.pairs)
    BY <2>4, EvaluationInputs, BarIsNineTenthsUpToHalfAPair
  <2> QED BY <2>1, <2>2, <2>3, <2>4 DEF EvaluationAddsUp
<1>2. EvaluationAddsUp /\ [Next]_input => EvaluationAddsUp'
  <2> SUFFICES ASSUME EvaluationAddsUp, [Next]_input PROVE EvaluationAddsUp'
    OBVIOUS
  <2>1. input' = input
    BY InputsStay
  <2> QED BY <2>1 DEF EvaluationAddsUp
<1> QED BY <1>1, <1>2, PTL DEF Spec

\* Rows of which each is no earlier than the one before are in the order of their times.
LEMMA RowsAreOrdered ==
  ASSUME NEW n \in Nat, NEW rows \in [1..n -> Row],
         \A i \in 1..(n - 1) : rows[i].time <= rows[i + 1].time
  PROVE  \A i, j \in 1..n : i < j => rows[i].time <= rows[j].time
<1> DEFINE Goal(j) == j \in 1..n => \A i \in 1..n : i < j => rows[i].time <= rows[j].time
           G == {j \in Nat : Goal(j)}
<1>1. \A i \in 1..n : rows[i].time \in Int
  BY DEF Row
<1>2. 0 \in G
  OBVIOUS
<1>3. ASSUME NEW j \in G PROVE j + 1 \in G
  <2> SUFFICES ASSUME j + 1 \in 1..n, NEW i \in 1..n, i < j + 1
               PROVE  rows[i].time <= rows[j + 1].time
    OBVIOUS
  <2>1. j \in 1..n /\ j \in 1..(n - 1)
    OBVIOUS
  <2>2. rows[j].time <= rows[j + 1].time
    BY <2>1
  <2>3. i = j \/ rows[i].time <= rows[j].time
    BY <2>1
  <2> HIDE DEF G
  <2> QED BY <1>1, <2>1, <2>2, <2>3
<1>4. G = Nat
  <2> HIDE DEF G
  <2>1. G \in SUBSET Nat
    BY DEF G
  <2> QED BY <1>2, <1>3, <2>1, NumberInduction
<1>5. \A j \in Nat : Goal(j)
  BY <1>4
<1> QED BY <1>5

\* What a run gives a report is a history.
LEMMA ReportInputsAreHistories ==
  ASSUME NEW inp \in ReportInputs
  PROVE  inp.doc \in Histories /\ inp.first = 2 /\ inp.second \in {3, 5}
<1> DEFINE doc == inp.doc
<1>1. inp.first = 2 /\ inp.second \in {3, 5}
  BY DEF ReportInputs
<1>2. PICK n \in Nat : /\ doc.rows \in [1..n -> Row]
                       /\ \A i \in 1..(n - 1) : doc.rows[i].time <= doc.rows[i + 1].time
  <2>1. ASSUME NEW rows \in RowLists
        PROVE  \E n \in Nat : /\ rows \in [1..n -> Row]
                              /\ \A i \in 1..(n - 1) : rows[i].time <= rows[i + 1].time
    <3>1. PICK k \in 0..MaxRows : rows \in [1..k -> Row]
      BY DEF RowLists, UpTo
    <3>2. k \in Nat /\ DOMAIN rows = 1..k
      BY <3>1, AlgorithmsAssumption
    <3>3. Len(rows) = k
      <4>1. rows \in Seq(Row)
        BY <3>1, <3>2
      <4> QED BY <3>2, <4>1
    <3> QED BY <3>1, <3>2, <3>3 DEF RowLists
  <2>2. doc.rows \in RowLists \/ doc.rows = <<>>
    BY DEF ReportInputs
  <2>3. <<>> \in [1..0 -> Row] /\ 1..(0 - 1) = {}
    OBVIOUS
  <2> QED BY <2>1, <2>2, <2>3
<1>3. DOMAIN doc.rows = 1..n /\ 1..n \in SUBSET Nat /\ IsFiniteSet(1..n)
  BY <1>2, NumbersUpTo
<1>4. \A i, j \in 1..n : i < j => doc.rows[i].time <= doc.rows[j].time
  BY <1>2, RowsAreOrdered
<1>5. Row \subseteq Extractions
  <2> SUFFICES ASSUME NEW r \in Row PROVE r \in Extractions
    OBVIOUS
  <2>1. r.status \in Statuses
    BY DEF Row, Statuses
  <2>2. r.tokens \in Nat /\ r.time \in Int
    BY DEF Row
  <2>3. r = [status |-> r.status, tokens |-> r.tokens, time |-> r.time]
    BY DEF Row
  <2> QED BY ONLY <2>1, <2>2, <2>3 DEF Extractions
<1>6. doc.rows \in [1..n -> Extractions]
  BY <1>2, <1>5
<1>7. doc.rows \in UNION {[I -> Extractions] : I \in SUBSET Nat}
  BY <1>3, <1>6
<1>8. doc = [ingest |-> doc.ingest, extract |-> doc.extract, rows |-> doc.rows]
      /\ doc.ingest \in JobStatuses /\ doc.extract \in JobStatuses \cup {"none"}
  <2>1. \/ doc \in [ingest : {"succeeded"}, extract : {"succeeded", "dead_letter", "queued"},
                    rows : RowLists]
        \/ doc \in [ingest : {"dead_letter", "queued"}, extract : {"none"}, rows : {<<>>}]
    BY DEF ReportInputs
  <2> HIDE DEF doc
  <2>2. CASE doc \in [ingest : {"succeeded"}, extract : {"succeeded", "dead_letter", "queued"},
                      rows : RowLists]
    <3>1. doc.ingest \in JobStatuses /\ doc.extract \in JobStatuses \cup {"none"}
      BY <2>2 DEF JobStatuses
    <3>2. doc = [ingest |-> doc.ingest, extract |-> doc.extract, rows |-> doc.rows]
      BY <2>2
    <3> QED BY <3>1, <3>2
  <2>3. CASE doc \in [ingest : {"dead_letter", "queued"}, extract : {"none"}, rows : {<<>>}]
    <3>1. doc.ingest \in JobStatuses /\ doc.extract \in JobStatuses \cup {"none"}
      BY <2>3 DEF JobStatuses
    <3>2. doc = [ingest |-> doc.ingest, extract |-> doc.extract, rows |-> doc.rows]
      BY <2>3
    <3> QED BY <3>1, <3>2
  <2> QED BY <2>1, <2>2, <2>3
<1>9. doc \in [ingest : JobStatuses, extract : JobStatuses \cup {"none"},
           rows : UNION {[I -> Extractions] : I \in SUBSET Nat}]
  <2> DEFINE U == UNION {[I -> Extractions] : I \in SUBSET Nat}
  <2>1. doc.rows \in U
    BY <1>7
  <2> HIDE DEF U, doc
  <2>2. doc \in [ingest : JobStatuses, extract : JobStatuses \cup {"none"}, rows : U]
    BY <1>8, <2>1
  <2> QED BY <2>2 DEF U
<1>10. doc \in Histories
  <2> HIDE DEF doc
  <2> QED BY <1>3, <1>4, <1>9 DEF Histories
<1> QED BY <1>1, <1>10

\* The reports of two runs add up, however many rows a document has (extraction_run.py).
THEOREM ReportsAlwaysAddUp ==
  Spec => []ReportsAddUp
<1>1. Init => ReportsAddUp
  <2> SUFFICES ASSUME Init, input.kind = "report"
               PROVE  TokensAreAttributed(<<input.doc>>, input.first, input.second)
    BY DEF ReportsAddUp
  <2>1. input \in ReportInputs
    BY KindsOfInputs
  <2>2. input.doc \in Histories /\ input.first = 2 /\ input.second \in {3, 5}
    BY <2>1, ReportInputsAreHistories
  <2>3. <<input.doc>> \in [1..1 -> Histories]
    BY <2>2
  <2>4. IsFiniteSet(1..1) /\ input.first \in Int /\ input.second \in Int
        /\ input.first <= input.second
    <3>1. 1 \in Nat
      OBVIOUS
    <3>2. IsFiniteSet(1..1)
      BY <3>1, NumbersUpTo
    <3>3. input.first \in Int /\ input.second \in Int /\ input.first <= input.second
      BY <2>2
    <3> QED BY <3>2, <3>3
  <2> QED BY <2>3, <2>4, TokensAreAlwaysAttributed
<1>2. ReportsAddUp /\ [Next]_input => ReportsAddUp'
  <2> SUFFICES ASSUME ReportsAddUp, [Next]_input PROVE ReportsAddUp'
    OBVIOUS
  <2>1. input' = input
    BY InputsStay
  <2> QED BY <2>1 DEF ReportsAddUp
<1> QED BY <1>1, <1>2, PTL DEF Spec

-------------------------------------------------------------------------------
(* Forms: the inputs that are looked at *)

\* The functions of a product.
LEMMA ProductMembers ==
  ASSUME NEW S, NEW M, NEW f \in Product(S, M)
  PROVE  DOMAIN f = M /\ f = [m \in M |-> f[m]] /\ \A m \in M : f[m] \in S[m]
BY DEF Product

\* The sequences up to a length.
LEMMA ListsUpTo ==
  ASSUME NEW set, NEW n \in Nat, NEW l \in UpTo(set, n)
  PROVE  IsText(l) /\ \A i \in DOMAIN l : l[i] \in set
<1>1. PICK k \in 0..n : l \in [1..k -> set]
  BY DEF UpTo
<1>2. l \in Seq(set)
  BY <1>1
<1> QED BY <1>1, <1>2, TextsAreSequences

\* The values of a leaf that are looked at may be stored,
LEMMA LeafValues ==
  ASSUME NEW label, NEW node, LeafNode(node), NEW v \in ValuesOfLeaf(node)
  PROVE  StoredLeaf(BuildLeaf(label, node), v)
<1>1. PICK spec : spec = BuildLeaf(label, node)
  OBVIOUS
<1>2. node.type = "boolean" <=> spec.kind = "bool"
  BY <1>1, LeafInputs
<1>3. CASE v = Null
  BY <1>1, <1>3, NothingIsStored
<1>4. CASE v # Null /\ node.type = "string"
  <2>1. PICK t \in Texts : v = Text(t)
    BY <1>4 DEF ValuesOfLeaf
  <2>2. IsText(t) /\ v.text = t
    BY <2>1, AlgorithmsAssumption, ValueParts DEF IsText
  <2> QED BY <1>1, <1>2, <1>4, <2>1, <2>2 DEF StoredLeaf, Scalar
<1>5. CASE v # Null /\ node.type = "enum"
  <2>1. PICK o : v = Choice(o)
    BY <1>5 DEF ValuesOfLeaf
  <2>2. v.option = o
    BY <2>1, ValueParts
  <2> QED BY <1>1, <1>2, <1>5, <2>1, <2>2 DEF StoredLeaf, Scalar
<1>6. CASE v # Null /\ node.type = "boolean"
  <2>1. v \in {Truth(TRUE), Truth(FALSE), Null}
    BY <1>6 DEF ValuesOfLeaf
  <2> QED BY <1>1, <2>1 DEF StoredLeaf, Scalar
<1>7. CASE v # Null /\ node.type = "strings"
  <2>1. PICK ls \in UpTo(Texts, MaxLines) : v = Lines(ls)
    BY <1>7 DEF ValuesOfLeaf
  <2>2. IsText(ls) /\ \A k \in DOMAIN ls : ls[k] \in Texts
    BY AlgorithmsAssumption, ListsUpTo
  <2>3. \A k \in DOMAIN ls : IsText(ls[k])
    BY <2>2, AlgorithmsAssumption DEF IsText
  <2>4. v.lines = ls
    BY <2>1, ValueParts
  <2> QED BY <1>1, <1>2, <1>7, <2>1, <2>2, <2>3, <2>4 DEF StoredLeaf, Scalar
<1> QED BY <1>3, <1>4, <1>5, <1>6, <1>7 DEF LeafNode

\* what is no object,
LEMMA NoObjects == Scalar(Null) /\ Scalar(Text(<<"a">>))
<1>1. PICK t : t = <<"a">>
  OBVIOUS
<1>2. t \in Seq({"a"})
  BY <1>1
<1>3. IsText(t)
  BY <1>2, TextsAreSequences
<1>4. PICK v : v = Text(t)
  OBVIOUS
<1>5. v.text = t
  BY <1>4, ValueParts
<1>6. Scalar(v)
  BY <1>3, <1>4, <1>5 DEF Scalar
<1> QED BY <1>1, <1>4, <1>6, NothingIsStored

\* those of an object of a list,
LEMMA RowValues ==
  ASSUME NEW node, RowNode(node), NEW v \in ValuesOfObject(ValuesOfLeaf, node)
  PROVE  StoredObject(StoredLeaf, BuildObject(BuildLeaf, node), v)
<1> DEFINE some == [m \in DOMAIN node.members |-> ValuesOfLeaf(node.members[m])]
<1>1. PICK spec : spec = BuildObject(BuildLeaf, node)
  OBVIOUS
<1>2. /\ DOMAIN spec.children = DOMAIN node.members
      /\ \A m \in DOMAIN node.members : spec.children[m] = BuildLeaf(m, node.members[m])
  BY <1>1, RowInputs
<1>3. CASE v \in {Null, Text(<<"a">>)}
  BY <1>1, <1>3, NoObjects DEF StoredObject
<1>4. CASE v \notin {Null, Text(<<"a">>)}
  <2>1. PICK M, f : /\ M \in SUBSET DOMAIN node.members
                    /\ f \in Product(some, M) /\ v = Dict(f)
    <3>1. \/ v \in {Null, Text(<<"a">>)}
          \/ v \in {Dict(f) : f \in Product(some, DOMAIN node.members)}
          \/ v \in {Dict(f) : f \in UNION {Product(some, {m}) : m \in DOMAIN node.members}}
      BY DEF ValuesOfObject
    <3> HIDE DEF some
    <3> QED BY <1>4, <3>1
  <2>2. /\ DOMAIN f = M /\ f = [m \in M |-> f[m]]
        /\ \A m \in M : f[m] \in ValuesOfLeaf(node.members[m])
    <3>1. \A m \in DOMAIN node.members : some[m] = ValuesOfLeaf(node.members[m])
      OBVIOUS
    <3> HIDE DEF some
    <3> QED BY <2>1, <3>1, ProductMembers
  <2>3. \A m \in M : StoredLeaf(spec.children[m], f[m])
    <3> TAKE m \in M
    <3>1. PICK n, w : n = node.members[m] /\ w = f[m]
      OBVIOUS
    <3>2. LeafNode(n) /\ w \in ValuesOfLeaf(n)
      BY <2>1, <2>2, <3>1 DEF RowNode
    <3>3. StoredLeaf(BuildLeaf(m, n), w)
      BY <3>2, LeafValues
    <3> QED BY <1>2, <2>1, <3>1, <3>3
  <2>4. v.of = f
    BY <2>1, ValueParts
  <2> QED BY <1>1, <2>1, <2>2, <2>3, <2>4 DEF StoredObject
<1> QED BY <1>3, <1>4

\* and those of a part of an object.
LEMMA PartValues ==
  ASSUME NEW label, NEW node, PartNode(node), NEW v \in ValuesOfPart(node)
  PROVE  StoredPart(BuildPart(label, node), v)
<1>1. CASE LeafNode(node)
  <2>1. PICK spec : spec = BuildLeaf(label, node)
    OBVIOUS
  <2>2. LeafSpec(spec) /\ BuildPart(label, node) = spec
    BY <1>1, <2>1, PartInputs, LeafInputs
  <2>3. node.type # "objects" /\ spec.kind # "rows"
    BY <1>1, <2>2 DEF LeafNode, LeafSpec
  <2>4. v \in ValuesOfLeaf(node)
    BY <2>3 DEF ValuesOfPart
  <2>5. StoredLeaf(spec, v)
    BY <1>1, <2>1, <2>4, LeafValues
  <2> QED BY <2>2, <2>3, <2>5 DEF StoredPart
<1>2. CASE ~LeafNode(node)
  <2>1. PICK spec : spec = BuildPart(label, node)
    OBVIOUS
  <2>2. /\ node.type = "objects" /\ RowNode(node.item) /\ spec.kind = "rows"
        /\ spec.row = BuildObject(BuildLeaf, node.item)
    BY <1>2, <2>1, PartInputs
  <2>3. PICK l \in UpTo(ValuesOfObject(ValuesOfLeaf, node.item), MaxItems) : v = List(l)
    BY <2>2 DEF ValuesOfPart
  <2>4. IsText(l) /\ \A i \in DOMAIN l : l[i] \in ValuesOfObject(ValuesOfLeaf, node.item)
    BY AlgorithmsAssumption, ListsUpTo
  <2>5. \A i \in DOMAIN l : StoredObject(StoredLeaf, spec.row, l[i])
    <3> TAKE i \in DOMAIN l
    <3>1. PICK w, n : w = l[i] /\ n = node.item
      OBVIOUS
    <3>2. StoredObject(StoredLeaf, BuildObject(BuildLeaf, n), w)
      BY <2>2, <2>4, <3>1, RowValues
    <3> QED BY <2>2, <3>1, <3>2
  <2>6. v.items = l
    BY <2>3, ValueParts
  <2> QED BY <2>1, <2>2, <2>3, <2>4, <2>5, <2>6 DEF StoredPart, StoredRows
<1> QED BY <1>1, <1>2

\* The values the runs enumerate are values that may be stored.
LEMMA FieldValues ==
  ASSUME NEW label, NEW node, FieldNode(node), NEW v \in Values(node)
  PROVE  Stored(Build(label, node), v)
<1>1. PICK spec : spec = Build(label, node)
  OBVIOUS
<1>2. CASE PartNode(node)
  <2>1. node.type # "object" /\ spec = BuildPart(label, node)
    BY <1>1, <1>2, FieldInputs
  <2>2. PartSpec(spec)
    BY <1>2, <2>1, PartInputs
  <2>3. spec.kind # "object"
    BY <2>2 DEF PartSpec, LeafSpec
  <2>4. v \in ValuesOfPart(node)
    BY <2>1 DEF Values
  <2>5. StoredPart(spec, v)
    BY <1>2, <2>1, <2>4, PartValues
  <2> QED BY <1>1, <2>3, <2>5 DEF Stored
<1>3. CASE ~PartNode(node)
  <2> DEFINE some == [m \in DOMAIN node.members |-> ValuesOfPart(node.members[m])]
  <2>1. /\ node.type = "object" /\ spec.kind = "object"
        /\ DOMAIN spec.children = DOMAIN node.members
        /\ \A m \in DOMAIN node.members :
             PartNode(node.members[m]) /\ spec.children[m] = BuildPart(m, node.members[m])
    BY <1>1, <1>3, FieldInputs
  <2>2. v \in ValuesOfObject(ValuesOfPart, node)
    BY <2>1 DEF Values
  <2>3. StoredObject(StoredPart, spec, v)
    <3>1. CASE v \in {Null, Text(<<"a">>)}
      BY <3>1, NoObjects DEF StoredObject
    <3>2. CASE v \notin {Null, Text(<<"a">>)}
      <4>1. PICK M, f : /\ M \in SUBSET DOMAIN node.members
                        /\ f \in Product(some, M) /\ v = Dict(f)
        <5>1. \/ v \in {Null, Text(<<"a">>)}
              \/ v \in {Dict(f) : f \in Product(some, DOMAIN node.members)}
              \/ v \in {Dict(f) : f \in UNION {Product(some, {m}) : m \in DOMAIN node.members}}
          BY <2>2 DEF ValuesOfObject
        <5> HIDE DEF some
        <5> QED BY <3>2, <5>1
      <4>2. /\ DOMAIN f = M /\ f = [m \in M |-> f[m]]
            /\ \A m \in M : f[m] \in ValuesOfPart(node.members[m])
        <5>1. \A m \in DOMAIN node.members : some[m] = ValuesOfPart(node.members[m])
          OBVIOUS
        <5> HIDE DEF some
        <5> QED BY <4>1, <5>1, ProductMembers
      <4>3. \A m \in M : StoredPart(spec.children[m], f[m])
        <5> TAKE m \in M
        <5>1. PICK n, w : n = node.members[m] /\ w = f[m]
          OBVIOUS
        <5>2. PartNode(n) /\ w \in ValuesOfPart(n)
          BY <2>1, <4>1, <4>2, <5>1
        <5>3. StoredPart(BuildPart(m, n), w)
          BY <5>2, PartValues
        <5> QED BY <2>1, <4>1, <5>1, <5>3
      <4>4. v.of = f
        BY <4>1, ValueParts
      <4> QED BY <4>1, <4>2, <4>3, <4>4 DEF StoredObject
    <3> QED BY <3>1, <3>2
  <2> QED BY <1>1, <2>1, <2>3 DEF Stored
<1> QED BY <1>2, <1>3

\* What is posted for a leaf is what a browser may post,
LEMMA LeafPosts ==
  ASSUME NEW spec, LeafSpec(spec), NEW toggles, NEW d \in PostsOfLeaf(spec, toggles)
  PROVE  PostableLeaf(spec, d)
<1>1. CASE spec.kind = "text"
  <2>1. d.text \in TypedTexts
    BY <1>1 DEF PostsOfLeaf
  <2> QED BY <1>1, <2>1, AlgorithmsAssumption DEF PostableLeaf, IsText
<1>2. CASE spec.kind = "textarea"
  <2>1. d.text \in TypedAreas
    BY <1>2 DEF PostsOfLeaf
  <2> QED BY <1>2, <2>1, AlgorithmsAssumption DEF PostableLeaf, IsText
<1>3. CASE spec.kind = "lines"
  <2>1. d.text \in TypedAreas
    BY <1>3 DEF PostsOfLeaf
  <2> QED BY <1>3, <2>1, AlgorithmsAssumption DEF PostableLeaf, IsText
<1>4. CASE spec.kind = "select"
  <2>1. d.pick \in {Choice(o) : o \in Options} \cup {Null}
    BY <1>4 DEF PostsOfLeaf
  <2> QED BY <1>4, <2>1 DEF PostableLeaf
<1>5. CASE spec.kind = "bool"
  <2>1. d.pick \in {Truth(TRUE), Truth(FALSE), Null}
    BY <1>5 DEF PostsOfLeaf
  <2> QED BY <1>5, <2>1 DEF PostableLeaf
<1> QED BY <1>1, <1>2, <1>3, <1>4, <1>5 DEF LeafSpec

\* and for an object of a list,
LEMMA RowPosts ==
  ASSUME NEW spec, RowSpec(spec), NEW d \in PostsOfObject(PostsOfMember, spec)
  PROVE  PostableObject(PostableLeaf, spec, d)
<1>1. PICK f : f = d.children
  OBVIOUS
<1>2. f \in Product([c \in DOMAIN spec.children |-> PostsOfMember(spec.children[c])],
                    DOMAIN spec.children)
  BY <1>1 DEF PostsOfObject
<1>3. \A c \in DOMAIN spec.children : f[c] \in PostsOfMember(spec.children[c])
  BY <1>2, ProductMembers
<1>4. \A c \in DOMAIN spec.children : PostableLeaf(spec.children[c], f[c])
  <2> TAKE c \in DOMAIN spec.children
  <2>1. PICK s, w : s = spec.children[c] /\ w = f[c]
    OBVIOUS
  <2>2. LeafSpec(s) /\ w \in PostsOfLeaf(s, {FALSE})
    BY <1>3, <2>1 DEF RowSpec, PostsOfMember
  <2>3. PostableLeaf(s, w)
    BY <2>2, LeafPosts
  <2> QED BY <2>1, <2>3
<1> QED BY <1>1, <1>4 DEF PostableObject

\* a list,
LEMMA ListPosts ==
  ASSUME NEW spec, RowSpec(spec.row), NEW d \in PostsOfRows(spec)
  PROVE  PostableRows(spec, d)
<1>1. PICK indices \in RowIndices : d.rows \in [indices -> PostsOfObject(PostsOfMember, spec.row)]
  BY DEF PostsOfRows
<1>2. /\ DOMAIN d.rows = indices
      /\ \A i \in indices : d.rows[i] \in PostsOfObject(PostsOfMember, spec.row)
  BY <1>1
<1>3. IsFiniteSet(indices) /\ indices \subseteq Int
  BY AlgorithmsAssumption
<1>4. \A i \in indices : PostableObject(PostableLeaf, spec.row, d.rows[i])
  <2> TAKE i \in indices
  <2>1. PICK w, s : w = d.rows[i] /\ s = spec.row
    OBVIOUS
  <2>2. PostableObject(PostableLeaf, s, w)
    BY <1>2, <2>1, RowPosts
  <2> QED BY <2>1, <2>2
<1> QED BY <1>2, <1>3, <1>4 DEF PostableRows

\* and a part of an object.
LEMMA PartPosts ==
  ASSUME NEW spec, PartSpec(spec), NEW d \in PostsOfPart(spec)
  PROVE  PostablePart(spec, d)
<1>1. CASE spec.kind = "rows"
  <2>1. RowSpec(spec.row) /\ d \in PostsOfRows(spec)
    BY <1>1 DEF PartSpec, LeafSpec, PostsOfPart
  <2> QED BY <1>1, <2>1, ListPosts DEF PostablePart
<1>2. CASE spec.kind # "rows"
  <2>1. LeafSpec(spec) /\ d \in PostsOfLeaf(spec, {FALSE})
    BY <1>2 DEF PartSpec, PostsOfPart, PostsOfMember
  <2> QED BY <1>2, <2>1, LeafPosts DEF PostablePart
<1> QED BY <1>1, <1>2

\* The submissions the runs enumerate are ones that a browser may post.
LEMMA FieldPosts ==
  ASSUME NEW spec, FieldSpec(spec), NEW d \in Posts(spec)
  PROVE  Postable(spec, d)
<1>1. CASE spec.kind = "object"
  <2>1. PICK f : f = d.children
    OBVIOUS
  <2>2. f \in Product([c \in DOMAIN spec.children |-> PostsOfPart(spec.children[c])],
                      DOMAIN spec.children)
    BY <1>1, <2>1 DEF Posts, PostsOfObject
  <2>3. \A c \in DOMAIN spec.children : f[c] \in PostsOfPart(spec.children[c])
    BY <2>2, ProductMembers
  <2>4. \A c \in DOMAIN spec.children : PostablePart(spec.children[c], f[c])
    <3> TAKE c \in DOMAIN spec.children
    <3>1. PICK s, w : s = spec.children[c] /\ w = f[c]
      OBVIOUS
    <3>2. PartSpec(s) /\ w \in PostsOfPart(s)
      BY <1>1, <2>3, <3>1 DEF FieldSpec, PartSpec, LeafSpec
    <3>3. PostablePart(s, w)
      BY <3>2, PartPosts
    <3> QED BY <3>1, <3>3
  <2> QED BY <1>1, <2>1, <2>4 DEF Postable, PostableObject
<1>2. CASE spec.kind = "rows"
  <2>1. RowSpec(spec.row) /\ d \in PostsOfRows(spec)
    BY <1>2 DEF FieldSpec, PartSpec, LeafSpec, Posts
  <2>2. PostableRows(spec, d)
    BY <2>1, ListPosts
  <2> QED BY <1>2, <2>2 DEF Postable, PostablePart
<1>3. CASE spec.kind \notin {"object", "rows"}
  <2>1. LeafSpec(spec) /\ d \in PostsOfLeaf(spec, Toggles(spec))
    BY <1>3 DEF FieldSpec, PartSpec, Posts
  <2>2. PostableLeaf(spec, d)
    BY <2>1, LeafPosts
  <2> QED BY <1>3, <2>2 DEF Postable, PostablePart
<1> QED BY <1>1, <1>2, <1>3

\* What the inputs of the forms are.
LEMMA FormInputs ==
  ASSUME Init
  PROVE  /\ input.kind = "value" =>
              /\ input.field \in DOMAIN IncidentRecord
              /\ input.value \in Values(IncidentRecord[input.field])
         /\ input.kind = "submission" =>
              /\ input.field \in DOMAIN IncidentRecord
              /\ input.posted \in Posts(form_spec[input.field])
<1>1. ASSUME input.kind = "value"
      PROVE  \E f \in Fields :
               input \in [kind : {"value"}, field : {f}, value : Values(IncidentRecord[f])]
  <2>1. input \in ValueInputs
    BY <1>1, KindsOfInputs
  <2> QED BY <2>1 DEF ValueInputs
<1>2. ASSUME input.kind = "submission"
      PROVE  \E f \in Fields :
               input \in [kind : {"submission"}, field : {f}, posted : Posts(form_spec[f])]
  <2>1. input \in SubmissionInputs
    BY <1>2, KindsOfInputs
  <2> QED BY <2>1 DEF SubmissionInputs
<1>3. Fields \subseteq DOMAIN IncidentRecord
  BY AlgorithmsAssumption
<1>4. ASSUME input.kind = "value"
      PROVE  /\ input.field \in DOMAIN IncidentRecord
             /\ input.value \in Values(IncidentRecord[input.field])
  BY <1>1, <1>3, <1>4
<1>5. ASSUME input.kind = "submission"
      PROVE  /\ input.field \in DOMAIN IncidentRecord
             /\ input.posted \in Posts(form_spec[input.field])
  BY <1>2, <1>3, <1>5
<1> QED BY <1>4, <1>5

\* The forms show every stored value, whatever its texts are and however long its lists
\* (forms.py, review.html).
THEOREM FormsAlwaysShowTheValue == Spec => []FormsShowTheValue
<1>1. Init => FormsShowTheValue
  <2> SUFFICES ASSUME Init, input.kind = "value" PROVE FormShowsTheValue(input.field, input.value)
    BY DEF FormsShowTheValue
  <2>1. PICK field, v : field = input.field /\ v = input.value
    OBVIOUS
  <2>2. field \in DOMAIN IncidentRecord /\ v \in Values(IncidentRecord[field])
    BY <2>1, FormInputs
  <2>3. Stored(form_spec[field], v)
    <3>1. FieldNode(IncidentRecord[field]) /\ form_spec[field] = Build(field, IncidentRecord[field])
      BY <2>2, FieldTypes DEF form_spec
    <3>2. Stored(Build(field, IncidentRecord[field]), v)
      BY <2>2, <3>1, FieldValues
    <3> QED BY <3>1, <3>2
  <2> QED BY <2>1, <2>2, <2>3, EveryFormShowsItsValue
<1>2. FormsShowTheValue /\ [Next]_input => FormsShowTheValue'
  BY InputsStay DEF FormsShowTheValue
<1> QED BY <1>1, <1>2, PTL DEF Spec

\* No submission is changed by the page that is rendered for its rejection (review_ui.py).
THEOREM RejectionsAreAlwaysKept == Spec => []RejectionsAreKept
<1>1. Init => RejectionsAreKept
  <2> SUFFICES ASSUME Init, input.kind = "submission"
               PROVE  RejectionIsKept(input.field, input.posted)
    BY DEF RejectionsAreKept
  <2>1. PICK field, d : field = input.field /\ d = input.posted
    OBVIOUS
  <2>2. field \in DOMAIN IncidentRecord /\ d \in Posts(form_spec[field])
    BY <2>1, FormInputs
  <2>3. Postable(form_spec[field], d)
    <3>1. PICK spec : spec = form_spec[field]
      OBVIOUS
    <3>2. FieldSpec(spec)
      <4>1. spec = Build(field, IncidentRecord[field])
        BY <2>2, <3>1 DEF form_spec
      <4> QED BY <2>2, <4>1, FieldTypes, FieldInputs
    <3>3. Postable(spec, d)
      BY <2>2, <3>1, <3>2, FieldPosts
    <3> QED BY <3>1, <3>3
  <2> QED BY <2>1, <2>2, <2>3, EveryRejectionIsKept
<1>2. RejectionsAreKept /\ [Next]_input => RejectionsAreKept'
  BY InputsStay DEF RejectionsAreKept
<1> QED BY <1>1, <1>2, PTL DEF Spec
===============================================================================
