--------------------------- MODULE Migrations_proofs ---------------------------
(***************************************************************************)
(* What holds of Migrations for every number of documents, extractions,    *)
(* texts, providers and thinking settings.                                 *)
(***************************************************************************)
EXTENDS Migrations, WellFoundedInduction, TLAPS

\* A table that the schema does not have yet is empty.
TablesExist ==
  /\ version < 2 => Present = {}
  /\ version < 3 => Stored(rows) = {} /\ job = NoDoc
  /\ version < 8 => reviews = {}

\* The foreign keys of extractions and jobs.
ReferencesHold ==
  /\ \A e \in Stored(rows) : rows[e].doc \in Present
  /\ job # NoDoc => job \in Present

\* The inductive invariant.  The merge of 0005 keeps a document for each row only
\* because rows refer to documents that are there.
IInv ==
  /\ TypeOK
  /\ TablesExist
  /\ ReferencesHold
  /\ OneCompletePerKey
  /\ DocumentsAreTexts
  /\ ReviewsAreComplete

-------------------------------------------------------------------------------
(* Groups of documents with one text *)

\* A set of ids that is not empty has a least one.
LEMMA HasLeast ==
  ASSUME NEW S \in SUBSET Nat, S # {}
  PROVE  \E x \in S : \A y \in S : x <= y
<1>1. PICK x \in S : \A y \in S : ~ <<y, x>> \in OpToRel(<, Nat)
  BY NatLessThanWellFounded, WFMin
<1>2. \A y \in S : ~(y < x)
  BY <1>1 DEF OpToRel
<1> QED BY <1>2

\* And, as they are bounded, a greatest one: the least of their distances from the bound.
LEMMA HasGreatest ==
  ASSUME NEW S \in SUBSET Docs, S # {}
  PROVE  \E x \in S : \A y \in S : y <= x
<1> DEFINE D == {MaxDocs - x : x \in S}
<1>1. D \in SUBSET Nat /\ D # {}
  <2>1. \A x \in S : MaxDocs - x \in Nat
    BY MigrationsAssumption DEF Docs
  <2>2. D # {}
    OBVIOUS
  <2> QED BY <2>1, <2>2
<1>2. PICK d \in D : \A y \in D : d <= y
  BY <1>1, HasLeast
<1>3. PICK x \in S : d = MaxDocs - x
  BY <1>2
<1>4. \A y \in S : y <= x
  <2> TAKE y \in S
  <2>1. MaxDocs - x <= MaxDocs - y
    BY <1>2, <1>3
  <2> QED BY <2>1, MigrationsAssumption DEF Docs
<1> QED BY <1>4

\* Canonical and Newest are documents of the group, and the same for all of it.
LEMMA Groups ==
  ASSUME NEW d \in Present
  PROVE  /\ Canonical(d) \in Present /\ docs[Canonical(d)].text = docs[d].text
         /\ Newest(d) \in Present /\ docs[Newest(d)].text = docs[d].text
         /\ \A c \in Present : docs[c].text = docs[d].text =>
              Canonical(c) = Canonical(d) /\ Newest(c) = Newest(d)
<1>1. d \in SameText(d) /\ SameText(d) \in SUBSET Docs /\ SameText(d) \in SUBSET Nat
  BY DEF SameText, Present, Docs
<1>2. Canonical(d) \in SameText(d)
  <2>1. \E x \in SameText(d) : \A y \in SameText(d) : x <= y
    BY <1>1, HasLeast
  <2> QED BY <2>1 DEF Canonical
<1>3. Newest(d) \in SameText(d)
  <2>1. \E x \in SameText(d) : \A y \in SameText(d) : y <= x
    BY <1>1, HasGreatest
  <2> QED BY <2>1 DEF Newest
<1>4. ASSUME NEW c \in Present, docs[c].text = docs[d].text
      PROVE  Canonical(c) = Canonical(d) /\ Newest(c) = Newest(d)
  <2>1. SameText(c) = SameText(d)
    BY <1>4 DEF SameText
  <2> QED BY <2>1 DEF Canonical, Newest
<1> QED BY <1>2, <1>3, <1>4 DEF SameText

-------------------------------------------------------------------------------
(* The releases in between *)

\* An empty schema keeps every promise.
LEMMA InitInvariant == Init => IInv
BY MigrationsAssumption
   DEF Init, IInv, TypeOK, ColumnsFit, TablesExist, ReferencesHold, OneCompletePerKey,
       DocumentsAreTexts, ReviewsAreComplete, Present, Stored, Unique

\* A new document has bytes, and from 0005 on a text, that none has.
LEMMA IngestKeeps ==
  ASSUME IInv, NEW d \in Docs, NEW t \in Texts, NEW b \in Docs, Ingest(d, t, b)
  PROVE  IInv'
<1> USE DEF IInv, Ingest
<1>1. d \notin Present /\ <<t, b>> \in Bytes /\ [text |-> t, bytes |-> <<t, b>>] \in Document
  BY DEF Present, Bytes, Document, Docs
<1>2. [text |-> t, bytes |-> <<t, b>>] # NoDocument
  BY MigrationsAssumption DEF NoDocument
<1>3. Present' = Present \cup {d} /\ \A c \in Present : docs'[c] = docs[c]
  BY <1>1, <1>2 DEF TypeOK, Present
<1>4. docs'[d] = [text |-> t, bytes |-> <<t, b>>]
  BY DEF TypeOK
<1>5. Stored(rows') = Stored(rows)
  OBVIOUS
<1>6. TypeOK'
  <2>1. ColumnsFit'
    BY <1>5 DEF TypeOK, ColumnsFit, Stored
  <2>2. docs' \in [Docs -> Document \cup {NoDocument}]
    BY <1>1 DEF TypeOK
  <2> QED BY <2>1, <2>2 DEF TypeOK
<1>7. DocumentsAreTexts'
  <2>1. docs'[d].text = t /\ docs'[d].bytes = <<t, b>> /\ docs'[d].bytes[1] = t
    BY <1>4
  <2>2. \A c \in Present : docs[c].bytes # <<t, b>>
    OBVIOUS
  <2>3. version' >= 5 => \A c \in Present : docs[c].text # t
    OBVIOUS
  <2> QED BY <1>3, <2>1, <2>2, <2>3 DEF DocumentsAreTexts
<1>8. TablesExist' /\ ReferencesHold'
  <2>1. TablesExist'
    <3>1. version \in 0..8 /\ TablesExist
      BY DEF TypeOK
    <3> QED BY <1>5, <3>1 DEF TablesExist, Stored
  <2>2. ReferencesHold'
    BY <1>3, <1>5 DEF ReferencesHold
  <2> QED BY <2>1, <2>2
<1>9. OneCompletePerKey' /\ ReviewsAreComplete'
  BY <1>5 DEF OneCompletePerKey, ReviewsAreComplete, Unique
<1> QED BY <1>6, <1>7, <1>8, <1>9

\* A new extraction is within the index, and has its reviews once there are any.
LEMMA ExtractKeeps ==
  ASSUME IInv, NEW e \in Rows, NEW r \in Extraction, Extract(e, r)
  PROVE  IInv'
<1> USE DEF IInv, Extract
<1>1. r # NoExtraction
  BY MigrationsAssumption DEF Extraction, NoExtraction
<1>2. /\ Stored(rows') = Stored(rows) \cup {e} /\ e \notin Stored(rows)
      /\ rows'[e] = r /\ \A x \in Stored(rows) : rows'[x] = rows[x]
  BY <1>1 DEF TypeOK, Stored
<1>3. version' = version /\ Present' = Present /\ version \in 0..8
  BY DEF Present, TypeOK
<1>4. version >= 7 <=> r.run # Null
  <2>1. CASE version >= 7
    BY <2>1, MigrationsAssumption
  <2>2. CASE ~(version >= 7)
    BY <2>2
  <2> QED BY <2>1, <2>2
<1>5. TypeOK'
  <2>1. ColumnsFit'
    BY <1>2, <1>3, <1>4 DEF TypeOK, ColumnsFit, Stored
  <2>2. rows' \in [Rows -> Extraction \cup {NoExtraction}]
    BY DEF TypeOK
  <2>3. reviews' \subseteq Rows /\ decided' \subseteq reviews'
    BY DEF TypeOK
  <2> QED BY <2>1, <2>2, <2>3 DEF TypeOK
<1>6. TablesExist' /\ ReferencesHold'
  <2>1. TablesExist'
    BY <1>3 DEF TablesExist
  <2>2. ReferencesHold'
    BY <1>2, <1>3 DEF ReferencesHold, Stored
  <2> QED BY <2>1, <2>2
<1>7. OneCompletePerKey' /\ DocumentsAreTexts'
  BY <1>3 DEF OneCompletePerKey, DocumentsAreTexts
<1>8. ReviewsAreComplete'
  BY <1>2, <1>3 DEF ReviewsAreComplete
<1> QED BY <1>5, <1>6, <1>7, <1>8

\* A job points to a document that is there, a decision to reviews.
LEMMA HandOverKeeps ==
  ASSUME IInv, NEW d \in Docs, HandOver(d)
  PROVE  IInv'
<1> USE DEF IInv, HandOver
<1>1. /\ Present' = Present /\ Stored(rows') = Stored(rows)
      /\ UNCHANGED <<version, docs, rows, reviews>>
  BY DEF Present
<1>2. TypeOK'
  BY <1>1 DEF TypeOK, ColumnsFit, Stored
<1>3. TablesExist' /\ ReferencesHold'
  <2>1. TablesExist'
    <3>1. version \in 0..8 /\ TablesExist
      BY DEF TypeOK
    <3> QED BY <1>1, <3>1 DEF TablesExist
  <2>2. ReferencesHold'
    BY <1>1 DEF ReferencesHold
  <2> QED BY <2>1, <2>2
<1>4. OneCompletePerKey' /\ ReviewsAreComplete'
  BY <1>1 DEF OneCompletePerKey, ReviewsAreComplete, Unique
<1>5. DocumentsAreTexts'
  BY <1>1 DEF DocumentsAreTexts
<1> QED BY <1>2, <1>3, <1>4, <1>5

LEMMA DecideKeeps ==
  ASSUME IInv, NEW e \in Rows, Decide(e)
  PROVE  IInv'
<1> USE DEF IInv, Decide
<1>1. /\ Present' = Present /\ Stored(rows') = Stored(rows)
      /\ UNCHANGED <<version, docs, rows, reviews>>
  BY DEF Present
<1>2. TypeOK'
  BY <1>1 DEF TypeOK, ColumnsFit, Stored
<1>3. TablesExist' /\ ReferencesHold'
  BY <1>1 DEF TablesExist, ReferencesHold, Stored
<1>4. OneCompletePerKey' /\ ReviewsAreComplete'
  BY <1>1 DEF OneCompletePerKey, ReviewsAreComplete, Unique
<1>5. DocumentsAreTexts'
  BY <1>1 DEF DocumentsAreTexts
<1> QED BY <1>2, <1>3, <1>4, <1>5

-------------------------------------------------------------------------------
(* Upgrades *)

\* The re-pointed rows are the old ones, each with the oldest document of its text.
LEMMA RepointedRows ==
  ASSUME IInv
  PROVE  /\ Stored(Repointed) = Stored(rows)
         /\ \A e \in Stored(rows) :
              /\ Repointed[e] = [rows[e] EXCEPT !.doc = Canonical(rows[e].doc)]
              /\ Repointed[e] \in Extraction
              /\ Canonical(rows[e].doc) \in Present
<1>1. \A e \in Stored(rows) :
        /\ rows[e] \in Extraction
        /\ Canonical(rows[e].doc) \in Present /\ Canonical(rows[e].doc) \in Docs
        /\ Repointed[e] = [rows[e] EXCEPT !.doc = Canonical(rows[e].doc)]
  BY Groups DEF IInv, TypeOK, ReferencesHold, Stored, Present, Repointed
<1>2. \A e \in Stored(rows) : Repointed[e] \in Extraction
  BY <1>1 DEF Extraction
<1>3. NoExtraction \notin Extraction
  BY MigrationsAssumption DEF Extraction, NoExtraction
<1>4. \A e \in Rows : Repointed[e] = NoExtraction <=> rows[e] = NoExtraction
  BY <1>2, <1>3 DEF Repointed, Stored
<1> QED BY <1>1, <1>2, <1>4 DEF Stored

\* The merge leaves the oldest document of each text.
LEMMA MergedDocs ==
  ASSUME IInv
  PROVE  /\ \A d \in Docs : Merged[d] # NoDocument <=> d \in Present /\ Canonical(d) = d
         /\ \A d \in Present : Canonical(d) = d =>
              /\ Merged[d] \in Document
              /\ Merged[d].text = docs[d].text
              /\ Merged[d].bytes = docs[Newest(d)].bytes
<1>1. ASSUME NEW d \in Present, Canonical(d) = d
      PROVE  /\ Merged[d] \in Document /\ Merged[d].text = docs[d].text
             /\ Merged[d].bytes = docs[Newest(d)].bytes
  <2>1. d \in Docs /\ docs[d] \in Document
    BY DEF IInv, TypeOK, Present
  <2>2. docs[Newest(d)] \in Document
    BY Groups DEF IInv, TypeOK, Present
  <2>3. Merged[d] = [docs[d] EXCEPT !.bytes = docs[Newest(d)].bytes]
    BY <1>1, <2>1 DEF Merged
  <2> QED BY <2>1, <2>2, <2>3 DEF Document
<1>2. NoDocument \notin Document
  BY MigrationsAssumption DEF Document, NoDocument
<1>3. \A d \in Docs : ~(d \in Present /\ Canonical(d) = d) => Merged[d] = NoDocument
  BY DEF Merged
<1> QED BY <1>1, <1>2, <1>3 DEF Present

\* 0005: documents of a text become one, with the bytes of the newest.
LEMMA MergeKeeps ==
  ASSUME IInv, UpgradeMerges
  PROVE  IInv'
<1> USE DEF IInv, UpgradeMerges
<1>1. /\ Stored(rows') = Stored(rows)
      /\ \A e \in Stored(rows) :
           /\ rows'[e] = [rows[e] EXCEPT !.doc = Canonical(rows[e].doc)]
           /\ rows'[e] \in Extraction
           /\ rows[e].doc \in Present
  BY RepointedRows DEF ReferencesHold, Stored
<1>2. \A d \in Docs : d \in Present' <=> d \in Present /\ Canonical(d) = d
  BY MergedDocs DEF Present
<1>3. \A d \in Present' :
        /\ d \in Present /\ docs'[d] \in Document
        /\ docs'[d].text = docs[d].text /\ docs'[d].bytes = docs[Newest(d)].bytes
  BY <1>2, MergedDocs DEF Present
<1>4. \A d \in Present : Canonical(d) \in Present'
  <2> TAKE d \in Present
  <2>1. Canonical(d) \in Present /\ Canonical(Canonical(d)) = Canonical(d)
    BY Groups
  <2> QED BY <1>2, <2>1 DEF Present
<1>5. TypeOK'
  <2>1. docs' \in [Docs -> Document \cup {NoDocument}]
    BY <1>3 DEF Present, Merged
  <2>2. rows' \in [Rows -> Extraction \cup {NoExtraction}]
    BY <1>1 DEF Stored, Repointed
  <2>3. job' \in Docs \cup {NoDoc}
    BY <1>4 DEF TypeOK, ReferencesHold, Present
  <2>4. \A e \in Stored(rows) : /\ rows'[e].provider = rows[e].provider
                                /\ rows'[e].thinking = rows[e].thinking
                                /\ rows'[e].run = rows[e].run
    BY <1>1 DEF Stored, TypeOK, Extraction
  <2>5. ColumnsFit'
    <3>1. version = 4 /\ version' = 5 /\ ColumnsFit
      BY DEF TypeOK
    <3> QED BY <1>1, <2>4, <3>1 DEF ColumnsFit
  <2>6. version' \in 0..8 /\ result' = "done"
    OBVIOUS
  <2>7. reviews' \subseteq Rows /\ decided' \subseteq reviews'
    BY DEF TypeOK
  <2> QED BY <2>1, <2>2, <2>3, <2>5, <2>6, <2>7 DEF TypeOK
<1>6. ReferencesHold'
  <2>1. \A e \in Stored(rows) : rows'[e].doc = Canonical(rows[e].doc)
    BY <1>1 DEF Stored, TypeOK, Extraction
  <2> QED BY <1>1, <1>4, <2>1 DEF ReferencesHold, Stored
<1>7. DocumentsAreTexts'
  <2>1. \A d \in Present' : Newest(d) \in Present /\ docs[Newest(d)].text = docs[d].text
    BY <1>3, Groups
  <2>2. \A d \in Present' : docs'[d].bytes[1] = docs'[d].text
    BY <1>3, <2>1 DEF DocumentsAreTexts
  <2>3. \A c, d \in Present' : docs'[c].text = docs'[d].text => c = d
    <3> TAKE c, d \in Present'
    <3> HAVE docs'[c].text = docs'[d].text
    <3>1. Canonical(c) = Canonical(d)
      BY <1>3, Groups
    <3> QED BY <1>2, <3>1 DEF Present
  <2>4. \A c, d \in Present' : docs'[c].bytes = docs'[d].bytes => c = d
    <3> TAKE c, d \in Present'
    <3> HAVE docs'[c].bytes = docs'[d].bytes
    <3>1. docs[c].text = docs[d].text
      BY <1>3, <2>1 DEF DocumentsAreTexts
    <3> QED BY <1>3, <2>3, <3>1
  <2> QED BY <2>2, <2>3, <2>4 DEF DocumentsAreTexts
<1>8. OneCompletePerKey'
  BY DEF OneCompletePerKey, Unique, Key
<1>9. TablesExist' /\ ReviewsAreComplete'
  BY DEF TablesExist, ReviewsAreComplete
<1> QED BY <1>5, <1>6, <1>7, <1>8, <1>9

\* 0004, 0006 and 0007: a wider key tells apart what a narrower one did.
LEMMA WidenKeeps ==
  ASSUME IInv, UpgradeWidens
  PROVE  IInv'
<1> USE DEF IInv, UpgradeWidens
<1>1. version' \in {4, 6, 7} /\ version' = version + 1
  OBVIOUS
<1>2. \A e \in Stored(rows) :
        /\ rows'[e] \in Extraction
        /\ rows'[e].doc = rows[e].doc
        /\ rows'[e].provider = IF version' = 4 THEN Anthropic ELSE rows[e].provider
        /\ rows'[e].thinking = IF version' = 6 THEN DefaultThinking ELSE rows[e].thinking
        /\ rows'[e].run = IF version' = 7 THEN e ELSE rows[e].run
  <2> TAKE e \in Stored(rows)
  <2>1. e \in Rows /\ rows[e] \in Extraction /\ rows'[e] = Backfilled(version', e)
    BY <1>1 DEF TypeOK, Stored
  <2>2. CASE version' = 4
    BY <2>1, <2>2, MigrationsAssumption DEF Backfilled, Extraction
  <2>3. CASE version' = 6
    BY <2>1, <2>3, MigrationsAssumption DEF Backfilled, Extraction
  <2>4. CASE version' = 7
    BY <2>1, <2>4, MigrationsAssumption DEF Backfilled, Extraction
  <2> QED BY <1>1, <2>2, <2>3, <2>4
<1>3. Stored(rows') = Stored(rows)
  <2>1. NoExtraction \notin Extraction
    BY MigrationsAssumption DEF Extraction, NoExtraction
  <2> QED BY <1>2, <2>1 DEF Stored
<1>4. TypeOK'
  <2>1. rows' \in [Rows -> Extraction \cup {NoExtraction}]
    BY <1>2 DEF Stored
  <2>2. ColumnsFit'
    <3> SUFFICES ASSUME NEW e \in Stored(rows)
                 PROVE  /\ version' >= 4 <=> rows'[e].provider # Null
                        /\ version' >= 6 <=> rows'[e].thinking # Null
                        /\ version' >= 7 <=> rows'[e].run # Null
      BY <1>3 DEF ColumnsFit
    <3>1. Anthropic # Null /\ DefaultThinking # Null /\ e # Null
      BY MigrationsAssumption DEF Stored
    <3>2. /\ version >= 4 <=> rows[e].provider # Null
          /\ version >= 6 <=> rows[e].thinking # Null
          /\ version >= 7 <=> rows[e].run # Null
      BY DEF TypeOK, ColumnsFit, Stored
    <3> QED BY <1>1, <1>2, <3>1, <3>2
  <2>3. version' \in 0..8 /\ result' = "done"
    BY <1>1
  <2>4. job' \in Docs \cup {NoDoc} /\ docs' \in [Docs -> Document \cup {NoDocument}]
    BY DEF TypeOK
  <2>5. reviews' \subseteq Rows /\ decided' \subseteq reviews'
    BY DEF TypeOK
  <2> QED BY <2>1, <2>2, <2>3, <2>4, <2>5 DEF TypeOK
<1>5. OneCompletePerKey'
  <2>1. Unique(version, rows)
    BY DEF OneCompletePerKey
  <2>2. ASSUME NEW a \in Stored(rows), NEW b \in Stored(rows),
               Key(version', rows'[a]) = Key(version', rows'[b])
        PROVE  a = b
    <3>1. Key(version, rows[a]) = Key(version, rows[b])
      BY <1>1, <1>2, <2>2 DEF Key
    <3> QED BY <2>1, <3>1 DEF Unique
  <2> QED BY <1>3, <2>2 DEF OneCompletePerKey, Unique
<1>6. Present' = Present
  BY DEF Present
<1>7. ReferencesHold'
  BY <1>2, <1>3, <1>6 DEF ReferencesHold, Stored
<1>8. TablesExist' /\ ReviewsAreComplete'
  BY <1>1 DEF TablesExist, ReviewsAreComplete
<1>9. DocumentsAreTexts'
  BY <1>1, <1>6 DEF DocumentsAreTexts
<1> QED BY <1>4, <1>5, <1>7, <1>8, <1>9

\* 0001 to 0003: the new tables are empty.
LEMMA CreateKeeps ==
  ASSUME IInv, UpgradeCreates
  PROVE  IInv'
<1> USE DEF IInv, UpgradeCreates
<1>1. /\ version \in {0, 1, 2} /\ version' = version + 1
      /\ UNCHANGED <<docs, rows, job, reviews, decided>> /\ Present' = Present
  BY DEF Present
<1>2. Stored(rows) = {} /\ job = NoDoc
  BY <1>1 DEF TablesExist
<1>3. TypeOK'
  <2>1. ColumnsFit'
    BY <1>1, <1>2 DEF ColumnsFit, Stored
  <2>2. version' \in 0..8
    BY <1>1
  <2> QED BY <1>1, <2>1, <2>2 DEF TypeOK
<1>4. TablesExist' /\ ReferencesHold'
  BY <1>1, <1>2 DEF TablesExist, ReferencesHold, Stored
<1>5. OneCompletePerKey' /\ ReviewsAreComplete'
  BY <1>1, <1>2 DEF OneCompletePerKey, ReviewsAreComplete, Unique
<1>6. DocumentsAreTexts'
  BY <1>1 DEF DocumentsAreTexts
<1> QED BY <1>3, <1>4, <1>5, <1>6

\* 0008: the backfill reaches every extraction.
LEMMA ReviewsKeep ==
  ASSUME IInv, UpgradeReviews
  PROVE  IInv'
<1> USE DEF IInv, UpgradeReviews
<1>1. /\ version = 7 /\ version' = 8 /\ reviews' = Stored(rows)
      /\ UNCHANGED <<docs, rows, job, decided>> /\ Present' = Present
  BY DEF Present
<1>2. decided = {}
  <2>1. decided \subseteq reviews
    BY DEF TypeOK
  <2>2. reviews = {}
    BY <1>1 DEF TablesExist
  <2> QED BY <2>1, <2>2
<1>3. TypeOK'
  <2>1. ColumnsFit'
    <3>1. ColumnsFit
      BY DEF TypeOK
    <3> QED BY <1>1, <3>1 DEF ColumnsFit
  <2>2. reviews' \subseteq Rows /\ decided' \subseteq reviews'
    BY <1>1, <1>2 DEF Stored
  <2>3. version' \in 0..8
    BY <1>1
  <2> QED BY <1>1, <2>1, <2>2, <2>3 DEF TypeOK
<1>4. TablesExist' /\ ReferencesHold'
  BY <1>1 DEF TablesExist, ReferencesHold, Stored
<1>5. OneCompletePerKey'
  BY <1>1 DEF OneCompletePerKey, Unique, Key
<1>6. ReviewsAreComplete'
  BY <1>1 DEF ReviewsAreComplete
<1>7. DocumentsAreTexts'
  BY <1>1 DEF DocumentsAreTexts
<1> QED BY <1>3, <1>4, <1>5, <1>6, <1>7

\* A migration that is refused changes nothing but the outcome.
LEMMA RefusalKeeps ==
  ASSUME IInv, UNCHANGED <<version, docs, rows, job, reviews, decided>>,
         result' \in {"done", "named", "merge refused", "downgrade refused"}
  PROVE  IInv'
<1> USE DEF IInv
<1>1. /\ UNCHANGED <<version, docs, rows, job, reviews, decided>>
      /\ Present' = Present
  BY DEF Present
<1>2. TypeOK'
  BY <1>1 DEF TypeOK, ColumnsFit, Stored
<1>3. TablesExist' /\ ReferencesHold'
  BY <1>1 DEF TablesExist, ReferencesHold, Stored
<1>4. OneCompletePerKey' /\ ReviewsAreComplete'
  BY <1>1 DEF OneCompletePerKey, ReviewsAreComplete, Unique
<1>5. DocumentsAreTexts'
  <2>1. DocumentsAreTexts /\ docs' = docs /\ version' = version
    BY <1>1
  <2> QED BY <2>1 DEF DocumentsAreTexts, Present
<1> QED BY <1>2, <1>3, <1>4, <1>5

-------------------------------------------------------------------------------
(* Downgrades *)

\* A key is narrowed only if what is left of it is unique.
LEMMA NarrowKeeps ==
  ASSUME IInv, DowngradeNarrows
  PROVE  IInv'
<1> USE DEF IInv, DowngradeNarrows
<1>1. version' = version - 1 /\ version \in {4, 6, 7}
  OBVIOUS
<1>2. \A e \in Stored(rows) :
        /\ rows'[e] \in Extraction
        /\ rows'[e].doc = rows[e].doc
        /\ rows'[e].provider = IF version = 4 THEN Null ELSE rows[e].provider
        /\ rows'[e].thinking = IF version = 6 THEN Null ELSE rows[e].thinking
        /\ rows'[e].run = IF version = 7 THEN Null ELSE rows[e].run
  <2> TAKE e \in Stored(rows)
  <2>1. e \in Rows /\ rows[e] \in Extraction
    BY DEF TypeOK, Stored
  <2> QED BY <1>1, <2>1 DEF Narrowed, Extraction
<1>3. Stored(rows') = Stored(rows)
  <2>1. NoExtraction \notin Extraction
    BY MigrationsAssumption DEF Extraction, NoExtraction
  <2>2. \A e \in Rows : rows[e] = NoExtraction => rows'[e] = NoExtraction
    BY DEF Narrowed, NoExtraction
  <2> QED BY <1>2, <2>1, <2>2 DEF Stored
<1>4. TypeOK'
  <2>1. rows' \in [Rows -> Extraction \cup {NoExtraction}]
    <3>1. rows' = Narrowed(version)
      OBVIOUS
    <3>2. \A e \in Rows : rows'[e] \in Extraction \cup {NoExtraction}
      BY <1>2, <1>3 DEF Stored
    <3> QED BY <3>1, <3>2 DEF Narrowed
  <2>2. ColumnsFit'
    <3> SUFFICES ASSUME NEW e \in Stored(rows)
                 PROVE  /\ version' >= 4 <=> rows'[e].provider # Null
                        /\ version' >= 6 <=> rows'[e].thinking # Null
                        /\ version' >= 7 <=> rows'[e].run # Null
      BY <1>3 DEF ColumnsFit
    <3>1. /\ version >= 4 <=> rows[e].provider # Null
          /\ version >= 6 <=> rows[e].thinking # Null
          /\ version >= 7 <=> rows[e].run # Null
      BY DEF TypeOK, ColumnsFit, Stored
    <3> QED BY <1>1, <1>2, <3>1
  <2>3. version' \in 0..8 /\ result' = "done"
    BY <1>1
  <2>4. job' \in Docs \cup {NoDoc} /\ docs' \in [Docs -> Document \cup {NoDocument}]
    BY DEF TypeOK
  <2>5. reviews' \subseteq Rows /\ decided' \subseteq reviews'
    BY DEF TypeOK
  <2> QED BY <2>1, <2>2, <2>3, <2>4, <2>5 DEF TypeOK
<1>5. OneCompletePerKey'
  <2>1. Unique(version', rows)
    BY <1>1
  <2>2. \A e \in Stored(rows) : Key(version', rows'[e]) = Key(version', rows[e])
    BY <1>1, <1>2 DEF Key
  <2> QED BY <1>3, <2>1, <2>2 DEF OneCompletePerKey, Unique
<1>6. Present' = Present
  BY DEF Present
<1>7. ReferencesHold'
  BY <1>2, <1>3, <1>6 DEF ReferencesHold, Stored
<1>8. TablesExist' /\ ReviewsAreComplete'
  BY <1>1 DEF TablesExist, ReviewsAreComplete
<1>9. DocumentsAreTexts'
  BY <1>1, <1>6 DEF DocumentsAreTexts
<1> QED BY <1>4, <1>5, <1>7, <1>8, <1>9

\* A table goes with everything in it.
LEMMA DropKeeps ==
  ASSUME IInv, DowngradeDrops
  PROVE  IInv'
<1> USE DEF IInv, DowngradeDrops
<1>1. reviews' = {} /\ decided' = {}
  <2>1. CASE version = 8
    BY <2>1
  <2>2. CASE version # 8
    <3>1. reviews' = reviews /\ decided' = decided /\ version < 8
      BY <2>2
    <3>2. decided \subseteq reviews
      BY DEF TypeOK
    <3>3. reviews = {}
      BY <3>1 DEF TablesExist
    <3> QED BY <3>1, <3>2, <3>3
  <2> QED BY <2>1, <2>2
<1>2. CASE version <= 3
  <2>1. version' = version - 1 /\ version \in {1, 2, 3} /\ job' = NoDoc
    BY <1>2
  <2>2. Stored(rows') = {} /\ rows' \in [Rows -> Extraction \cup {NoExtraction}]
    BY <1>2 DEF Stored
  <2>3. \/ version <= 2 /\ Present' = {}
        \/ version = 3 /\ docs' = docs /\ Present' = Present
    BY <2>1 DEF Present
  <2>4. docs' \in [Docs -> Document \cup {NoDocument}]
    BY DEF TypeOK
  <2>5. TypeOK'
    <3>1. ColumnsFit'
      BY <2>2 DEF ColumnsFit
    <3>2. version' \in 0..8 /\ result' = "done"
      BY <2>1
    <3> QED BY <1>1, <2>1, <2>2, <2>4, <3>1, <3>2 DEF TypeOK
  <2>6. TablesExist' /\ ReferencesHold'
    BY <1>1, <2>1, <2>2, <2>3 DEF TablesExist, ReferencesHold, Stored
  <2>7. OneCompletePerKey' /\ ReviewsAreComplete'
    BY <2>1 DEF OneCompletePerKey, ReviewsAreComplete
  <2>8. DocumentsAreTexts'
    BY <2>1, <2>3 DEF DocumentsAreTexts
  <2> QED BY <2>5, <2>6, <2>7, <2>8
<1>3. CASE ~(version <= 3)
  <2>1. /\ version' = version - 1 /\ version \in {5, 8}
        /\ UNCHANGED <<docs, rows, job>> /\ Present' = Present
    BY <1>3 DEF Present
  <2>2. TypeOK'
    <3>1. ColumnsFit
      BY DEF TypeOK
    <3>2. ColumnsFit'
      BY <2>1, <3>1 DEF ColumnsFit
    <3>3. version' \in 0..8 /\ result' = "done"
      BY <2>1
    <3> QED BY <1>1, <2>1, <3>2, <3>3 DEF TypeOK
  <2>3. OneCompletePerKey'
    BY <2>1 DEF OneCompletePerKey, Unique, Key
  <2>4. TablesExist' /\ ReferencesHold'
    BY <1>1, <2>1 DEF TablesExist, ReferencesHold, Stored
  <2>5. DocumentsAreTexts' /\ ReviewsAreComplete'
    BY <2>1 DEF DocumentsAreTexts, ReviewsAreComplete
  <2> QED BY <2>2, <2>3, <2>4, <2>5
<1> QED BY <1>2, <1>3

-------------------------------------------------------------------------------

LEMMA NextInvariant == IInv /\ [Next]_vars => IInv'
<1> SUFFICES ASSUME IInv, [Next]_vars PROVE IInv'
  OBVIOUS
<1>1. CASE UNCHANGED vars
  BY <1>1, RefusalKeeps DEF vars, IInv, TypeOK
<1>2. CASE \E d, b \in Docs, t \in Texts : Ingest(d, t, b)
  BY <1>2, IngestKeeps
<1>3. CASE \E e \in Rows, r \in Extraction : Extract(e, r)
  BY <1>3, ExtractKeeps
<1>4. CASE \E d \in Docs : HandOver(d)
  BY <1>4, HandOverKeeps
<1>5. CASE \E e \in Rows : Decide(e)
  BY <1>5, DecideKeeps
<1>6. CASE Upgrade
  <2>1. CASE UpgradeRefusesByName \/ UpgradeMeetsIndex
    BY <2>1, RefusalKeeps DEF UpgradeRefusesByName, UpgradeMeetsIndex
  <2> QED BY <1>6, <2>1, CreateKeeps, WidenKeeps, ReviewsKeep, MergeKeeps DEF Upgrade
<1>7. CASE Downgrade
  <2>1. CASE DowngradeMeetsIndex
    BY <2>1, RefusalKeeps DEF DowngradeMeetsIndex
  <2> QED BY <1>7, <2>1, NarrowKeeps, DropKeeps DEF Downgrade
<1> QED BY <1>1, <1>2, <1>3, <1>4, <1>5, <1>6, <1>7 DEF Next

LEMMA Invariance == Spec => []IInv
BY InitInvariant, NextInvariant, PTL DEF Spec

\* A step that leaves documents, rows and the job where they are keeps records.
LEMMA UntouchedRecords ==
  ASSUME IInv, UNCHANGED <<docs, job>>,
         \A e \in Stored(rows) : rows'[e].doc = rows[e].doc
  PROVE  RecordsKept
<1>1. \A e \in Stored(rows) : rows[e].doc \in Docs
  BY DEF IInv, ReferencesHold, Present
<1>2. job \in Docs \cup {NoDoc}
  BY DEF IInv, TypeOK
<1> QED BY <1>1, <1>2 DEF RecordsKept

\* Ingesting and merging move documents, not what the records refer to.
LEMMA IngestRecords ==
  ASSUME IInv, NEW d \in Docs, NEW t \in Texts, NEW b \in Docs, Ingest(d, t, b)
  PROVE  RecordsKept
<1>1. d \notin Present /\ docs \in [Docs -> Document \cup {NoDocument}]
  <2>1. d \notin Present
    BY DEF Ingest, Docs
  <2> QED BY <2>1 DEF IInv, TypeOK
<1>2. \A c \in Present : c \in Docs /\ docs'[c] = docs[c]
  BY <1>1 DEF Ingest, Present
<1>3. \A e \in Stored(rows) : rows'[e].doc = rows[e].doc /\ rows[e].doc \in Present
  BY DEF IInv, ReferencesHold, Ingest
<1>4. job' = job /\ (job # NoDoc => job \in Present)
  BY DEF IInv, ReferencesHold, Ingest
<1> QED BY <1>2, <1>3, <1>4 DEF RecordsKept

LEMMA MergeRecords ==
  ASSUME IInv, UpgradeMerges
  PROVE  RecordsKept
<1>1. \A d \in Present :
        /\ Canonical(d) \in Docs
        /\ docs'[Canonical(d)].text = docs[d].text
  <2> TAKE d \in Present
  <2>1. /\ Canonical(d) \in Present /\ docs[Canonical(d)].text = docs[d].text
        /\ Canonical(Canonical(d)) = Canonical(d)
    BY Groups
  <2>2. Merged[Canonical(d)].text = docs[Canonical(d)].text
    BY <2>1, MergedDocs
  <2> QED BY <2>1, <2>2 DEF UpgradeMerges, Present
<1>2. \A e \in Stored(rows) :
        /\ rows[e].doc \in Present
        /\ rows'[e].doc = Canonical(rows[e].doc)
  <2> TAKE e \in Stored(rows)
  <2>1. rows'[e] = [rows[e] EXCEPT !.doc = Canonical(rows[e].doc)]
    BY RepointedRows DEF UpgradeMerges
  <2>2. rows[e] \in Extraction /\ rows[e].doc \in Present
    BY DEF IInv, TypeOK, ReferencesHold, Stored
  <2> QED BY <2>1, <2>2 DEF Extraction
<1>3. job # NoDoc => job \in Present /\ job' = Canonical(job)
  BY DEF IInv, ReferencesHold, UpgradeMerges
<1> QED BY <1>1, <1>2, <1>3 DEF RecordsKept

LEMMA StepsKeepRecords ==
  ASSUME IInv, Next, version >= 3, version' >= 3
  PROVE  RecordsKept
<1>1. CASE \E d, b \in Docs, t \in Texts : Ingest(d, t, b)
  BY <1>1, IngestRecords
<1>2. CASE \E e \in Rows, r \in Extraction : Extract(e, r)
  <2>1. PICK e \in Rows, r \in Extraction : Extract(e, r)
    BY <1>2
  <2>2. e \notin Stored(rows) /\ rows' = [rows EXCEPT ![e] = r] /\ UNCHANGED <<docs, job>>
    BY <2>1 DEF Extract, Stored
  <2>3. \A x \in Stored(rows) : rows'[x] = rows[x]
    BY <2>2 DEF IInv, TypeOK, Stored
  <2> QED BY <2>2, <2>3, UntouchedRecords
<1>3. CASE \E d \in Docs : HandOver(d)
  <2>1. UNCHANGED <<docs, rows>>
    BY <1>3 DEF HandOver
  <2>2. \A e \in Stored(rows) : rows[e].doc \in Docs
    BY DEF IInv, ReferencesHold, Present
  <2> QED BY <1>3, <2>1, <2>2 DEF RecordsKept
<1>4. CASE \E e \in Rows : Decide(e)
  <2>1. UNCHANGED <<docs, rows, job>>
    BY <1>4 DEF Decide
  <2> QED BY <2>1, UntouchedRecords
<1>5. CASE UpgradeCreates \/ UpgradeReviews \/ UpgradeRefusesByName \/ UpgradeMeetsIndex
           \/ DowngradeMeetsIndex
  <2>1. UNCHANGED <<docs, rows, job>>
    BY <1>5 DEF UpgradeCreates, UpgradeReviews, UpgradeRefusesByName, UpgradeMeetsIndex,
                DowngradeMeetsIndex
  <2> QED BY <2>1, UntouchedRecords
<1>6. CASE UpgradeWidens
  <2>1. \A e \in Stored(rows) : rows'[e].doc = rows[e].doc
    <3> TAKE e \in Stored(rows)
    <3>1. rows'[e] = Backfilled(version + 1, e) /\ rows[e] \in Extraction
      BY <1>6 DEF UpgradeWidens, Stored, IInv, TypeOK
    <3>2. version + 1 \in {4, 6, 7}
      BY <1>6 DEF UpgradeWidens
    <3> QED BY <3>1, <3>2 DEF Backfilled, Extraction
  <2> QED BY <1>6, <2>1, UntouchedRecords DEF UpgradeWidens
<1>7. CASE UpgradeMerges
  BY <1>7, MergeRecords
<1>8. CASE DowngradeNarrows
  <2>1. \A e \in Stored(rows) : rows'[e].doc = rows[e].doc
    <3> TAKE e \in Stored(rows)
    <3>1. rows[e] \in Extraction /\ e \in Rows
      BY DEF Stored, IInv, TypeOK
    <3> QED BY <1>8, <3>1 DEF DowngradeNarrows, Narrowed, Extraction
  <2> QED BY <1>8, <2>1, UntouchedRecords DEF DowngradeNarrows
<1>9. CASE DowngradeDrops
  <2>1. version \in {5, 8}
    BY <1>9 DEF DowngradeDrops
  <2>2. UNCHANGED <<docs, rows, job>>
    BY <1>9, <2>1 DEF DowngradeDrops
  <2> QED BY <2>2, UntouchedRecords
<1> QED BY <1>1, <1>2, <1>3, <1>4, <1>5, <1>6, <1>7, <1>8, <1>9
        DEF Next, Upgrade, Downgrade

\* Every table holds what the migrations so far have declared (migrations/versions).
THEOREM TypeCorrect == Spec => []TypeOK
BY Invariance, PTL DEF IInv

\* No two complete extractions share the key of any version (0003 to 0007).
THEOREM OneCompletePerKeyHolds == Spec => []OneCompletePerKey
BY Invariance, PTL DEF IInv

\* A document is a text from 0005 on, whatever there was before (0005).
THEOREM DocumentsAreTextsHolds == Spec => []DocumentsAreTexts
BY Invariance, PTL DEF IInv

\* Extractions older than field_reviews have their reviews as well (0008).
THEOREM ReviewsAreCompleteHolds == Spec => []ReviewsAreComplete
BY Invariance, PTL DEF IInv

\* Neither a merge nor any other migration past 0003 detaches an extraction or a job from
\* its text (0003 to 0008).
THEOREM RecordsSurviveAll == Spec => RecordsSurvive
<1>1. IInv /\ [Next]_vars => [version >= 3 /\ version' >= 3 => RecordsKept]_vars
  BY StepsKeepRecords
<1> QED BY <1>1, Invariance, PTL DEF Spec, RecordsSurvive
===============================================================================
