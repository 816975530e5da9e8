------------------------------ MODULE Migrations ------------------------------
(***************************************************************************)
(* The chain of schema migrations (migrations/versions/0001 to 0008) over  *)
(* a database that every release in between has filled: documents,         *)
(* complete extractions and the unique index on their key, which each      *)
(* migration widens and each downgrade narrows, a job that points to a     *)
(* document, and the review rows.                                          *)
(*                                                                         *)
(* An alembic command is one transaction (env.py): a migration that fails  *)
(* leaves everything as it was, the migrations before it in the same       *)
(* command included, so that a command is a step of the migrations below   *)
(* or none at all.                                                         *)
(*                                                                         *)
(* All extractions here share the columns schema_version and model.        *)
(* Failed extractions are outside every index and follow the complete ones *)
(* in the merge.                                                           *)
(***************************************************************************)
EXTENDS Naturals

CONSTANTS
  MaxDocs,   \* how many documents there are at most
  Rows,      \* extraction ids
  Texts,     \* what documents say
  Providers, Anthropic,       \* extractions.provider and its backfill
  Thinkings, DefaultThinking, \* extractions.thinking and its backfill
  Named,     \* a run id that somebody names; an unnamed run has the row's own
  Null, NoDoc

\* Document ids, ordered by created_at.
Docs == 1..MaxDocs

ASSUME MigrationsAssumption ==
  /\ MaxDocs \in Nat /\ NoDoc \notin Docs
  /\ Anthropic \in Providers /\ DefaultThinking \in Thinkings
  /\ Named \notin Rows
  /\ Null \notin Texts \cup Providers \cup Thinkings \cup Rows \cup {Named}

VARIABLES
  version,   \* alembic_version: the last migration applied
  docs,      \* the documents table: text and raw_bytes
  rows,      \* the complete rows of extractions
  job,       \* the document of an extract job
  reviews,   \* extractions that have their field_reviews
  decided,   \* those a human has decided
  result     \* how the last migration ended

vars == <<version, docs, rows, job, reviews, decided, result>>

\* Bytes are the text a parser finds in them and the fetch they come from.
Bytes == Texts \X Docs
Document == [text : Texts, bytes : Bytes]
\* Absent rows are records too, so that every cell can be asked for its columns.
NoDocument == [text |-> Null, bytes |-> Null]
Extraction == [doc : Docs, provider : Providers \cup {Null},
               thinking : Thinkings \cup {Null}, run : Rows \cup {Named, Null}]
NoExtraction == [doc |-> NoDoc, provider |-> Null, thinking |-> Null, run |-> Null]

Present == {d \in Docs : docs[d] # NoDocument}
Stored(R) == {e \in Rows : R[e] # NoExtraction}

Init ==
  /\ version = 0
  /\ docs = [d \in Docs |-> NoDocument]
  /\ rows = [e \in Rows |-> NoExtraction]
  /\ job = NoDoc
  /\ reviews = {}
  /\ decided = {}
  /\ result = "done"

-------------------------------------------------------------------------------
(* The index *)

\* The columns of ux_extractions_complete after migration v.
Key(v, r) ==
  << r.doc,
     IF v >= 4 THEN r.provider ELSE Null,
     IF v >= 6 THEN r.thinking ELSE Null,
     IF v >= 7 THEN r.run ELSE Null >>

\* The index of migration v can be created over the rows R.
Unique(v, R) == \A a, b \in Stored(R) : Key(v, R[a]) = Key(v, R[b]) => a = b

-------------------------------------------------------------------------------
(* The releases in between *)

\* Bytes that are not stored are ingested; from 0005 on a known text is not a new
\* document.
Ingest(d, t, b) ==
  /\ version >= 2
  /\ \A c \in Present : c < d /\ docs[c].bytes # <<t, b>>
  /\ version >= 5 => \A c \in Present : docs[c].text # t
  /\ docs' = [docs EXCEPT ![d] = [text |-> t, bytes |-> <<t, b>>]]
  /\ result' = "done"
  /\ UNCHANGED <<version, rows, job, reviews, decided>>

\* A document is extracted, with the columns there are and within the index.
Extract(e, r) ==
  /\ version >= 3
  /\ rows[e] = NoExtraction
  /\ r.doc \in Present
  /\ version >= 4 <=> r.provider # Null
  /\ version >= 6 <=> r.thinking # Null
  /\ IF version >= 7 THEN r.run \in {e, Named} ELSE r.run = Null
  /\ rows' = [rows EXCEPT ![e] = r]
  /\ Unique(version, rows')
  /\ reviews' = IF version = 8 THEN reviews \cup {e} ELSE reviews
  /\ result' = "done"
  /\ UNCHANGED <<version, docs, job, decided>>

HandOver(d) ==
  /\ version >= 3
  /\ d \in Present
  /\ job' = d
  /\ result' = "done"
  /\ UNCHANGED <<version, docs, rows, reviews, decided>>

Decide(e) ==
  /\ e \in reviews
  /\ decided' = decided \cup {e}
  /\ result' = "done"
  /\ UNCHANGED <<version, docs, rows, job, reviews>>

-------------------------------------------------------------------------------
(* 0005 *)

SameText(d) == {c \in Present : docs[c].text = docs[d].text}

\* Mutant of Canonical: of a group of three only the first two are merged.
CanonicalOfTwo(d) ==
  LET older == {c \in SameText(d) : c < d}
  IN IF \E c \in older : \A x \in older : x = c THEN CHOOSE c \in older : TRUE ELSE d

\* The oldest document with the text of d.
Canonical(d) == CHOOSE c \in SameText(d) : \A x \in SameText(d) : c <= x

Newest(d) == CHOOSE c \in SameText(d) : \A x \in SameText(d) : x <= c

\* Before anything is written: a duplicate and its canonical document both have an
\* extraction of one key.
Collision ==
  \E a, b \in Stored(rows) :
    /\ Canonical(rows[a].doc) = rows[b].doc /\ rows[a].doc # rows[b].doc
    /\ rows[a].provider = rows[b].provider

\* Mutant of Repointed: only the newest duplicate's extractions are moved.
RepointedOnce ==
  [e \in Rows |->
     IF rows[e] # NoExtraction /\ rows[e].doc = Newest(rows[e].doc)
       THEN [rows[e] EXCEPT !.doc = Canonical(rows[e].doc)] ELSE rows[e]]

Repointed ==
  [e \in Rows |->
     IF rows[e] = NoExtraction THEN NoExtraction
     ELSE [rows[e] EXCEPT !.doc = Canonical(rows[e].doc)]]

\* The canonical document takes the provenance of the newest; the others go.
Merged ==
  [d \in Docs |->
     IF d \notin Present \/ Canonical(d) # d THEN NoDocument
     ELSE [docs[d] EXCEPT !.bytes = docs[Newest(d)].bytes]]

UpgradeMerges ==
  /\ version = 4
  /\ ~Collision
  /\ Unique(4, Repointed)
  /\ version' = 5
  /\ docs' = Merged
  /\ rows' = Repointed
  /\ job' = IF job = NoDoc THEN NoDoc ELSE Canonical(job)
  /\ result' = "done"
  /\ UNCHANGED <<reviews, decided>>

\* RuntimeError: "cannot merge document ... into ...".
UpgradeRefusesByName ==
  /\ version = 4
  /\ Collision
  /\ result' = "named"
  /\ UNCHANGED <<version, docs, rows, job, reviews, decided>>

\* Two duplicates collide with each other and not with the oldest document: nothing
\* looks for that, and an UPDATE that re-points an extraction meets the unique index.
UpgradeMeetsIndex ==
  /\ version = 4
  /\ ~Collision
  /\ ~Unique(4, Repointed)
  /\ result' = "merge refused"
  /\ UNCHANGED <<version, docs, rows, job, reviews, decided>>

-------------------------------------------------------------------------------
(* The other migrations *)

\* 0001 and 0002 create tables; so does 0003, with the job kinds.
UpgradeCreates ==
  /\ version \in {0, 1, 2}
  /\ version' = version + 1
  /\ result' = "done"
  /\ UNCHANGED <<docs, rows, job, reviews, decided>>

\* Mutant of Backfilled: 0006 adds its column and leaves it empty.
BackfilledButThinking(v, e) ==
  CASE v = 4 -> [rows[e] EXCEPT !.provider = Anthropic]
    [] v = 6 -> rows[e]
    [] v = 7 -> [rows[e] EXCEPT !.run = e]

\* A column of the key is added and backfilled: 0004, 0006 and 0007.
Backfilled(v, e) ==
  CASE v = 4 -> [rows[e] EXCEPT !.provider = Anthropic]
    [] v = 6 -> [rows[e] EXCEPT !.thinking = DefaultThinking]
    [] v = 7 -> [rows[e] EXCEPT !.run = e]

UpgradeWidens ==
  /\ version \in {3, 5, 6}
  /\ version' = version + 1
  /\ rows' = [e \in Rows |-> IF rows[e] = NoExtraction THEN NoExtraction
                             ELSE Backfilled(version + 1, e)]
  /\ result' = "done"
  /\ UNCHANGED <<docs, job, reviews, decided>>

\* Mutant of UpgradeReviews: no backfill.
UpgradeReviewsLater ==
  /\ version = 7
  /\ version' = 8
  /\ result' = "done"
  /\ UNCHANGED <<docs, rows, job, reviews, decided>>

\* 0008: every complete extraction gets its field_reviews.
UpgradeReviews ==
  /\ version = 7
  /\ version' = 8
  /\ reviews' = Stored(rows)
  /\ result' = "done"
  /\ UNCHANGED <<docs, rows, job, decided>>

\* A column of the key is dropped.
Narrowed(v) ==
  [e \in Rows |->
     CASE v = 4 -> [rows[e] EXCEPT !.provider = Null]
       [] v = 6 -> [rows[e] EXCEPT !.thinking = Null]
       [] v = 7 -> [rows[e] EXCEPT !.run = Null]]

\* Mutant of DowngradeNarrows: the narrower index is not unique.
DowngradeNarrowsAnyway ==
  /\ version \in {4, 6, 7}
  /\ version' = version - 1
  /\ rows' = Narrowed(version)
  /\ result' = "done"
  /\ UNCHANGED <<docs, job, reviews, decided>>

DowngradeNarrows ==
  /\ version \in {4, 6, 7}
  /\ Unique(version - 1, rows)
  /\ version' = version - 1
  /\ rows' = Narrowed(version)
  /\ result' = "done"
  /\ UNCHANGED <<docs, job, reviews, decided>>

\* "Fails if two complete rows ... exist": the narrower index cannot be created.
DowngradeMeetsIndex ==
  /\ version \in {4, 6, 7}
  /\ ~Unique(version - 1, rows)
  /\ result' = "downgrade refused"
  /\ UNCHANGED <<version, docs, rows, job, reviews, decided>>

\* What a migration created is dropped: text_hash, field_reviews, extractions and the
\* jobs' columns, documents, sources and jobs.
DowngradeDrops ==
  /\ version \in {1, 2, 3, 5, 8}
  /\ version' = version - 1
  /\ docs' = IF version <= 2 THEN [d \in Docs |-> NoDocument] ELSE docs
  /\ rows' = IF version <= 3 THEN [e \in Rows |-> NoExtraction] ELSE rows
  /\ job' = IF version <= 3 THEN NoDoc ELSE job
  /\ reviews' = IF version = 8 THEN {} ELSE reviews
  /\ decided' = IF version = 8 THEN {} ELSE decided
  /\ result' = "done"

Upgrade ==
  \/ UpgradeCreates \/ UpgradeWidens \/ UpgradeReviews
  \/ UpgradeMerges \/ UpgradeRefusesByName \/ UpgradeMeetsIndex

Downgrade == DowngradeNarrows \/ DowngradeMeetsIndex \/ DowngradeDrops

Next ==
  \/ \E d, b \in Docs, t \in Texts : Ingest(d, t, b)
  \/ \E e \in Rows, r \in Extraction : Extract(e, r)
  \/ \E d \in Docs : HandOver(d)
  \/ \E e \in Rows : Decide(e)
  \/ Upgrade
  \/ Downgrade

Spec == Init /\ [][Next]_vars

-------------------------------------------------------------------------------

\* A column is filled in every row once its migration has run, and in none before.
ColumnsFit ==
  \A e \in Stored(rows) :
    /\ version >= 4 <=> rows[e].provider # Null
    /\ version >= 6 <=> rows[e].thinking # Null
    /\ version >= 7 <=> rows[e].run # Null

\* Tables hold what the migrations so far have declared (0001 to 0008; NOT NULL of 0004,
\* 0006 and 0007).
TypeOK ==
  /\ version \in 0..8
  /\ docs \in [Docs -> Document \cup {NoDocument}]
  /\ rows \in [Rows -> Extraction \cup {NoExtraction}]
  /\ job \in Docs \cup {NoDoc}
  /\ reviews \subseteq Rows
  /\ decided \subseteq reviews
  /\ result \in {"done", "named", "merge refused", "downgrade refused"}
  /\ ColumnsFit

\* Whatever was extracted under which release and however often the schema went up and
\* down, no two complete extractions share the key of the version (0003 to 0007).
OneCompletePerKey == version >= 3 => Unique(version, rows)

\* From 0005 on a text is one document, and its bytes are a fetch of that text which no
\* other document has (0005: text_hash and content_hash are unique).
DocumentsAreTexts ==
  /\ version >= 5 => \A c, d \in Present : docs[c].text = docs[d].text => c = d
  /\ \A d \in Present : docs[d].bytes[1] = docs[d].text
  /\ \A c, d \in Present : docs[c].bytes = docs[d].bytes => c = d

\* Every complete extraction has its review rows, those older than the table too
\* (0008; fields.py: "a complete extraction can never exist without its 23 review states").
ReviewsAreComplete == version = 8 => reviews = Stored(rows)

\* Every extraction, and the job unless it is handed over anew, is attached to a document
\* with the text it had.
RecordsKept ==
  /\ \A e \in Stored(rows) :
       /\ rows'[e].doc \in Docs
       /\ docs'[rows'[e].doc].text = docs[rows[e].doc].text
  /\ job # NoDoc /\ ~(\E d \in Docs : HandOver(d)) =>
       /\ job' \in Docs
       /\ docs'[job'].text = docs[job].text

\* No migration between 0003 and 0008 loses an extraction or a pending job, or attaches
\* it to a document with another text (0005: "Nothing about the extractions themselves is
\* changed").
RecordsSurvive == [][version >= 3 /\ version' >= 3 => RecordsKept]_vars
===============================================================================
