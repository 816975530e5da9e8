-------------------------------- MODULE Ingest --------------------------------
(***************************************************************************)
(* The ingest stage: _ingest_source in app/ingest/pipeline.py and the two  *)
(* unique constraints of `documents` (app/db/schema.py), under READ        *)
(* COMMITTED transactions of several workers.                              *)
(*                                                                         *)
(* `documents` is the committed table.  A transaction fetches, looks for   *)
(* the bytes, parses, looks for the text, and then inserts a row or moves  *)
(* the provenance of one.  Its statement enters the indexes one by one and *)
(* waits at each for whoever may still take back a conflicting entry, so   *)
(* two such statements can wait for each other.                            *)
(***************************************************************************)
EXTENDS Naturals, FiniteSets

CONSTANTS
  Workers,   \* worker processes
  Ids,       \* ids a documents row can have
  Bytes,     \* contents of a response, each its content_hash
  Texts,     \* extracted texts, each its text_hash
  Pages,     \* what servers serve: <<bytes, text the parser makes of them>>
  NoBytes,   \* nothing fetched
  NoText,    \* parsing gives no text
  NoId       \* no row

ASSUME PagesAssumption == Pages \subseteq Bytes \X (Texts \cup {NoText})
ASSUME NullAssumption == NoBytes \notin Bytes /\ NoText \notin Texts /\ NoId \notin Ids

VARIABLES
  documents,  \* committed rows, their text and the bytes stored for it
  stage,      \* how far each worker's transaction is
  bytes,      \* what it has fetched
  content,    \* the text that the parser makes of it
  target,     \* the row it found or is to insert
  raced       \* history: workers during whose transaction another one committed

vars == <<documents, stage, bytes, content, target, raced>>

NoRow == [text |-> NoText, bytes |-> NoBytes]

Rows == {i \in Ids : documents[i] # NoRow}

Init ==
  /\ documents = [i \in Ids |-> NoRow]
  /\ stage = [w \in Workers |-> "idle"]
  /\ bytes = [w \in Workers |-> NoBytes]
  /\ content = [w \in Workers |-> NoText]
  /\ target = [w \in Workers |-> NoId]
  /\ raced = {}

-------------------------------------------------------------------------------
(* Fetching and looking up *)

\* The response, and what parse will make of it. The same bytes may come with
\* another Content-Type, which detect_format goes by.
Fetch(w, page) ==
  /\ stage[w] = "idle"
  /\ stage' = [stage EXCEPT ![w] = "fetched"]
  /\ bytes' = [bytes EXCEPT ![w] = page[1]]
  /\ content' = [content EXCEPT ![w] = page[2]]
  /\ raced' = raced \ {w}
  /\ UNCHANGED <<documents, target>>

WithBytes(b) == {i \in Rows : documents[i].bytes = b}
WithText(t) == {i \in Rows : documents[i].text = t}

\* These bytes are stored: the row that has them is the result.
KnownBytes(w) ==
  /\ stage[w] = "fetched"
  /\ \E i \in WithBytes(bytes[w]) : target' = [target EXCEPT ![w] = i]
  /\ stage' = [stage EXCEPT ![w] = "found"]
  /\ UNCHANGED <<documents, bytes, content, raced>>

\* Mutant of ParseNew: text that is empty is text.
ParseAnything(w) ==
  /\ stage[w] = "fetched"
  /\ WithBytes(bytes[w]) = {}
  /\ stage' = [stage EXCEPT ![w] = "parsed"]
  /\ UNCHANGED <<documents, bytes, content, target, raced>>

\* New bytes. Without any text that is EmptyExtractionError (Fail).
ParseNew(w) ==
  /\ stage[w] = "fetched"
  /\ WithBytes(bytes[w]) = {}
  /\ content[w] # NoText
  /\ stage' = [stage EXCEPT ![w] = "parsed"]
  /\ UNCHANGED <<documents, bytes, content, target, raced>>

\* Mutant of KnownText: identity goes by the URL instead of the text.
KnownUrl(w) ==
  /\ stage[w] = "parsed"
  /\ \E i \in Rows : target' = [target EXCEPT ![w] = i]
  /\ stage' = [stage EXCEPT ![w] = "updating"]
  /\ UNCHANGED <<documents, bytes, content, raced>>

\* New bytes, known text: the provenance of that row moves to this fetch.
KnownText(w) ==
  /\ stage[w] = "parsed"
  /\ \E i \in WithText(content[w]) : target' = [target EXCEPT ![w] = i]
  /\ stage' = [stage EXCEPT ![w] = "updating"]
  /\ UNCHANGED <<documents, bytes, content, raced>>

\* A uuid4 that no row and no other transaction has.
FreshIds == {i \in Ids \ Rows : \A v \in Workers : target[v] # i}

\* Mutant of NewText: identity goes by the bytes, as it did before ADR-007.
NewBytes(w) ==
  /\ stage[w] = "parsed"
  /\ FreshIds # {}
  /\ target' = [target EXCEPT ![w] = CHOOSE i \in FreshIds : TRUE]
  /\ stage' = [stage EXCEPT ![w] = "inserting"]
  /\ UNCHANGED <<documents, bytes, content, raced>>

\* New bytes and new text.
NewText(w) ==
  /\ stage[w] = "parsed"
  /\ WithText(content[w]) = {}
  /\ FreshIds # {}
  /\ target' = [target EXCEPT ![w] = CHOOSE i \in FreshIds : TRUE]
  /\ stage' = [stage EXCEPT ![w] = "inserting"]
  /\ UNCHANGED <<documents, bytes, content, raced>>

-------------------------------------------------------------------------------
(* Writing *)

\* An UPDATE has its row locked, an INSERT its new row in the first index or both.
Updating(w) == stage[w] \in {"locked", "moved"}
Inserting(w) == stage[w] \in {"entered", "inserted"}

\* Whom the UPDATE waits for to lock its row.
RowHolders(w) == {v \in Workers \ {w} : Updating(v) /\ target[v] = target[w]}

\* Who may still take back, or leave, an entry equal to the bytes of w.
BytesHolders(w) ==
  {v \in Workers \ {w} :
     \/ (Inserting(v) \/ stage[v] = "moved") /\ bytes[v] = bytes[w]
     \/ Updating(v) /\ target[v] # target[w] /\ target[v] \in WithBytes(bytes[w])}

\* The same for its text. An UPDATE replaces the version of the row that is there.
TextHolders(w) ==
  {v \in Workers \ {w} :
     \/ stage[v] = "inserted" /\ content[v] = content[w]
     \/ Updating(v) /\ target[v] \in WithText(content[w])}

Advance(w, s) ==
  /\ stage' = [stage EXCEPT ![w] = s]
  /\ UNCHANGED <<documents, bytes, content, target, raced>>

LockRow(w) ==
  /\ stage[w] = "updating"
  /\ RowHolders(w) = {}
  /\ Advance(w, "locked")

\* documents_content_hash_key is checked first. The old version of the row that
\* an UPDATE replaces is no conflict.
EnterBytes(w) ==
  /\ stage[w] \in {"inserting", "locked"}
  /\ BytesHolders(w) = {}
  /\ WithBytes(bytes[w]) \subseteq {target[w]}
  /\ Advance(w, IF stage[w] = "inserting" THEN "entered" ELSE "moved")

\* Mutant of EnterText: documents_text_hash_key is missing.
EnterAnyText(w) ==
  /\ stage[w] = "entered"
  /\ Advance(w, "inserted")

\* documents_text_hash_key.
EnterText(w) ==
  /\ stage[w] = "entered"
  /\ TextHolders(w) = {}
  /\ WithText(content[w]) = {}
  /\ Advance(w, "inserted")

\* The transaction of w is over.
Idle(w) ==
  /\ stage' = [stage EXCEPT ![w] = "idle"]
  /\ bytes' = [bytes EXCEPT ![w] = NoBytes]
  /\ content' = [content EXCEPT ![w] = NoText]
  /\ target' = [target EXCEPT ![w] = NoId]

\* A unique violation: the conflicting row is committed, nobody is changing it.
\* The transaction is aborted and the process ends (JobQueue, StatementRefused).
Refused(w) ==
  /\ \/ stage[w] \in {"inserting", "locked"} /\ BytesHolders(w) = {}
          /\ ~ (WithBytes(bytes[w]) \subseteq {target[w]})
     \/ stage[w] = "entered" /\ TextHolders(w) = {} /\ WithText(content[w]) # {}
  /\ Idle(w)
  /\ UNCHANGED <<documents, raced>>

\* Those that the statement of w waits for.
Holders(w) ==
  CASE stage[w] = "updating" -> RowHolders(w)
    [] stage[w] \in {"inserting", "locked"} -> BytesHolders(w)
    [] stage[w] = "entered" -> TextHolders(w)
    [] OTHER -> {}

\* w waits for one that waits, in turn, for w.
Deadlocked(w) ==
  \E S \in SUBSET Workers :
    /\ w \in S
    /\ \A v \in S : Holders(v) \cap S # {} /\ \E u \in S : v \in Holders(u)

\* Mutant of BreakDeadlock: there is no deadlock detection.
KeepWaiting(w) == Deadlocked(w) /\ UNCHANGED vars

\* After deadlock_timeout PostgreSQL aborts one that is in the circle.
BreakDeadlock(w) ==
  /\ Deadlocked(w)
  /\ Idle(w)
  /\ UNCHANGED <<documents, raced>>

\* With the commit goes the extract job of the target (JobQueue, IngestSucceeds).
\* The text of a row that was there stays as it was.
Commit(w) ==
  /\ stage[w] \in {"found", "moved", "inserted"}
  /\ documents' =
       CASE stage[w] = "found"    -> documents
         [] stage[w] = "moved"    -> [documents EXCEPT ![target[w]].bytes = bytes[w]]
         [] stage[w] = "inserted" -> [documents EXCEPT ![target[w]] =
                                        [text |-> content[w], bytes |-> bytes[w]]]
  /\ raced' = IF stage[w] = "found" THEN raced ELSE Workers
  /\ Idle(w)

\* fetch raises, parsing gives no text (EmptyExtractionError), or the process dies.
\* Nothing has been written that would be committed with the failure.
Fail(w) ==
  /\ stage[w] # "idle"
  /\ Idle(w)
  /\ UNCHANGED <<documents, raced>>

-------------------------------------------------------------------------------

LookUp(w) == KnownBytes(w) \/ ParseNew(w) \/ KnownText(w) \/ NewText(w)

Write(w) == LockRow(w) \/ EnterBytes(w) \/ EnterText(w) \/ Refused(w) \/ BreakDeadlock(w)

Next ==
  \E w \in Workers :
    \/ \E page \in Pages : Fetch(w, page)
    \/ LookUp(w)
    \/ Write(w)
    \/ Commit(w)
    \/ Fail(w)

Spec == Init /\ [][Next]_vars

\* The stage goes on, and a lock that is freed goes to one that waits for it.
\* Failing is a way to go on only where parsing gives no text.
Fairness ==
  \A w \in Workers :
    /\ WF_vars(LookUp(w) \/ Commit(w) \/ (content[w] = NoText /\ Fail(w)))
    /\ SF_vars(Write(w))

FairSpec == Spec /\ Fairness

-------------------------------------------------------------------------------

\* Rows and transactions are what they are declared to be (schema.py documents).
TypeOK ==
  /\ documents \in [Ids -> [text : Texts, bytes : Bytes] \cup {NoRow}]
  /\ stage \in [Workers -> {"idle", "fetched", "found", "parsed", "updating", "inserting",
                            "locked", "moved", "entered", "inserted"}]
  /\ bytes \in [Workers -> Bytes \cup {NoBytes}]
  /\ content \in [Workers -> Texts \cup {NoText}]
  /\ target \in [Workers -> Ids \cup {NoId}]
  /\ raced \subseteq Workers

\* Whatever ingests at the same time, a text is one document and bytes are stored
\* once (pipeline.py, "two fetches with the same text are the same document").
OneDocumentPerText ==
  \A i, j \in Rows :
    documents[i].text = documents[j].text \/ documents[i].bytes = documents[j].bytes => i = j

\* The document an ingest hands to its extract job has the text that this ingest
\* fetched, although lookups may be stale by then (pipeline.py, "the text is too").
ResultHasItsText ==
  \A w \in Workers :
    stage[w] \in {"found", "updating", "locked", "moved"} =>
      target[w] \in Rows /\ documents[target[w]].text = content[w]

\* The database refuses an ingest only if another one committed a row during it:
\* run again, or alone, it goes through (the job is not one that kills every
\* worker that claims it).
RefusalsAreRaces == [][\A w \in Workers : Refused(w) => w \in raced]_vars

Store == INSTANCE DocumentStore

\* The table changes as if the ingests ran one after the other, with lookups that are never
\* stale: a fetch adds the document of its text if there is none, moves the provenance of
\* the one there is if its bytes are new, and changes nothing else, whoever runs at the
\* same time, waits or is refused (pipeline.py _ingest_source; ADR-007, "the provenance
\* tuple always describes the stored bytes").
ImplementsDocumentStore == Store!Spec

\* Every ingest comes to an end, although an UPDATE that has its row locked and
\* waits for the bytes of an INSERT may meet that INSERT waiting for the row.
IngestsEnd == \A w \in Workers : stage[w] # "idle" ~> stage[w] = "idle"
===============================================================================
