# TLA+ models of the incident intelligence pipeline

The pipeline takes URLs of public postmortems, stores their text, has a language
model extract a structured record from each, and routes the fields the model is
least sure of to human reviewers. Most of what makes it hard happens between
processes that share one PostgreSQL database: workers that hold one transaction
open over a whole job, routing passes, reviewers with stale pages, a small
connection pool, releases that migrate tables their predecessors have filled, and
processes that die. The rest is pure code with awkward corners: time anchors,
forms there and back, passages, scores. These modules model both, TLC checks them
on small instances, and TLAPS proves their safety properties for all instances.

## The system and its parts

| Part | State | Operations | Interacts with |
|---|---|---|---|
| source registration (`app/api/main.py`) | `sources` | `POST /sources`, `GET /jobs/{id}` | enqueues ingest jobs |
| job queue (`app/queue/postgres_queue.py`) | `jobs` | `enqueue`, `claim_one`, `mark_succeeded`, `mark_failed` | called by the API and the workers, in their transactions |
| worker (`app/worker/main.py`) | one open transaction, a cached LLM client | `run_once`, `process_ingest`, `process_extract` | claims jobs, runs a stage, marks the job |
| ingest stage (`app/ingest/`) | `documents` with two unique hashes | fetch, look up bytes, parse, look up text, insert or update | its job's success enqueues the extract job |
| extract stage (`app/extract/`) | `extractions` | duplicate check, validate-and-retry loop, insert | the model's API; inserts `field_reviews`, then routes |
| schema and derivations (`app/extract/schema.py`, `derive.py`) | none | validate a record, derive durations | what an answer is validated with and a correction must pass |
| routing (`app/review/routing.py`) | `field_reviews.review_state`, an advisory lock | `route_pending` | run by workers and by `POST /review/route` |
| decisions (`app/review/fields.py`) | `field_reviews` decision columns | accept, correct, skip | locks rows that a routing pass wants |
| review queue and UI (`app/review/queries.py`, `app/api/review*.py`, `app/db/engine.py`) | open pages, the pool | next field, lists, pages, decisions | reads what routing wrote, calls decisions |
| forms, candidates, context (`app/review/`, `review.html`) | none | build, bind, parse a form; choose passages; locate quotes | the browser |
| authentication (`app/api/auth.py`) | none | one check per request | guards every review request |
| migrations (`migrations/versions/`) | the schema | upgrade, downgrade | every table, between two releases |
| evaluation and scripts (`eval/`, `scripts/`) | files | split, gate, score, report, compare | read what a run left behind |
| telemetry (`app/telemetry/`) | counters | `/metrics`, spans, log fields | observes |

What is hard here, and what each part owes:

- **Queue and worker.** A job is claimed, run and marked in one transaction, so
  its claim is never visible; a crash, a lost database session or a refused
  statement rolls everything back. Owed: no job runs twice at once, none is
  forgotten or retried without end, the row tells what happened, a document and
  its extract job appear together.
- **Ingest.** Lookups are stale by the time of the write, and two unique indexes
  are entered one after the other. Owed: one document per text, bytes that fit the
  text, no refusal without a race, no deadlock that lasts.
- **Extract.** Answers cost money, the duplicate check is stale by the insert, and
  the run id depends on the process. Owed: one complete extraction per run, every
  billed answer on record, an end.
- **Routing and decisions.** A pass counts, selects and updates in three
  statements while reviewers decide. Owed: the budget, the ranking, decisions that
  stay.
- **Review queue and UI.** Pages go stale, skipped fields go to the back, decisions
  are read in windows that move, and an error page takes a second connection while
  it holds the first, and perhaps a row. Owed: every queued field is shown to somebody, a
  paged reader misses nothing, a full pool recovers.
- **Migrations.** A unique key is widened, narrowed and widened again over rows that
  are there already; duplicates are merged under tables without foreign keys. Owed:
  no record lost, none attached to another text, the key's promise in each version.
- **Pure code.** Mixed offsets and precisions, values a form cannot show, browsers
  that change what they are given, windows over text, rounding.

`PROJECT.json` lists 40 hazards with their lines and the properties that watch
them.

## Modules

| Module | Models | Extends / refines |
|---|---|---|
| `JobLifecycle` | what the `jobs` table promises a reader: runs are atomic | |
| `JobQueue` | the queue, the workers, their failures, `POST /sources` | implements `JobLifecycle` |
| `DocumentStore` | what the `documents` table promises: ingests run one after the other | |
| `Ingest` | the ingest stage inside such a transaction | implements `DocumentStore` |
| `Extraction` | the extract stage inside such a transaction | |
| `ReviewBoard` | what the `field_reviews` table promises: passes and decisions are atomic | |
| `Review` | routing passes and decisions, statement by statement | implements `ReviewBoard` |
| `ReviewDesk` | reviewers, their pages, the API, the pool and the gate | |
| `Migrations` | the chain 0001 to 0008, up and down, over filled tables | |
| `Anchors` | time anchors, their forms and precisions, derived durations | |
| `RecordForms` | the types of `IncidentRecord`, forms, the browser, corrections | `Indices` |
| `Passages` | sentences, passages, candidates, located quotes | `Indices` |
| `Indices`, `Sums` | positions in their order, and what is picked at them; a sum over a function's domain | |
| `Evaluation` | the split, the gold set's gate, scores, the reproducibility bar | `Sums` |
| `RunReport` | the report of an extraction run, the metrics' gauges | `Sums` |
| `Algorithms` | one state per input of `Anchors`, `Evaluation`, `Passages`, `RecordForms` and `RunReport` | extends them |
| `MC*` | instances for TLC | their module |
| `*_proofs` | theorems and proofs | their module and `TLAPS` |

### JobQueue and JobLifecycle

`jobs` and `documents` are the committed tables. A worker's open transaction is
`worker`, `held`, `attempt` and `began`; every action that ends it (`RunEnds`,
`Crash`) publishes all or nothing. `Claim` is `_CLAIM_SQL`: oldest first among the
rows that are `queued` or stale, passing over locked ones. The real-time
visibility timeout is left to chance (it may always have passed); as no committed
row ever says `running`, it never matters, which `ClaimInvisible` shows.
`StatementRefused` is what becomes of an exception that the database raised:
`mark_failed` then fails on the aborted transaction, and the process ends.
`LoseSession` and `OrphanStops` are a worker whose session died while it waited.
`created_at` is the start time of the inserting transaction; `clock` counts
registrations and is the model's only bound (`MaxSources`).

### Ingest

One transaction per worker, one action per statement, and, within the statement
that writes, one action per lock and per unique index, in the order PostgreSQL
takes them. `Pages` is what servers serve and what `detect_format` and `parse`
make of it. A transaction that waits waits for `Holders`; a circle of them is
broken as `deadlock_timeout` does (`BreakDeadlock`). `raced` is a history variable:
it says only whose transaction another commit fell into. `DocumentStore` is the table
to a reader who sees no transactions: bytes that are stored change nothing, new bytes
of a known text move that document's provenance, a new text is a new document.

### Extraction

`BuildClient` draws the run id, `FindsDuplicate` and `StartExtract` are the check
at the beginning, the `Answer` actions are what the model may reply and what the
loop makes of it, `InsertComplete` and `InsertRefused` are the partial unique
index, and the rest is the routing lock and the commit. `calls` are the answers
that were billed, `log` the attempts the run has to show for them. Which document
a worker is given and how often is left open, which covers any queue.

### Review

A row of `field_reviews` is named by its place in the ranking order. A pass begins
with the rows of the extraction its transaction inserted (or none, for
`POST /review/route`), takes the advisory lock, counts, selects and updates row by
row; at each statement it sees what is committed by then, and its own rows. The
`UPDATE` keeps to the rows its subquery selected even if they have changed since.
A decision locks its row, reads it, and decides on what it read. `ReviewBoard` has only
the four committed columns: one step inserts an extraction's rows and routes, within
the budget and lowest first; one step decides or skips.

### ReviewDesk

A session is a tab of `/ui/review`, a client of `/review`, or somebody who uses
both; `page` is the field it was shown last, which it may decide at any later time.
Requests take a connection for a step (`LookUp`, `Render`, `GetQueue`, `GetField`,
`GetCorrections`), keep one for a transaction (`Open`), or keep it while a page says
that there is no such field (`Miss`); all that keep one are `Connected`. `RefusePost`
and `Complain` are the error pages that are rendered inside `engine.begin()`, with a row
locked or, for a field that does not exist (`NoSuchField`), without, and `Complain` ends
those inside `engine.connect()` as well; `PostOther` is an unknown action, and `TimeOut`
the pool giving up. Only the order of times matters, so that `times` is a relation
over skipped and reviewed rows and open transactions: `now()` is the beginning of
the transaction, and a decision stamps its row with it (`Restamp`). `Before` is the
presentation order, `Window` a `LIMIT`/`OFFSET` of the decisions, and `offset` and
`owed` one reader of them. Routing is one step here; its detail is in `Review`.

### Migrations

`version` is the revision, `docs` and `rows` the documents and the complete
extractions with the columns the migrations touch, `job` an extract job, `reviews`
the extractions that have their rows. Each release in between may `Ingest`,
`Extract`, `HandOver` and `Decide` with the constraints of its version (`Key` is
what the unique index covers). 0005 is `UpgradeMerges` with `Merged`, the re-pointing
and deleting of duplicates in the order of the code, and its two ways to fail:
the check that names a collision (`UpgradeRefusesByName`) and the index that meets
one the check does not see (`UpgradeMeetsIndex`). 0004, 0006 and 0007 widen the key
with a backfill and narrow it on the way down, where the index may refuse
(`DowngradeMeetsIndex`).

### The pure parts

`Anchors` has an anchor as its wall time, its offset if any, the precision its form
allows, and the timezone its author wrote beside it, as the offset which that names. `RecordForms` has a type as a node, a value as a tree; `Build`, `Bind`,
`Parse` and `Valid` are the code's recursion over types. The schema nests no deeper than
`BlastRadius` (a field that is an object, a part of it that is a list of objects, their
members), so that each of them is written for a leaf, for an object given what is done
with its members, for a part and for a field. `Post` is what the page and the browser
make of a form that nobody touches: `Shown`, `TypedIn`, `Posted` and `Chosen` of an
`input`, a `textarea` and a `select`. `Passages` has a document as a
sequence of words, sentence ends, spaces and line breaks. What the code does by
scanning is written there in closed form: a sentence is the ink since the last end, the
top are those with fewer than `MAX_CANDIDATES` ahead of them, a passage fills up if
those before it leave too few. Only where a passage begins depends on the sentence
before (`Begins`). `Evaluation` and
`RunReport` work on labels and rows. `Algorithms` has one variable, `input`; `Init`
draws one input of one algorithm, and there is nothing to do but to check it.

The concurrent modules are not composed formally; they meet at the transactions
they share, and each leaves the others' choices open. `JobQueue` lets a stage end
in any way, so `Ingest` and `Extraction` only take away behaviours; `Extraction`
holds the routing lock as `Review` does; `ReviewDesk` lets routing happen any time.

## What TLC checks

| Run | Instance | Shows |
|---|---|---|
| `queue` | 2 workers, 4 jobs, 3 attempts, 2 sources, 1 document (273,000 states) | seven safety properties of the queue, its refinement of `JobLifecycle`, and that jobs settle once disturbances stop |
| `queue_poison` | 1 worker, 1 source | *violation*: a job whose runs end in refused statements is retried for ever |
| `ingest` | 2 workers, 4 contents, 2 texts | safety of `documents`, its refinement of `DocumentStore`, refusals only in races, ingests end |
| `extraction` | 3 workers (one misconfigured), 1 document, 3 runs, 2 attempts (12,000 states) | one complete row per run, answers accounted for, extractions end |
| `extraction_again` | 1 worker that restarts | *violation*: a known document is paid for again |
| `extraction_lost` | 1 worker | *violation*: a billed answer is not on record |
| `review` | 2 passes, 2 reviewers, 2 fields below the floor, budget 1 (23,000 states) | budget, finality, ranking; the refinement of `ReviewBoard`; passes and decisions end |
| `review_race` | 1 pass, 1 reviewer, 2 fields | *violation*: a pass goes for a reviewed field |
| `review_desk` | a diligent tab, a session with a tab and the API, 2 fields, 2 connections, windows of 1, ids without a field (63,000 states, more than 3 minutes) | the pool recovers, every queued field is shown, a paged reader misses nothing |
| `migrations` | 3 documents, 2 texts, 2 extractions, 2 providers, 2 thinking levels, a named run (293,000 states) | each version's key, texts, reviews; no record lost |
| `algorithms` | anchors over 2 times, 2 offsets and timezones written or not, documents of up to 8 words, values and submissions of every type of field with lists of up to 2 texts and 1 object, strata of up to 4, 2 rows per document (373,000 inputs) | the pure parts against what they promise |
| `forms_untouched` | the same with texts that have a line break | *violation*: a form that nobody touched is stored as a correction |

**Bounds.** Two workers are the smallest number that race; their crashes and
restarts are unbounded. Two sources and four job ids let two ingest jobs and their
extract jobs overlap, so that the order of claims matters, and three attempts let
a job fail, fail again and give up. Two fields with a budget of one leave one more
to route than there is room for, brought by one worker or by two that race. Two
contents with one text move a document's provenance, a third makes a second
document, a fourth has no text. Two drawn run ids are a process and its successor,
or two processes. With two connections both sessions can fill the pool with error
pages that each wait for another one. A decision on a field that does not exist is a bad
one, as every action on it is answered alike. Two fields are enough to skip one for the
other for ever, and a window of one splits any two decisions. Three documents are
what a group of duplicates needs to collide within itself and not with the
oldest, and two extractions what a collision needs. Documents of eight words give more
passages than are shown, with and without cues. Of values, a field has all its members,
one of them or none, an option that is gone or text where an object belongs; of
submissions, no row, a blank one, or two with one removed between them. The third of
three anchors is precise to the minute and has no timezone written, which is enough for
what durations add up to. Rows lie on both sides of the starts of two runs and of the
minutes before them; bars are looked at for up to 36 pairs, which has every remainder of
20. All the safety
properties are proved as well, so these bounds matter for liveness and for the
refutations alone.

**Deadlock** is checked in every run: no system here may stop, as a source can be
polled for, a page fetched, a pass begun or a release migrated again at any time.

**Fairness.** `JobQueue`: a worker that exits is restarted by the platform (Heroku
and Render do; `docker-compose.yml` sets no restart policy, so liveness is not claimed
there once a worker has exited), `main` polls for ever, and every
stage ends, as each thing it waits for has a timeout (30 s for a fetch, the SDK's
own for the model). No fairness makes a source arrive or an outcome happen; crashes,
lost sessions and refused statements may go on for ever unless the property says
they stop. `Ingest`, `Extraction`, `Review`: an open transaction goes on (weak),
and a lock that is freed again and again is given to one that waits for it
(strong: PostgreSQL queues waiters). `ReviewDesk`: the server finishes what it has
begun (`ServerFairness`: a step or a timeout, weak; a row's lock, strong), which is
all `RequestsEnd` needs. `QueuedFieldsAreShown` also needs a reviewer who goes on
asking and answering and whose requests are not all timed out by the pool
(`DiligentFairness`, strong); which answer it is, a skip included, is left open. The
fields are finitely many in it: with new fields routed faster than they are decided,
skipped ones wait for ever, which is what the order says.

**Refutations.** `queue_poison`: the only handler for unexpected errors marks the
job on the very transaction that the error aborted. `review_race`: the selection of
a pass is not locked and decisions do not take the routing lock; the table's check
constraint is what saves the decision, at the price of the pass. The two on
`Extraction` contrast comments with what the code does, and `forms_untouched` a test
that leaves out the browser; see `findings`.

## What is proved

TLAPS proves, for every value of the constants that the named assumptions allow:

- `JobQueue_proofs`: all seven safety properties of `queue`, and `Refinement`,
  that every step of the queue is a step of `JobLifecycle` or a stutter. The
  inductive invariant is the conjunction of the invariants and `AbsentIsUnborn`
  (unused ids are untouched); `ClaimInvisible` carries the weight, as it ties the
  attempts a transaction has in hand to the row it will write. Counting extract jobs against
  ingests (`OneExtractPerIngest`) uses the cardinality theorems for finite sets.
- `Ingest_proofs`: the safety properties of `ingest`, and `RefusalsAreRaces` as an
  action property. `OneDocumentPerText` is not inductive: a commit keeps it only
  because the pending entries of both indexes differ from each other and from the
  committed ones (`EntriesDiffer`, `NewTextsDiffer`), which in turn needs that rows
  are locked by one transaction and new ids are known to one. `ResultsFit` assumes
  `OneTextPerBytes`, the comment "the parser is deterministic" made precise; without it
  the statement is false, as `detect_format` goes by the Content-Type.
- `Extraction_proofs`: type correctness, `OneCompletePerRun` and
  `PublishedRunsAreAccountedFor`. A commit keeps the first because the row it
  publishes has had no rival since the insert (`PendingKeysAreNew`).
- `Review_proofs`: all safety properties of `review`. The budget survives a commit
  because the pass that holds the lock is the only one that routes and decisions only
  make room, so the room it counted is still there (`RoomIsThere`), and the ranking
  because what came first when it selected still does (`ChosenRankFirst`).
- `ReviewDesk_proofs`: `TypeOK`, in which the connections in use never exceed the
  pool's and the times are a total order, and `CorrectionsAreComplete` for any number
  of fields and sessions and any page size. What makes paging by offset safe is that
  decisions are final and the newest come first: a decision that is still owed always
  has at least `offset` newer ones (`FeedIsAhead`), so that it can only be pushed
  further on. A window that is short is the last (`ShortWindowIsLast`, by counting).
- `Migrations_proofs`: all five properties of `migrations`, for any number of
  documents, extractions and columns' values. `ReferencesHold` (extractions and jobs point at
  documents that exist) is what the merge must keep, and that it re-points to the
  oldest document of the same text is why records keep their text. A minimum of a
  group exists by well-founded induction on document ids.
- `Algorithms_proofs`: `DurationsAreRightOnOneClock`, that a derived duration is the
  time that passed if and only if the strings have offsets or both anchors were written
  in one timezone, and that it is no finer than its anchors and additive, for any times
  and offsets; `EvaluationAddsUp` and `ReportsAddUp` for every input that the constants
  allow. Behind the reports is `ReportsBillWhatWasSpent`: a report bills what the cost
  gauge of `/metrics` grew by since a minute before its run began. From that
  `TokensAreAlwaysAttributed` follows by arithmetic, since an earlier state of an earlier
  state is an earlier state (`EarlierHistories`): rows of the minute before the second
  run are billed by both, a first report that is rendered again is billed the second
  run, and a summary agrees with its documents if and only if no reused row has tokens.
  `SourceIsShown` follows from two theorems about
  documents and quotes of any length. `PassagesAlwaysHold`: sentences are apart and
  hold every word (`SentencesHold`); a passage is a run of sentences that join
  (`PassagesAreRuns`), so that two newlines with nothing between them would lie in one
  of the gaps that were looked at (`NoBlankLineInside`); "better" is a linear order,
  whose first members are the ones taken (`TopAreBest`), and filling up stops as soon
  as there are enough (`FillIsEnough`). `QuotesAreAlwaysFound`: a place in the folded
  document that says a quote is a place in the document that the search would have
  matched (`FoldedSaysWhatTheTextSays`).
  `FormsShowTheValue` and `RejectionsAreKept` follow from `EveryFormShowsItsValue` and
  `EveryRejectionIsKept`, for every field, any texts and lists of any length. Between
  them stands what it is for a value to be `Settled`: each text is stripped, without the
  breaks its input drops, and not empty where null would be read; a list has no row that
  passes for the blank one. Settled values are kept from rendering to parsing
  (`SettledValuesAreKept`), whatever is parsed is settled (`ParsedValuesAreSettled`), and
  so is a valid, tidy value (`TidyValuesAreSettled`). A list of texts comes back because
  lines that are joined are split again where they were joined (`JoinedLinesSplit`), and
  a list of objects because each type in the schema has a text that must be there
  (`RowTypes`): the property would be lost by a schema with a list of objects whose texts
  may all be null. `UntouchedTidyFormsAreRefused` says where the finding of
  `forms_untouched` ends: the untouched form of a tidy value is never stored as a
  correction.
- `Evaluation_proofs`: that the strict gate lets through exactly the finished gold
  sets; that the rounded bar is nine tenths up to half a pair, in a corpus of any size,
  and in which sizes it is lower; that raising
  the threshold keeps recall while both bars together bound what is routed;
  `SplitIsAlwaysProportional`, that largest remainders fill a split exactly, ask no
  stratum for a document twice and leave no two strata a seat apart; and
  `ScoresAlwaysAddUp`, that the tables of scores agree with each other, for any finite
  gold set. Rounding down loses less than one seat per stratum, so that fewer seats are
  left than there are strata: that is why the remainders always suffice.

The two refinements added to `JobLifecycle`'s rest on the invariants above. For
`ReviewBoard` a pass is the step of its commit: what it inserted is still to a reader
absent until then (`InsertsAreWhole`), and what it chose was eligible when it chose it
and, as no other pass may route, still is unless it was reviewed, which the check
constraint refuses (`ChosenWereEligible`). That the pass may route less than there is
room for is what the abstract step leaves open, and has to: rows it counted as waiting
may be decided before it commits. For `DocumentStore` an ingest is the step of its commit
(`CommitMoves`, `CommitAdds`): the row it found by its text is still there with that
text, and the entries it made in both indexes kept everyone else out.

Sums, counts, where passages begin and how lines are joined are the only inductions over
data that the proofs need. What is claimed of them (`Total` and `FlattenSeq` are the community modules') is shown by induction in
first-order form: the set of the numbers up to which a claim holds, or of the parts
of a set it holds for, is named, and `NumberInduction` and `PartGrowth` give that it
is all of them.

Assumptions: null values are outside the sets they stand beside (a timezone that was not written is
no number); finite sets of ids,
fields and sessions; at least one attempt, connection and row of a window; sets of
rows per extraction; finitely many labels beside the null one and the two that are no
labels (`EvaluationAssumption`); finitely many cues, no more candidates required than
allowed, and characters that case folding does not turn into space
(`PassagesAssumption`); bounds that are numbers, texts that are sequences, texts typed
into an input that have no line break and into a textarea that have no bare one, and
finitely many rows (`AlgorithmsAssumption`). Each is
a named ASSUME that TLC evaluates, or stands in the theorem (`Evaluation_proofs`).

Only model-checked:

- everything under fairness: `JobsSettleOnceUndisturbed`, `IngestsEnd`,
  `ExtractionsEnd`, `TransactionsEnd`, `RequestsEnd`, `QueuedFieldsAreShown`. Liveness
  and ENABLED are beyond the prover;
- the refutations.

## Read off the code

Where the code and its texts differ and no run is needed to see it:

- A misconfigured client fails before the code that records failures
  (`worker/main.py:92`), so that the job is dead-lettered without an `extractions` row.
- The check of 0005 compares duplicates with the oldest document only (line 69): two
  that collide with each other meet the index instead of the promised message.
- `parse_anchor` says it returns None for what is no anchor, and raises for a month
  or a day that does not exist ("2025-13"). Compact dates ("20251020") pass with
  hour or exact precision.
- The schema's changelog (`schema.py:172`) says `derive.py`'s `_ORDER` was extended with
  `year` and `month`; it has neither, and needs neither, as such anchors are refused before
  they are ranked.
- `validate_labels.py` counts a missing date as an empty label, and a label field that
  is missing altogether twice: as missing and as empty.
- `derive.py` says that it refuses to make a timezone decision (lines 43-46), and does so
  if one anchor has an offset and the other has none. Of two that have none it never reads
  `timezone`, so that 09:00 "PDT" and 17:30 "UTC" are eight and a half hours apart, where
  one and a half passed; `schema.py:316-319` says that documents mix zones. The property
  of `algorithms` is stated with this: right on one clock, wrong on two.
- `extraction_run.py:19-21` attributes tokens to "THIS run only"; the cutoff is a minute
  before the start (line 220), so that what was spent in that minute is billed by both
  reports.
- `extraction_run.py:234` takes a document's last row as final, so that a failure after
  a success makes it `not_terminal`; line 315 adds the tokens of reused rows to the
  summary, although its docstring (23-27) says that they carry none of this run.
- `score_m5_dev.py:65` scores a failed extraction as a null trigger, which is right for
  a document whose trigger is null; `repro_check.py:131` has the bar over all pairs,
  the "other" ones included, takes two failures for agreement, and rounds: 23 of 26 pass as
  ">=90%".
- A select of booleans with a stored value that is neither null nor a boolean shows
  "true".

## What is not modelled

- Real time: the visibility timeout, the missing backoff between retries, request
  timeouts. Only "may have passed" is.
- Wording: prompts, field descriptions, cue lists, the rendering of definitions
  (`definitions.py` beyond the resolution of a type), layout.
- Provenance order: which of two fetches of a document is newer. No document says
  which is to win.
- `detect` and `parse` themselves: what they make of a page is a constant relation.
- Tracing, log fields and in-process histograms, which observe without influence.
- `load_test`, `latency_report`, `label_stability` and `thinking_experiment`, which drive
  load, sample and format; `seed_corpus`, which inserts documents that never get an
  extract job (the models begin with empty tables).
- The composition of the concurrent modules as one formula. `JobQueue`'s outcomes are a
  superset of what `Ingest` and `Extraction` do; that they fit is argued above and not
  checked.
- PostgreSQL itself is trusted for what it documents: row locks, advisory locks,
  READ COMMITTED snapshots, unique indexes, deadlock detection.
