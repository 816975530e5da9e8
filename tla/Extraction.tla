------------------------------ MODULE Extraction ------------------------------
(***************************************************************************)
(* The extract stage: get_llm_client and process_extract in                *)
(* app/worker/main.py, extract_document in app/extract/pipeline.py and the *)
(* validate-and-retry loop of app/extract/extractor.py.                    *)
(*                                                                         *)
(* `complete` is the committed extractions table, its complete rows. A     *)
(* busy worker's transaction has got as far as `stage` says; its own row   *)
(* is inserted from stage "inserted" on and public when it commits.  Which *)
(* document a worker is given, and how often, is up to the job queue.      *)
(***************************************************************************)
EXTENDS Naturals, FiniteSets

CONSTANTS
  Documents,      \* ids of documents
  Workers,        \* worker processes
  RunIds,         \* uuids that LLM clients draw: bounds how many are built
  NamedRun,       \* the run id some processes are given explicitly
  Misconfigured,  \* processes for which build_llm_client raises
  MaxAttempts,    \* settings.extraction_max_attempts
  NoRun,          \* no client yet; APP_EXTRACTION_RUN_ID is not set
  NoDocument,     \* no job
  Nobody          \* the routing lock is free

ASSUME RunsAssumption == NamedRun \notin RunIds /\ NoRun \notin RunIds \cup {NamedRun}
ASSUME NullAssumption ==
  NoDocument \notin Documents /\ Nobody \notin Workers /\ Misconfigured \subseteq Workers

\* extract raises ValueError for less than one.
ASSUME AttemptsAssumption == MaxAttempts \in Nat \ {0}

AllRuns == RunIds \cup {NamedRun}

VARIABLES
  complete,    \* complete[d][r]: how many complete rows d has for run r
  unlogged,    \* documents with a row that lacks an answer its run was billed for
  setting,     \* APP_EXTRACTION_RUN_ID of each process
  client,      \* run_id of each process's cached client
  drawn,       \* run ids that clients have drawn
  stage,       \* how far each worker's transaction is
  doc,         \* the document it extracts
  calls,       \* answers of the model it was billed for
  log,         \* attempts it has to show for them
  routing      \* who holds the routing lock

clients == <<setting, client, drawn>>
vars == <<complete, unlogged, clients, stage, doc, calls, log, routing>>

Init ==
  /\ complete = [d \in Documents |-> [r \in AllRuns |-> 0]]
  /\ unlogged = {}
  /\ setting \in [Workers -> {NoRun, NamedRun}]
  /\ client = [w \in Workers |-> NoRun]
  /\ drawn = {}
  /\ stage = [w \in Workers |-> "idle"]
  /\ doc = [w \in Workers |-> NoDocument]
  /\ calls = [w \in Workers |-> 0]
  /\ log = [w \in Workers |-> 0]
  /\ routing = Nobody

-------------------------------------------------------------------------------
(* The client, built by the first extract job of a process.                    *)

\* The run id it was given, or a uuid4. Ids are compared for equality only.
BuildClient(w) ==
  /\ stage[w] = "idle"
  /\ client[w] = NoRun
  /\ w \notin Misconfigured
  /\ IF setting[w] # NoRun
     THEN /\ client' = [client EXCEPT ![w] = setting[w]]
          /\ UNCHANGED drawn
     ELSE /\ RunIds \ drawn # {}
          /\ client' = [client EXCEPT ![w] = CHOOSE r \in RunIds : r \notin drawn]
          /\ drawn' = drawn \cup {client'[w]}
  /\ UNCHANGED <<complete, unlogged, setting, stage, doc, calls, log, routing>>

\* build_llm_client raises PermanentExtractionError while the arguments of
\* extract_document are evaluated: the job is marked, nothing is inserted. ("The worker
\* records the reason on the extraction row", says llm.py: there is no such row.)
BuildFails(w) ==
  /\ stage[w] = "idle"
  /\ w \in Misconfigured
  /\ UNCHANGED vars

-------------------------------------------------------------------------------
(* One extract job.                                                            *)

Known(w, d) == complete[d][client[w]] > 0

\* Mutant of Idle: a session-level advisory lock, which a commit does not release.
IdleKeepsLock(w) ==
  /\ stage' = [stage EXCEPT ![w] = "idle"]
  /\ doc' = [doc EXCEPT ![w] = NoDocument]
  /\ calls' = [calls EXCEPT ![w] = 0]
  /\ log' = [log EXCEPT ![w] = 0]
  /\ UNCHANGED routing

\* The worker is done with its transaction.
Idle(w) ==
  /\ stage' = [stage EXCEPT ![w] = "idle"]
  /\ doc' = [doc EXCEPT ![w] = NoDocument]
  /\ calls' = [calls EXCEPT ![w] = 0]
  /\ log' = [log EXCEPT ![w] = 0]
  /\ routing' = IF routing = w THEN Nobody ELSE routing

\* Already extracted under this run: an idempotent no-op.
FindsDuplicate(w, d) ==
  /\ stage[w] = "idle"
  /\ client[w] # NoRun
  /\ Known(w, d)
  /\ UNCHANGED vars

StartExtract(w, d) ==
  /\ stage[w] = "idle"
  /\ client[w] # NoRun
  /\ ~Known(w, d)
  /\ stage' = [stage EXCEPT ![w] = "asking"]
  /\ doc' = [doc EXCEPT ![w] = d]
  /\ UNCHANGED <<complete, unlogged, clients, calls, log, routing>>

\* What the model's next answer, or its absence, makes of the loop of w.
LoopGoesTo(w, s, billed, logged) ==
  /\ stage[w] = "asking"
  /\ stage' = [stage EXCEPT ![w] = s]
  /\ calls' = [calls EXCEPT ![w] = @ + billed]
  /\ log' = [log EXCEPT ![w] = logged]
  /\ UNCHANGED <<complete, unlogged, clients, doc, routing>>

AnswerIsValid(w) == LoopGoesTo(w, "valid", 1, log[w] + 1)

\* Mutant of AnswerIsInvalid: the stage after the last try is none the rest knows.
ExhaustedIsAStage(w) ==
  LoopGoesTo(w, IF log[w] + 1 < MaxAttempts THEN "asking" ELSE "exhausted", 1, log[w] + 1)

\* The validator's complaint goes back to the model unless that was the last try.
AnswerIsInvalid(w) ==
  LoopGoesTo(w, IF log[w] + 1 < MaxAttempts THEN "asking" ELSE "failed", 1, log[w] + 1)

\* Mutant of AnswerIsUnusable: a refusal is answered by asking once more.
UnusableIsAskedAgain(w) == LoopGoesTo(w, "asking", 1, log[w])

\* stop_reason refusal or max_tokens: response_to_llm_response raises after the
\* answer was billed and before the loop appends an Attempt for it.
AnswerIsUnusable(w) == LoopGoesTo(w, "failed", 1, log[w])

\* The API has no answer: rate limit, timeout, rejected request.
CallFails(w) == LoopGoesTo(w, "failed", 0, log[w])

\* Any other exception, before an answer or because of one: extract_document
\* records it with attempts=[].
LoopBreaks(w) == \E billed \in 0 .. 1 : LoopGoesTo(w, "failed", billed, 0)

\* _insert_failed and mark_failed, in one commit. Failed rows are in nobody's way,
\* so they are not counted.
RecordFailure(w) ==
  /\ stage[w] = "failed"
  /\ unlogged' = IF log[w] < calls[w] THEN unlogged \cup {doc[w]} ELSE unlogged
  /\ Idle(w)
  /\ UNCHANGED <<complete, clients>>

\* Another transaction has inserted the same key and may still roll back.
KeyIsPending(w) ==
  \E v \in Workers \ {w} :
    stage[v] \in {"inserted", "routing"} /\ doc[v] = doc[w] /\ client[v] = client[w]

\* Mutant of InsertComplete: only the check at the start, no unique index.
InsertUnchecked(w) ==
  /\ stage[w] = "valid"
  /\ stage' = [stage EXCEPT ![w] = "inserted"]
  /\ UNCHANGED <<complete, unlogged, clients, doc, calls, log, routing>>

\* The complete row and its field_reviews. ux_extractions_complete makes the
\* INSERT wait for a pending row of the same key.
InsertComplete(w) ==
  /\ stage[w] = "valid"
  /\ ~KeyIsPending(w)
  /\ ~Known(w, doc[w])
  /\ stage' = [stage EXCEPT ![w] = "inserted"]
  /\ UNCHANGED <<complete, unlogged, clients, doc, calls, log, routing>>

\* The row it waited for was committed: a unique violation, which aborts the
\* transaction and ends the process (JobQueue, StatementRefused).
InsertRefused(w) ==
  /\ stage[w] = "valid"
  /\ ~KeyIsPending(w)
  /\ Known(w, doc[w])
  /\ Idle(w)
  /\ client' = [client EXCEPT ![w] = NoRun]
  /\ UNCHANGED <<complete, unlogged, setting, drawn>>

\* route_pending, in the transaction of the insert.
TakeRoutingLock(w) ==
  /\ stage[w] = "inserted"
  /\ routing = Nobody
  /\ routing' = w
  /\ stage' = [stage EXCEPT ![w] = "routing"]
  /\ UNCHANGED <<complete, unlogged, clients, doc, calls, log>>

CommitComplete(w) ==
  /\ stage[w] = "routing"
  /\ complete' = [complete EXCEPT ![doc[w]][client[w]] = @ + 1]
  /\ Idle(w)
  /\ UNCHANGED <<unlogged, clients>>

\* The process dies or its transaction fails for another reason. What it has paid
\* for so far is gone; the next client of a process without a named run is a new
\* run.
Crash(w) ==
  /\ Idle(w)
  /\ client' = [client EXCEPT ![w] = NoRun]
  /\ UNCHANGED <<complete, unlogged, setting, drawn>>

-------------------------------------------------------------------------------

Answer(w) ==
  \/ AnswerIsValid(w)
  \/ AnswerIsInvalid(w)
  \/ AnswerIsUnusable(w)
  \/ CallFails(w)
  \/ LoopBreaks(w)

Continue(w) ==
  \/ Answer(w)
  \/ RecordFailure(w)
  \/ InsertComplete(w)
  \/ InsertRefused(w)
  \/ TakeRoutingLock(w)
  \/ CommitComplete(w)

Next ==
  \E w \in Workers :
    \/ BuildClient(w)
    \/ BuildFails(w)
    \/ \E d \in Documents : FindsDuplicate(w, d) \/ StartExtract(w, d)
    \/ Continue(w)
    \/ Crash(w)

Spec == Init /\ [][Next]_vars

\* Every call of the model has a timeout, and PostgreSQL hands a lock that is
\* freed to one that waits for it. Nothing obliges a job to arrive.
Fairness ==
  \A w \in Workers :
    /\ WF_vars(Continue(w))
    /\ SF_vars(InsertComplete(w) \/ InsertRefused(w))
    /\ SF_vars(TakeRoutingLock(w))

FairSpec == Spec /\ Fairness

-------------------------------------------------------------------------------

\* Rows, clients and transactions are what they are declared to be
\* (schema.py extractions, llm.py LLMClient).
TypeOK ==
  /\ complete \in [Documents -> [AllRuns -> Nat]]
  /\ unlogged \subseteq Documents
  /\ setting \in [Workers -> {NoRun, NamedRun}]
  /\ client \in [Workers -> AllRuns \cup {NoRun}]
  /\ drawn \subseteq RunIds
  /\ stage \in [Workers -> {"idle", "asking", "valid", "failed", "inserted", "routing"}]
  /\ doc \in [Workers -> Documents \cup {NoDocument}]
  /\ calls \in [Workers -> Nat]
  /\ log \in [Workers -> Nat]
  /\ routing \in Workers \cup {Nobody}

\* However many workers share a run and however often a job is delivered, a
\* document has one complete extraction per run: the check at the start is stale
\* by the time of the insert (schema.py, "this makes the check race-proof").
OneCompletePerRun == \A d \in Documents, r \in AllRuns : complete[d][r] <= 1

\* A run that is about to be published shows an attempt for every answer it was
\* billed for, and there were no more of them than extraction_max_attempts
\* (extractor.py extract).
PublishedRunsAreAccountedFor ==
  \A w \in Workers :
    /\ calls[w] <= MaxAttempts
    /\ stage[w] \in {"valid", "inserted", "routing"} => log[w] = calls[w] /\ log[w] > 0

\* Every extract job comes to an end, although it may wait for another worker's
\* insert and for other workers' routing passes with its own insert pending.
ExtractionsEnd == \A w \in Workers : stage[w] # "idle" ~> stage[w] = "idle"

\* "Every attempt -- good or bad -- is recorded as an Attempt ... so the pipeline
\* can persist it either way. Nothing is swallowed" (extractor.py). An answer that
\* is cut off at max_tokens or refused is billed, and no attempt shows it.
AnswersAreLogged == unlogged = {}

\* Registering a source again "costs one no-op job at most" (worker/main.py): the
\* model is not asked about a document that has a complete extraction. It is, when
\* the process has restarted or another one picks up the job: its run is new.
KnownDocumentsCostNothing ==
  [][\A w \in Workers, d \in Documents :
       StartExtract(w, d) => \A r \in AllRuns : complete[d][r] = 0]_vars
===============================================================================
