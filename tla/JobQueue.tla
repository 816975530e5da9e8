------------------------------- MODULE JobQueue -------------------------------
(***************************************************************************)
(* The PostgreSQL job queue (app/queue/postgres_queue.py), the worker loop *)
(* that drives it (app/worker/main.py) and POST /sources, which feeds it.  *)
(*                                                                         *)
(* run_once runs a whole job, from the claim to mark_succeeded or          *)
(* mark_failed, inside one `engine.begin()` transaction.  So `jobs` and    *)
(* `documents` are the committed tables, a busy worker's transaction is    *)
(* what it holds in `held`, `attempt` and `began`, and every action that   *)
(* ends a transaction publishes all of it or none of it.                   *)
(*                                                                         *)
(* What a stage does inside is left open here: it may end in any of the    *)
(* ways run_once tells apart, at the environment's choice.                 *)
(***************************************************************************)
EXTENDS Naturals, FiniteSets

CONSTANTS
  Jobs,         \* ids a jobs row can have
  Workers,      \* worker processes
  Documents,    \* ids a documents row can have
  NoJob,        \* "no job is held"
  NoDocument,   \* document_id IS NULL
  MaxAttempts,  \* settings.job_max_attempts
  MaxSources    \* bound: how many times POST /sources is called

ASSUME IdsAssumption == IsFiniteSet(Jobs)

ASSUME NullAssumption == NoJob \notin Jobs /\ NoDocument \notin Documents

\* Settings declares job_max_attempts with no lower bound; it defaults to 5.
ASSUME AttemptsAssumption == MaxAttempts \in Nat \ {0}

VARIABLES
  jobs,       \* the committed jobs table, an unused id has status "absent"
  documents,  \* ids of the committed documents rows
  worker,     \* what each worker process is doing
  held,       \* the job whose transaction a worker runs
  attempt,    \* jobs.attempts as that transaction's claim returned it
  began,      \* now() of that transaction: its start time
  clock       \* order of transaction starts, the source of created_at

vars == <<jobs, documents, worker, held, attempt, began, clock>>

Unborn ==
  [status |-> "absent", kind |-> "ingest", document |-> NoDocument,
   attempts |-> 0, created_at |-> 0, last_error |-> "none"]

\* INSERT INTO jobs (...) VALUES (..., 'queued', 0); d is set for extract jobs only.
Enqueued(kind, d, now) ==
  [status |-> "queued", kind |-> kind, document |-> d,
   attempts |-> 0, created_at |-> now, last_error |-> "none"]

-------------------------------------------------------------------------------

Init ==
  /\ jobs = [j \in Jobs |-> Unborn]
  /\ documents = {}
  /\ worker = [w \in Workers |-> "down"]
  /\ held = [w \in Workers |-> NoJob]
  /\ attempt = [w \in Workers |-> 0]
  /\ began = [w \in Workers |-> 0]
  /\ clock = 0

\* uuid.uuid4(): any unused id. Ids are compared for equality only, so it does
\* not matter which.
HasFreshId == \E j \in Jobs : jobs[j].status = "absent"
FreshId == CHOOSE j \in Jobs : jobs[j].status = "absent"

\* A transaction that started after n registrations has start time 2n and a
\* registration takes the odd time in between: the order of created_at is
\* exact, except that two worker transactions may tie.
RegisterSource ==
  /\ HasFreshId
  /\ clock < 2 * MaxSources
  /\ jobs' = [jobs EXCEPT ![FreshId] = Enqueued("ingest", NoDocument, clock + 1)]
  /\ clock' = clock + 2
  /\ UNCHANGED <<documents, worker, held, attempt, began>>

StartWorker(w) ==
  /\ worker[w] \in {"down", "exited"}
  /\ worker' = [worker EXCEPT ![w] = "idle"]
  /\ UNCHANGED <<jobs, documents, held, attempt, began, clock>>

\* Mutant of Claimable: the reaper also picks up dead letters.
ClaimableWithDeadLetters(j) == jobs[j].status \in {"queued", "running", "dead_letter"}

\* The WHERE clause of the claim. The visibility timeout is real time, which
\* may always have passed by now.
Claimable(j) == jobs[j].status \in {"queued", "running"}

\* Mutant of Locked: the claim selects without FOR UPDATE.
LockedNever(j) == j = NoJob

\* FOR UPDATE: the row belongs to the transaction that claimed it until that
\* transaction ends. SKIP LOCKED passes over it.
Locked(j) == \E w \in Workers : worker[w] = "busy" /\ held[w] = j

Available(j) == Claimable(j) /\ ~Locked(j)

Oldest(j) == \A k \in Jobs : Available(k) => jobs[j].created_at <= jobs[k].created_at

\* Mutant of Claim: the claim is committed on its own, before the stage runs.
ClaimCommitted(w, j) ==
  /\ worker[w] = "idle"
  /\ Available(j)
  /\ Oldest(j)
  /\ worker' = [worker EXCEPT ![w] = "busy"]
  /\ held' = [held EXCEPT ![w] = j]
  /\ attempt' = [attempt EXCEPT ![w] = jobs[j].attempts + 1]
  /\ began' = [began EXCEPT ![w] = clock]
  /\ jobs' = [jobs EXCEPT ![j].status = "running", ![j].attempts = @ + 1]
  /\ UNCHANGED <<documents, clock>>

\* status='running' and attempts+1 are written by the claim, inside the
\* transaction: nobody else sees them.
Claim(w, j) ==
  /\ worker[w] = "idle"
  /\ Available(j)
  /\ Oldest(j)
  /\ worker' = [worker EXCEPT ![w] = "busy"]
  /\ held' = [held EXCEPT ![w] = j]
  /\ attempt' = [attempt EXCEPT ![w] = jobs[j].attempts + 1]
  /\ began' = [began EXCEPT ![w] = clock]
  /\ UNCHANGED <<jobs, documents, clock>>

\* claim_one returns None and main sleeps.
Poll(w) ==
  /\ worker[w] = "idle"
  /\ ~ \E j \in Jobs : Available(j)
  /\ UNCHANGED vars

\* The transaction of w is over and w is left in state s.
Release(w, s) ==
  /\ worker' = [worker EXCEPT ![w] = s]
  /\ held' = [held EXCEPT ![w] = NoJob]
  /\ attempt' = [attempt EXCEPT ![w] = 0]
  /\ began' = [began EXCEPT ![w] = 0]
  /\ UNCHANGED clock

\* Mutants of Ended: last_error is forgotten, the attempt is not counted.
EndedUnexplained(w, status, error) ==
  [jobs[held[w]] EXCEPT !.status = status, !.attempts = attempt[w]]
EndedUncounted(w, status, error) ==
  [jobs[held[w]] EXCEPT !.status = status, !.last_error = error]

\* The row of the held job as the transaction leaves it.
Ended(w, status, error) ==
  LET row == jobs[held[w]]
  IN  [status |-> status, kind |-> row.kind, document |-> row.document,
       attempts |-> attempt[w], created_at |-> row.created_at, last_error |-> error]

Succeeded(w) == Ended(w, "succeeded", jobs[held[w]].last_error)

\* Mutant of IngestSucceeds: a duplicate document is taken for one that has
\* its extract job already.
IngestSkipsDuplicates(w, d) ==
  /\ worker[w] = "busy"
  /\ jobs[held[w]].kind = "ingest"
  /\ HasFreshId
  /\ documents' = documents \cup {d}
  /\ jobs' = IF d \in documents
             THEN [jobs EXCEPT ![held[w]] = Succeeded(w)]
             ELSE [jobs EXCEPT ![held[w]] = Succeeded(w),
                               ![FreshId] = Enqueued("extract", d, began[w])]
  /\ Release(w, "idle")

\* ingest_source resolved to document d, new or already known: either way
\* process_ingest enqueues an extract job for it, then the job is marked.
IngestSucceeds(w, d) ==
  /\ worker[w] = "busy"
  /\ jobs[held[w]].kind = "ingest"
  /\ HasFreshId
  /\ documents' = documents \cup {d}
  /\ jobs' = [jobs EXCEPT ![held[w]] = Succeeded(w),
                          ![FreshId] = Enqueued("extract", d, began[w])]
  /\ Release(w, "idle")

ExtractSucceeds(w) ==
  /\ worker[w] = "busy"
  /\ jobs[held[w]].kind = "extract"
  /\ jobs' = [jobs EXCEPT ![held[w]] = Succeeded(w)]
  /\ Release(w, "idle")
  /\ UNCHANGED documents

\* except PermanentJobError: mark_failed(permanent=True).
FailsPermanently(w) ==
  /\ worker[w] = "busy"
  /\ jobs' = [jobs EXCEPT ![held[w]] = Ended(w, "dead_letter", "permanent")]
  /\ Release(w, "idle")
  /\ UNCHANGED documents

\* Mutants of StatusAfterTransient: an off-by-one, a status the table does not
\* know.
StatusAllowingOneMore(n) == IF n > MaxAttempts THEN "dead_letter" ELSE "queued"
StatusMisspelt(n) == IF n >= MaxAttempts THEN "dead-letter" ELSE "queued"

\* attempts is the row's, so it includes the run that just failed.
StatusAfterTransient(n) == IF n >= MaxAttempts THEN "dead_letter" ELSE "queued"

\* Mutant of FailsTransiently: the stage fails after it wrote its document, and
\* mark_failed commits the document with the failure.
FailsHalfway(w) ==
  /\ worker[w] = "busy"
  /\ jobs' = [jobs EXCEPT ![held[w]] =
                Ended(w, StatusAfterTransient(attempt[w]), "transient")]
  /\ Release(w, "idle")
  /\ \E d \in Documents :
       documents' = IF jobs[held[w]].kind = "ingest" THEN documents \cup {d} ELSE documents

\* except TransientJobError, and except Exception while the transaction is
\* still usable: mark_failed(permanent=False).
FailsTransiently(w) ==
  /\ worker[w] = "busy"
  /\ jobs' = [jobs EXCEPT ![held[w]] =
                Ended(w, StatusAfterTransient(attempt[w]), "transient")]
  /\ Release(w, "idle")
  /\ UNCHANGED documents

\* The exception is the database refusing a statement of the stage (a unique
\* or check constraint, a value it cannot store). PostgreSQL has then aborted
\* the transaction, so the UPDATE of mark_failed is refused as well: that
\* second exception leaves run_once and main, the transaction rolls back and
\* the process ends.
StatementRefused(w) ==
  /\ worker[w] = "busy"
  /\ Release(w, "exited")
  /\ UNCHANGED <<jobs, documents>>

\* The process is killed, or cannot reach the database: its transaction, if
\* it has one, is rolled back.
Crash(w) ==
  /\ worker[w] \in {"idle", "busy", "orphaned"}
  /\ Release(w, "down")
  /\ UNCHANGED <<jobs, documents>>

\* The session dies under a worker that is waiting for a source or for the
\* model. The rollback unlocks the row; the worker does not know.
LoseSession(w) ==
  /\ worker[w] = "busy"
  /\ worker' = [worker EXCEPT ![w] = "orphaned"]
  /\ UNCHANGED <<jobs, documents, held, attempt, began, clock>>

\* Its next statement raises, and so does mark_failed on the dead session.
OrphanStops(w) ==
  /\ worker[w] = "orphaned"
  /\ Release(w, "exited")
  /\ UNCHANGED <<jobs, documents>>

\* The stage returns or raises: one of these ends every run.
RunEnds(w) ==
  \/ \E d \in Documents : IngestSucceeds(w, d)
  \/ ExtractSucceeds(w)
  \/ FailsPermanently(w)
  \/ FailsTransiently(w)
  \/ StatementRefused(w)
  \/ OrphanStops(w)

Next ==
  \/ RegisterSource
  \/ \E w \in Workers :
       \/ StartWorker(w)
       \/ \E j \in Jobs : Claim(w, j)
       \/ Poll(w)
       \/ RunEnds(w)
       \/ Crash(w)
       \/ LoseSession(w)

Spec == Init /\ [][Next]_vars

\* main loops, every stage has timeouts on all that it waits for, and the
\* platform (Heroku, Render) restarts a worker that exits. Which way a run ends
\* is open, and nothing obliges anyone to register a source or to crash.
Fairness ==
  \A w \in Workers :
    /\ WF_vars(StartWorker(w))
    /\ WF_vars(\E j \in Jobs : Claim(w, j))
    /\ WF_vars(RunEnds(w))

FairSpec == Spec /\ Fairness

-------------------------------------------------------------------------------

Row ==
  [status : {"absent", "queued", "running", "succeeded", "dead_letter"},
   kind : {"ingest", "extract"}, document : Documents \cup {NoDocument},
   attempts : Nat, created_at : Nat, last_error : {"none", "transient", "permanent"}]

\* The tables hold rows of their declared shape and a worker holds a job
\* exactly while it has one to finish (db/schema.py jobs, worker/main.py).
TypeOK ==
  /\ jobs \in [Jobs -> Row]
  /\ documents \subseteq Documents
  /\ worker \in [Workers -> {"down", "exited", "idle", "busy", "orphaned"}]
  /\ held \in [Workers -> Jobs \cup {NoJob}]
  /\ attempt \in [Workers -> Nat]
  /\ began \in [Workers -> Nat]
  /\ clock \in Nat
  /\ \A w \in Workers : held[w] = NoJob <=> worker[w] \notin {"busy", "orphaned"}

\* No two live transactions run the same job, whatever crashes, lost sessions
\* and retries came before: the claim's row lock is the only thing that keeps
\* a job from being paid for and published twice (postgres_queue.py claim_one).
SoleClaimant ==
  \A w1, w2 \in Workers :
    worker[w1] = "busy" /\ worker[w2] = "busy" /\ held[w1] = held[w2] => w1 = w2

\* A claim shows nowhere until its run ends: the committed row of a claimed job
\* still says queued and lacks the attempt in progress, so a run that does not
\* end in a commit leaves no trace, and no committed row says running (one
\* transaction around the whole of run_once).
ClaimInvisible ==
  /\ \A j \in Jobs : jobs[j].status # "running"
  /\ \A w \in Workers : worker[w] = "busy" =>
       /\ jobs[held[w]].status = "queued"
       /\ attempt[w] = jobs[held[w]].attempts + 1

\* A job that can still be claimed has attempts left, no row ever counts more
\* than job_max_attempts, however runs, crashes and workers interleave
\* (mark_failed).
AttemptsWithinLimit ==
  \A j \in Jobs :
    /\ jobs[j].attempts <= MaxAttempts
    /\ jobs[j].status = "queued" => jobs[j].attempts < MaxAttempts

\* A row tells its own story: a queued row has an error exactly if it counts an
\* attempt, and a dead letter was a permanent failure or used up its attempts
\* (mark_failed writes last_error with the status it explains).
FailuresExplained ==
  \A j \in Jobs :
    /\ jobs[j].status = "queued" => (jobs[j].attempts > 0 <=> jobs[j].last_error # "none")
    /\ jobs[j].status = "dead_letter" =>
         \/ jobs[j].last_error = "permanent"
         \/ jobs[j].last_error = "transient" /\ jobs[j].attempts = MaxAttempts

ExtractJobs == {j \in Jobs : jobs[j].status # "absent" /\ jobs[j].kind = "extract"}
Ingested == {j \in Jobs : jobs[j].status = "succeeded" /\ jobs[j].kind = "ingest"}

\* Ingest hands over exactly once: over all crashes, retries and duplicate
\* sources there are as many extract jobs as ingest jobs that succeeded
\* (process_ingest always enqueues, in the transaction that ends its job).
OneExtractPerIngest == Cardinality(ExtractJobs) = Cardinality(Ingested)

\* "a document can never exist without an extraction job having been queued for
\* it" (db/schema.py, above JOB_KINDS), and no extract job names a document that
\* is not there.
DocumentsHaveExtractJobs ==
  documents = {jobs[j].document : j \in {k \in Jobs : jobs[k].kind = "extract"}}

\* What JobLifecycle calls the ledger: the committed rows, without the columns
\* that only order and explain them.
Ledger ==
  [j \in Jobs |-> [status |-> jobs[j].status, kind |-> jobs[j].kind,
                   document |-> jobs[j].document, attempts |-> jobs[j].attempts]]

Lifecycle == INSTANCE JobLifecycle WITH ledger <- Ledger

\* The queue, its workers and all their failures look to a reader of the table
\* like jobs whose runs are atomic (ADR-003, "the job row and the incident record
\* can be committed in the same Postgres transaction").
ImplementsLifecycle == Lifecycle!Spec

Settled(j) == jobs[j].status \in {"succeeded", "dead_letter"}

\* No process dies, no session is lost and no statement is refused.
Undisturbed == \A w \in Workers : ~ (Crash(w) \/ LoseSession(w) \/ StatementRefused(w))

\* Once crashes, lost sessions and refused statements stop, every job submitted
\* is carried to an end: nothing is forgotten by a worker that died with it, and
\* retries of an older job do not hold up a younger one for ever.
JobsSettleOnceUndisturbed ==
  <>[][Undisturbed]_vars => \A j \in Jobs : jobs[j].status = "queued" ~> Settled(j)

\* No process dies on its own and no session is lost: a run ends the way its stage
\* ends it.
NoCrashes == \A w \in Workers : ~ (Crash(w) \/ LoseSession(w))

\* mark_failed: a job that keeps failing "goes to `dead_letter` rather than
\* retrying forever" (postgres_queue.py). The code retries it forever when each
\* run ends in a refused statement, whose rollback takes the attempt with it.
FailingJobsAreNotRetriedForever ==
  <>[][NoCrashes]_vars => \A j \in Jobs : jobs[j].status = "queued" ~> Settled(j)
===============================================================================
