----------------------------- MODULE JobLifecycle -----------------------------
(***************************************************************************)
(* What the jobs table promises its readers (GET /jobs/{id}, the metrics   *)
(* endpoint, an operator): a job's run looks atomic.  There are no workers *)
(* here, no claims and no crashes, only the committed row of each job.     *)
(* A job is submitted, each recorded run either fails and counts one       *)
(* attempt or ends the job, and an ingest job that succeeds brings its     *)
(* document and the extract job of that document with it, in one step.     *)
(*                                                                         *)
(* JobQueue implements this module (JobQueue_proofs, THEOREM Refinement).  *)
(***************************************************************************)
EXTENDS Naturals

CONSTANTS
  Jobs,         \* ids a job can have
  Documents,    \* ids a document can have
  NoDocument,   \* document_id IS NULL
  MaxAttempts   \* settings.job_max_attempts

VARIABLES
  ledger,       \* ledger[j]: what a reader of the jobs table sees of j
  documents     \* ids of the committed documents rows

vars == <<ledger, documents>>

Unborn == [status |-> "absent", kind |-> "ingest", document |-> NoDocument, attempts |-> 0]

NewIngest ==
  [status |-> "queued", kind |-> "ingest", document |-> NoDocument, attempts |-> 0]

NewExtract(d) ==
  [status |-> "queued", kind |-> "extract", document |-> d, attempts |-> 0]

Init ==
  /\ ledger = [j \in Jobs |-> Unborn]
  /\ documents = {}

\* One more attempt of job j is on record, and the job now has status s.
RunRecorded(j, s) ==
  [ledger EXCEPT ![j] = [status |-> s, kind |-> @.kind, document |-> @.document,
                         attempts |-> @.attempts + 1]]

Submit(j) ==
  /\ ledger[j].status = "absent"
  /\ ledger' = [ledger EXCEPT ![j] = NewIngest]
  /\ UNCHANGED documents

\* A transient failure with attempts left: the job waits for another run.
Retry(j) ==
  /\ ledger[j].status = "queued"
  /\ ledger[j].attempts + 1 < MaxAttempts
  /\ ledger' = RunRecorded(j, "queued")
  /\ UNCHANGED documents

GiveUp(j) ==
  /\ ledger[j].status = "queued"
  /\ ledger' = RunRecorded(j, "dead_letter")
  /\ UNCHANGED documents

Extract(j) ==
  /\ ledger[j].status = "queued"
  /\ ledger[j].kind = "extract"
  /\ ledger' = RunRecorded(j, "succeeded")
  /\ UNCHANGED documents

\* The document, the extract job k and the end of j are one step.
Ingest(j, k, d) ==
  /\ ledger[j].status = "queued"
  /\ ledger[j].kind = "ingest"
  /\ ledger[k].status = "absent"
  /\ ledger' = [RunRecorded(j, "succeeded") EXCEPT ![k] = NewExtract(d)]
  /\ documents' = documents \cup {d}

Next ==
  \E j \in Jobs :
     \/ Submit(j)
     \/ Retry(j)
     \/ GiveUp(j)
     \/ Extract(j)
     \/ \E k \in Jobs, d \in Documents : Ingest(j, k, d)

Spec == Init /\ [][Next]_vars
===============================================================================
