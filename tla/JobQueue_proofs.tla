---------------------------- MODULE JobQueue_proofs ----------------------------
(***************************************************************************)
(* What holds of JobQueue for every number of jobs, workers, documents and *)
(* attempts: its safety properties, and that it implements JobLifecycle.   *)
(***************************************************************************)
EXTENDS JobQueue, FiniteSetTheorems, TLAPS

\* A row that does not exist yet has no content to keep.
AbsentIsUnborn == \A j \in Jobs : jobs[j].status = "absent" => jobs[j] = Unborn

\* The inductive invariant. SoleClaimant alone is not inductive: that a held job
\* is still queued (ClaimInvisible) is what keeps a second claim's row distinct,
\* and AttemptsWithinLimit needs to know which attempt a run counts.
IInv ==
  /\ TypeOK
  /\ AbsentIsUnborn
  /\ SoleClaimant
  /\ ClaimInvisible
  /\ AttemptsWithinLimit
  /\ FailuresExplained
  /\ DocumentsHaveExtractJobs

\* An id that is fresh is an id of the table, and its row is the empty one.
LEMMA FreshIsUnborn ==
  ASSUME TypeOK, AbsentIsUnborn, HasFreshId
  PROVE  FreshId \in Jobs /\ jobs[FreshId] = Unborn
<1>1. FreshId \in Jobs /\ jobs[FreshId].status = "absent"
  BY DEF HasFreshId, FreshId
<1> QED
  BY <1>1 DEF AbsentIsUnborn

\* No rows, no workers.
LEMMA InitIInv == Init => IInv
<1> SUFFICES ASSUME Init PROVE IInv
  OBVIOUS
<1>1. TypeOK
  BY NullAssumption DEF Init, TypeOK, Row, Unborn
<1>2. AbsentIsUnborn /\ SoleClaimant /\ ClaimInvisible
  BY DEF Init, AbsentIsUnborn, SoleClaimant, ClaimInvisible, Unborn
<1>3. AttemptsWithinLimit /\ FailuresExplained
  BY AttemptsAssumption DEF Init, AttemptsWithinLimit, FailuresExplained, Unborn
<1>4. DocumentsHaveExtractJobs
  BY DEF Init, DocumentsHaveExtractJobs, Unborn
<1> QED
  BY <1>1, <1>2, <1>3, <1>4 DEF IInv

-------------------------------------------------------------------------------
(* Steps that leave the tables alone and end a transaction, if at all, by a    *)
(* rollback.                                                                   *)

\* A worker that stops, with or without a job, changes no row.
LEMMA RollbackKeepsIInv ==
  ASSUME IInv, NEW w \in Workers, NEW s \in {"down", "exited"},
         Release(w, s), UNCHANGED <<jobs, documents>>
  PROVE  IInv'
<1>1. TypeOK'
  BY NullAssumption DEF IInv, TypeOK, Release
<1>2. SoleClaimant' /\ ClaimInvisible'
  BY DEF IInv, TypeOK, SoleClaimant, ClaimInvisible, Release
<1>3. UNCHANGED <<jobs, documents>> => 
        (AbsentIsUnborn /\ AttemptsWithinLimit /\ FailuresExplained /\ DocumentsHaveExtractJobs)'
  BY DEF IInv, AbsentIsUnborn, AttemptsWithinLimit, FailuresExplained, DocumentsHaveExtractJobs
<1> QED
  BY <1>1, <1>2, <1>3 DEF IInv

-------------------------------------------------------------------------------
(* Steps that end a transaction by a commit.                                   *)

\* The columns of a row that a transaction ends.
LEMMA EndedRow ==
  ASSUME NEW w \in Workers, jobs[held[w]] \in Row, attempt[w] \in Nat,
         NEW status \in {"queued", "succeeded", "dead_letter"},
         NEW error \in {"none", "transient", "permanent"}
  PROVE  /\ Ended(w, status, error) \in Row
         /\ Ended(w, status, error).status = status
         /\ Ended(w, status, error).kind = jobs[held[w]].kind
         /\ Ended(w, status, error).document = jobs[held[w]].document
         /\ Ended(w, status, error).attempts = attempt[w]
         /\ Ended(w, status, error).last_error = error
BY DEF Ended, Row

\* What mark_succeeded and mark_failed leave in the row of the held job.
EndsWell(w, row) ==
  /\ row \in Row
  /\ row.kind = jobs[held[w]].kind /\ row.document = jobs[held[w]].document
  /\ row.status \in {"queued", "succeeded", "dead_letter"}
  /\ row.attempts <= MaxAttempts
  /\ row.status = "queued" =>
       row.attempts \in 1 .. MaxAttempts - 1 /\ row.last_error # "none"
  /\ row.status = "dead_letter" =>
       \/ row.last_error = "permanent"
       \/ row.last_error = "transient" /\ row.attempts = MaxAttempts

\* The run that ends counts the attempt it made, which was within the limit.
LEMMA AttemptInRange ==
  ASSUME IInv, NEW w \in Workers, worker[w] = "busy"
  PROVE  /\ held[w] \in Jobs
         /\ jobs[held[w]] \in Row
         /\ jobs[held[w]].status = "queued"
         /\ attempt[w] \in 1 .. MaxAttempts
<1>1. held[w] \in Jobs /\ jobs[held[w]] \in Row
  BY DEF IInv, TypeOK
<1>2. jobs[held[w]].status = "queued" /\ attempt[w] = jobs[held[w]].attempts + 1
  BY DEF IInv, ClaimInvisible
<1>3. jobs[held[w]].attempts \in Nat /\ jobs[held[w]].attempts < MaxAttempts
  BY <1>1, <1>2 DEF IInv, AttemptsWithinLimit, Row
<1> QED
  BY <1>1, <1>2, <1>3, AttemptsAssumption

\* A commit that ends the held job well: nobody else holds that job, so nobody
\* else's claim is disturbed.
LEMMA CommitKeepsIInv ==
  ASSUME IInv, NEW w \in Workers, worker[w] = "busy", NEW row, EndsWell(w, row),
         jobs' = [jobs EXCEPT ![held[w]] = row], UNCHANGED documents, Release(w, "idle")
  PROVE  IInv'
<1>1. held[w] \in Jobs /\ jobs[held[w]].status = "queued" /\ row \in Row
  BY AttemptInRange DEF EndsWell
<1>2. TypeOK'
  BY <1>1, NullAssumption DEF IInv, TypeOK, Release
<1>3. AbsentIsUnborn'
  BY <1>1 DEF IInv, TypeOK, AbsentIsUnborn, EndsWell
<1>4. SoleClaimant' /\ ClaimInvisible'
  BY <1>1 DEF IInv, TypeOK, SoleClaimant, ClaimInvisible, Release, EndsWell
<1>5. AttemptsWithinLimit'
  BY <1>1, AttemptsAssumption DEF IInv, TypeOK, AttemptsWithinLimit, EndsWell, Row
<1>6. FailuresExplained'
  BY <1>1 DEF IInv, TypeOK, FailuresExplained, EndsWell, Row
<1>7. DocumentsHaveExtractJobs'
  <2>1. \A j \in Jobs : jobs'[j].kind = jobs[j].kind /\ jobs'[j].document = jobs[j].document
    BY <1>1 DEF IInv, TypeOK, EndsWell
  <2> QED
    BY <2>1 DEF IInv, DocumentsHaveExtractJobs
<1> QED
  BY <1>2, <1>3, <1>4, <1>5, <1>6, <1>7 DEF IInv

\* The two rows an ingest commit writes are different rows.
LEMMA IngestRows ==
  ASSUME IInv, NEW w \in Workers, NEW d \in Documents, IngestSucceeds(w, d)
  PROVE  /\ held[w] \in Jobs /\ FreshId \in Jobs /\ FreshId # held[w]
         /\ jobs[FreshId] = Unborn
         /\ Succeeded(w) \in Row
         /\ Enqueued("extract", d, began[w]) \in Row
         /\ jobs'[held[w]] = Succeeded(w)
         /\ jobs'[FreshId] = Enqueued("extract", d, began[w])
         /\ \A j \in Jobs \ {held[w], FreshId} : jobs'[j] = jobs[j]
         /\ jobs' \in [Jobs -> Row]
<1>1. held[w] \in Jobs /\ jobs[held[w]] \in Row /\ jobs[held[w]].status = "queued"
      /\ attempt[w] \in Nat
  BY AttemptInRange, AttemptsAssumption DEF IngestSucceeds
<1>2. FreshId \in Jobs /\ jobs[FreshId] = Unborn
  BY FreshIsUnborn DEF IInv, IngestSucceeds
<1>3. FreshId # held[w]
  BY <1>1, <1>2 DEF Unborn
<1>4. Succeeded(w) \in Row
  BY <1>1, EndedRow DEF Succeeded, Row
<1>5. Enqueued("extract", d, began[w]) \in Row
  BY DEF IInv, TypeOK, Enqueued, Row
<1> QED
  BY <1>1, <1>2, <1>3, <1>4, <1>5 DEF IngestSucceeds, IInv, TypeOK

\* The end of an ingest job: its row, the document and the extract job change
\* together, and the new job is not anybody's yet.
LEMMA IngestKeepsIInv ==
  ASSUME IInv, NEW w \in Workers, NEW d \in Documents, IngestSucceeds(w, d)
  PROVE  IInv'
<1>1. worker[w] = "busy" /\ jobs[held[w]].kind = "ingest" /\ Release(w, "idle")
      /\ documents' = documents \cup {d}
  BY DEF IngestSucceeds
<1>2. attempt[w] \in 1 .. MaxAttempts
  BY <1>1, AttemptInRange
<1> DEFINE old == Succeeded(w)
           new == Enqueued("extract", d, began[w])
<1>3. /\ old.status = "succeeded" /\ old.kind = "ingest" /\ old.attempts = attempt[w]
      /\ new.status = "queued" /\ new.kind = "extract" /\ new.document = d
      /\ new.attempts = 0 /\ new.last_error = "none"
  <2>1. jobs[held[w]] \in Row /\ attempt[w] \in Nat
    BY <1>1, AttemptInRange, AttemptsAssumption
  <2> QED
    BY <1>1, <2>1, EndedRow DEF Succeeded, Enqueued, Row
<1>4. TypeOK'
  BY <1>1, IngestRows, NullAssumption DEF IInv, TypeOK, Release
<1>5. AbsentIsUnborn'
  BY <1>3, IngestRows DEF IInv, AbsentIsUnborn
<1>6. SoleClaimant' /\ ClaimInvisible'
  <2>1. \A v \in Workers : worker'[v] = "busy" =>
          v # w /\ worker[v] = "busy" /\ held'[v] = held[v] /\ attempt'[v] = attempt[v]
    BY <1>1 DEF IInv, TypeOK, Release
  <2>2. SoleClaimant'
    BY <2>1 DEF IInv, SoleClaimant
  <2>3. ASSUME NEW v \in Workers, worker'[v] = "busy"
        PROVE  jobs'[held'[v]] = jobs[held[v]]
    <3>1. held[v] \in Jobs /\ held[v] # held[w] /\ jobs[held[v]].status = "queued"
      BY <1>1, <2>1, <2>3, AttemptInRange DEF IInv, SoleClaimant
    <3>2. held[v] # FreshId
      BY <3>1, IngestRows DEF Unborn
    <3> QED
      BY <2>1, <2>3, <3>1, <3>2, IngestRows
  <2>4. ClaimInvisible'
    BY <1>3, <2>1, <2>3, IngestRows DEF IInv, ClaimInvisible
  <2> QED
    BY <2>2, <2>4
<1>7. AttemptsWithinLimit'
  BY <1>2, <1>3, IngestRows, AttemptsAssumption DEF IInv, AttemptsWithinLimit
<1>8. FailuresExplained'
  BY <1>3, IngestRows DEF IInv, FailuresExplained
<1>9. DocumentsHaveExtractJobs'
  <2>1. \A j \in Jobs \ {FreshId} :
          jobs'[j].kind = jobs[j].kind /\ (jobs[j].kind = "extract" => jobs'[j] = jobs[j])
    BY <1>1, <1>3, IngestRows
  <2>2. jobs[FreshId].kind = "ingest"
    BY IngestRows DEF Unborn
  <2>3. documents' = {jobs[j].document : j \in {k \in Jobs : jobs[k].kind = "extract"}} \cup {d}
    BY <1>1 DEF IInv, DocumentsHaveExtractJobs
  <2> QED
    BY <1>3, <2>1, <2>2, <2>3, IngestRows DEF DocumentsHaveExtractJobs
<1> QED
  BY <1>4, <1>5, <1>6, <1>7, <1>8, <1>9 DEF IInv

-------------------------------------------------------------------------------
(* Steps that end nothing.                                                     *)

\* A new row is queued, without attempts and without an error.
LEMMA RegisterKeepsIInv == IInv /\ RegisterSource => IInv'
<1> SUFFICES ASSUME IInv, RegisterSource PROVE IInv'
  OBVIOUS
<1> DEFINE new == Enqueued("ingest", NoDocument, clock + 1)
<1>1. FreshId \in Jobs /\ jobs[FreshId] = Unborn
  BY FreshIsUnborn DEF IInv, RegisterSource
<1>2. /\ new \in Row /\ new.status = "queued" /\ new.kind = "ingest"
      /\ new.attempts = 0 /\ new.last_error = "none"
  BY DEF IInv, TypeOK, Enqueued, Row
<1>3. TypeOK'
  BY <1>1, <1>2 DEF IInv, TypeOK, RegisterSource
<1>4. AbsentIsUnborn'
  BY <1>1, <1>2 DEF IInv, TypeOK, AbsentIsUnborn, RegisterSource
<1>5. SoleClaimant'
  BY DEF IInv, SoleClaimant, RegisterSource
<1>6. ClaimInvisible'
  <2>1. ASSUME NEW w \in Workers, worker[w] = "busy"
        PROVE  held[w] # FreshId
    BY <1>1, <2>1 DEF IInv, ClaimInvisible, Unborn
  <2> QED
    BY <1>1, <1>2, <2>1 DEF IInv, TypeOK, ClaimInvisible, RegisterSource
<1>7. AttemptsWithinLimit' /\ FailuresExplained'
  BY <1>1, <1>2, AttemptsAssumption
     DEF IInv, TypeOK, AttemptsWithinLimit, FailuresExplained, RegisterSource
<1>8. DocumentsHaveExtractJobs'
  <2>1. \A j \in Jobs : jobs'[j].kind = jobs[j].kind
                      /\ (jobs[j].kind = "extract" => jobs'[j] = jobs[j])
    BY <1>1, <1>2 DEF IInv, TypeOK, RegisterSource, Unborn
  <2> QED
    BY <2>1 DEF IInv, DocumentsHaveExtractJobs, RegisterSource
<1> QED
  BY <1>3, <1>4, <1>5, <1>6, <1>7, <1>8 DEF IInv

\* The row that is claimed was unlocked and, as no committed row is running,
\* queued.
LEMMA ClaimKeepsIInv ==
  ASSUME IInv, NEW w \in Workers, NEW j \in Jobs, Claim(w, j)
  PROVE  IInv'
<1>1. jobs[j].status = "queued" /\ jobs[j].attempts \in Nat
  BY DEF Claim, Available, Claimable, IInv, TypeOK, Row, ClaimInvisible
<1>2. TypeOK'
  BY <1>1, NullAssumption DEF Claim, IInv, TypeOK
<1>3. SoleClaimant'
  BY DEF Claim, Available, Locked, IInv, TypeOK, SoleClaimant
<1>4. ClaimInvisible'
  BY <1>1 DEF Claim, IInv, TypeOK, ClaimInvisible
<1>5. UNCHANGED <<jobs, documents>>
  BY DEF Claim
<1> QED
  BY <1>2, <1>3, <1>4, <1>5
     DEF IInv, AbsentIsUnborn, AttemptsWithinLimit, FailuresExplained, DocumentsHaveExtractJobs

\* Starting a worker and losing a session only change what the worker is doing,
\* never towards a claim.
LEMMA WorkerOnlyKeepsIInv ==
  ASSUME IInv, NEW w \in Workers, StartWorker(w) \/ LoseSession(w)
  PROVE  IInv'
<1>1. UNCHANGED <<jobs, documents, held, attempt, began, clock>>
  BY DEF StartWorker, LoseSession
<1>2. TypeOK'
  BY NullAssumption DEF IInv, TypeOK, StartWorker, LoseSession
<1>3. \A v \in Workers : worker'[v] = "busy" => worker[v] = "busy"
  BY DEF IInv, TypeOK, StartWorker, LoseSession
<1>4. SoleClaimant' /\ ClaimInvisible'
  BY <1>1, <1>3 DEF IInv, SoleClaimant, ClaimInvisible
<1> QED
  BY <1>1, <1>2, <1>4
     DEF IInv, AbsentIsUnborn, AttemptsWithinLimit, FailuresExplained, DocumentsHaveExtractJobs

\* Whatever way a run ends.
LEMMA RunEndsKeepsIInv ==
  ASSUME IInv, NEW w \in Workers, RunEnds(w)
  PROVE  IInv'
<1>1. worker[w] = "busy" => attempt[w] \in Nat /\ attempt[w] <= MaxAttempts
  BY AttemptInRange, AttemptsAssumption
<1>2. ASSUME NEW d \in Documents, IngestSucceeds(w, d)
      PROVE  IInv'
  BY <1>2, IngestKeepsIInv
<1>3. CASE ExtractSucceeds(w)
  <2>1. worker[w] = "busy"
    BY <1>3 DEF ExtractSucceeds
  <2>2. EndsWell(w, Succeeded(w))
    BY <1>1, <2>1, EndedRow, AttemptInRange DEF EndsWell, Succeeded, Row
  <2> QED
    BY <1>3, <2>1, <2>2, CommitKeepsIInv DEF ExtractSucceeds
<1>4. CASE FailsPermanently(w)
  <2>1. worker[w] = "busy"
    BY <1>4 DEF FailsPermanently
  <2>2. EndsWell(w, Ended(w, "dead_letter", "permanent"))
    BY <1>1, <2>1, EndedRow, AttemptInRange DEF EndsWell
  <2> QED
    BY <1>4, <2>1, <2>2, CommitKeepsIInv DEF FailsPermanently
<1>5. CASE FailsTransiently(w)
  <2>1. worker[w] = "busy"
    BY <1>5 DEF FailsTransiently
  <2> DEFINE status == StatusAfterTransient(attempt[w])
  <2>2. \/ status = "dead_letter" /\ attempt[w] = MaxAttempts
        \/ status = "queued" /\ attempt[w] \in 1 .. MaxAttempts - 1
    BY <2>1, AttemptInRange, AttemptsAssumption DEF StatusAfterTransient
  <2> HIDE DEF status
  <2>3. EndsWell(w, Ended(w, status, "transient"))
    BY <1>1, <2>1, <2>2, EndedRow, AttemptInRange, AttemptsAssumption DEF EndsWell
  <2> QED
    BY <1>5, <2>1, <2>3, CommitKeepsIInv DEF FailsTransiently, status
<1>6. CASE StatementRefused(w) \/ OrphanStops(w)
  BY <1>6, RollbackKeepsIInv DEF StatementRefused, OrphanStops
<1> QED
  BY <1>2, <1>3, <1>4, <1>5, <1>6 DEF RunEnds

\* Every step keeps the invariant.
LEMMA NextIInv == IInv /\ [Next]_vars => IInv'
<1> SUFFICES ASSUME IInv, [Next]_vars PROVE IInv'
  OBVIOUS
<1>1. CASE RegisterSource
  BY <1>1, RegisterKeepsIInv
<1>2. ASSUME NEW w \in Workers, StartWorker(w) \/ LoseSession(w)
      PROVE  IInv'
  BY <1>2, WorkerOnlyKeepsIInv
<1>3. ASSUME NEW w \in Workers, NEW j \in Jobs, Claim(w, j)
      PROVE  IInv'
  BY <1>3, ClaimKeepsIInv
<1>4. ASSUME NEW w \in Workers, RunEnds(w)
      PROVE  IInv'
  BY <1>4, RunEndsKeepsIInv
<1>5. ASSUME NEW w \in Workers, Crash(w)
      PROVE  IInv'
  BY <1>5, RollbackKeepsIInv DEF Crash
<1>6. CASE UNCHANGED vars
  BY <1>6 DEF vars, IInv, TypeOK, AbsentIsUnborn, SoleClaimant, ClaimInvisible,
              AttemptsWithinLimit, FailuresExplained, DocumentsHaveExtractJobs
<1> QED
  BY <1>1, <1>2, <1>3, <1>4, <1>5, <1>6 DEF Next, Poll

-------------------------------------------------------------------------------

\* The invariant holds in every reachable state.
THEOREM Invariance == Spec => []IInv
<1>1. Init => IInv
  BY InitIInv
<1>2. IInv /\ [Next]_vars => IInv'
  BY NextIInv
<1> QED
  BY <1>1, <1>2, PTL DEF Spec

\* Rows and workers keep their types.
THEOREM TypeCorrect == Spec => []TypeOK
BY Invariance, PTL DEF IInv

\* No job is ever in two live transactions, for any number of workers, crashes,
\* lost sessions and retries.
THEOREM MutualExclusion == Spec => []SoleClaimant
BY Invariance, PTL DEF IInv

\* A run shows all at once or not at all.
THEOREM ClaimsAreInvisible == Spec => []ClaimInvisible
BY Invariance, PTL DEF IInv

\* No job counts more attempts than job_max_attempts.
THEOREM AttemptsAreBounded == Spec => []AttemptsWithinLimit
BY Invariance, PTL DEF IInv

\* Each failure that is on record is explained by its row.
THEOREM FailureBookkeeping == Spec => []FailuresExplained
BY Invariance, PTL DEF IInv

\* Documents and extract jobs come into being together.
THEOREM HandOver == Spec => []DocumentsHaveExtractJobs
BY Invariance, PTL DEF IInv

-------------------------------------------------------------------------------
(* As many extract jobs as ingest jobs that succeeded.                         *)

\* One new member each.
LEMMA BothGrow ==
  ASSUME NEW A \in SUBSET Jobs, NEW B \in SUBSET Jobs, Cardinality(A) = Cardinality(B),
         NEW a \in Jobs, a \notin A, NEW b \in Jobs, b \notin B
  PROVE  Cardinality(A \cup {a}) = Cardinality(B \cup {b})
<1>1. IsFiniteSet(A) /\ IsFiniteSet(B)
  BY IdsAssumption, FS_Subset
<1>2. Cardinality(A \cup {a}) = Cardinality(A) + 1
  BY <1>1, FS_AddElement
<1>3. Cardinality(B \cup {b}) = Cardinality(B) + 1
  BY <1>1, FS_AddElement
<1> QED
  BY <1>2, <1>3

\* An ingest job that succeeds brings exactly one extract job.
LEMMA IngestKeepsCount ==
  ASSUME IInv, OneExtractPerIngest, NEW w \in Workers, NEW d \in Documents,
         IngestSucceeds(w, d)
  PROVE  OneExtractPerIngest'
<1>1. /\ held[w] \in Jobs /\ FreshId \in Jobs /\ FreshId # held[w]
      /\ jobs[FreshId].status = "absent" /\ jobs[held[w]].status = "queued"
      /\ jobs[held[w]].kind = "ingest"
  <2>1. worker[w] = "busy" /\ jobs[held[w]].kind = "ingest"
    BY DEF IngestSucceeds
  <2>2. held[w] \in Jobs /\ jobs[held[w]].status = "queued"
    BY <2>1, AttemptInRange
  <2>3. FreshId \in Jobs /\ FreshId # held[w] /\ jobs[FreshId] = Unborn
    BY IngestRows
  <2>4. jobs[FreshId].status = "absent"
    BY <2>3 DEF Unborn
  <2> QED
    BY <2>1, <2>2, <2>3, <2>4
<1>2. jobs'[held[w]].status = "succeeded" /\ jobs'[held[w]].kind = "ingest"
  <2>1. jobs'[held[w]] = Succeeded(w)
    BY IngestRows
  <2> QED
    BY <1>1, <2>1 DEF Succeeded, Ended
<1>3. jobs'[FreshId].status = "queued" /\ jobs'[FreshId].kind = "extract"
  <2>1. jobs'[FreshId] = Enqueued("extract", d, began[w])
    BY IngestRows
  <2> QED
    BY <2>1 DEF Enqueued
<1>4. \A j \in Jobs \ {held[w], FreshId} : jobs'[j] = jobs[j]
  BY IngestRows
<1> DEFINE k == FreshId
<1> HIDE DEF k
<1>5. ExtractJobs' = ExtractJobs \cup {k} /\ k \notin ExtractJobs
  BY <1>1, <1>2, <1>3, <1>4 DEF ExtractJobs, k
<1>6. Ingested' = Ingested \cup {held[w]} /\ held[w] \notin Ingested
  BY <1>1, <1>2, <1>3, <1>4 DEF Ingested
<1>7. ExtractJobs \in SUBSET Jobs /\ Ingested \in SUBSET Jobs
  BY DEF ExtractJobs, Ingested
<1> QED
  BY <1>1, <1>5, <1>6, <1>7, BothGrow DEF OneExtractPerIngest, k

\* No other commit makes an extract job or an ingest job that succeeded.
LEMMA CommitKeepsCount ==
  ASSUME IInv, OneExtractPerIngest, NEW w \in Workers, worker[w] = "busy",
         NEW status \in {"queued", "succeeded", "dead_letter"},
         NEW error \in {"none", "transient", "permanent"},
         jobs' = [jobs EXCEPT ![held[w]] = Ended(w, status, error)],
         status = "succeeded" => jobs[held[w]].kind = "extract"
  PROVE  OneExtractPerIngest'
<1>1. held[w] \in Jobs /\ jobs[held[w]] \in Row /\ jobs[held[w]].status = "queued"
      /\ attempt[w] \in Nat
  BY AttemptInRange, AttemptsAssumption
<1>2. jobs'[held[w]].status = status /\ jobs'[held[w]].kind = jobs[held[w]].kind
  BY <1>1, EndedRow DEF IInv, TypeOK
<1>3. \A j \in Jobs \ {held[w]} : jobs'[j] = jobs[j]
  BY DEF IInv, TypeOK
<1>4. ExtractJobs' = ExtractJobs
  BY <1>1, <1>2, <1>3 DEF ExtractJobs
<1>5. Ingested' = Ingested
  BY <1>1, <1>2, <1>3 DEF Ingested
<1> QED
  BY <1>4, <1>5 DEF OneExtractPerIngest

\* Every step keeps the two counts equal.
LEMMA NextKeepsCount == IInv /\ OneExtractPerIngest /\ [Next]_vars => OneExtractPerIngest'
<1> SUFFICES ASSUME IInv, OneExtractPerIngest, [Next]_vars PROVE OneExtractPerIngest'
  OBVIOUS
<1>1. CASE RegisterSource
  <2>1. FreshId \in Jobs /\ jobs[FreshId].status = "absent"
    BY <1>1, FreshIsUnborn DEF IInv, RegisterSource, Unborn
  <2>2. jobs'[FreshId].kind = "ingest" /\ jobs'[FreshId].status = "queued"
        /\ \A j \in Jobs \ {FreshId} : jobs'[j] = jobs[j]
    BY <1>1, <2>1 DEF IInv, TypeOK, RegisterSource, Enqueued
  <2>3. ExtractJobs' = ExtractJobs /\ Ingested' = Ingested
    BY <2>1, <2>2 DEF ExtractJobs, Ingested
  <2> QED
    BY <2>3 DEF OneExtractPerIngest
<1>2. CASE UNCHANGED jobs
  BY <1>2 DEF OneExtractPerIngest, ExtractJobs, Ingested
<1>3. ASSUME NEW w \in Workers, NEW d \in Documents, IngestSucceeds(w, d)
      PROVE  OneExtractPerIngest'
  BY <1>3, IngestKeepsCount
<1>4. ASSUME NEW w \in Workers, ExtractSucceeds(w)
      PROVE  OneExtractPerIngest'
  <2>1. jobs[held[w]].last_error \in {"none", "transient", "permanent"}
    BY <1>4, AttemptInRange DEF ExtractSucceeds, Row
  <2> QED
    BY <1>4, <2>1, CommitKeepsCount DEF ExtractSucceeds, Succeeded
<1>5. ASSUME NEW w \in Workers, FailsPermanently(w)
      PROVE  OneExtractPerIngest'
  BY <1>5, CommitKeepsCount DEF FailsPermanently
<1>6. ASSUME NEW w \in Workers, FailsTransiently(w)
      PROVE  OneExtractPerIngest'
  BY <1>6, CommitKeepsCount DEF FailsTransiently, StatusAfterTransient
<1> QED
  BY <1>1, <1>2, <1>3, <1>4, <1>5, <1>6
  DEF Next, RunEnds, vars, Poll, StartWorker, Claim, StatementRefused, OrphanStops, Crash,
      LoseSession

\* Over all crashes and retries an ingest job hands over exactly once.
THEOREM HandOverOnce == Spec => []OneExtractPerIngest
<1>1. Init => OneExtractPerIngest
  <2>1. Init => ExtractJobs = Ingested
    BY DEF Init, Unborn, ExtractJobs, Ingested
  <2> QED
    BY <2>1 DEF OneExtractPerIngest
<1> QED
  BY <1>1, Invariance, NextKeepsCount, PTL DEF Spec

-------------------------------------------------------------------------------
(* JobQueue implements JobLifecycle.                                           *)

\* The ledger has the four columns of a row, and no others.
LEMMA LedgerRow ==
  ASSUME NEW j \in Jobs
  PROVE  Ledger[j] = [status |-> jobs[j].status, kind |-> jobs[j].kind,
                      document |-> jobs[j].document, attempts |-> jobs[j].attempts]
BY DEF Ledger

\* A commit of the held job is one recorded run of it.
LEMMA CommitIsARun ==
  ASSUME IInv, NEW w \in Workers, worker[w] = "busy",
         NEW status \in {"queued", "succeeded", "dead_letter"},
         NEW error \in {"none", "transient", "permanent"},
         jobs' = [jobs EXCEPT ![held[w]] = Ended(w, status, error)]
  PROVE  Ledger' = Lifecycle!RunRecorded(held[w], status)
<1>1. held[w] \in Jobs /\ attempt[w] = jobs[held[w]].attempts + 1 /\ jobs[held[w]] \in Row
  BY AttemptInRange DEF IInv, ClaimInvisible
<1>2. jobs'[held[w]] = Ended(w, status, error)
      /\ \A j \in Jobs \ {held[w]} : jobs'[j] = jobs[j]
  BY <1>1 DEF IInv, TypeOK
<1>3. Ledger'[held[w]] =
        [status |-> status, kind |-> Ledger[held[w]].kind,
         document |-> Ledger[held[w]].document, attempts |-> Ledger[held[w]].attempts + 1]
  BY <1>1, <1>2 DEF Ledger, Ended
<1>4. \A j \in Jobs \ {held[w]} : Ledger'[j] = Ledger[j]
  BY <1>2 DEF Ledger
<1> QED
  BY <1>1, <1>3, <1>4 DEF Ledger, Lifecycle!RunRecorded

\* POST /sources is a submission.
LEMMA RegisterIsSubmit == IInv /\ RegisterSource => Lifecycle!Next
<1> SUFFICES ASSUME IInv, RegisterSource PROVE Lifecycle!Next
  OBVIOUS
<1>1. FreshId \in Jobs /\ jobs[FreshId] = Unborn
  BY FreshIsUnborn DEF IInv, RegisterSource
<1>2. Ledger[FreshId].status = "absent"
  BY <1>1 DEF Ledger, Unborn
<1>3. Ledger' = [Ledger EXCEPT ![FreshId] = Lifecycle!NewIngest]
  BY <1>1 DEF IInv, TypeOK, RegisterSource, Ledger, Enqueued, Lifecycle!NewIngest
<1>4. Lifecycle!Submit(FreshId)
  BY <1>2, <1>3 DEF RegisterSource, Lifecycle!Submit
<1> QED
  BY <1>1, <1>4 DEF Lifecycle!Next

\* An ingest job that succeeds is one step for a reader of the table.
LEMMA IngestIsIngest ==
  ASSUME IInv, NEW w \in Workers, NEW d \in Documents, IngestSucceeds(w, d)
  PROVE  Lifecycle!Next
<1>1. worker[w] = "busy" /\ held[w] \in Jobs /\ jobs[held[w]] \in Row
      /\ jobs[held[w]].kind = "ingest" /\ jobs[held[w]].status = "queued"
      /\ attempt[w] = jobs[held[w]].attempts + 1
  BY AttemptInRange DEF IngestSucceeds, IInv, ClaimInvisible
<1>2. Ledger[held[w]].status = "queued" /\ Ledger[held[w]].kind = "ingest"
      /\ Ledger[FreshId].status = "absent"
  BY <1>1, IngestRows DEF Ledger, Unborn
<1>3. Ledger' = [Lifecycle!RunRecorded(held[w], "succeeded")
                   EXCEPT ![FreshId] = Lifecycle!NewExtract(d)]
  <2>0. FreshId \in Jobs /\ jobs'[held[w]] = Succeeded(w)
        /\ jobs'[FreshId] = Enqueued("extract", d, began[w])
    BY IngestRows
  <2>1. Ledger'[held[w]] =
          [status |-> "succeeded", kind |-> Ledger[held[w]].kind,
           document |-> Ledger[held[w]].document, attempts |-> Ledger[held[w]].attempts + 1]
    BY <1>1, <2>0 DEF Ledger, Succeeded, Ended
  <2>2. Ledger'[FreshId] = Lifecycle!NewExtract(d)
    BY <2>0 DEF Ledger, Enqueued, Lifecycle!NewExtract
  <2>3. \A j \in Jobs \ {held[w], FreshId} : Ledger'[j] = Ledger[j]
    BY IngestRows DEF Ledger
  <2> QED
    BY <2>1, <2>2, <2>3, IngestRows DEF Ledger, Lifecycle!RunRecorded
<1>4. Lifecycle!Ingest(held[w], FreshId, d)
  BY <1>2, <1>3 DEF IngestSucceeds, Lifecycle!Ingest
<1> QED
  BY <1>1, <1>4, IngestRows DEF Lifecycle!Next

\* A failure on record has either left the job queued or ended it.
LEMMA FailureIsRetryOrGiveUp ==
  ASSUME IInv, NEW w \in Workers, FailsPermanently(w) \/ FailsTransiently(w)
  PROVE  Lifecycle!Next
<1>1. worker[w] = "busy"
  BY DEF FailsPermanently, FailsTransiently
<1>2. held[w] \in Jobs /\ Ledger[held[w]].status = "queued"
      /\ attempt[w] = Ledger[held[w]].attempts + 1 /\ attempt[w] \in 1 .. MaxAttempts
  BY <1>1, AttemptInRange DEF IInv, ClaimInvisible, Ledger
<1>3. CASE FailsPermanently(w)
  <2>1. Ledger' = Lifecycle!RunRecorded(held[w], "dead_letter") /\ UNCHANGED documents
    BY <1>1, <1>3, CommitIsARun DEF FailsPermanently
  <2> QED
    BY <1>2, <2>1 DEF Lifecycle!Next, Lifecycle!GiveUp
<1>4. CASE FailsTransiently(w)
  <2>1. Ledger' = Lifecycle!RunRecorded(held[w], StatusAfterTransient(attempt[w]))
        /\ UNCHANGED documents
    BY <1>1, <1>4, CommitIsARun DEF FailsTransiently, StatusAfterTransient
  <2>2. CASE attempt[w] >= MaxAttempts
    <3>1. StatusAfterTransient(attempt[w]) = "dead_letter"
      BY <2>2 DEF StatusAfterTransient
    <3> QED
      BY <1>2, <2>1, <3>1 DEF Lifecycle!Next, Lifecycle!GiveUp
  <2>3. CASE attempt[w] < MaxAttempts
    <3>1. StatusAfterTransient(attempt[w]) = "queued"
      BY <1>2, <2>3, AttemptsAssumption DEF StatusAfterTransient
    <3> QED
      BY <1>2, <2>1, <2>3, <3>1 DEF Lifecycle!Next, Lifecycle!Retry
  <2> QED
    BY <1>2, <2>2, <2>3, AttemptsAssumption
<1> QED
  BY <1>3, <1>4

\* Every step is one of JobLifecycle, or a reader does not see it.
LEMMA StepRefines == IInv /\ [Next]_vars => [Lifecycle!Next]_(Lifecycle!vars)
<1> SUFFICES ASSUME IInv, [Next]_vars
             PROVE  Lifecycle!Next \/ UNCHANGED <<jobs, documents>>
  BY DEF Lifecycle!vars, Ledger
<1>1. CASE RegisterSource
  BY <1>1, RegisterIsSubmit
<1>2. ASSUME NEW w \in Workers,
             \/ StartWorker(w) \/ LoseSession(w) \/ Crash(w)
             \/ StatementRefused(w) \/ OrphanStops(w)
             \/ \E j \in Jobs : Claim(w, j)
      PROVE  UNCHANGED <<jobs, documents>>
  BY <1>2 DEF StartWorker, LoseSession, Crash, StatementRefused, OrphanStops, Claim
<1>3. ASSUME NEW w \in Workers, NEW d \in Documents, IngestSucceeds(w, d)
      PROVE  Lifecycle!Next
  BY <1>3, IngestIsIngest
<1>4. ASSUME NEW w \in Workers, ExtractSucceeds(w)
      PROVE  Lifecycle!Next
  <2>1. worker[w] = "busy" /\ held[w] \in Jobs /\ UNCHANGED documents
        /\ Ledger[held[w]].status = "queued" /\ Ledger[held[w]].kind = "extract"
    BY <1>4, AttemptInRange DEF ExtractSucceeds, Ledger
  <2>2. Ledger' = Lifecycle!RunRecorded(held[w], "succeeded")
    BY <1>4, <2>1, CommitIsARun, AttemptInRange DEF ExtractSucceeds, Succeeded, Row
  <2> QED
    BY <2>1, <2>2 DEF Lifecycle!Next, Lifecycle!Extract
<1>5. ASSUME NEW w \in Workers, FailsPermanently(w) \/ FailsTransiently(w)
      PROVE  Lifecycle!Next
  BY <1>5, FailureIsRetryOrGiveUp
<1>6. CASE UNCHANGED vars
  BY <1>6 DEF vars
<1> QED
  BY <1>1, <1>2, <1>3, <1>4, <1>5, <1>6 DEF Next, RunEnds, Poll

\* For a reader of the jobs table, the queue with all its workers, crashes and
\* rollbacks is a set of jobs whose runs are atomic.
THEOREM Refinement == Spec => ImplementsLifecycle
<1>1. Init => Lifecycle!Init
  BY DEF Init, Lifecycle!Init, Ledger, Unborn, Lifecycle!Unborn
<1>2. IInv /\ [Next]_vars => [Lifecycle!Next]_(Lifecycle!vars)
  BY StepRefines
<1> QED
  BY <1>1, <1>2, Invariance, PTL DEF Spec, ImplementsLifecycle, Lifecycle!Spec
===============================================================================
