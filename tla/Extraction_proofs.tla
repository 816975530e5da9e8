-------------------------- MODULE Extraction_proofs --------------------------
(***************************************************************************)
(* What holds of Extraction for every number of documents, workers, runs   *)
(* and attempts.                                                           *)
(***************************************************************************)
EXTENDS Extraction, TLAPS

\* The key of the row that w is to insert, or has inserted.
Key(w) == <<doc[w], client[w]>>

\* The row of w is in the table, not yet committed.
Pending(w) == stage[w] \in {"inserted", "routing"}

\* A transaction extracts a document with a client; none, and no answers, otherwise.
BusyHaveKeys ==
  \A w \in Workers :
    IF stage[w] = "idle"
    THEN calls[w] = 0 /\ log[w] = 0
    ELSE doc[w] \in Documents /\ client[w] \in AllRuns

\* As long as the loop is undecided every answer is logged and one is left to ask for.
LoopIsAccountedFor ==
  \A w \in Workers :
    /\ log[w] <= calls[w]
    /\ stage[w] = "asking" => log[w] = calls[w] /\ calls[w] < MaxAttempts

\* Only one transaction has a row of a key, and the table has none.
PendingKeysAreNew ==
  \A w \in Workers : Pending(w) =>
    /\ complete[doc[w]][client[w]] = 0
    /\ \A v \in Workers : Pending(v) /\ Key(v) = Key(w) => v = w

\* The inductive invariant. OneCompletePerRun alone does not survive a commit: it
\* takes that the row committed had no rival since it was inserted.
IInv ==
  /\ TypeOK
  /\ BusyHaveKeys
  /\ LoopIsAccountedFor
  /\ PublishedRunsAreAccountedFor
  /\ PendingKeysAreNew
  /\ OneCompletePerRun

-------------------------------------------------------------------------------

\* No transaction runs and nothing is extracted at first.
LEMMA InitInvariant == Init => IInv
BY RunsAssumption, NullAssumption, AttemptsAssumption
   DEF Init, IInv, TypeOK, BusyHaveKeys, LoopIsAccountedFor, PublishedRunsAreAccountedFor,
       PendingKeysAreNew, OneCompletePerRun, Pending, Key, AllRuns

\* A worker that is done leaves rows and transactions of the others alone, so what
\* holds of them still does: RecordFailure, InsertRefused and Crash.
LEMMA DoneKeeps ==
  ASSUME IInv, NEW w \in Workers, Idle(w),
         UNCHANGED <<complete, setting, drawn>>,
         unlogged' \subseteq Documents,
         \/ UNCHANGED client
         \/ client' = [client EXCEPT ![w] = NoRun]
  PROVE  IInv'
<1> USE DEF IInv, Idle
<1>1. TypeOK'
  <2>1. routing' \in Workers \cup {Nobody}
    BY DEF TypeOK
  <2> QED BY <2>1 DEF TypeOK
<1>2. stage'[w] = "idle" /\ calls'[w] = 0 /\ log'[w] = 0
  BY DEF TypeOK
<1>3. \A v \in Workers \ {w} :
        /\ stage'[v] = stage[v] /\ doc'[v] = doc[v] /\ client'[v] = client[v]
        /\ calls'[v] = calls[v] /\ log'[v] = log[v]
  BY DEF TypeOK
<1>4. BusyHaveKeys'
  BY <1>2, <1>3 DEF BusyHaveKeys
<1>5. LoopIsAccountedFor' /\ PublishedRunsAreAccountedFor'
  BY <1>2, <1>3, AttemptsAssumption DEF LoopIsAccountedFor, PublishedRunsAreAccountedFor, TypeOK
<1>6. PendingKeysAreNew'
  BY <1>2, <1>3 DEF PendingKeysAreNew, Pending, Key
<1>7. OneCompletePerRun'
  BY DEF OneCompletePerRun
<1> QED BY <1>1, <1>4, <1>5, <1>6, <1>7

\* An answer that moves the loop on: the stages it may lead to, with what they owe.
LEMMA LoopKeeps ==
  ASSUME IInv, NEW w \in Workers, NEW s, NEW billed \in 0 .. 1, NEW logged \in Nat,
         LoopGoesTo(w, s, billed, logged),
         \/ s = "failed" /\ logged <= log[w] + billed
         \/ s = "valid" /\ billed = 1 /\ logged = log[w] + 1
         \/ s = "asking" /\ billed = 1 /\ logged = log[w] + 1 /\ logged < MaxAttempts
  PROVE  IInv'
<1> USE DEF IInv, LoopGoesTo, clients
<1>1. TypeOK'
  BY DEF TypeOK
<1>2. /\ stage[w] = "asking" /\ stage'[w] = s
      /\ calls'[w] = calls[w] + billed /\ log'[w] = logged
  BY DEF TypeOK
<1>3. \A v \in Workers \ {w} :
        stage'[v] = stage[v] /\ calls'[v] = calls[v] /\ log'[v] = log[v]
  BY DEF TypeOK
<1>4. log[w] = calls[w] /\ calls[w] < MaxAttempts
  BY <1>2 DEF LoopIsAccountedFor
<1>5. BusyHaveKeys'
  BY <1>2, <1>3 DEF BusyHaveKeys
<1>6. LoopIsAccountedFor'
  BY <1>2, <1>3, <1>4, AttemptsAssumption DEF LoopIsAccountedFor, TypeOK
<1>7. PublishedRunsAreAccountedFor'
  BY <1>2, <1>3, <1>4, AttemptsAssumption DEF PublishedRunsAreAccountedFor, TypeOK
<1>8. PendingKeysAreNew'
  BY <1>2, <1>3 DEF PendingKeysAreNew, Pending, Key
<1>9. OneCompletePerRun'
  BY DEF OneCompletePerRun
<1> QED BY <1>1, <1>5, <1>6, <1>7, <1>8, <1>9

\* The model's next answer, whatever it is.
LEMMA AnswerKeeps ==
  ASSUME IInv, NEW w \in Workers, Answer(w)
  PROVE  IInv'
<1>0. log[w] \in Nat
  BY DEF IInv, TypeOK
<1>1. CASE AnswerIsValid(w)
  BY <1>0, <1>1, LoopKeeps DEF AnswerIsValid
<1>2. CASE AnswerIsInvalid(w)
  BY <1>0, <1>2, LoopKeeps DEF AnswerIsInvalid
<1>3. CASE AnswerIsUnusable(w)
  BY <1>0, <1>3, LoopKeeps DEF AnswerIsUnusable
<1>4. CASE CallFails(w)
  BY <1>0, <1>4, LoopKeeps DEF CallFails
<1>5. CASE LoopBreaks(w)
  BY <1>0, <1>5, LoopKeeps DEF LoopBreaks
<1> QED BY <1>1, <1>2, <1>3, <1>4, <1>5 DEF Answer

\* The insert: the unique index lets in the first row of a key only.
LEMMA InsertKeeps ==
  ASSUME IInv, NEW w \in Workers, InsertComplete(w)
  PROVE  IInv'
<1> USE DEF IInv, InsertComplete, clients
<1>1. TypeOK'
  BY DEF TypeOK
<1>2. stage[w] = "valid" /\ stage'[w] = "inserted"
  BY DEF TypeOK
<1>3. \A v \in Workers \ {w} : stage'[v] = stage[v]
  BY DEF TypeOK
<1>4. BusyHaveKeys' /\ LoopIsAccountedFor' /\ PublishedRunsAreAccountedFor'
  BY <1>2, <1>3
     DEF BusyHaveKeys, LoopIsAccountedFor, PublishedRunsAreAccountedFor
<1>5. doc[w] \in Documents /\ client[w] \in AllRuns
  BY <1>2 DEF BusyHaveKeys
<1>6. complete[doc[w]][client[w]] = 0
  BY <1>5 DEF Known, TypeOK
<1>7. \A v \in Workers \ {w} : Pending(v) => Key(v) # Key(w)
  BY DEF KeyIsPending, Pending, Key
<1>8. PendingKeysAreNew'
  <2> SUFFICES ASSUME NEW v \in Workers, Pending(v)'
               PROVE  /\ (complete[doc[v]][client[v]] = 0)'
                      /\ \A x \in Workers : (Pending(x) /\ Key(x) = Key(v) => x = v)'
    BY DEF PendingKeysAreNew
  <2>1. \A x \in Workers \ {w} : Pending(x)' <=> Pending(x)
    BY <1>3 DEF Pending
  <2>2. \A x \in Workers : Key(x)' = Key(x)
    BY DEF Key
  <2>3. CASE v = w
    BY <1>6, <1>7, <2>1, <2>2, <2>3
  <2>4. CASE v # w
    <3>1. Pending(v)
      BY <2>1, <2>4
    <3>2. /\ complete[doc[v]][client[v]] = 0
          /\ \A x \in Workers : Pending(x) /\ Key(x) = Key(v) => x = v
      BY <3>1 DEF PendingKeysAreNew
    <3> QED BY <1>7, <2>1, <2>2, <2>4, <3>1, <3>2
  <2> QED BY <2>3, <2>4
<1>9. OneCompletePerRun'
  BY DEF OneCompletePerRun
<1> QED BY <1>1, <1>4, <1>8, <1>9

\* The routing lock is one more thing a pending row waits for, nothing else.
LEMMA RoutingKeeps ==
  ASSUME IInv, NEW w \in Workers, TakeRoutingLock(w)
  PROVE  IInv'
<1> USE DEF IInv, TakeRoutingLock, clients
<1>1. TypeOK'
  BY DEF TypeOK
<1>2. stage[w] = "inserted" /\ stage'[w] = "routing"
  BY DEF TypeOK
<1>3. \A v \in Workers \ {w} : stage'[v] = stage[v]
  BY DEF TypeOK
<1>4. BusyHaveKeys' /\ LoopIsAccountedFor' /\ PublishedRunsAreAccountedFor'
  BY <1>2, <1>3
     DEF BusyHaveKeys, LoopIsAccountedFor, PublishedRunsAreAccountedFor
<1>5. \A v \in Workers : (Pending(v)' <=> Pending(v)) /\ Key(v)' = Key(v)
  BY <1>2, <1>3 DEF Pending, Key
<1>6. PendingKeysAreNew'
  BY <1>5 DEF PendingKeysAreNew
<1>7. OneCompletePerRun'
  BY DEF OneCompletePerRun
<1> QED BY <1>1, <1>4, <1>6, <1>7

\* The commit publishes the only row of its key.
LEMMA CommitKeeps ==
  ASSUME IInv, NEW w \in Workers, CommitComplete(w)
  PROVE  IInv'
<1> USE DEF IInv, CommitComplete, clients
<1>1. Pending(w)
  BY DEF Pending
<1>2. doc[w] \in Documents /\ client[w] \in AllRuns
  BY DEF BusyHaveKeys
<1>3. complete[doc[w]][client[w]] = 0
  BY <1>1 DEF PendingKeysAreNew
<1>4. /\ complete' \in [Documents -> [AllRuns -> Nat]]
      /\ \A d \in Documents, r \in AllRuns :
           complete'[d][r] = IF d = doc[w] /\ r = client[w] THEN 1 ELSE complete[d][r]
  BY <1>2, <1>3 DEF TypeOK
<1>5. /\ stage'[w] = "idle" /\ calls'[w] = 0 /\ log'[w] = 0
      /\ \A v \in Workers \ {w} :
           /\ stage'[v] = stage[v] /\ doc'[v] = doc[v] /\ client'[v] = client[v]
           /\ calls'[v] = calls[v] /\ log'[v] = log[v]
  BY DEF TypeOK, Idle
<1>6. TypeOK'
  <2>1. routing' \in Workers \cup {Nobody}
    BY DEF TypeOK, Idle
  <2> QED BY <1>4, <2>1 DEF TypeOK, Idle
<1>7. BusyHaveKeys'
  BY <1>5 DEF BusyHaveKeys
<1>8. LoopIsAccountedFor' /\ PublishedRunsAreAccountedFor'
  BY <1>5, AttemptsAssumption DEF LoopIsAccountedFor, PublishedRunsAreAccountedFor, TypeOK
<1>9. PendingKeysAreNew'
  <2> SUFFICES ASSUME NEW v \in Workers, Pending(v)'
               PROVE  /\ (complete[doc[v]][client[v]] = 0)'
                      /\ \A x \in Workers : (Pending(x) /\ Key(x) = Key(v) => x = v)'
    BY DEF PendingKeysAreNew
  <2>1. v # w /\ Pending(v)
    BY <1>5 DEF Pending
  <2>2. complete[doc[v]][client[v]] = 0 /\ Key(v) # Key(w)
    BY <1>1, <2>1 DEF PendingKeysAreNew
  <2>3. doc[v] \in Documents /\ client[v] \in AllRuns
    BY <2>1 DEF BusyHaveKeys, Pending
  <2>4. complete'[doc'[v]][client'[v]] = 0
    BY <1>4, <1>5, <2>1, <2>2, <2>3 DEF Key
  <2>5. \A x \in Workers : Pending(x)' /\ Key(x)' = Key(v)' => x = v
    BY <1>5, <2>1 DEF PendingKeysAreNew, Pending, Key
  <2> QED BY <2>4, <2>5
<1>10. OneCompletePerRun'
  BY <1>4 DEF OneCompletePerRun
<1> QED BY <1>6, <1>7, <1>8, <1>9, <1>10

\* What a worker without a job does, and the start of one.
LEMMA BeginningsKeep ==
  ASSUME IInv, NEW w \in Workers,
         \/ BuildClient(w) \/ BuildFails(w)
         \/ \E d \in Documents : FindsDuplicate(w, d) \/ StartExtract(w, d)
  PROVE  IInv'
<1> USE DEF IInv
<1>1. CASE BuildClient(w)
  <2> USE <1>1 DEF BuildClient
  <2>1. client'[w] \in AllRuns /\ drawn' \subseteq RunIds
    BY DEF TypeOK, AllRuns
  <2>2. client' \in [Workers -> AllRuns \cup {NoRun}]
    BY <2>1 DEF TypeOK
  <2>3. TypeOK'
    BY <2>1, <2>2 DEF TypeOK
  <2>4. stage[w] = "idle" /\ \A v \in Workers \ {w} : client'[v] = client[v]
    BY DEF TypeOK
  <2>5. BusyHaveKeys' /\ LoopIsAccountedFor' /\ PublishedRunsAreAccountedFor'
    BY <2>4 DEF BusyHaveKeys, LoopIsAccountedFor, PublishedRunsAreAccountedFor
  <2>6. PendingKeysAreNew' /\ OneCompletePerRun'
    BY <2>4 DEF PendingKeysAreNew, OneCompletePerRun, Pending, Key
  <2> QED BY <2>3, <2>5, <2>6
<1>2. CASE BuildFails(w) \/ \E d \in Documents : FindsDuplicate(w, d)
  <2>1. UNCHANGED vars
    BY <1>2 DEF BuildFails, FindsDuplicate
  <2> QED
    BY <2>1 DEF vars, clients, TypeOK, BusyHaveKeys, LoopIsAccountedFor,
                PublishedRunsAreAccountedFor, PendingKeysAreNew, OneCompletePerRun, Pending, Key
<1>3. ASSUME NEW d \in Documents, StartExtract(w, d)
      PROVE  IInv'
  <2> USE <1>3 DEF StartExtract, clients
  <2>1. TypeOK'
    BY DEF TypeOK
  <2>2. /\ stage[w] = "idle" /\ stage'[w] = "asking" /\ doc'[w] = d
        /\ \A v \in Workers \ {w} : stage'[v] = stage[v] /\ doc'[v] = doc[v]
    BY DEF TypeOK
  <2>3. BusyHaveKeys'
    BY <2>2 DEF BusyHaveKeys, TypeOK
  <2>4. LoopIsAccountedFor' /\ PublishedRunsAreAccountedFor'
    BY <2>2, AttemptsAssumption
       DEF BusyHaveKeys, LoopIsAccountedFor, PublishedRunsAreAccountedFor, TypeOK
  <2>5. PendingKeysAreNew' /\ OneCompletePerRun'
    BY <2>2 DEF PendingKeysAreNew, OneCompletePerRun, Pending, Key
  <2> QED BY <2>1, <2>3, <2>4, <2>5
<1> QED BY <1>1, <1>2, <1>3, <1>3

\* Every step keeps the invariant.
LEMMA StepInvariant == IInv /\ [Next]_vars => IInv'
<1> SUFFICES ASSUME IInv, [Next]_vars PROVE IInv'
  OBVIOUS
<1>1. CASE UNCHANGED vars
  BY <1>1 DEF vars, clients, IInv, TypeOK, BusyHaveKeys, LoopIsAccountedFor,
              PublishedRunsAreAccountedFor, PendingKeysAreNew, OneCompletePerRun, Pending, Key
<1>2. ASSUME NEW w \in Workers, Continue(w)
      PROVE  IInv'
  <2>1. CASE Answer(w)
    BY <2>1, AnswerKeeps
  <2>2. CASE RecordFailure(w)
    <3>1. doc[w] \in Documents
      BY <2>2 DEF RecordFailure, IInv, BusyHaveKeys
    <3>2. unlogged' \subseteq Documents
      BY <2>2, <3>1 DEF RecordFailure, IInv, TypeOK
    <3> QED BY <2>2, <3>2, DoneKeeps DEF RecordFailure, clients
  <2>3. CASE InsertComplete(w)
    BY <2>3, InsertKeeps
  <2>4. CASE InsertRefused(w)
    BY <2>4, DoneKeeps DEF InsertRefused, IInv, TypeOK
  <2>5. CASE TakeRoutingLock(w)
    BY <2>5, RoutingKeeps
  <2>6. CASE CommitComplete(w)
    BY <2>6, CommitKeeps
  <2> QED BY <1>2, <2>1, <2>2, <2>3, <2>4, <2>5, <2>6 DEF Continue
<1>3. ASSUME NEW w \in Workers, Crash(w)
      PROVE  IInv'
  BY <1>3, DoneKeeps DEF Crash, IInv, TypeOK
<1> QED BY <1>1, <1>2, <1>3, BeginningsKeep DEF Next

\* IInv holds in every reachable state.
THEOREM Invariance == Spec => []IInv
BY InitInvariant, StepInvariant, PTL DEF Spec

\* Rows, clients and transactions are what schema.py and llm.py declare.
THEOREM TypeCorrect == Spec => []TypeOK
<1>1. IInv => TypeOK
  BY DEF IInv
<1> QED BY <1>1, Invariance, PTL

\* A document has one complete extraction per run, whatever the workers that share
\* the run do: ux_extractions_complete, not the check at the start, sees to it.
THEOREM OneExtractionPerRun == Spec => []OneCompletePerRun
<1>1. IInv => OneCompletePerRun
  BY DEF IInv
<1> QED BY <1>1, Invariance, PTL

\* A published run shows every answer it was billed for, and they were at most
\* extraction_max_attempts.
THEOREM PublishedAreAccountedFor == Spec => []PublishedRunsAreAccountedFor
<1>1. IInv => PublishedRunsAreAccountedFor
  BY DEF IInv
<1> QED BY <1>1, Invariance, PTL
===============================================================================
