------------------------------- MODULE RunReport -------------------------------
(***************************************************************************)
(* What an extraction run is said to have done and to have cost: the       *)
(* report of scripts/extraction_run.py and the cost and status gauges of   *)
(* app/telemetry/metrics.py, from the rows the workers left behind.        *)
(*                                                                         *)
(* Tokens stand for every kind of usage and for its price.  Times are      *)
(* whole minutes; a report looks one minute further back than the start of *)
(* its run.  The script compares times as ISO strings, its own in UTC and  *)
(* those of the rows in the zone of the database session: they order as    *)
(* the times do where that is UTC too, as in the postgres image.           *)
(***************************************************************************)
EXTENDS Integers, FiniteSetsExt, Sums

\* The extractions of a document are numbered in the order of created_at; a row is
\* [status, tokens, time], and its rows are named by their numbers.
SumTokens(rows, ids) == Total([i \in ids |-> rows[i].tokens])

Cutoff(started) == started - 1

\* Mutant of RowsOfRun: all rows of the document.
RowsEver(rows, started) == DOMAIN rows

RowsOfRun(rows, started) == {i \in DOMAIN rows : rows[i].time >= Cutoff(started)}
EarlierRows(rows, started) == {i \in DOMAIN rows : rows[i].time < Cutoff(started)}

NoRow == [status |-> "none", tokens |-> 0, time |-> -1]

LastOf(rows, ids) == IF ids = {} THEN NoRow ELSE rows[Max(ids)]

\* A document of the report.  Its extract job is "none" when the ingest has not succeeded.
Entry(doc, started) ==
  LET ids == RowsOfRun(doc.rows, started)
      complete == {i \in EarlierRows(doc.rows, started) : doc.rows[i].status = "complete"}
      reused == ids = {} /\ doc.extract = "succeeded" /\ complete # {}
      final == LastOf(doc.rows, IF reused THEN complete ELSE ids)
  IN [final |-> final,
      reused |-> reused,
      tokens |-> SumTokens(doc.rows, ids),
      others |-> IF ids = {} THEN 0 ELSE SumTokens(doc.rows, ids \ {Max(ids)}),
      outcome |-> IF final.status = "complete" THEN "complete"
                  ELSE IF \/ doc.extract = "dead_letter"
                          \/ doc.extract = "none" /\ doc.ingest = "dead_letter"
                    THEN "dead_letter" ELSE "not_terminal",
      error |-> IF final # NoRow /\ final.status # "complete" THEN "of the row"
                ELSE IF doc.extract = "dead_letter" THEN "of the job"
                ELSE IF doc.ingest # "succeeded" THEN "of the ingest" ELSE "none"]

Report(docs, started) == [d \in DOMAIN docs |-> Entry(docs[d], started)]

\* summary.total_tokens: the final rows, reused ones as well, and the others.
TotalTokens(report) == Total([d \in DOMAIN report |-> report[d].final.tokens + report[d].others])

BilledTokens(report) == Total([d \in DOMAIN report |-> report[d].tokens])

ReusedTokens(report) ==
  Total([d \in DOMAIN report |-> IF report[d].reused THEN report[d].final.tokens ELSE 0])

\* The gauge of a document: its most recent extraction, or that there is none.
DocumentStatus(doc) ==
  IF DOMAIN doc.rows = {} THEN "pending" ELSE doc.rows[Max(DOMAIN doc.rows)].status

\* cost_total_usd goes over rows, not documents.
CostTotal(docs) == Total([d \in DOMAIN docs |-> SumTokens(docs[d].rows, DOMAIN docs[d].rows)])

\* What a row of the database was when only those before a time were there.
AsOf(docs, time) ==
  [d \in DOMAIN docs |->
     [docs[d] EXCEPT !.rows = Restrict(@, {i \in DOMAIN @ : @[i].time < time})]]

-------------------------------------------------------------------------------

\* Two runs over one corpus, the first reported when the second starts and rendered again
\* when the second is over (REPORT_ONLY). "Tokens and cost are attributed to THIS run only"
\* (extraction_run.py), up to the minute a report looks back: what the second is billed is
\* what the gauge of /metrics grew by since it started, and the strays of the minute before,
\* which are thereby billed twice; the first, rendered again, is billed the second run as
\* well. "No tokens or cost attributed to this run" of a reused row holds of the documents,
\* and of the summary only if no reused row has tokens. A document that is reported
\* complete, and not reused, is one whose gauge was complete then.
TokensAreAttributed(docs, first, second) ==
  LET then == AsOf(docs, second)
      one == Report(then, first)
      two == Report(docs, second)
      again == Report(docs, first)
      since == CostTotal(docs) - CostTotal(then)
      strays == CostTotal(then) - CostTotal(AsOf(docs, Cutoff(second)))
  IN /\ BilledTokens(two) = since + strays
     /\ BilledTokens(one) + BilledTokens(two) + CostTotal(AsOf(docs, Cutoff(first)))
          = CostTotal(docs) + strays
     /\ BilledTokens(again) = BilledTokens(one) + since
     /\ \A r \in {one, two, again} :
          TotalTokens(r) = BilledTokens(r) <=> ReusedTokens(r) = 0
     /\ \A d \in DOMAIN docs :
          /\ one[d].outcome = "complete" /\ ~one[d].reused =>
               DocumentStatus(then[d]) = "complete"
          /\ two[d].reused => two[d].tokens = 0 /\ two[d].final.time < Cutoff(second)
===============================================================================
