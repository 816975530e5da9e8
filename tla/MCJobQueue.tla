------------------------------ MODULE MCJobQueue ------------------------------
\* Small instances of JobQueue for TLC. No crash, retry or lost session is
\* bounded: created_at counts registrations only and attempts are bounded by the
\* code, so the state space is finite without a constraint.
EXTENDS JobQueue

\* Each source takes one ingest job and at most one extract job.
ASSUME Cardinality(Jobs) >= 2 * MaxSources
===============================================================================
