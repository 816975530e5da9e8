----------------------------- MODULE MCExtraction -----------------------------
\* Small instances of Extraction for TLC. RunIds bounds how often processes
\* without a named run build a client.
EXTENDS Extraction
===============================================================================
