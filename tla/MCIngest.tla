------------------------------- MODULE MCIngest -------------------------------
\* Small instances of Ingest for TLC. Two contents with the same text, one with
\* another and one without any: a document whose bytes change, a second document,
\* and a page that fails. Each content comes with one text, as one that is always
\* served with the same type does.
EXTENDS Ingest

CONSTANTS b1, b2, b3, b4, t1, t2

MCPages == {<<b1, t1>>, <<b2, t1>>, <<b3, t2>>, <<b4, NoText>>}
===============================================================================
