----------------------------- MODULE DocumentStore -----------------------------
(***************************************************************************)
(* What the documents table promises its readers (the extract stage, the   *)
(* review pages, the export): ingests look as if they ran one after the    *)
(* other.  Bytes that are stored change nothing; new bytes of a text that  *)
(* is stored become the provenance of its document; a new text becomes a   *)
(* document.  No row is ever removed and none changes its text.            *)
(*                                                                         *)
(* Ingest implements this module (Ingest_proofs, THEOREM Refinement).      *)
(***************************************************************************)
CONSTANTS
  Ids,       \* ids a document can have
  Texts,     \* extracted texts
  Pages,     \* what servers serve: <<bytes, text the parser makes of them>>
  NoBytes,   \* of no document
  NoText     \* of no document

VARIABLE documents

NoRow == [text |-> NoText, bytes |-> NoBytes]

Rows == {i \in Ids : documents[i] # NoRow}

Init == documents = [i \in Ids |-> NoRow]

\* The text of the page is that of document i, and no other one has its bytes.
Move(i, page) ==
  /\ i \in Rows /\ documents[i].text = page[2]
  /\ \A j \in Rows \ {i} : documents[j].bytes # page[1]
  /\ documents' = [documents EXCEPT ![i].bytes = page[1]]

Add(i, page) ==
  /\ i \notin Rows /\ page[2] \in Texts
  /\ \A j \in Rows : documents[j].bytes # page[1] /\ documents[j].text # page[2]
  /\ documents' = [documents EXCEPT ![i] = [text |-> page[2], bytes |-> page[1]]]

Next == \E i \in Ids, page \in Pages : Move(i, page) \/ Add(i, page)

Spec == Init /\ [][Next]_documents
===============================================================================
