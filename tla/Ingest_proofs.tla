---------------------------- MODULE Ingest_proofs ----------------------------
(***************************************************************************)
(* What holds of Ingest for any pages and any number of workers.           *)
(***************************************************************************)
EXTENDS Ingest, TLAPS

\* The same bytes always come with the same type.
OneTextPerBytes == \A p, q \in Pages : p[1] = q[1] => p[2] = q[2]

\* What a transaction is to write: a row that is there, or one that is not.
Moving(w) == stage[w] \in {"updating", "locked", "moved"}
Adding(w) == stage[w] \in {"inserting", "entered", "inserted"}

\* Its bytes are in their index.
HasBytes(w) == stage[w] \in {"moved", "entered", "inserted"}

\* A transaction works on a page, and from parsing on on a text.
FetchesArePages ==
  \A w \in Workers :
    /\ stage[w] # "idle" => <<bytes[w], content[w]>> \in Pages
    /\ stage[w] = "parsed" \/ Moving(w) \/ Adding(w) => content[w] \in Texts

\* The row it is to change has its text, the row it is to add nobody else knows.
TargetsFit ==
  \A w \in Workers :
    /\ stage[w] = "found" => target[w] \in Rows
    /\ Moving(w) => target[w] \in Rows /\ documents[target[w]].text = content[w]
    /\ Adding(w) =>
         /\ target[w] \in Ids \ Rows
         /\ \A v \in Workers : target[v] = target[w] => v = w

\* A row is locked by one transaction.
LocksAreSole ==
  \A v, w \in Workers : Updating(v) /\ Updating(w) /\ target[v] = target[w] => v = w

\* The first index has no two equal entries, pending ones included.
EntriesDiffer ==
  \A w \in Workers : HasBytes(w) =>
    /\ WithBytes(bytes[w]) \subseteq {target[w]}
    /\ \A v \in Workers : HasBytes(v) /\ bytes[v] = bytes[w] => v = w

\* The second index neither.
NewTextsDiffer ==
  \A w \in Workers : stage[w] = "inserted" =>
    /\ WithText(content[w]) = {}
    /\ \A v \in Workers : stage[v] = "inserted" /\ content[v] = content[w] => v = w

\* The bytes stored for a document are bytes its text was extracted from.
StoredBytesYieldTheText == \A i \in Rows : <<documents[i].bytes, documents[i].text>> \in Pages

\* What a transaction has not found is not there, unless another one committed.
LookupsHold ==
  \A w \in Workers \ raced :
    /\ stage[w] \in {"parsed", "updating", "inserting", "locked"} => WithBytes(bytes[w]) = {}
    /\ stage[w] \in {"inserting", "entered"} => WithText(content[w]) = {}

\* The inductive invariant.
IInv ==
  /\ TypeOK
  /\ FetchesArePages
  /\ TargetsFit
  /\ LocksAreSole
  /\ EntriesDiffer
  /\ NewTextsDiffer
  /\ LookupsHold
  /\ OneDocumentPerText
  /\ StoredBytesYieldTheText
  /\ OneTextPerBytes => ResultHasItsText

-------------------------------------------------------------------------------

\* A committed row has a text and bytes.
LEMMA RowsAreRecords ==
  ASSUME TypeOK
  PROVE  /\ \A i \in Rows : documents[i].text \in Texts /\ documents[i].bytes \in Bytes
         /\ \A i \in Rows : documents[i] = [text |-> documents[i].text, bytes |-> documents[i].bytes]
BY DEF TypeOK, Rows

\* At first there are no rows and no transactions.
LEMMA InitInvariant == Init => IInv
<1> SUFFICES ASSUME Init PROVE IInv
  OBVIOUS
<1>1. TypeOK
  BY DEF Init, TypeOK
<1>2. Rows = {} /\ \A w \in Workers : stage[w] = "idle"
  BY DEF Init, Rows
<1> QED
  BY <1>1, <1>2 DEF IInv, FetchesArePages, TargetsFit, LocksAreSole, EntriesDiffer,
     NewTextsDiffer, LookupsHold, OneDocumentPerText, StoredBytesYieldTheText,
     ResultHasItsText, Moving, Adding, Updating, HasBytes

\* Every step of worker w leaves what the others hold as it is, so that only
\* what w and the documents become is left to show.
Others(w) ==
  \A v \in Workers \ {w} :
    /\ stage'[v] = stage[v] /\ bytes'[v] = bytes[v]
    /\ content'[v] = content[v] /\ target'[v] = target[v]

\* The end of a transaction that publishes nothing.
LEMMA EndKeeps ==
  ASSUME IInv, NEW w \in Workers, Idle(w), UNCHANGED <<documents, raced>>
  PROVE  IInv'
<1> USE DEF IInv
<1>1. TypeOK'
  BY DEF Idle, TypeOK
<1>2. Others(w) /\ stage'[w] = "idle" /\ target'[w] = NoId
  BY DEF Idle, TypeOK, Others
<1>3. /\ Rows' = Rows
      /\ \A b : WithBytes(b)' = WithBytes(b)
      /\ \A t : WithText(t)' = WithText(t)
  BY DEF Rows, WithBytes, WithText
<1> USE <1>2, <1>3 DEF Others
<1>4. FetchesArePages'
  BY DEF FetchesArePages, Moving, Adding
<1>5. TargetsFit'
  BY NullAssumption DEF TargetsFit, Moving, Adding
<1>6. LocksAreSole'
  BY DEF LocksAreSole, Updating
<1>7. EntriesDiffer'
  BY DEF EntriesDiffer, HasBytes
<1>8. NewTextsDiffer'
  BY DEF NewTextsDiffer
<1>9. LookupsHold'
  BY DEF LookupsHold
<1>10. OneDocumentPerText' /\ StoredBytesYieldTheText'
  BY DEF OneDocumentPerText, StoredBytesYieldTheText
<1>11. (OneTextPerBytes => ResultHasItsText)'
  BY DEF OneTextPerBytes, ResultHasItsText
<1> QED BY <1>1, <1>4, <1>5, <1>6, <1>7, <1>8, <1>9, <1>10, <1>11

\* A fetch begins a transaction.
LEMMA FetchKeeps ==
  ASSUME IInv, NEW w \in Workers, NEW page \in Pages, Fetch(w, page)
  PROVE  IInv'
<1> USE DEF IInv, Fetch
<1>1. page[1] \in Bytes /\ page[2] \in Texts \cup {NoText} /\ page = <<page[1], page[2]>>
  BY PagesAssumption
<1>2. TypeOK'
  BY <1>1 DEF TypeOK
<1>3. /\ Others(w) /\ target' = target
      /\ stage'[w] = "fetched" /\ bytes'[w] = page[1] /\ content'[w] = page[2]
  BY DEF TypeOK, Others
<1>4. /\ Rows' = Rows
      /\ \A b : WithBytes(b)' = WithBytes(b)
      /\ \A t : WithText(t)' = WithText(t)
  BY DEF Rows, WithBytes, WithText
<1> USE <1>3, <1>4 DEF Others
<1>5. FetchesArePages'
  BY <1>1 DEF FetchesArePages, Moving, Adding
<1>6. TargetsFit'
  BY DEF TargetsFit, Moving, Adding
<1>7. LocksAreSole'
  BY DEF LocksAreSole, Updating
<1>8. EntriesDiffer'
  BY DEF EntriesDiffer, HasBytes
<1>9. NewTextsDiffer'
  BY DEF NewTextsDiffer
<1>10. LookupsHold'
  BY DEF LookupsHold
<1>11. OneDocumentPerText' /\ StoredBytesYieldTheText'
  BY DEF OneDocumentPerText, StoredBytesYieldTheText
<1>12. (OneTextPerBytes => ResultHasItsText)'
  BY DEF OneTextPerBytes, ResultHasItsText
<1> QED BY <1>2, <1>5, <1>6, <1>7, <1>8, <1>9, <1>10, <1>11, <1>12

\* A lookup reads the rows and chooses a target.
LEMMA LookUpKeeps ==
  ASSUME IInv, NEW w \in Workers, LookUp(w)
  PROVE  IInv'
<1> USE DEF IInv
<1>1. CASE KnownBytes(w) \/ KnownText(w) \/ NewText(w)
  <2> DEFINE s == stage'[w]
  <2> DEFINE i == target'[w]
  <2>1. UNCHANGED <<documents, bytes, content, raced>>
    BY <1>1 DEF KnownBytes, KnownText, NewText
  <2>2. \/ KnownBytes(w) /\ s = "found" /\ i \in WithBytes(bytes[w])
        \/ KnownText(w) /\ s = "updating" /\ i \in WithText(content[w])
        \/ /\ NewText(w) /\ s = "inserting" /\ i \in FreshIds
           /\ WithText(content[w]) = {}
    BY <1>1 DEF KnownBytes, KnownText, NewText, TypeOK
  <2>3. i \in Ids /\ (s # "inserting" => i \in Rows) /\ (s = "inserting" => i \in FreshIds)
    BY <2>2 DEF WithBytes, WithText, Rows, FreshIds
  <2>4. /\ target' = [target EXCEPT ![w] = i]
        /\ stage' = [stage EXCEPT ![w] = s]
    BY <1>1 DEF KnownBytes, KnownText, NewText, TypeOK
  <2>5. Others(w)
    BY <2>1, <2>4 DEF Others, TypeOK
  <2>6. TypeOK'
    BY <2>1, <2>2, <2>3, <2>4 DEF TypeOK
  <2>7. /\ Rows' = Rows
        /\ \A b : WithBytes(b)' = WithBytes(b)
        /\ \A t : WithText(t)' = WithText(t)
    BY <2>1 DEF Rows, WithBytes, WithText
  <2>8. s \in {"found", "updating", "inserting"} /\ (s # "found" => stage[w] = "parsed")
    BY <2>2 DEF KnownText, NewText
  <2>9. stage[w] \in {"fetched", "parsed"}
    BY <2>2 DEF KnownBytes, KnownText, NewText
  <2> USE <2>1, <2>5, <2>7, <2>8, <2>9 DEF Others
  <2> HIDE DEF s, i
  <2>10. s = stage'[w] /\ i = target'[w]
    BY DEF s, i
  <2>11. FetchesArePages'
    BY <2>10 DEF FetchesArePages, Moving, Adding
  <2>12. TargetsFit'
    <3>1. \A v \in Workers \ {w} : Adding(v) => i # target[v]
      BY <2>3 DEF TargetsFit, FreshIds, Adding
    <3>2. s = "inserting" => \A v \in Workers : target[v] # i
      BY <2>3 DEF FreshIds
    <3>3. s = "inserting" => i \in Ids \ Rows
      BY <2>3 DEF FreshIds
    <3>4. s = "updating" => i \in Rows /\ documents[i].text = content[w]
      BY <2>2, <2>3 DEF WithText
    <3> QED BY <2>3, <2>10, <3>1, <3>2, <3>3, <3>4 DEF TargetsFit, Moving, Adding
  <2>13. LocksAreSole'
    BY <2>10 DEF LocksAreSole, Updating
  <2>14. EntriesDiffer'
    BY <2>10 DEF EntriesDiffer, HasBytes
  <2>15. NewTextsDiffer'
    BY <2>10 DEF NewTextsDiffer
  <2>16. LookupsHold'
    BY <2>2, <2>10 DEF LookupsHold
  <2>17. OneDocumentPerText' /\ StoredBytesYieldTheText'
    BY DEF OneDocumentPerText, StoredBytesYieldTheText
  <2>18. (OneTextPerBytes => ResultHasItsText)'
    <3> SUFFICES ASSUME OneTextPerBytes PROVE ResultHasItsText'
      BY DEF OneTextPerBytes
    <3>1. s = "found" => documents[i].text = content[w]
      <4> SUFFICES ASSUME s = "found" PROVE documents[i].text = content[w]
        OBVIOUS
      <4>1. i \in Rows /\ documents[i].bytes = bytes[w]
        BY <2>2 DEF WithBytes
      <4>2. <<documents[i].bytes, documents[i].text>> \in Pages
        BY <4>1 DEF StoredBytesYieldTheText
      <4>3. <<bytes[w], content[w]>> \in Pages
        BY DEF FetchesArePages
      <4> QED BY <4>1, <4>2, <4>3 DEF OneTextPerBytes
    <3>2. s = "updating" => documents[i].text = content[w]
      BY <2>2 DEF WithText
    <3>3. \A v \in Workers \ {w} :
            stage[v] \in {"found", "updating", "locked", "moved"} =>
              target[v] \in Rows /\ documents[target[v]].text = content[v]
      BY DEF ResultHasItsText
    <3> QED BY <2>3, <2>10, <3>1, <3>2, <3>3 DEF ResultHasItsText
  <2> QED BY <2>6, <2>11, <2>12, <2>13, <2>14, <2>15, <2>16, <2>17, <2>18
<1>2. CASE ParseNew(w)
  <2> USE <1>2 DEF ParseNew
  <2>1. TypeOK'
    BY DEF TypeOK
  <2>2. Others(w) /\ target' = target /\ stage[w] = "fetched" /\ stage'[w] = "parsed"
    BY DEF Others, TypeOK
  <2>3. /\ Rows' = Rows
        /\ \A b : WithBytes(b)' = WithBytes(b)
        /\ \A t : WithText(t)' = WithText(t)
    BY DEF Rows, WithBytes, WithText
  <2> USE <2>2, <2>3 DEF Others
  <2>4. FetchesArePages'
    BY DEF FetchesArePages, Moving, Adding, TypeOK
  <2>5. TargetsFit' /\ LocksAreSole' /\ EntriesDiffer' /\ NewTextsDiffer'
    BY DEF TargetsFit, LocksAreSole, EntriesDiffer, NewTextsDiffer, Moving, Adding,
           Updating, HasBytes
  <2>6. LookupsHold'
    BY DEF LookupsHold
  <2>7. OneDocumentPerText' /\ StoredBytesYieldTheText' /\ (OneTextPerBytes => ResultHasItsText)'
    BY DEF OneDocumentPerText, StoredBytesYieldTheText, OneTextPerBytes, ResultHasItsText
  <2> QED BY <2>1, <2>4, <2>5, <2>6, <2>7
<1> QED BY <1>1, <1>2 DEF LookUp

\* A statement gets one lock or one index further.
LEMMA AdvanceKeeps ==
  ASSUME IInv, NEW w \in Workers, LockRow(w) \/ EnterBytes(w) \/ EnterText(w)
  PROVE  IInv'
<1> USE DEF IInv
<1>1. UNCHANGED <<documents, bytes, content, target, raced>>
  BY DEF LockRow, EnterBytes, EnterText, Advance
<1>2. \/ stage[w] = "updating" /\ stage'[w] = "locked" /\ RowHolders(w) = {}
      \/ /\ \/ stage[w] = "inserting" /\ stage'[w] = "entered"
            \/ stage[w] = "locked" /\ stage'[w] = "moved"
         /\ BytesHolders(w) = {} /\ WithBytes(bytes[w]) \subseteq {target[w]}
      \/ /\ stage[w] = "entered" /\ stage'[w] = "inserted"
         /\ TextHolders(w) = {} /\ WithText(content[w]) = {}
  BY DEF LockRow, EnterBytes, EnterText, Advance, TypeOK
<1>3. Others(w)
  BY <1>1 DEF LockRow, EnterBytes, EnterText, Advance, TypeOK, Others
<1>4. TypeOK'
  <2>1. stage' = [stage EXCEPT ![w] = stage'[w]]
    BY DEF LockRow, EnterBytes, EnterText, Advance, TypeOK
  <2>2. stage'[w] \in {"locked", "entered", "moved", "inserted"}
    BY <1>2
  <2>3. stage' \in [Workers -> {"idle", "fetched", "found", "parsed", "updating", "inserting",
                                "locked", "moved", "entered", "inserted"}]
    BY <2>1, <2>2 DEF TypeOK
  <2> QED BY <1>1, <2>3 DEF TypeOK
<1>5. /\ Rows' = Rows
      /\ \A b : WithBytes(b)' = WithBytes(b)
      /\ \A t : WithText(t)' = WithText(t)
  BY <1>1 DEF Rows, WithBytes, WithText
<1>6. /\ \A v \in Workers : Moving(v)' <=> Moving(v)
      /\ \A v \in Workers : Adding(v)' <=> Adding(v)
  BY <1>2, <1>3 DEF Moving, Adding, Others
<1>7. FetchesArePages'
  BY <1>1, <1>2, <1>3, <1>6 DEF FetchesArePages, Others, Adding, Moving
<1>8. TargetsFit'
  BY <1>1, <1>2, <1>3, <1>5, <1>6 DEF TargetsFit, Others
<1>9. LocksAreSole'
  BY <1>1, <1>2, <1>3 DEF LocksAreSole, Updating, Others, RowHolders
<1>10. EntriesDiffer'
  <2>1. CASE BytesHolders(w) = {} /\ WithBytes(bytes[w]) \subseteq {target[w]}
    <3>1. \A v \in Workers \ {w} : HasBytes(v) => bytes[v] # bytes[w]
      BY <2>1 DEF BytesHolders, HasBytes, Inserting
    <3> QED BY <1>1, <1>3, <1>5, <2>1, <3>1 DEF EntriesDiffer, HasBytes, Others
  <2>2. CASE HasBytes(w)' <=> HasBytes(w)
    BY <1>1, <1>3, <1>5, <2>2 DEF EntriesDiffer, HasBytes, Others
  <2> QED BY <1>2, <2>1, <2>2 DEF HasBytes
<1>11. NewTextsDiffer'
  BY <1>1, <1>2, <1>3, <1>5 DEF NewTextsDiffer, TextHolders, Others
<1>12. LookupsHold'
  BY <1>1, <1>2, <1>3, <1>5 DEF LookupsHold, Others
<1>13. OneDocumentPerText' /\ StoredBytesYieldTheText'
  BY <1>1, <1>5 DEF OneDocumentPerText, StoredBytesYieldTheText
<1>14. (OneTextPerBytes => ResultHasItsText)'
  BY <1>1, <1>2, <1>3, <1>5 DEF OneTextPerBytes, ResultHasItsText, Others
<1> QED BY <1>4, <1>7, <1>8, <1>9, <1>10, <1>11, <1>12, <1>13, <1>14

\* The commit of a row whose provenance moved.
LEMMA MoveKeeps ==
  ASSUME IInv, NEW w \in Workers, Commit(w), stage[w] = "moved"
  PROVE  IInv'
<1> USE DEF IInv
<1> DEFINE i == target[w]
<1>1. i \in Rows /\ i \in Ids /\ documents[i].text = content[w]
  BY DEF TargetsFit, Moving, Rows
<1>2. bytes[w] \in Bytes /\ <<bytes[w], content[w]>> \in Pages /\ content[w] \in Texts
  BY PagesAssumption, NullAssumption DEF FetchesArePages, Moving, TypeOK
<1>3. documents' = [documents EXCEPT ![i].bytes = bytes[w]]
  BY DEF Commit
<1>4. documents'[i] = [text |-> content[w], bytes |-> bytes[w]]
  <2>1. documents'[i] = [documents[i] EXCEPT !.bytes = bytes[w]]
    BY <1>1, <1>3 DEF TypeOK
  <2>2. documents[i] = [text |-> content[w], bytes |-> documents[i].bytes]
    BY <1>1, RowsAreRecords
  <2> HIDE DEF i
  <2> QED BY <2>1, <2>2
<1>5. \A j \in Ids \ {i} : documents'[j] = documents[j]
  BY <1>3 DEF TypeOK
<1>6. /\ Others(w) /\ raced' = Workers
      /\ stage'[w] = "idle" /\ target'[w] = NoId
  BY DEF Commit, Idle, TypeOK, Others
<1>7. TypeOK'
  <2>1. documents' \in [Ids -> [text : Texts, bytes : Bytes] \cup {NoRow}]
    BY <1>1, <1>2, <1>3, <1>4, <1>5 DEF TypeOK
  <2> QED BY <2>1, <1>6 DEF TypeOK, Commit, Idle
<1>8. Rows' = Rows /\ \A j \in Rows : documents'[j].text = documents[j].text
  BY <1>1, <1>2, <1>4, <1>5, NullAssumption DEF Rows, NoRow
<1>9. \A t : WithText(t)' = WithText(t)
  BY <1>8 DEF WithText
<1>10. \A b : b # bytes[w] => WithBytes(b)' \subseteq WithBytes(b)
  BY <1>4, <1>5, <1>8 DEF WithBytes, Rows
<1> HIDE DEF i
<1> USE <1>6 DEF Others
<1>11. FetchesArePages'
  BY DEF FetchesArePages, Moving, Adding
<1>12. TargetsFit'
  BY <1>8, NullAssumption DEF TargetsFit, Moving, Adding
<1>13. LocksAreSole' /\ NewTextsDiffer'
  BY <1>9 DEF LocksAreSole, NewTextsDiffer, Updating
<1>14. EntriesDiffer'
  BY <1>10 DEF EntriesDiffer, HasBytes
<1>15. LookupsHold'
  BY DEF LookupsHold
<1>16. OneDocumentPerText'
  <2>1. \A j \in Rows \ {i} : documents[j].bytes # bytes[w]
    BY DEF EntriesDiffer, HasBytes, WithBytes, i
  <2> QED BY <1>1, <1>4, <1>5, <1>8, <2>1 DEF OneDocumentPerText, Rows
<1>17. StoredBytesYieldTheText'
  BY <1>1, <1>2, <1>4, <1>5, <1>8 DEF StoredBytesYieldTheText, Rows
<1>18. (OneTextPerBytes => ResultHasItsText)'
  BY <1>8 DEF OneTextPerBytes, ResultHasItsText
<1> QED BY <1>7, <1>11, <1>12, <1>13, <1>14, <1>15, <1>16, <1>17, <1>18

\* The commit of a new row.
LEMMA AddKeeps ==
  ASSUME IInv, NEW w \in Workers, Commit(w), stage[w] = "inserted"
  PROVE  IInv'
<1> USE DEF IInv
<1> DEFINE i == target[w]
<1>1. i \in Ids \ Rows
  BY DEF TargetsFit, Adding
<1>2. bytes[w] \in Bytes /\ <<bytes[w], content[w]>> \in Pages /\ content[w] \in Texts
  BY PagesAssumption, NullAssumption DEF FetchesArePages, Adding, TypeOK
<1>3. documents' = [documents EXCEPT ![i] = [text |-> content[w], bytes |-> bytes[w]]]
  BY DEF Commit
<1>4. documents'[i] = [text |-> content[w], bytes |-> bytes[w]]
  BY <1>1, <1>3 DEF TypeOK
<1>5. \A j \in Ids \ {i} : documents'[j] = documents[j]
  BY <1>3 DEF TypeOK
<1>6. /\ Others(w) /\ raced' = Workers
      /\ stage'[w] = "idle" /\ target'[w] = NoId
  BY DEF Commit, Idle, TypeOK, Others
<1>7. TypeOK'
  <2>1. documents' \in [Ids -> [text : Texts, bytes : Bytes] \cup {NoRow}]
    BY <1>1, <1>2, <1>3 DEF TypeOK
  <2> QED BY <2>1, <1>6 DEF TypeOK, Commit, Idle
<1>8. Rows' = Rows \cup {i}
  BY <1>1, <1>2, <1>4, <1>5, NullAssumption DEF Rows, NoRow
<1>9. \A t : t # content[w] => WithText(t)' = WithText(t)
  BY <1>1, <1>4, <1>5, <1>8 DEF WithText, Rows
<1>10. \A b : b # bytes[w] => WithBytes(b)' = WithBytes(b)
  BY <1>1, <1>4, <1>5, <1>8 DEF WithBytes, Rows
<1>11. \A v \in Workers \ {w} : target[v] # i
  BY DEF TargetsFit, Adding
<1> HIDE DEF i
<1> USE <1>6 DEF Others
<1>12. FetchesArePages'
  BY DEF FetchesArePages, Moving, Adding
<1>13. TargetsFit'
  BY <1>1, <1>5, <1>8, <1>11, NullAssumption DEF TargetsFit, Moving, Adding, Rows
<1>14. LocksAreSole'
  BY DEF LocksAreSole, Updating
<1>15. NewTextsDiffer'
  BY <1>9 DEF NewTextsDiffer
<1>16. EntriesDiffer'
  BY <1>10 DEF EntriesDiffer, HasBytes
<1>17. LookupsHold'
  BY DEF LookupsHold
<1>18. OneDocumentPerText'
  <2>1. \A j \in Rows : documents[j].bytes # bytes[w]
    BY <1>1 DEF EntriesDiffer, HasBytes, WithBytes, i
  <2>2. \A j \in Rows : documents[j].text # content[w]
    BY DEF NewTextsDiffer, WithText
  <2> QED BY <1>1, <1>4, <1>5, <1>8, <2>1, <2>2 DEF OneDocumentPerText, Rows
<1>19. StoredBytesYieldTheText'
  BY <1>1, <1>2, <1>4, <1>5, <1>8 DEF StoredBytesYieldTheText, Rows
<1>20. (OneTextPerBytes => ResultHasItsText)'
  BY <1>1, <1>5, <1>8, <1>11 DEF OneTextPerBytes, ResultHasItsText, Rows
<1> QED BY <1>7, <1>12, <1>13, <1>14, <1>15, <1>16, <1>17, <1>18, <1>19, <1>20

\* The commit of an ingest that found its bytes changes nothing.
LEMMA FoundKeeps ==
  ASSUME IInv, NEW w \in Workers, Commit(w), stage[w] = "found"
  PROVE  IInv'
BY EndKeeps DEF Commit

\* Every step keeps the invariant.
LEMMA StepInvariant == IInv /\ [Next]_vars => IInv'
<1> SUFFICES ASSUME IInv, [Next]_vars PROVE IInv'
  OBVIOUS
<1>1. CASE UNCHANGED vars
  <2>1. /\ documents' = documents /\ stage' = stage /\ bytes' = bytes
        /\ content' = content /\ target' = target /\ raced' = raced
    BY <1>1 DEF vars
  <2>2. /\ Rows' = Rows
        /\ \A b : WithBytes(b)' = WithBytes(b)
        /\ \A t : WithText(t)' = WithText(t)
    BY <2>1 DEF Rows, WithBytes, WithText
  <2> QED
    BY <2>1, <2>2 DEF IInv, TypeOK, FetchesArePages, TargetsFit, LocksAreSole, EntriesDiffer,
       NewTextsDiffer, LookupsHold, OneDocumentPerText, StoredBytesYieldTheText,
       OneTextPerBytes, ResultHasItsText, Moving, Adding, Updating, HasBytes
<1>2. ASSUME NEW w \in Workers, Write(w)
      PROVE  IInv'
  <2>1. CASE LockRow(w) \/ EnterBytes(w) \/ EnterText(w)
    BY <2>1, AdvanceKeeps
  <2>2. CASE Refused(w) \/ BreakDeadlock(w)
    BY <2>2, EndKeeps DEF Refused, BreakDeadlock
  <2> QED BY <1>2, <2>1, <2>2 DEF Write
<1>3. ASSUME NEW w \in Workers, Commit(w)
      PROVE  IInv'
  BY <1>3, FoundKeeps, MoveKeeps, AddKeeps DEF Commit
<1>4. ASSUME NEW w \in Workers, Fail(w)
      PROVE  IInv'
  BY <1>4, EndKeeps DEF Fail
<1> QED BY <1>1, <1>2, <1>3, <1>4, FetchKeeps, LookUpKeeps DEF Next

\* IInv holds in every reachable state.
THEOREM Invariance == Spec => []IInv
BY InitInvariant, StepInvariant, PTL DEF Spec

\* Rows and transactions are what schema.py declares; no row is without text.
THEOREM TypeCorrect == Spec => []TypeOK
<1>1. IInv => TypeOK
  BY DEF IInv
<1> QED BY <1>1, Invariance, PTL

\* A text is one document and bytes are stored once, for any number of workers
\* (documents_text_hash_key, documents_content_hash_key).
THEOREM DocumentsAreTexts == Spec => []OneDocumentPerText
<1>1. IInv => OneDocumentPerText
  BY DEF IInv
<1> QED BY <1>1, Invariance, PTL

\* The bytes stored for a document are bytes its text comes from, wherever its
\* provenance moved (_ingest_source, the UPDATE).
THEOREM ProvenanceFits == Spec => []StoredBytesYieldTheText
<1>1. IInv => StoredBytesYieldTheText
  BY DEF IInv
<1> QED BY <1>1, Invariance, PTL

\* Provided the same bytes always come with the same type, the document handed to
\* the extract job has the text that was fetched (_ingest_source, IngestResult).
THEOREM ResultsFit ==
  ASSUME OneTextPerBytes
  PROVE  Spec => []ResultHasItsText
<1>1. IInv => ResultHasItsText
  BY DEF IInv
<1> QED BY <1>1, Invariance, PTL

\* An ingest that no other one overtakes is never refused, so running it again
\* after a refusal goes through (_ingest_source, its two lookups).
THEOREM OnlyRacesAreRefused == Spec => RefusalsAreRaces
<1>1. IInv /\ [Next]_vars => [\A w \in Workers : Refused(w) => w \in raced]_vars
  <2> SUFFICES ASSUME IInv, NEW w \in Workers, Refused(w), w \notin raced
               PROVE  FALSE
    OBVIOUS
  <2>1. CASE stage[w] \in {"inserting", "locked"} /\ ~ (WithBytes(bytes[w]) \subseteq {target[w]})
    BY <2>1 DEF IInv, LookupsHold
  <2>2. CASE stage[w] = "entered" /\ WithText(content[w]) # {}
    BY <2>2 DEF IInv, LookupsHold
  <2> QED BY <2>1, <2>2 DEF Refused
<1> QED BY <1>1, Invariance, PTL DEF Spec, RefusalsAreRaces

-------------------------------------------------------------------------------
(* The store.                                                                  *)

\* Both modules mean the same by a row.
LEMMA SameRows == Store!NoRow = NoRow /\ Store!Rows = Rows
BY DEF Store!NoRow, NoRow, Store!Rows, Rows

\* The commit of an ingest that found its text moves the provenance of that document.
LEMMA CommitMoves ==
  ASSUME IInv, NEW w \in Workers, Commit(w), stage[w] = "moved"
  PROVE  \E page \in Pages : Store!Move(target[w], page)
<1> DEFINE page == <<bytes[w], content[w]>>
<1>1. page \in Pages
  BY DEF IInv, FetchesArePages
<1>2. target[w] \in Rows /\ documents[target[w]].text = content[w]
  BY DEF IInv, TargetsFit, Moving
<1>3. \A j \in Rows \ {target[w]} : documents[j].bytes # bytes[w]
  BY DEF IInv, EntriesDiffer, HasBytes, WithBytes
<1>4. documents' = [documents EXCEPT ![target[w]].bytes = bytes[w]]
  BY DEF Commit
<1>5. Store!Move(target[w], page)
  BY <1>2, <1>3, <1>4, SameRows DEF Store!Move
<1> QED BY <1>1, <1>5

\* The commit of an ingest that found neither adds a document.
LEMMA CommitAdds ==
  ASSUME IInv, NEW w \in Workers, Commit(w), stage[w] = "inserted"
  PROVE  \E page \in Pages : Store!Add(target[w], page)
<1> DEFINE page == <<bytes[w], content[w]>>
<1>1. page \in Pages /\ content[w] \in Texts
  BY DEF IInv, FetchesArePages, Adding
<1>2. target[w] \notin Rows
  BY DEF IInv, TargetsFit, Adding
<1>3. \A j \in Rows : documents[j].bytes # bytes[w]
  BY <1>2 DEF IInv, EntriesDiffer, HasBytes, WithBytes
<1>4. \A j \in Rows : documents[j].text # content[w]
  BY DEF IInv, NewTextsDiffer, WithText
<1>5. documents' = [documents EXCEPT ![target[w]] = [text |-> content[w], bytes |-> bytes[w]]]
  BY DEF Commit
<1>6. Store!Add(target[w], page)
  BY <1>1, <1>2, <1>3, <1>4, <1>5, SameRows DEF Store!Add
<1> QED BY <1>1, <1>6

\* Every step is one of the store or leaves it alone.
LEMMA StepRefines == IInv /\ [Next]_vars => [Store!Next]_documents
<1> SUFFICES ASSUME IInv, [Next]_vars PROVE [Store!Next]_documents
  OBVIOUS
<1>1. \/ UNCHANGED documents
      \/ \E w \in Workers : Commit(w) /\ stage[w] \in {"moved", "inserted"}
  BY DEF vars, Next, Fetch, LookUp, KnownBytes, ParseNew, KnownText, NewText, Write, LockRow,
     EnterBytes, EnterText, Advance, Refused, BreakDeadlock, Commit, Fail
<1>2. ASSUME NEW w \in Workers, Commit(w), stage[w] \in {"moved", "inserted"}
      PROVE  Store!Next
  <2>1. target[w] \in Ids
    BY <1>2 DEF IInv, TargetsFit, Moving, Adding, Rows
  <2> QED BY <1>2, <2>1, CommitMoves, CommitAdds DEF Store!Next
<1> QED BY <1>1, <1>2

\* The documents look as if the ingests ran one after the other, however many do at once
\* (_ingest_source).
THEOREM Refinement == Spec => ImplementsDocumentStore
<1>1. Init => Store!Init
  BY DEF Init, Store!Init, NoRow, Store!NoRow
<1>2. IInv /\ [Next]_vars => [Store!Next]_documents
  BY StepRefines
<1> QED BY <1>1, <1>2, Invariance, PTL DEF Spec, ImplementsDocumentStore, Store!Spec
===============================================================================
