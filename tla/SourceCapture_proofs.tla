------------------------ MODULE SourceCapture_proofs ------------------------
(***************************************************************************)
(* For any number of Sources, keys, versions and contents, captured in     *)
(* whatever order: the captures, the Documents and the revisions of the    *)
(* Ledger fit together.                                                    *)
(*                                                                         *)
(* Documents are content-addressed and have no time of their own.  The     *)
(* argument numbers those of each Source in the order in which they were   *)
(* saved (Numbered): a revision leads to a higher number.  What a deposit  *)
(* revises goes by the clock instead (Dated), and is the Document with the *)
(* highest number where the clock advanced from each one to the next.      *)
(***************************************************************************)
EXTENDS SourceCapture, FiniteSetTheorems, WellFoundedInduction, TLAPS

\* Tables that have at most one row for each key.
Rows(keys, values) == UNION {[K -> values] : K \in SUBSET keys}

Row == [kind : Kinds, after : Nat, at : Stamps \cup {None}]

TypeOK ==
  /\ blobs \in [Contents -> {MediumOf[s] : s \in Sources} \cup {None}]
  /\ captures \in Rows(Sources \X (Keys \cup Contents),
                       [content : Contents, version : Versions \cup {None},
                        details : Details])
  /\ documents \in Rows(Documents, Row)
  /\ resolutions \subseteq [source : Sources, key : Keys \cup Contents,
                            content : Contents, document : Documents]
  /\ relations \subseteq [earlier : Documents, later : Documents, kind : Kinds]

\* The Documents of a Source have the numbers from 0 on, each once.
Numbered ==
  \A s \in Sources :
    /\ IsFiniteSet(DocumentsOf(s))
    /\ \A d \in DocumentsOf(s) : documents[d].after < Cardinality(DocumentsOf(s))
    /\ \A d, e \in DocumentsOf(s) : documents[d].after = documents[e].after => d = e
    /\ \A n \in Nat : n < Cardinality(DocumentsOf(s)) =>
         \E d \in DocumentsOf(s) : documents[d].after = n

\* What was deposited has a stamp.
Dated == \A d \in DOMAIN documents : d.source \in Urls => documents[d].at \in Stamps

Inv == TypeOK /\ Numbered /\ Dated

Requests ==
  [source : Sources, key : Keys \cup Contents, content : Contents,
   version : Versions \cup {None}, kind : Kinds, earlier : Documents \cup {None},
   details : Details, at : Stamps \cup {None}]

\* A request names an earlier Document that the Ledger has for its Source, if any; a
\* deposit has a stamp and names a latest one, and no version.
Asked(r) ==
  /\ r \in Requests
  /\ r.earlier # None => Stored(r.earlier) /\ r.earlier.source = r.source
  /\ r.source \in Urls =>
       /\ r.version = None
       /\ r.at \in Stamps
       /\ r.earlier \in IF IsRevision(r.source, r.content) THEN Latest(r.source) ELSE {None}

-----------------------------------------------------------------------------
LEMMA RowsType ==
  ASSUME NEW keys, NEW values, NEW f
  PROVE  f \in Rows(keys, values) <=> f \in [DOMAIN f -> values] /\ DOMAIN f \subseteq keys
  BY DEF Rows

\* What Saved does to a table: one more row, or nothing.
LEMMA SavedRow ==
  ASSUME NEW rows, NEW id, NEW row
  PROVE  /\ DOMAIN Saved(rows, id, row) = DOMAIN rows \cup {id}
         /\ \A x \in DOMAIN rows : Saved(rows, id, row)[x] = rows[x]
         /\ id \notin DOMAIN rows => Saved(rows, id, row)[id] = row
  BY DEF Saved

LEMMA SavedType ==
  ASSUME NEW keys, NEW values, NEW rows \in Rows(keys, values),
         NEW id \in keys, NEW row \in values
  PROVE  Saved(rows, id, row) \in Rows(keys, values)
  <1>1. rows \in [DOMAIN rows -> values] /\ DOMAIN rows \subseteq keys
    BY RowsType
  <1>2. Saved(rows, id, row) \in [DOMAIN rows \cup {id} -> values]
    BY <1>1 DEF Saved
  <1> QED
    BY <1>1, <1>2 DEF Rows

LEMMA DocumentType ==
  ASSUME NEW r \in Requests
  PROVE  /\ Document(r) \in Documents
         /\ Document(r).source = r.source
         /\ Document(r).version = r.version
         /\ Document(r).content = r.content
  BY DEF Requests, Document, Documents

\* Where the clock advanced, the latest Document of a URL is the one saved last.
LEMMA LatestIsLast ==
  ASSUME Inv, NEW s \in Urls, InOrder(DocumentsOf(s)), NEW e \in Latest(s),
         NEW f \in DocumentsOf(s)
  PROVE  documents[f].after <= documents[e].after
  <1>1. e \in DocumentsOf(s) /\ documents[f].at <= documents[e].at
    BY DEF Latest
  <1>2. /\ documents[e].at \in Nat /\ documents[f].at \in Nat
        /\ documents[e].after \in Nat /\ documents[f].after \in Nat
    <2>1. documents \in [DOMAIN documents -> Row]
      BY RowsType DEF Inv, TypeOK
    <2> QED
      BY <1>1, <2>1, StampsAssumption DEF Inv, Dated, DocumentsOf, Row
  <1>3. ~(documents[e].after < documents[f].after)
    BY <1>1, <1>2 DEF InOrder
  <1> QED
    BY <1>2, <1>3

\* Every request names an earlier Document of its Source, if any.
LEMMA RequestsAreAsked ==
  ASSUME Inv, Next
  PROVE  \E r : Asked(r) /\ Capture(r)
  <1>1. PICK s \in Sources, details \in Details, content \in Contents :
          \/ s \in Urls /\ DepositFile(s, content, details)
          \/ s \in Paths /\ IngestLocalFile(s, content, details)
          \/ s \in Items /\ CaptureItem(s, content, details)
    BY NamesAssumption DEF Next
  <1>2. ASSUME NEW earlier, NEW at \in Stamps \cup {None},
               earlier # None => Stored(earlier) /\ earlier.source = s,
               s \in Urls => at \in Stamps /\
                 earlier \in IF IsRevision(s, content) THEN Latest(s) ELSE {None}
        PROVE  Asked(FileRequest(s, content, earlier, details, at))
    <2>1. earlier \in Documents \cup {None}
      BY <1>2, RowsType DEF Stored, Inv, TypeOK
    <2> QED
      BY <1>2, <2>1 DEF Asked, Requests, FileRequest, Request, Kinds
  <1>3. CASE s \in Urls /\ DepositFile(s, content, details)
    <2>1. PICK at \in Stamps, earlier \in IF IsRevision(s, content) THEN Latest(s) ELSE {None} :
            Capture(FileRequest(s, content, earlier, details, at))
      BY <1>3 DEF DepositFile
    <2>2. earlier # None => Stored(earlier) /\ earlier.source = s
      BY <2>1 DEF Latest, DocumentsOf, Stored
    <2> QED
      BY <1>2, <2>1, <2>2
  <1>4. CASE s \in Paths /\ IngestLocalFile(s, content, details)
    <2>1. s \notin Urls
      BY <1>4, NamesAssumption
    <2> QED
      BY <1>2, <1>4, <2>1 DEF IngestLocalFile
  <1>5. CASE s \in Items /\ CaptureItem(s, content, details)
    <2>1. PICK key \in Keys, version \in Versions \cup {None}, kind \in Kinds,
               earlier \in DocumentsOf(s) \cup {None} :
            Capture(Request(s, key, content, version, kind, earlier, details, None))
      BY <1>5 DEF CaptureItem
    <2>2. earlier # None =>
          earlier \in Documents /\ Stored(earlier) /\ earlier.source = s
      BY RowsType DEF DocumentsOf, Stored, Inv, TypeOK
    <2>3. s \notin Urls
      BY <1>5, NamesAssumption
    <2>4. Asked(Request(s, key, content, version, kind, earlier, details, None))
      BY <2>2, <2>3 DEF Asked, Requests, Request, Sources
    <2> QED
      BY <2>1, <2>4
  <1> QED
    BY <1>1, <1>3, <1>4, <1>5

-----------------------------------------------------------------------------
\* The row of a new Document.
RowOf(r) ==
  [kind |-> r.kind, after |-> Cardinality(DocumentsOf(r.source)), at |-> r.at]

\* What the three branches of capture_source have in common: a Document is new and
\* gets the next number, or stays, and only a new one gets a relation.
NewDocument(r) ==
  /\ ~Stored(Document(r))
  /\ SaveDocument(r)
  /\ relations' = relations \cup Requested(r)

OldDocument(r) ==
  /\ Stored(Document(r))
  /\ documents' = documents
  /\ relations' = relations

LEMMA CaptureEffect ==
  ASSUME Inv, NEW r, Asked(r), Capture(r)
  PROVE  /\ NewDocument(r) \/ OldDocument(r)
         /\ resolutions' = resolutions \cup {Resolution(r)}
         /\ DOMAIN captures' = DOMAIN captures \cup {<<r.source, r.key>>}
         /\ blobs' \in [Contents -> {MediumOf[s] : s \in Sources} \cup {None}]
         /\ captures' \in Rows(Sources \X (Keys \cup Contents),
                              [content : Contents, version : Versions \cup {None},
                               details : Details])
  <1>1. blobs \in [Contents -> {MediumOf[s] : s \in Sources} \cup {None}]
        /\ captures \in Rows(Sources \X (Keys \cup Contents),
                            [content : Contents, version : Versions \cup {None},
                             details : Details])
    BY DEF Inv, TypeOK
  <1>2. documents \in [DOMAIN documents -> Row]
    BY RowsType DEF Inv, TypeOK
  <1>3. Stored(Document(r)) => ~SaveDocument(r) \/ documents' = documents
    BY <1>2 DEF SaveDocument, Saved, Stored
  <1>4. CASE CaptureNew(r)
    <2>1. NewDocument(r) \/ OldDocument(r)
      <3>1. CASE Stored(Document(r))
        BY <1>3, <1>4, <3>1 DEF CaptureNew, RevisionAllowed, SaveRelation, Requested,
           OldDocument
      <3>2. CASE ~Stored(Document(r))
        BY <1>4, <3>2 DEF CaptureNew, SaveRelation, NewDocument
      <3> QED
        BY <3>1, <3>2
    <2>2. blobs' \in [Contents -> {MediumOf[s] : s \in Sources} \cup {None}]
      BY <1>1, <1>4 DEF CaptureNew, Asked, Requests
    <2>3. /\ DOMAIN captures' = DOMAIN captures \cup {<<r.source, r.key>>}
          /\ captures' \in Rows(Sources \X (Keys \cup Contents),
                               [content : Contents, version : Versions \cup {None},
                                details : Details])
      <3>1. /\ <<r.source, r.key>> \in Sources \X (Keys \cup Contents)
            /\ [content |-> r.content, version |-> r.version, details |-> r.details] \in
                 [content : Contents, version : Versions \cup {None}, details : Details]
        BY DEF Asked, Requests
      <3> QED
        BY <1>1, <1>4, <3>1, SavedRow, SavedType DEF CaptureNew
    <2> QED
      BY <1>4, <2>1, <2>2, <2>3 DEF CaptureNew, SaveResolution
  <1>5. CASE CaptureWithoutDocument(r)
    BY <1>1, <1>5 DEF CaptureWithoutDocument, SaveRelation, SaveResolution, NewDocument,
       Captured
  <1>6. CASE CaptureWithoutResolution(r)
    BY <1>1, <1>6 DEF CaptureWithoutResolution, SaveRelation, SaveResolution, OldDocument,
       Captured, IsRetry
  <1> QED
    BY <1>4, <1>5, <1>6 DEF Capture

\* What a new Document adds to those of its Source.
LEMMA NewDocumentEffect ==
  ASSUME Inv, NEW r, Asked(r), NewDocument(r)
  PROVE  /\ DOMAIN documents' = DOMAIN documents \cup {Document(r)}
         /\ \A d \in DOMAIN documents : documents'[d] = documents[d]
         /\ documents'[Document(r)].after = Cardinality(DocumentsOf(r.source))
         /\ documents'[Document(r)].at = r.at
         /\ \A s \in Sources :
              DocumentsOf(s)' = IF s = r.source THEN DocumentsOf(s) \cup {Document(r)}
                                ELSE DocumentsOf(s)
  <1>1. /\ DOMAIN documents' = DOMAIN documents \cup {Document(r)}
        /\ \A d \in DOMAIN documents : documents'[d] = documents[d]
        /\ documents'[Document(r)] = RowOf(r)
    <2> DEFINE row == RowOf(r)
    <2>1. Document(r) \notin DOMAIN documents
      BY DEF NewDocument, Stored
    <2>2. documents' = Saved(documents, Document(r), row)
      BY DEF NewDocument, SaveDocument, RowOf
    <2> HIDE DEF row
    <2>3. /\ DOMAIN documents' = DOMAIN documents \cup {Document(r)}
          /\ \A d \in DOMAIN documents : documents'[d] = documents[d]
          /\ documents'[Document(r)] = row
      BY <2>1, <2>2 DEF Saved
    <2> QED
      BY <2>3 DEF row
  <1>2. Document(r).source = r.source
    BY DocumentType DEF Asked
  <1>3. RowOf(r).after = Cardinality(DocumentsOf(r.source)) /\ RowOf(r).at = r.at
    BY DEF RowOf
  <1> QED
    BY <1>1, <1>2, <1>3 DEF DocumentsOf

LEMMA TypeStep ==
  ASSUME Inv, NEW r, Asked(r), Capture(r)
  PROVE  TypeOK'
  <1>1. r \in Requests /\ Document(r) \in Documents
    BY DocumentType DEF Asked
  <1>2. Resolution(r) \in [source : Sources, key : Keys \cup Contents,
                           content : Contents, document : Documents]
    BY <1>1 DEF Requests, Resolution
  <1>3. Requested(r) \subseteq [earlier : Documents, later : Documents, kind : Kinds]
    BY <1>1 DEF Requests, Requested, Relation
  <1>4. documents' \in Rows(Documents, Row)
    <2>1. CASE NewDocument(r)
      <3>1. r.source \in Sources /\ r.kind \in Kinds /\ r.at \in Stamps \cup {None}
        BY <1>1 DEF Requests
      <3>2. Cardinality(DocumentsOf(r.source)) \in Nat
        BY <3>1, FS_CardinalityType DEF Inv, Numbered
      <3> QED
        BY <1>1, <2>1, <3>1, <3>2, SavedType
           DEF NewDocument, SaveDocument, Inv, TypeOK, Row
    <2>2. CASE OldDocument(r)
      BY <2>2 DEF OldDocument, Inv, TypeOK
    <2> QED
      BY <2>1, <2>2, CaptureEffect
  <1>5. relations' \subseteq [earlier : Documents, later : Documents, kind : Kinds]
    BY <1>3, CaptureEffect DEF NewDocument, OldDocument, Inv, TypeOK
  <1>6. resolutions' \subseteq [source : Sources, key : Keys \cup Contents,
                               content : Contents, document : Documents]
    <2>1. resolutions' = resolutions \cup {Resolution(r)}
      BY CaptureEffect
    <2> QED
      BY <1>2, <2>1 DEF Inv, TypeOK
  <1> QED
    BY <1>4, <1>5, <1>6, CaptureEffect DEF TypeOK

LEMMA NumberedStep ==
  ASSUME Inv, NEW r, Asked(r), Capture(r)
  PROVE  Numbered'
  <1>1. CASE OldDocument(r)
    BY <1>1 DEF OldDocument, Inv, Numbered, DocumentsOf
  <1>2. CASE NewDocument(r)
    <2> SUFFICES ASSUME NEW s \in Sources
                 PROVE  /\ IsFiniteSet(DocumentsOf(s)')
                        /\ \A d \in DocumentsOf(s)' :
                             documents'[d].after < Cardinality(DocumentsOf(s)')
                        /\ \A d, e \in DocumentsOf(s)' :
                             documents'[d].after = documents'[e].after => d = e
                        /\ \A n \in Nat : n < Cardinality(DocumentsOf(s)') =>
                             \E d \in DocumentsOf(s)' : documents'[d].after = n
      BY DEF Numbered
    <2> DEFINE N == Cardinality(DocumentsOf(s))
    <2>1. /\ IsFiniteSet(DocumentsOf(s))
          /\ \A d \in DocumentsOf(s) : documents[d].after < N
          /\ \A d, e \in DocumentsOf(s) : documents[d].after = documents[e].after => d = e
          /\ \A n \in Nat : n < N => \E d \in DocumentsOf(s) : documents[d].after = n
      BY DEF Inv, Numbered
    <2>2. N \in Nat
      BY <2>1, FS_CardinalityType
    <2>3. \A d \in DocumentsOf(s) : documents'[d] = documents[d]
      BY <1>2, NewDocumentEffect DEF DocumentsOf
    <2>4. \A d \in DocumentsOf(s) : documents[d].after \in Nat
      <3>1. documents \in [DOMAIN documents -> Row]
        BY RowsType DEF Inv, TypeOK
      <3> QED
        BY <3>1 DEF DocumentsOf, Row
    <2>5. CASE s # r.source
      <3>1. DocumentsOf(s)' = DocumentsOf(s)
        BY <1>2, <2>5, NewDocumentEffect
      <3> QED
        BY <2>1, <2>3, <3>1
    <2>6. CASE s = r.source
      <3>1. /\ DocumentsOf(s)' = DocumentsOf(s) \cup {Document(r)}
            /\ documents'[Document(r)].after = N
        <4>1. documents'[Document(r)].after = N
          BY <1>2, <2>6, NewDocumentEffect
        <4>2. DocumentsOf(s)' = DocumentsOf(s) \cup {Document(r)}
          BY <1>2, <2>6, NewDocumentEffect
        <4> QED
          BY <4>1, <4>2
      <3>2. Document(r) \notin DocumentsOf(s)
        BY <1>2 DEF NewDocument, Stored, DocumentsOf
      <3>3. IsFiniteSet(DocumentsOf(s)') /\ Cardinality(DocumentsOf(s)') = N + 1
        BY <2>1, <3>1, <3>2, FS_AddElement
      <3> HIDE DEF N
      <3>4. \A d \in DocumentsOf(s)' : documents'[d].after < N + 1
        BY <2>1, <2>2, <2>3, <2>4, <3>1
      <3>5. \A d, e \in DocumentsOf(s)' : documents'[d].after = documents'[e].after => d = e
        BY <2>1, <2>2, <2>3, <2>4, <3>1
      <3>6. \A n \in Nat : n < N + 1 => \E d \in DocumentsOf(s)' : documents'[d].after = n
        BY <2>1, <2>2, <2>3, <2>4, <3>1
      <3> QED
        BY <3>3, <3>4, <3>5, <3>6
    <2> QED
      BY <2>5, <2>6
  <1> QED
    BY <1>1, <1>2, CaptureEffect

LEMMA DatedStep ==
  ASSUME Inv, NEW r, Asked(r), Capture(r)
  PROVE  Dated'
  <1>1. CASE OldDocument(r)
    BY <1>1 DEF OldDocument, Inv, Dated
  <1>2. CASE NewDocument(r)
    <2>1. /\ DOMAIN documents' = DOMAIN documents \cup {Document(r)}
          /\ \A d \in DOMAIN documents : documents'[d] = documents[d]
          /\ documents'[Document(r)].at = r.at
      BY <1>2, NewDocumentEffect
    <2>2. Document(r).source = r.source /\ (r.source \in Urls => r.at \in Stamps)
      BY DocumentType DEF Asked
    <2> QED
      BY <2>1, <2>2 DEF Inv, Dated
  <1> QED
    BY <1>1, <1>2, CaptureEffect

LEMMA NextInv ==
  ASSUME Inv, [Next]_vars
  PROVE  Inv'
  <1>1. CASE Next
    BY <1>1, RequestsAreAsked, TypeStep, NumberedStep, DatedStep DEF Inv
  <1>2. CASE UNCHANGED vars
    <2>1. UNCHANGED <<blobs, captures, documents, resolutions, relations>>
      BY <1>2 DEF vars
    <2>2. TypeOK'
      BY <2>1 DEF Inv, TypeOK
    <2>3. ASSUME NEW t
          PROVE  DocumentsOf(t)' = DocumentsOf(t)
      BY <2>1 DEF DocumentsOf
    <2>4. Numbered'
      BY <2>1, <2>3 DEF Inv, Numbered, Sources
    <2>5. Dated'
      BY <2>1 DEF Inv, Dated
    <2> QED
      BY <2>2, <2>4, <2>5 DEF Inv
  <1> QED
    BY <1>1, <1>2

LEMMA InitInv == Init => Inv
  <1> SUFFICES ASSUME Init PROVE Inv
    OBVIOUS
  <1>1. DOMAIN captures = {} /\ DOMAIN documents = {}
    BY DEF Init
  <1>2. TypeOK
    <2>1. captures \in [DOMAIN captures -> [content : Contents,
                                           version : Versions \cup {None},
                                           details : Details]]
          /\ documents \in [DOMAIN documents -> Row]
      BY <1>1 DEF Init
    <2>2. blobs \in [Contents -> {MediumOf[s] : s \in Sources} \cup {None}]
      BY DEF Init
    <2> QED
      BY <1>1, <2>1, <2>2, RowsType DEF Init, TypeOK
  <1>3. \A s \in Sources : DocumentsOf(s) = {}
    BY <1>1 DEF DocumentsOf
  <1> QED
    BY <1>1, <1>2, <1>3, FS_EmptySet DEF Inv, Numbered, Dated

\* The tables of the Ledger have the rows they may have, and the Documents of a Source
\* are numbered without a gap in the order in which capture_source saves them.
THEOREM Invariance == Spec => []Inv
  BY InitInv, NextInv, PTL DEF Spec

-----------------------------------------------------------------------------
LEMMA ResolvedStep ==
  ASSUME Inv, NothingUnresolved, NEW r, Asked(r), Capture(r)
  PROVE  NothingUnresolved'
  <1>1. /\ resolutions' = resolutions \cup {Resolution(r)}
        /\ DOMAIN captures' = DOMAIN captures \cup {<<r.source, r.key>>}
    BY CaptureEffect
  <1>2. DOMAIN documents' = DOMAIN documents \cup {Document(r)}
    <2>1. CASE NewDocument(r)
      BY <2>1, NewDocumentEffect
    <2>2. CASE OldDocument(r)
      BY <2>2 DEF OldDocument, Stored
    <2> QED
      BY <2>1, <2>2, CaptureEffect
  <1>3. /\ Resolution(r).document = Document(r)
        /\ <<Resolution(r).source, Resolution(r).key>> = <<r.source, r.key>>
    BY DEF Resolution
  <1> QED
    BY <1>1, <1>2, <1>3 DEF NothingUnresolved, Stored

\* Whichever branch of capture_source wrote them, a Document has a capture that resolves
\* to it and a capture resolves to a Document.
THEOREM CapturesResolve == Spec => []NothingUnresolved
  <1>1. Init => NothingUnresolved
    BY DEF Init, NothingUnresolved
  <1>2. Inv /\ NothingUnresolved /\ [Next]_vars => NothingUnresolved'
    <2> SUFFICES ASSUME Inv, NothingUnresolved, [Next]_vars
                 PROVE  NothingUnresolved'
      OBVIOUS
    <2>1. CASE Next
      BY <2>1, RequestsAreAsked, ResolvedStep
    <2>2. CASE UNCHANGED vars
      BY <2>2 DEF vars, NothingUnresolved, Stored
    <2> QED
      BY <2>1, <2>2
  <1> QED
    BY <1>1, <1>2, Invariance, PTL DEF Spec

LEMMA ForwardStep ==
  ASSUME Inv, RevisionsForward, NEW r, Asked(r), Capture(r)
  PROVE  RevisionsForward'
  <1>1. CASE OldDocument(r)
    BY <1>1 DEF OldDocument, RevisionsForward, Stored
  <1>2. CASE NewDocument(r)
    <2>1. /\ DOMAIN documents' = DOMAIN documents \cup {Document(r)}
          /\ \A d \in DOMAIN documents : documents'[d] = documents[d]
          /\ documents'[Document(r)].after = Cardinality(DocumentsOf(r.source))
      BY <1>2, NewDocumentEffect
    <2>2. ASSUME NEW x \in relations
          PROVE  /\ x.earlier \in DOMAIN documents' /\ x.later \in DOMAIN documents'
                 /\ x.earlier.source = x.later.source
                 /\ documents'[x.earlier].after < documents'[x.later].after
      BY <2>1 DEF RevisionsForward, Stored
    <2>3. ASSUME NEW x \in Requested(r)
          PROVE  /\ x.earlier \in DOMAIN documents' /\ x.later \in DOMAIN documents'
                 /\ x.earlier.source = x.later.source
                 /\ documents'[x.earlier].after < documents'[x.later].after
      <3>1. r.earlier # None /\ x.earlier = r.earlier /\ x.later = Document(r)
        BY DEF Requested, Relation
      <3>2. r.earlier \in DocumentsOf(r.source)
        BY <3>1 DEF Asked, Stored, DocumentsOf
      <3>3. documents[r.earlier].after < Cardinality(DocumentsOf(r.source))
        BY <3>2 DEF Asked, Requests, Inv, Numbered
      <3>4. r.earlier \in DOMAIN documents /\ r.earlier.source = Document(r).source
        BY <3>1, DocumentType DEF Asked, Stored
      <3> QED
        BY <2>1, <3>1, <3>3, <3>4
    <2> QED
      BY <1>2, <2>2, <2>3 DEF NewDocument, RevisionsForward, Stored
  <1> QED
    BY <1>1, <1>2, CaptureEffect

LEMMA ForwardNext ==
  ASSUME Inv, RevisionsForward, [Next]_vars
  PROVE  RevisionsForward'
  <1>1. CASE Next
    BY <1>1, RequestsAreAsked, ForwardStep
  <1>2. CASE UNCHANGED vars
    BY <1>2 DEF vars, RevisionsForward, Stored
  <1> QED
    BY <1>1, <1>2

LEMMA ForwardInit == Init => RevisionsForward
  BY DEF Init, RevisionsForward

\* A revision leads from a stored Document to one that its Source got later.
THEOREM RevisionsLeadForward == Spec => []RevisionsForward
  BY ForwardInit, ForwardNext, Invariance, PTL DEF Spec

LEMMA ChainStep ==
  ASSUME Inv, RevisionsForward, DepositsAreChain, NEW r, Asked(r),
         Capture(r)
  PROVE  DepositsAreChain'
  <1>1. CASE OldDocument(r)
    BY <1>1 DEF OldDocument, DepositsAreChain, DocumentsOf, SavedBefore, InOrder
  <1>2. CASE NewDocument(r)
    <2> SUFFICES ASSUME NEW s \in Urls, NEW d \in DocumentsOf(s)', SavedBefore(d)' # {}
                 PROVE  \E e \in SavedBefore(d)' :
                          /\ {x.earlier : x \in {y \in relations' : y.later = d}} = {e}
                          /\ InOrder(SavedBefore(d))' =>
                               \A f \in SavedBefore(d)' : documents'[f].after <= documents'[e].after
      BY DEF DepositsAreChain
    <2> DEFINE N == Cardinality(DocumentsOf(s))
    <2>1. /\ \A x \in DOMAIN documents : documents'[x] = documents[x]
          /\ documents'[Document(r)].after = Cardinality(DocumentsOf(r.source))
          /\ DocumentsOf(s)' = IF s = r.source THEN DocumentsOf(s) \cup {Document(r)}
                               ELSE DocumentsOf(s)
      BY <1>2, NewDocumentEffect DEF Sources
    <2>2. DocumentsOf(s) \subseteq DOMAIN documents /\ Document(r) \notin DocumentsOf(s)
      BY <1>2 DEF DocumentsOf, NewDocument, Stored
    <2>3. /\ N \in Nat
          /\ \A x \in DocumentsOf(s) : documents[x].after \in Nat /\ documents[x].after < N
      <3>1. documents \in [DOMAIN documents -> Row]
        BY RowsType DEF Inv, TypeOK
      <3>2. N \in Nat
        BY FS_CardinalityType DEF Inv, Numbered, Sources
      <3> QED
        BY <2>2, <3>1, <3>2 DEF Inv, Numbered, Sources, Row
    <2>4. d.source = s
      BY DEF DocumentsOf
    <2>5. SavedBefore(d)' = {e \in DocumentsOf(s)' : documents'[e].after < documents'[d].after}
      BY <2>4 DEF SavedBefore
    <2>7. CASE d \in DocumentsOf(s)
      <3>1. SavedBefore(d)' = SavedBefore(d)
        <4>1. \A e \in DocumentsOf(s) : documents'[e].after = documents[e].after
          BY <2>1, <2>2
        <4>2. s = r.source => ~(documents'[Document(r)].after < documents'[d].after)
          BY <2>1, <2>3, <2>7, <4>1
        <4>3. SavedBefore(d)' = {e \in DocumentsOf(s) : documents'[e].after < documents'[d].after}
          BY <2>1, <2>5, <4>2
        <4> QED
          BY <2>4, <2>7, <4>1, <4>3 DEF SavedBefore
      <3>2. PICK e \in SavedBefore(d) :
              /\ {x.earlier : x \in {y \in relations : y.later = d}} = {e}
              /\ InOrder(SavedBefore(d)) =>
                   \A f \in SavedBefore(d) : documents[f].after <= documents[e].after
        BY <2>7, <3>1 DEF DepositsAreChain
      <3>3. SavedBefore(d) \subseteq DocumentsOf(s)
        BY <2>4 DEF SavedBefore
      <3>4. {y \in relations' : y.later = d} = {y \in relations : y.later = d}
        BY <1>2, <2>2, <2>7 DEF NewDocument, Requested, Relation
      <3>5. InOrder(SavedBefore(d))' <=> InOrder(SavedBefore(d))
        BY <2>1, <2>2, <3>1, <3>3 DEF InOrder
      <3> QED
        BY <2>1, <2>2, <3>1, <3>2, <3>3, <3>4, <3>5
    <2>8. CASE d \notin DocumentsOf(s)
      <3>1. s = r.source /\ d = Document(r)
        BY <2>1, <2>8
      <3>2. SavedBefore(d)' = DocumentsOf(s)
        BY <2>1, <2>2, <2>3, <2>5, <3>1
      <3>3. Document(r) = [source |-> s, version |-> None, content |-> r.content]
        BY <3>1 DEF Asked, Document
      <3>4. IsRevision(s, r.content)
        BY <1>2, <3>2, <3>3 DEF IsRevision, NewDocument
      <3>5. r.earlier \in Latest(s)
        BY <3>1, <3>4 DEF Asked
      <3>6. r.earlier \in DocumentsOf(s) /\ r.earlier # None
        BY <2>2, <3>5, RowsType, NamesAssumption DEF Inv, TypeOK, Latest
      <3>7. \A y \in relations : y.later # d
        BY <1>2, <3>1 DEF RevisionsForward, NewDocument, Stored
      <3>8. relations' = relations \cup {Relation(r)}
        BY <1>2, <3>6 DEF NewDocument, Requested
      <3>9. Relation(r).later = d /\ Relation(r).earlier = r.earlier
        BY <3>1 DEF Relation
      <3>10. {x.earlier : x \in {y \in relations' : y.later = d}} = {r.earlier}
        BY <3>7, <3>8, <3>9
      <3>11. ASSUME InOrder(DocumentsOf(s)), NEW f \in DocumentsOf(s)
             PROVE  documents[f].after <= documents[r.earlier].after
        BY <3>5, <3>11, LatestIsLast
      <3>12. InOrder(SavedBefore(d))' => InOrder(DocumentsOf(s))
        BY <2>1, <2>2, <3>2 DEF InOrder
      <3> QED
        BY <2>1, <2>2, <3>2, <3>6, <3>10, <3>11, <3>12
    <2> QED
      BY <2>7, <2>8
  <1> QED
    BY <1>1, <1>2, CaptureEffect

\* However deposits of the contents of a URL follow each other, whatever its clock said
\* and whatever else is captured in between, each but the first revises exactly one
\* that was saved before it: the last one, where the clock advanced between those.
THEOREM DepositsFormChain == Spec => []DepositsAreChain
  <1>1. Init => DepositsAreChain
    BY DEF Init, DepositsAreChain, DocumentsOf, SavedBefore
  <1>2. Inv /\ RevisionsForward /\ DepositsAreChain /\ [Next]_vars =>
          DepositsAreChain'
    <2> SUFFICES ASSUME Inv, RevisionsForward, DepositsAreChain, [Next]_vars
                 PROVE  DepositsAreChain'
      OBVIOUS
    <2>1. CASE Next
      BY <2>1, RequestsAreAsked, ChainStep
    <2>2. CASE UNCHANGED vars
      BY <2>2 DEF vars, DepositsAreChain, DocumentsOf, SavedBefore, InOrder
    <2> QED
      BY <2>1, <2>2
  <1> QED
    BY <1>1, <1>2, Invariance, RevisionsLeadForward, PTL DEF Spec

\* A set of Documents has one that no relation leads to from within the set.
NoCircle ==
  \A S \in SUBSET DOMAIN documents : S # {} =>
    \E d \in S : \A x \in relations : x.later = d => x.earlier \notin S

\* The least-number principle, for a set instead of a predicate.
LEMMA LeastNumber ==
  ASSUME NEW T, T \subseteq Nat, T # {}
  PROVE  \E n \in T : \A m \in T : n <= m
  <1> DEFINE R == {pair \in Nat \X Nat : pair[1] < pair[2]}
  <1>1. IsWellFoundedOn(R, Nat)
    BY NatLessThanWellFounded DEF OpToRel
  <1>2. \A m, n \in Nat : m < n => <<m, n>> \in R
    OBVIOUS
  <1> HIDE DEF R
  <1>3. PICK n \in T : \A m \in T : <<m, n>> \notin R
    BY <1>1, WFMin
  <1>4. ASSUME NEW m \in T
        PROVE  n <= m
    <2>1. m \in Nat /\ n \in Nat /\ <<m, n>> \notin R
      BY <1>3
    <2>2. ~(m < n)
      BY <1>2, <2>1
    <2> QED
      BY <2>1, <2>2
  <1> QED
    BY <1>4

\* Revisions never run in a circle, of any length: _would_create_revision_cycle has
\* nothing to find.
THEOREM NoCircles == Spec => []NoCircle
  <1>1. Inv /\ RevisionsForward => NoCircle
    <2> SUFFICES ASSUME Inv, RevisionsForward, NEW S \in SUBSET DOMAIN documents, S # {}
                 PROVE  \E d \in S : \A x \in relations : x.later = d => x.earlier \notin S
      BY DEF NoCircle
    <2>1. \A d \in S : documents[d].after \in Nat
      <3>1. documents \in [DOMAIN documents -> Row]
        BY RowsType DEF Inv, TypeOK
      <3> QED
        BY <3>1 DEF Row
    <2>2. PICK d \in S : \A e \in S : documents[d].after <= documents[e].after
      <3> DEFINE T == {documents[d].after : d \in S}
      <3>1. T \subseteq Nat /\ T # {}
        BY <2>1
      <3>2. PICK n \in T : \A m \in T : n <= m
        BY <3>1, LeastNumber
      <3> QED
        BY <3>2
    <2>3. \A x \in relations : x.later = d => x.earlier \notin S
      BY <2>1, <2>2 DEF RevisionsForward, Stored
    <2> QED
      BY <2>3
  <1> QED
    BY <1>1, Invariance, RevisionsLeadForward, PTL
=============================================================================
