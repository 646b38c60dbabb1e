----------------------------- MODULE SourceCapture -----------------------------
(***************************************************************************)
(* capture_source and the file ingestion above it: Sources, content-       *)
(* addressed RawBlobs, SourceCaptures under idempotency keys, immutable    *)
(* Documents and the revision relations between them.  A use case is one   *)
(* Ledger transaction; one that raises changes nothing and is no step.     *)
(***************************************************************************)
EXTENDS Naturals, FiniteSets

CONSTANTS
  Urls,       \* Sources of deposited files
  Paths,      \* Sources of local files
  Items,      \* Sources of items of a provider
  Contents,   \* the bytes of a payload
  Keys,       \* idempotency keys that providers' callers choose
  Versions,   \* versions that providers give to an item
  Details,    \* the compared metadata of a request
  Payloads,   \* the contents that each Source may have
  MediumOf,   \* media type of the payloads of each Source
  Stamps,     \* what the clock may say when a file is deposited
  None

Sources == Urls \cup Paths \cup Items

\* A Document id is the digest of its Source, provider version and bytes.
Documents == [source : Sources, version : Versions \cup {None}, content : Contents]

\* Corrections, clarifications and withdrawals are treated as updates are.
Kinds == {"original", "update"}

ASSUME NamesAssumption ==
  /\ Urls \cap Paths = {} /\ (Urls \cup Paths) \cap Items = {}
  /\ Keys \cap Contents = {}
  /\ None \notin Versions \cup Documents \cup {MediumOf[s] : s \in Sources}
  /\ DOMAIN MediumOf = Sources
  /\ Payloads \in [Sources -> SUBSET Contents]

ASSUME StampsAssumption == Stamps \subseteq Nat /\ None \notin Stamps

VARIABLES
  blobs,        \* the media type of each stored RawBlob
  captures,     \* the SourceCapture of each Source and key that has one
  documents,    \* the Documents: their kind, how many their Source had before, and
                \* created_at, which is compared between deposits only
  resolutions,  \* CaptureDocumentResolutions
  relations     \* DocumentRevisionRelations

vars == <<blobs, captures, documents, resolutions, relations>>

-----------------------------------------------------------------------------
(* Requests and what they name *)

Document(r) == [source |-> r.source, version |-> r.version, content |-> r.content]

Stored(d) == d \in DOMAIN documents

DocumentsOf(s) == {d \in DOMAIN documents : d.source = s}

Captured(r) == <<r.source, r.key>> \in DOMAIN captures

Resolution(r) ==
  [source |-> r.source, key |-> r.key, content |-> r.content, document |-> Document(r)]

\* A resolution id leaves the provider version out.
SameResolutionId(x, y) == x.source = y.source /\ x.key = y.key /\ x.content = y.content

Relation(r) == [earlier |-> r.earlier, later |-> Document(r), kind |-> r.kind]

Requested(r) == IF r.earlier = None THEN {} ELSE {Relation(r)}

\* Documents that later relations lead to from d.
Later(d) ==
  LET step(S) == S \cup {x.later : x \in {y \in relations : y.earlier \in S}}
      reach[n \in Nat] == IF n = 0 THEN {d} ELSE step(reach[n - 1])
  IN  reach[Cardinality(relations)]

-----------------------------------------------------------------------------
(* Validation *)

\* _validate_revision_request
RevisionWellFormed(r) ==
  /\ r.earlier # Document(r)
  /\ r.kind = "original" <=> r.earlier = None

\* _validate_provider_version_conflict, and the unique index on (source_id,
\* provider_version).
VersionFree(r) ==
  r.version # None =>
    \A d \in DocumentsOf(r.source) : d.version = r.version => d = Document(r)

\* Mutant of RevisionAllowed: a Document may be revised into one that exists.
RevisionToKnownContent(r) ==
  r.earlier # None => Stored(r.earlier) /\ r.earlier.source = r.source

\* What capture_source asks of a revision before and while it writes it.
RevisionAllowed(r) ==
  r.earlier # None =>
    /\ Stored(r.earlier) /\ r.earlier.source = r.source
    /\ ~Stored(Document(r))
    /\ r.earlier \notin Later(Document(r))

\* _is_idempotent_retry: the capture's own blob is not compared.
IsRetry(r) ==
  /\ blobs[r.content] = MediumOf[r.source]
  /\ captures[r.source, r.key].details = r.details
  /\ captures[r.source, r.key].version = r.version
  /\ documents[Document(r)].kind = r.kind
  /\ Requested(r) \subseteq relations

-----------------------------------------------------------------------------
(* Writes *)

\* A row that exists stays as it is.
Saved(rows, id, row) ==
  [x \in DOMAIN rows \cup {id} |-> IF x \in DOMAIN rows THEN rows[x] ELSE row]

SaveDocument(r) ==
  documents' = Saved(documents, Document(r),
                     [kind |-> r.kind, after |-> Cardinality(DocumentsOf(r.source)),
                      at |-> r.at])

\* Mutant of SaveResolution: only the capture that brings a Document resolves.
SaveResolutionOfNew(r) ==
  resolutions' = IF Stored(Document(r)) THEN resolutions ELSE resolutions \cup {Resolution(r)}

\* The immutable table refuses another record under an id it has.
SaveResolution(r) ==
  /\ \A x \in resolutions : SameResolutionId(x, Resolution(r)) => x = Resolution(r)
  /\ resolutions' = resolutions \cup {Resolution(r)}

SaveRelation(r) == relations' = relations \cup Requested(r)

\* capture_source with a new key.
CaptureNew(r) ==
  /\ ~Captured(r)
  /\ RevisionWellFormed(r)
  /\ VersionFree(r)
  /\ RevisionAllowed(r)
  /\ blobs' = [blobs EXCEPT ![r.content] = IF @ = None THEN MediumOf[r.source] ELSE @]
  /\ captures' = Saved(captures, <<r.source, r.key>>,
                       [content |-> r.content, version |-> r.version, details |-> r.details])
  /\ SaveDocument(r)
  /\ SaveResolution(r)
  /\ SaveRelation(r)

\* The key is known and the Document is not: it is created for that capture.
CaptureWithoutDocument(r) ==
  /\ Captured(r)
  /\ blobs[r.content] # None
  /\ ~Stored(Document(r))
  /\ RevisionWellFormed(r)
  /\ VersionFree(r)
  /\ SaveDocument(r)
  /\ SaveResolution(r)
  /\ SaveRelation(r)
  /\ UNCHANGED <<blobs, captures>>

\* The key and the Document are known, but not that one resolves to the other.
CaptureWithoutResolution(r) ==
  /\ Captured(r)
  /\ Stored(Document(r))
  /\ IsRetry(r)
  /\ \A x \in resolutions : ~SameResolutionId(x, Resolution(r))
  /\ SaveResolution(r)
  /\ SaveRelation(r)
  /\ UNCHANGED <<blobs, captures, documents>>

Capture(r) == CaptureNew(r) \/ CaptureWithoutDocument(r) \/ CaptureWithoutResolution(r)

-----------------------------------------------------------------------------
(* Callers *)

Request(s, key, content, version, kind, earlier, details, at) ==
  [source |-> s, key |-> key, content |-> content, version |-> version, kind |-> kind,
   earlier |-> earlier, details |-> details, at |-> at]

\* Mutant of Latest: the sort is in descending order.
Earliest(s) ==
  {d \in DocumentsOf(s) : \A e \in DocumentsOf(s) : documents[d].at <= documents[e].at}

\* _latest_document: the highest created_at, by the wall clock of the process that
\* deposited it.  Among equal ones the id decides, a digest: any of them.
Latest(s) ==
  {d \in DocumentsOf(s) : \A e \in DocumentsOf(s) : documents[e].at <= documents[d].at}

IsRevision(s, content) ==
  /\ DocumentsOf(s) # {}
  /\ ~Stored([source |-> s, version |-> None, content |-> content])

\* The request for a file: its key is the fingerprint of the Source and the bytes.
FileRequest(s, content, earlier, details, at) ==
  Request(s, content, content, None, IF earlier = None THEN "original" ELSE "update",
          earlier, details, at)

\* New bytes of a URL are an update of the latest ones.  The clock is read before the
\* transaction begins, and by several processes: it need not advance between two.
DepositFile(s, content, details) ==
  \E at \in Stamps, earlier \in IF IsRevision(s, content) THEN Latest(s) ELSE {None} :
    Capture(FileRequest(s, content, earlier, details, at))

\* UNCLASSIFIED_REVISION: changed bytes of a local file are refused.
IngestLocalFile(s, content, details) ==
  /\ ~IsRevision(s, content)
  /\ Capture(FileRequest(s, content, None, details, None))

\* The other callers, structured news among them: they choose the key and may give
\* a version; an earlier Document is one the Ledger listed for the Source.
CaptureItem(s, content, details) ==
  \E key \in Keys, version \in Versions \cup {None}, kind \in Kinds,
     earlier \in DocumentsOf(s) \cup {None} :
       Capture(Request(s, key, content, version, kind, earlier, details, None))

Init ==
  /\ blobs = [c \in Contents |-> None]
  /\ captures = <<>>
  /\ documents = <<>>
  /\ resolutions = {}
  /\ relations = {}

Next ==
  \E s \in Sources, details \in Details : \E content \in Payloads[s] :
    \/ s \in Urls /\ DepositFile(s, content, details)
    \/ s \in Paths /\ IngestLocalFile(s, content, details)
    \/ s \in Items /\ CaptureItem(s, content, details)

Spec == Init /\ [][Next]_vars
-----------------------------------------------------------------------------
(* Properties *)

\* A Document has a capture that resolves to it, and a capture resolves to a
\* Document, whichever of the branches of capture_source wrote them.
NothingUnresolved ==
  /\ \A d \in DOMAIN documents : \E x \in resolutions : x.document = d
  /\ \A k \in DOMAIN captures : \E x \in resolutions : <<x.source, x.key>> = k
  /\ \A x \in resolutions : Stored(x.document) /\ <<x.source, x.key>> \in DOMAIN captures

\* Revisions of the Documents of a Source never run in a circle, and lead from a
\* Document to a later one of the same Source.
RevisionsForward ==
  \A x \in relations : /\ Stored(x.earlier) /\ Stored(x.later)
                       /\ x.earlier.source = x.later.source
                       /\ documents[x.earlier].after < documents[x.later].after

\* The Documents of its Source that were saved before d.
SavedBefore(d) == {e \in DocumentsOf(d.source) : documents[e].after < documents[d].after}

\* The clock advanced from each of them to the next.
InOrder(S) ==
  \A e, f \in S : documents[e].after < documents[f].after => documents[e].at < documents[f].at

\* However deposits of a URL follow each other, each but the first revises exactly
\* one that was saved before it.  Where the clock advanced between those, it is the
\* last of them, and the versions are a chain; where it stood still or went back,
\* two deposits may revise the same one.
DepositsAreChain ==
  \A s \in Urls : \A d \in DocumentsOf(s) : SavedBefore(d) # {} =>
    \E e \in SavedBefore(d) :
      /\ {x.earlier : x \in {y \in relations : y.later = d}} = {e}
      /\ InOrder(SavedBefore(d)) => \A f \in SavedBefore(d) : documents[f].after <= documents[e].after
=============================================================================
