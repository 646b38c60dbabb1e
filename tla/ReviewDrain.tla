------------------------------ MODULE ReviewDrain ------------------------------
(***************************************************************************)
(* review drain: one explicit decision for the pending ProposedChanges of  *)
(* the Review Queue, each in a transaction of its own, while extraction    *)
(* submits more of them and other reviewers decide some.                   *)
(*                                                                         *)
(* A transaction is one step here: LedgerTransaction shows that it is.     *)
(***************************************************************************)
EXTENDS Naturals, FiniteSets, Sequences

CONSTANTS
  Changes,     \* ProposedChanges that may be submitted
  Type,        \* the record type of each
  Label,       \* its place among those of its type: stable label, then id
  Requires,    \* the ProposedChanges whose records its own record refers to
  Drains,      \* processes that run review drain
  Inputs,      \* what they may be asked for
  NoLimit, Reviewer, Nobody

\* REVIEW_RECORD_TYPE_ORDER: the record types the queue can list, in its order.
RecordTypeOrder ==
  [Organization |-> 0, Actor |-> 1, Event |-> 2, EvidenceTarget |-> 3, Assertion |-> 4,
   Relationship |-> 5, Outcome |-> 6, ArgumentEdge |-> 7]

\* Review accepts one more, which the queue cannot list.
RecordTypes == DOMAIN RecordTypeOrder \cup {"SourceLineageRelation"}

Entities == {"Organization", "Actor", "Event"}

\* The types of the proposed records a record of each type refers to.
RefersTo ==
  [Organization |-> {}, Actor |-> {"Organization"},
   Event |-> {"Organization", "Actor", "EvidenceTarget"}, EvidenceTarget |-> {},
   Assertion |-> Entities \cup {"EvidenceTarget", "Assertion"},
   Relationship |-> Entities \cup {"Assertion"}, Outcome |-> Entities \cup {"Assertion"},
   ArgumentEdge |-> {"Assertion", "EvidenceTarget"}, SourceLineageRelation |-> {}]

ASSUME ProposalsAssumption ==
  /\ Type \in [Changes -> RecordTypes]
  /\ Label \in [Changes -> Nat]
  /\ \A b, c \in Changes : b # c => Type[b] # Type[c] \/ Label[b] # Label[c]
  /\ Requires \in [Changes -> SUBSET Changes]
  /\ \A c \in Changes : \A r \in Requires[c] : Type[r] \in RefersTo[Type[c]]

ASSUME DrainsAssumption ==
  /\ \A in \in Inputs : /\ in.decision \in {"approve", "reject"}
                        /\ in.limit \in Nat \/ in.limit = NoLimit
                        /\ in.matching \subseteq Changes
                        /\ in.predicate \in BOOLEAN
  /\ NoLimit \notin Nat
  /\ Reviewer \notin Drains /\ Nobody \notin Drains \cup {Reviewer}

VARIABLES
  status,      \* review_status of each ProposedChange
  decidedBy,   \* the agent of its review ProvenanceActivity
  phase,       \* how far each drain is, or why it stopped
  input,       \* the ReviewDrainInput of each, once it has one
  executed     \* item_results

vars == <<status, decidedBy, phase, input, executed>>

-----------------------------------------------------------------------------
(* The Review Queue *)

\* Mutant of Before: the queue is sorted by label alone.
BeforeByLabel(b, c) == Label[b] < Label[c]

\* _queue_sort_key
Before(b, c) ==
  \/ RecordTypeOrder[Type[b]] < RecordTypeOrder[Type[c]]
  \/ Type[b] = Type[c] /\ Label[b] < Label[c]

PendingChanges == {c \in Changes : status[c] = "pending"}

\* The record type is looked up before the filter: one pending ProposedChange of
\* another type fails every listing.
Listable == \A c \in PendingChanges : Type[c] \in DOMAIN RecordTypeOrder

\* list_review_queue, whose order is Before.
Queue(in) == {c \in in.matching : status[c] = "pending"}

\* queue.items[:limit]
Selected(in) ==
  {c \in Queue(in) :
     in.limit # NoLimit => Cardinality({b \in Queue(in) : Before(b, c)}) < in.limit}

NextItem(in) == CHOOSE c \in Queue(in) : \A b \in Queue(in) : b # c => Before(c, b)

-----------------------------------------------------------------------------
(* A decision *)

\* Mutant of ReferencesAccepted: a reference to a pending record is accepted.
ReferencesKnown(c) == \A r \in Requires[c] : status[r] \in {"pending", "approved"}

\* _validate_accepted_record_references
ReferencesAccepted(c) == \A r \in Requires[c] : status[r] = "approved"

\* What makes approve_proposed_change or reject_proposed_change succeed.
Decidable(c, decision, predicate) ==
  \/ decision = "reject"
  \/ ReferencesAccepted(c) /\ (Type[c] = "Assertion" => predicate)

Verdict == [approve |-> "approved", reject |-> "rejected"]

Decide(c, decision, agent) ==
  /\ status' = [status EXCEPT ![c] = Verdict[decision]]
  /\ decidedBy' = [decidedBy EXCEPT ![c] = agent]

-----------------------------------------------------------------------------
(* review drain *)

\* The first transaction: a selection with an Assertion is not for bulk approval.
Select(d, in) ==
  /\ phase[d] = "idle"
  /\ input' = [input EXCEPT ![d] = {in}]
  /\ phase' = [phase EXCEPT ![d] =
       IF in.decision = "approve"
            /\ (~Listable \/ \E c \in Selected(in) : Type[c] = "Assertion")
       THEN "validation_failed" ELSE "draining"]
  /\ UNCHANGED <<status, decidedBy, executed>>

\* Mutant of Continues: the limit is compared after one more item.
ContinuesPastLimit(d, in) == in.limit # NoLimit => Len(executed[d]) <= in.limit

Continues(d, in) == in.limit # NoLimit => Len(executed[d]) < in.limit

\* Mutant of AfterFailure: the drain goes on after an item that failed.
AfterFailureGoOn == "draining"

AfterFailure == "validation_failed"

Item(d, in) ==
  /\ Continues(d, in)
  /\ Listable
  /\ Queue(in) # {}
  /\ LET c == NextItem(in) IN
       IF Decidable(c, in.decision, in.predicate)
       THEN /\ Decide(c, in.decision, d)
            /\ executed' = [executed EXCEPT ![d] = Append(@, c)]
            /\ UNCHANGED phase
       ELSE /\ phase' = [phase EXCEPT ![d] = AfterFailure]
            /\ UNCHANGED <<status, decidedBy, executed>>

Stop(d, in) ==
  /\ \/ ~Continues(d, in) /\ phase' = [phase EXCEPT ![d] = "limit_reached"]
     \/ Continues(d, in) /\ ~Listable /\ phase' = [phase EXCEPT ![d] = "validation_failed"]
     \/ /\ Continues(d, in) /\ Listable /\ Queue(in) = {}
        /\ phase' = [phase EXCEPT ![d] = "queue_empty"]
  /\ UNCHANGED <<status, decidedBy, executed>>

\* One round of _drain_review_queue_with_item_transactions.
Drain(d) ==
  /\ phase[d] = "draining"
  /\ \E in \in input[d] : Item(d, in) \/ Stop(d, in)
  /\ UNCHANGED input

\* The process dies, or the database is busy: an error that is no ValueError ends
\* the drain without a report, and what it committed stays.
Crash(d) ==
  /\ phase[d] = "draining"
  /\ phase' = [phase EXCEPT ![d] = "crashed"]
  /\ UNCHANGED <<status, decidedBy, input, executed>>

-----------------------------------------------------------------------------
(* The others *)

\* A ProposedChange of an extraction or of a lineage proposal is stored.
Submit(c) ==
  /\ status[c] = "absent"
  /\ status' = [status EXCEPT ![c] = "pending"]
  /\ UNCHANGED <<decidedBy, phase, input, executed>>

\* review approve and review reject decide a ProposedChange by its id.
Review(c, decision) ==
  /\ status[c] = "pending"
  /\ Decidable(c, decision, TRUE)
  /\ Decide(c, decision, Reviewer)
  /\ UNCHANGED <<phase, input, executed>>

Init ==
  /\ status = [c \in Changes |-> "absent"]
  /\ decidedBy = [c \in Changes |-> Nobody]
  /\ phase = [d \in Drains |-> "idle"]
  /\ input = [d \in Drains |-> {}]
  /\ executed = [d \in Drains |-> <<>>]

Next ==
  \/ \E d \in Drains : Drain(d) \/ Crash(d) \/ \E in \in Inputs : Select(d, in)
  \/ \E c \in Changes : Submit(c) \/ \E decision \in {"approve", "reject"} : Review(c, decision)

\* The loop of a drain runs on until it stops or crashes.
Spec == Init /\ [][Next]_vars /\ \A d \in Drains : WF_vars(Drain(d))
-----------------------------------------------------------------------------
(* Properties *)

Decided == {"approved", "rejected"}

TypeOK ==
  /\ status \in [Changes -> Decided \cup {"absent", "pending"}]
  /\ decidedBy \in [Changes -> Drains \cup {Reviewer, Nobody}]
  /\ phase \in [Drains -> {"idle", "draining", "queue_empty", "limit_reached",
                           "validation_failed", "crashed"}]
  /\ input \in [Drains -> SUBSET Inputs]
  /\ \A d \in Drains : input[d] # {} <=> phase[d] # "idle"
  /\ executed \in [Drains -> Seq(Changes)]

\* Whatever is decided elsewhere meanwhile, what a drain reports as executed is
\* what it decided, each item once and no more of them than its limit.
ReportIsTruthful ==
  \A d \in Drains :
    /\ {executed[d][i] : i \in DOMAIN executed[d]} = {c \in Changes : decidedBy[c] = d}
    /\ \A i, j \in DOMAIN executed[d] : executed[d][i] = executed[d][j] => i = j
    /\ \A in \in input[d] : in.limit # NoLimit => Len(executed[d]) <= in.limit

\* No accepted record refers to one that is not accepted, however approvals and
\* rejections of the two are interleaved.
ReferencesClosed ==
  \A c \in Changes : status[c] = "approved" => \A r \in Requires[c] : status[r] = "approved"

\* The references whose record may come after the one that refers to it.
OutOfOrder(c, r) ==
  Type[r] = Type[c] \/ (Type[c] = "Event" /\ Type[r] = "EvidenceTarget")

\* "Existing review order presents Organizations, Actors, Events, and Assertions in
\* dependency order": an item that fails for a missing record of another type does
\* not wait for one the same drain would have come to later.  The order serves every
\* reference but one: an Event comes before the EvidenceTargets of its mention.
RequirementsComeFirst ==
  [][\A d \in Drains : \A in \in input[d] :
       (/\ phase[d] = "draining" /\ phase'[d] = "validation_failed"
        /\ Listable /\ Continues(d, in)) =>
         LET c == NextItem(in) IN
           \/ Type[c] = "Assertion" /\ ~in.predicate
           \/ \E r \in Requires[c] : /\ status[r] # "approved"
                                     /\ r \in Queue(in) => OutOfOrder(c, r)]_vars

\* A drain ends, although extraction keeps submitting.
DrainEnds == \A d \in Drains : phase[d] = "draining" ~> phase[d] # "draining"

\* "Omitted --limit must drain all matching pending ProposedChange records": a
\* drain does not stop before a matching one that it could decide.
StopsOnMatchingItem ==
  [][\A d \in Drains : \A in \in input[d] :
       (/\ phase[d] = "draining" /\ phase'[d] = "validation_failed"
        /\ Queue(in) # {}) =>
         ~Decidable(NextItem(in), in.decision, in.predicate)]_vars
=============================================================================
