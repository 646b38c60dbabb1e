--------------------------- MODULE ReviewAcceptance ---------------------------
(***************************************************************************)
(* The accepted-state boundary of the KoteKomi ledger.                     *)
(*                                                                         *)
(* Extraction publishes ProposedChange records; a reviewer approves, edits *)
(* or rejects each of them.  Accepting an Assertion writes the Assertion,  *)
(* its evidence links, the review ProvenanceActivity, the revised          *)
(* predecessor (when the Assertion supersedes one) and the ProposedChange  *)
(* transition under one savepoint, after validating the evidence links,    *)
(* the support graph of an analytic inference and the predecessor.         *)
(*                                                                         *)
(* Every use case runs in one SQLite transaction (LedgerTransaction models *)
(* that layer), so a use case is one atomic step here and a validation     *)
(* error, which rolls the transaction back, is no step at all.             *)
(***************************************************************************)
EXTENDS FiniteSets

CONSTANTS
  ProposedChanges,   \* ProposedChange identifiers
  Assertions,        \* Assertion identifiers
  Entities,          \* identifiers of the records an Assertion is about
  SubjectValues,     \* literal subjects (subject_value instead of an entity)
  EvidenceTargets,   \* EvidenceTarget identifiers
  Attempts,          \* EvidenceValidationAttempt identifiers
  TargetOf,          \* the EvidenceTarget a validation attempt belongs to
  Predicates,        \* canonical predicates
  Reviewers,
  GroundedBatches,   \* what submit_grounded_candidate_batch may be given
  PlannedBatches,    \* what submit_planned_proposal_batch may be given
  Edits,             \* what a reviewer may supply as accepted_record_json
  None

VARIABLES
  proposals,    \* ProposedChange table
  assertions,   \* Assertion table (mutable: _upsert_mutable overwrites by id)
  entities,     \* accepted Entity/Actor/Organization/... records
  targets,      \* EvidenceTarget table
  attempts,     \* EvidenceValidationAttempt table (the succeeded ones)
  links,        \* AssertionEvidenceLink table (immutable)
  activities    \* ProvenanceActivity table: the review activities (immutable)

vars == <<proposals, assertions, entities, targets, attempts, links, activities>>

-----------------------------------------------------------------------------
(* Records *)

ReviewStatus == {"absent", "pending", "approved", "edited", "rejected"}

\* "confirmed" and "contradicted" behave as "corroborated" does.
AssertionStatus == {"reported", "corroborated", "superseded", "retracted"}

Subjects == Entities \cup SubjectValues

LinkSpecs == [evidence : EvidenceTargets, attempt : Attempts,
              role : {"direct_support", "context"}]

ReviewActivityIds == [change : ProposedChanges, reviewer : Reviewers,
                      type : {"approved", "edited", "rejected"}]

\* The proposed_json or accepted_record_json of a ProposedChange.
EntityBodies == [kind : {"Entity"}, id : Entities]

AssertionBodies ==
  [kind : {"Assertion"}, id : Assertions, form : {"direct", "analytic"},
   subject : Subjects, predicate : Predicates,
   status : AssertionStatus \cup {"proposed"},
   evidence : SUBSET EvidenceTargets, supports : SUBSET Assertions,
   supersedes : Assertions \cup {None}, provenance : SUBSET ReviewActivityIds,
   specs : SUBSET LinkSpecs]

Bodies == EntityBodies \cup AssertionBodies

AssertionRecords ==
  [status : AssertionStatus, form : {"direct", "analytic"},
   subject : Subjects, predicate : Predicates,
   evidence : SUBSET EvidenceTargets, supports : SUBSET Assertions,
   supersedes : Assertions \cup {None}, provenance : SUBSET ReviewActivityIds]

NoAssertion == [status |-> "absent"]

EvidenceLinks == [assertion : Assertions, spec : LinkSpecs,
                  provenance : ReviewActivityIds]

ASSUME ConstantsAssumption ==
  /\ Entities \cap SubjectValues = {}
  /\ None \notin Assertions \cup Entities
  /\ TargetOf \in [Attempts -> EvidenceTargets]
  /\ \A batch \in GroundedBatches \cup PlannedBatches :
        /\ DOMAIN batch \subseteq ProposedChanges
        /\ \A p \in DOMAIN batch : batch[p] \in Bodies
  /\ Edits \subseteq Bodies

-----------------------------------------------------------------------------
(* Ledger reads *)

Known(a) == assertions[a].status # "absent"

Current(a) == assertions[a].status \notin {"absent", "superseded", "retracted"}

Premises(a) == IF Known(a) /\ assertions[a].form = "analytic"
               THEN assertions[a].supports
               ELSE {}

\* The Assertions the depth-first search of terminal_direct_count reaches from
\* a set of supports: the least set that holds them and the premises of each
\* analytic inference in it.
Reached(supports) ==
  {n \in Assertions :
     \A X \in SUBSET Assertions :
        (supports \subseteq X /\ \A m \in X : Premises(m) \subseteq X) => n \in X}

\* No chain of premises inside X returns to where it began: every non-empty
\* part of X has a member whose premises lie outside that part.
NoCycleIn(X) == \A Y \in SUBSET X :
                  Y # {} => \E y \in Y : Premises(y) \cap Y = {}

-----------------------------------------------------------------------------
(* Validation of an accepted record *)

\* Assertion.validate_assertion_rules: the direct and the analytic form.
WellFormed(b) ==
  IF b.form = "analytic"
  THEN b.supports # {} /\ b.id \notin b.supports /\ b.evidence = {}
  ELSE b.evidence # {} /\ b.supports = {}

\* _prepared_assertion_evidence_links: every specified link replays and belongs
\* to the accepted Assertion, and a source-backed one has direct support.
LinkSpecsValid(b, specs) ==
  /\ \A s \in specs :
       /\ s.evidence \in targets
       /\ s.attempt \in attempts
       /\ TargetOf[s.attempt] = s.evidence
       /\ s.evidence \in b.evidence
  /\ b.form = "direct" => \E s \in specs : s.role = "direct_support"

\* Mutant of SupportGraphValid: the search does not start with the accepted
\* Assertion among the visited ones.
SupportGraphWithoutSelf(b) ==
  b.form = "analytic" =>
     LET reached == Reached(b.supports)
     IN  /\ \A n \in reached : Known(n)
         /\ NoCycleIn(reached)
         /\ \E n \in reached : assertions[n].form = "direct"

\* _validate_assertion_support_graph.
SupportGraphValid(b) ==
  b.form = "analytic" =>
     LET reached == Reached(b.supports)
     IN  /\ b.id \notin reached
         /\ \A n \in reached : Known(n)
         /\ NoCycleIn(reached)
         /\ \E n \in reached : assertions[n].form = "direct"

\* Supersession compares subject_entity_id: None for every literal subject.
SubjectEntity(s) == IF s \in Entities THEN s ELSE None

\* Mutant of PredecessorValid: no scan for an earlier successor.
PredecessorCurrentOnly(b, predicate) ==
  b.supersedes # None => Current(b.supersedes)

\* _validate_supersession_predecessor.
PredecessorValid(b, predicate) ==
  b.supersedes # None =>
     LET predecessor == assertions[b.supersedes]
     IN  /\ Current(b.supersedes)
         /\ SubjectEntity(predecessor.subject) = SubjectEntity(b.subject)
         /\ predecessor.predicate = predicate
         /\ predecessor.form = b.form
         /\ \A other \in Assertions :
              Known(other) => assertions[other].supersedes # b.supersedes

ActivityIds == {activity.id : activity \in activities}

\* _validate_accepted_record_references for an Assertion.
ReferencesValid(b, predicate, provenance, activity) ==
  /\ b.subject \in Entities => b.subject \in entities
  /\ b.evidence \subseteq targets
  /\ SupportGraphValid(b)
  /\ PredecessorValid(b, predicate)
  /\ provenance \subseteq ActivityIds \cup {activity}

-----------------------------------------------------------------------------
(* Writes *)

\* Mutant of Pending: a rejected ProposedChange may be reviewed again.
NotAccepted(p) == proposals[p].status \in {"pending", "rejected"}

Pending(p) == proposals[p].status = "pending"

NewLinks(a, specs, activity) ==
  {[assertion |-> a, spec |-> s, provenance |-> activity] : s \in specs}

\* _insert_immutable of the evidence links: the link id is derived from the
\* Assertion and the specification, so a stored link made by another review
\* is an ImmutableRecordConflict and the savepoint rolls back.
LinksInsertable(new) ==
  \A l \in links, n \in new :
     (l.assertion = n.assertion /\ l.spec = n.spec) => l = n

\* Mutant of Superseded: the review is not added to the predecessor.
SupersededSilently(record, activity) == [record EXCEPT !.status = "superseded"]

\* _superseded_assertion: the predecessor as read before the acceptance.
Superseded(record, activity) ==
  [record EXCEPT !.status = "superseded",
                 !.provenance = @ \cup {activity}]

\* Mutant of SavedAssertions: the predecessor is not written.
SavedSuccessorOnly(a, record, predecessor, activity) ==
  [assertions EXCEPT ![a] = record]

\* save_assertion(assertion), then save_assertion(superseded_assertion): when
\* both have one id the second write wins.
SavedAssertions(a, record, predecessor, activity) ==
  [x \in Assertions |->
     IF x = predecessor THEN Superseded(assertions[x], activity)
     ELSE IF x = a THEN record
     ELSE assertions[x]]

Transition(p, status, accepted) ==
  proposals' = [proposals EXCEPT
                  ![p] = [status |-> status, body |-> @.body, accepted |-> accepted]]

RecordActivity(activity, outputs) ==
  activities' = activities \cup {[id |-> activity, outputs |-> outputs]}

\* commit_reviewed_assertion_acceptance with everything prepared for it.
AcceptAssertion(p, decision, b, predicate, status, prior, activity) ==
  LET specs  == proposals[p].body.specs
      new    == NewLinks(b.id, specs, activity)
      record == [status |-> status, form |-> b.form, subject |-> b.subject,
                 predicate |-> predicate, evidence |-> b.evidence,
                 supports |-> b.supports, supersedes |-> b.supersedes,
                 provenance |-> prior \cup {activity}]
  IN  /\ WellFormed(b)
      /\ LinkSpecsValid(b, specs)
      /\ ReferencesValid(b, predicate, record.provenance, activity)
      /\ LinksInsertable(new)
      /\ assertions' = SavedAssertions(b.id, record, b.supersedes, activity)
      /\ links' = links \cup new
      /\ RecordActivity(activity, {b.id} \cup ({b.supersedes} \ {None}))
      /\ Transition(p, decision, [b EXCEPT !.predicate = predicate, !.status = status])
      /\ UNCHANGED <<entities, targets, attempts>>

AcceptEntity(p, decision, b, activity) ==
  /\ entities' = entities \cup {b.id}
  /\ RecordActivity(activity, {b.id})
  /\ Transition(p, decision, b)
  /\ UNCHANGED <<assertions, links, targets, attempts>>

DefaultStatus(form) == IF form = "analytic" THEN "corroborated" ELSE "reported"

-----------------------------------------------------------------------------
(* Use cases *)

\* approve_proposed_change: the reviewer supplies only the canonical predicate.
Approve(p, reviewer, predicate) ==
  /\ Pending(p)
  /\ LET b == proposals[p].body
         activity == [change |-> p, reviewer |-> reviewer, type |-> "approved"]
     IN  \/ /\ b.kind = "Assertion"
            /\ AcceptAssertion(p, "approved", b, predicate, DefaultStatus(b.form),
                               {}, activity)
         \/ /\ b.kind = "Entity"
            /\ AcceptEntity(p, "approved", b, activity)

\* edit_proposed_change: the reviewer supplies the whole accepted record; the
\* record type and the evidence links stay those of the proposal.
Edit(p, reviewer, b) ==
  /\ Pending(p)
  /\ b.kind = proposals[p].body.kind
  /\ LET activity == [change |-> p, reviewer |-> reviewer, type |-> "edited"]
     IN  \/ /\ b.kind = "Assertion"
            /\ AcceptAssertion(p, "edited", b, b.predicate,
                               IF b.status = "proposed" THEN DefaultStatus(b.form)
                                                        ELSE b.status,
                               b.provenance, activity)
         \/ /\ b.kind = "Entity"
            /\ AcceptEntity(p, "edited", b, activity)

\* reject_proposed_change.
Reject(p, reviewer) ==
  /\ Pending(p)
  /\ RecordActivity([change |-> p, reviewer |-> reviewer, type |-> "rejected"], {p})
  /\ Transition(p, "rejected", None)
  /\ UNCHANGED <<assertions, entities, targets, attempts, links>>

Publish(batch, fresh) ==
  proposals' = [p \in ProposedChanges |->
                  IF p \in fresh
                  THEN [status |-> "pending", body |-> batch[p], accepted |-> None]
                  ELSE proposals[p]]

\* Mutant of Absent: a re-run extraction saves every proposal again.
Resubmitted(batch) == DOMAIN batch

Absent(batch) == {p \in DOMAIN batch : proposals[p].status = "absent"}

AssertionsOf(batch) == {p \in DOMAIN batch : batch[p].kind = "Assertion"}

\* submit_grounded_candidate_batch: saves the evidence and its successful
\* validation attempts, and only those proposals the ledger does not hold yet.
SubmitGroundedBatch(batch) ==
  /\ Publish(batch, Absent(batch))
  /\ targets' = targets \cup UNION {batch[p].evidence : p \in AssertionsOf(batch)}
  /\ attempts' = attempts \cup
       UNION {{s.attempt : s \in batch[p].specs} : p \in AssertionsOf(batch)}
  /\ UNCHANGED <<assertions, entities, links, activities>>

\* submit_planned_proposal_batch: all of the batch or nothing; a batch already
\* published is reused and a partially published one is an error.
SubmitPlannedBatch(batch) ==
  /\ Absent(batch) = DOMAIN batch
  /\ \A p \in AssertionsOf(batch) :
       /\ WellFormed(batch[p])
       /\ batch[p].evidence \subseteq targets
       /\ batch[p].subject \in Entities =>
            batch[p].subject \in entities \cup
              {batch[q].id : q \in DOMAIN batch \ AssertionsOf(batch)}
  /\ Publish(batch, DOMAIN batch)
  /\ UNCHANGED <<assertions, entities, targets, attempts, links, activities>>

-----------------------------------------------------------------------------
Unsubmitted == [status |-> "absent", body |-> None, accepted |-> None]

Init ==
  /\ proposals = [p \in ProposedChanges |-> Unsubmitted]
  /\ assertions = [a \in Assertions |-> NoAssertion]
  /\ entities = {}
  /\ targets = {}
  /\ attempts = {}
  /\ links = {}
  /\ activities = {}

Next ==
  \/ \E batch \in GroundedBatches : SubmitGroundedBatch(batch)
  \/ \E batch \in PlannedBatches : SubmitPlannedBatch(batch)
  \/ \E p \in ProposedChanges, reviewer \in Reviewers :
       \/ \E predicate \in Predicates : Approve(p, reviewer, predicate)
       \/ \E b \in Edits : Edit(p, reviewer, b)
       \/ Reject(p, reviewer)

Spec == Init /\ [][Next]_vars
-----------------------------------------------------------------------------
(* Properties *)

Decided == {"approved", "edited", "rejected"}

\* Every table holds records of its own shape.
TypeOK ==
  /\ proposals \in [ProposedChanges -> [status : ReviewStatus,
                                        body : Bodies \cup {None},
                                        accepted : Bodies \cup {None}]]
  /\ \A p \in ProposedChanges :
       proposals[p].status # "absent" => proposals[p].body \in Bodies
  /\ assertions \in [Assertions -> AssertionRecords \cup {NoAssertion}]
  /\ entities \subseteq Entities
  /\ targets \subseteq EvidenceTargets
  /\ attempts \subseteq Attempts
  /\ links \subseteq EvidenceLinks
  /\ \A activity \in activities : activity.id \in ReviewActivityIds

\* The premises of accepted analytic inferences form no cycle, although an
\* acceptance may overwrite an Assertion that others already rest on
\* (_validate_assertion_support_graph searches from the new premises only).
SupportAcyclic == NoCycleIn(Assertions)

\* Every accepted analytic inference rests on accepted Assertions and its chain
\* of premises ends in a direct Assertion, whatever was accepted, overwritten
\* or superseded after it.
InferenceTerminates ==
  \A a \in Assertions :
     Known(a) /\ assertions[a].form = "analytic" =>
        /\ \A n \in Reached(Premises(a)) : Known(n)
        /\ \E n \in Reached(Premises(a)) : assertions[n].form = "direct"

\* Supersession never forks: one Assertion is the successor of a predecessor
\* (_validate_supersession_predecessor scans list_assertions for another).
OneSuccessor ==
  \A a, b \in Assertions :
     /\ Known(a) /\ Known(b)
     /\ assertions[a].supersedes # None
     /\ assertions[a].supersedes = assertions[b].supersedes
     => a = b

\* Every direct Assertion in the ledger, a superseded or overwritten one too,
\* is tied by a direct_support link to evidence it cites, through a validation
\* attempt of that evidence (_prepared_assertion_evidence_links).
DirectBacked ==
  \A a \in Assertions :
     Known(a) /\ assertions[a].form = "direct" =>
        \E l \in links :
           /\ l.assertion = a
           /\ l.spec.role = "direct_support"
           /\ l.spec.evidence \in assertions[a].evidence
           /\ l.spec.attempt \in attempts
           /\ TargetOf[l.spec.attempt] = l.spec.evidence

\* Each decided ProposedChange has exactly one review ProvenanceActivity, of the
\* type of its decision, and an undecided one has none; an accepted change names
\* a record the ledger holds.
DecisionTraceable ==
  \A p \in ProposedChanges :
     LET reviews == {activity \in activities : activity.id.change = p}
     IN  IF proposals[p].status \in Decided
         THEN /\ \E review \in reviews :
                   /\ reviews = {review}
                   /\ review.id.type = proposals[p].status
              /\ proposals[p].status # "rejected" =>
                   LET b == proposals[p].accepted
                   IN  IF b.kind = "Entity" THEN b.id \in entities ELSE Known(b.id)
         ELSE reviews = {}

\* A decision is final: no later submission, review or retry touches a decided
\* ProposedChange (_get_pending_proposed_change; re-extraction skips known ids).
DecisionFinal ==
  [][\A p \in ProposedChanges :
       proposals[p].status \in Decided => proposals'[p] = proposals[p]]_vars

\* A step that stores a successor finds its predecessor current and leaves it
\* superseded: the two records change together.
SupersessionAtomic ==
  [][\A a, p \in Assertions :
       /\ assertions'[a] # assertions[a]
       /\ assertions'[a].status # "absent"
       /\ assertions'[a].supersedes = p
       /\ Known(a) => assertions[a].supersedes # p
       => Current(p) /\ assertions'[p].status = "superseded"]_vars

\* Accepted state changes only under a review that says so: every Assertion a
\* step creates, overwrites or supersedes is an output of the ProvenanceActivity
\* the same step records, and carries its id.
ChangesAttributed ==
  [][\A a \in Assertions :
       assertions'[a] # assertions[a] =>
          \E activity \in activities' \ activities :
             /\ a \in activity.outputs
             /\ activity.id \in assertions'[a].provenance]_vars
=============================================================================
