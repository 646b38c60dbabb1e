------------------------ MODULE ReviewAcceptance_proofs ------------------------
(***************************************************************************)
(* Proofs about ReviewAcceptance: the ledger tables keep their shape, the  *)
(* premises of accepted inferences stay acyclic and grounded in direct     *)
(* Assertions, and supersession never forks, for every set of Assertions,  *)
(* proposals, edits and evidence.  Decisions are final and traceable, and  *)
(* an Assertion changes only by the review that says so.                   *)
(***************************************************************************)
EXTENDS ReviewAcceptance, TLAPS

USE ConstantsAssumption

-----------------------------------------------------------------------------
(* Type correctness *)

\* A review transition keeps the ProposedChange table well typed.
LEMMA TransitionType ==
  ASSUME TypeOK,
         NEW p \in ProposedChanges, proposals[p].status # "absent",
         NEW decision \in Decided, NEW accepted \in Bodies \cup {None},
         Transition(p, decision, accepted)
  PROVE  /\ proposals' \in [ProposedChanges -> [status : ReviewStatus,
                                                body : Bodies \cup {None},
                                                accepted : Bodies \cup {None}]]
         /\ \A q \in ProposedChanges :
               proposals'[q].status # "absent" => proposals'[q].body \in Bodies
PROOF
  <1> DEFINE Proposal == [status : ReviewStatus, body : Bodies \cup {None},
                          accepted : Bodies \cup {None}]
             new == [status |-> decision, body |-> proposals[p].body,
                     accepted |-> accepted]
  <1>1. proposals[p] \in Proposal /\ proposals[p].body \in Bodies
    BY DEF TypeOK
  <1>2. decision \in ReviewStatus
    BY DEF Decided, ReviewStatus
  <1>3. new \in Proposal
    BY <1>1, <1>2
  <1>4. proposals' = [proposals EXCEPT ![p] = new]
    BY <1>1 DEF Transition, TypeOK
  <1> QED
    BY <1>1, <1>3, <1>4 DEF TypeOK

\* What AcceptAssertion writes is well typed, given a well-typed body.
LEMMA AcceptAssertionType ==
  ASSUME TypeOK,
         NEW p \in ProposedChanges, proposals[p].status # "absent",
         NEW b \in AssertionBodies, NEW predicate \in Predicates,
         NEW status \in AssertionStatus, NEW prior \in SUBSET ReviewActivityIds,
         NEW activity \in ReviewActivityIds,
         NEW decision \in Decided,
         proposals[p].body.kind = "Assertion",
         AcceptAssertion(p, decision, b, predicate, status, prior, activity)
  PROVE  TypeOK'
PROOF
  <1> DEFINE record == [status |-> status, form |-> b.form, subject |-> b.subject,
                 predicate |-> predicate, evidence |-> b.evidence,
                 supports |-> b.supports, supersedes |-> b.supersedes,
                 provenance |-> prior \cup {activity}]
             specs == proposals[p].body.specs
             accepted == [b EXCEPT !.predicate = predicate, !.status = status]
  <1>1. record \in AssertionRecords
    BY DEF AssertionRecords, AssertionBodies
  <1>2. proposals[p].body \in AssertionBodies
    BY DEF TypeOK, Bodies, EntityBodies, AssertionBodies
  <1>3. accepted \in Bodies
    BY DEF Bodies, AssertionBodies, AssertionStatus
  <1>4. b.supersedes # None =>
           /\ b.supersedes \in Assertions
           /\ assertions[b.supersedes] \in AssertionRecords
    <2>1. b.supersedes # None => Current(b.supersedes)
      BY DEF AcceptAssertion, ReferencesValid, PredecessorValid
    <2>2. b.supersedes \in Assertions \cup {None}
      BY DEF AssertionBodies
    <2> QED
      BY <2>1, <2>2 DEF TypeOK, Current, NoAssertion
  <1>5. \A r \in AssertionRecords : Superseded(r, activity) \in AssertionRecords
    BY DEF Superseded, AssertionRecords, AssertionStatus
  <1>6. assertions' \in [Assertions -> AssertionRecords \cup {NoAssertion}]
    BY <1>1, <1>4, <1>5 DEF AcceptAssertion, SavedAssertions, TypeOK
  <1>7. links' \subseteq EvidenceLinks
    <2>1. NewLinks(b.id, specs, activity) \subseteq EvidenceLinks
      BY <1>2 DEF NewLinks, EvidenceLinks, AssertionBodies
    <2> QED
      BY <2>1 DEF AcceptAssertion, TypeOK
  <1>8. Transition(p, decision, accepted)
    BY DEF AcceptAssertion
  <1>9. \A act \in activities' : act.id \in ReviewActivityIds
    BY DEF AcceptAssertion, RecordActivity, TypeOK
  <1> QED
    BY <1>3, <1>6, <1>7, <1>8, <1>9, TransitionType DEF TypeOK, AcceptAssertion

\* The body of a proposal under review, and of an edit, has the shape of its kind.
LEMMA KindShape ==
  ASSUME NEW b \in Bodies
  PROVE  /\ b.kind = "Assertion" => b \in AssertionBodies
         /\ b.kind = "Entity" => b \in EntityBodies
PROOF
  BY DEF Bodies, EntityBodies, AssertionBodies

LEMMA AcceptEntityType ==
  ASSUME TypeOK,
         NEW p \in ProposedChanges, proposals[p].status # "absent",
         NEW b \in EntityBodies, NEW decision \in Decided,
         NEW activity \in ReviewActivityIds,
         AcceptEntity(p, decision, b, activity)
  PROVE  TypeOK'
PROOF
  <1>1. b \in Bodies /\ b.id \in Entities
    BY DEF Bodies, EntityBodies
  <1>2. Transition(p, decision, b)
    BY DEF AcceptEntity
  <1>3. \A act \in activities' : act.id \in ReviewActivityIds
    BY DEF AcceptEntity, RecordActivity, TypeOK
  <1> QED
    BY <1>1, <1>2, <1>3, TransitionType DEF AcceptEntity, TypeOK

\* Publishing the fresh proposals of a well-typed batch.
LEMMA PublishType ==
  ASSUME TypeOK,
         NEW batch, DOMAIN batch \subseteq ProposedChanges,
         \A p \in DOMAIN batch : batch[p] \in Bodies,
         NEW fresh \in SUBSET DOMAIN batch,
         Publish(batch, fresh)
  PROVE  /\ proposals' \in [ProposedChanges -> [status : ReviewStatus,
                                                body : Bodies \cup {None},
                                                accepted : Bodies \cup {None}]]
         /\ \A q \in ProposedChanges :
               proposals'[q].status # "absent" => proposals'[q].body \in Bodies
PROOF
  BY DEF Publish, TypeOK, ReviewStatus

-----------------------------------------------------------------------------
\* Every reachable ledger is well typed.
THEOREM TypeCorrect == Spec => []TypeOK
PROOF
  <1>1. Init => TypeOK
    BY DEF Init, TypeOK, Unsubmitted, ReviewStatus, NoAssertion
  <1>2. TypeOK /\ [Next]_vars => TypeOK'
    <2> SUFFICES ASSUME TypeOK, [Next]_vars
                 PROVE  TypeOK'
      OBVIOUS
    <2>1. CASE UNCHANGED vars
      BY <2>1 DEF vars, TypeOK
    <2>2. ASSUME NEW batch \in GroundedBatches, SubmitGroundedBatch(batch)
          PROVE  TypeOK'
      <3>1. /\ DOMAIN batch \subseteq ProposedChanges
            /\ \A p \in DOMAIN batch : batch[p] \in Bodies
        OBVIOUS
      <3>2. Publish(batch, Absent(batch)) /\ Absent(batch) \subseteq DOMAIN batch
        BY <2>2 DEF SubmitGroundedBatch, Absent
      <3>3. \A p \in AssertionsOf(batch) : batch[p] \in AssertionBodies
        BY <3>1, KindShape DEF AssertionsOf
      <3>4. targets' \subseteq EvidenceTargets
        BY <2>2, <3>3 DEF SubmitGroundedBatch, TypeOK, AssertionBodies
      <3>5. attempts' \subseteq Attempts
        BY <2>2, <3>3 DEF SubmitGroundedBatch, TypeOK, AssertionBodies, LinkSpecs
      <3> QED
        BY <2>2, <3>1, <3>2, <3>4, <3>5, PublishType DEF SubmitGroundedBatch, TypeOK
    <2>3. ASSUME NEW batch \in PlannedBatches, SubmitPlannedBatch(batch)
          PROVE  TypeOK'
      <3>1. /\ DOMAIN batch \subseteq ProposedChanges
            /\ \A p \in DOMAIN batch : batch[p] \in Bodies
        OBVIOUS
      <3> QED
        BY <2>3, <3>1, PublishType DEF SubmitPlannedBatch, TypeOK
    <2>4. ASSUME NEW p \in ProposedChanges, NEW reviewer \in Reviewers,
                 NEW predicate \in Predicates, Approve(p, reviewer, predicate)
          PROVE  TypeOK'
      <3> DEFINE b == proposals[p].body
                 activity == [change |-> p, reviewer |-> reviewer, type |-> "approved"]
      <3>1. proposals[p].status # "absent" /\ b \in Bodies
        BY <2>4 DEF Approve, Pending, TypeOK
      <3>2. activity \in ReviewActivityIds /\ "approved" \in Decided
        BY DEF ReviewActivityIds, Decided
      <3>3. CASE b.kind = "Assertion" /\ AcceptAssertion(p, "approved", b, predicate,
                                           DefaultStatus(b.form), {}, activity)
        <4>1. b \in AssertionBodies /\ DefaultStatus(b.form) \in AssertionStatus
          BY <3>1, <3>3, KindShape DEF DefaultStatus, AssertionStatus
        <4> QED
          BY <3>1, <3>2, <3>3, <4>1, AcceptAssertionType
      <3>4. CASE b.kind = "Entity" /\ AcceptEntity(p, "approved", b, activity)
        BY <3>1, <3>2, <3>4, KindShape, AcceptEntityType
      <3> QED
        BY <2>4, <3>3, <3>4 DEF Approve
    <2>5. ASSUME NEW p \in ProposedChanges, NEW reviewer \in Reviewers,
                 NEW b \in Edits, Edit(p, reviewer, b)
          PROVE  TypeOK'
      <3> DEFINE activity == [change |-> p, reviewer |-> reviewer, type |-> "edited"]
                 status == IF b.status = "proposed" THEN DefaultStatus(b.form)
                                                    ELSE b.status
      <3>1. /\ proposals[p].status # "absent"
            /\ proposals[p].body \in Bodies
            /\ b.kind = proposals[p].body.kind
            /\ b \in Bodies
        BY <2>5 DEF Edit, Pending, TypeOK
      <3>2. activity \in ReviewActivityIds /\ "edited" \in Decided
        BY DEF ReviewActivityIds, Decided
      <3>3. CASE b.kind = "Assertion" /\ AcceptAssertion(p, "edited", b, b.predicate,
                                           status, b.provenance, activity)
        <4>1. b \in AssertionBodies
          BY <3>1, <3>3, KindShape
        <4>2. /\ b.predicate \in Predicates
              /\ b.provenance \in SUBSET ReviewActivityIds
              /\ status \in AssertionStatus
          BY <4>1 DEF AssertionBodies, DefaultStatus, AssertionStatus
        <4> QED
          BY <3>1, <3>2, <3>3, <4>1, <4>2, AcceptAssertionType
      <3>4. CASE b.kind = "Entity" /\ AcceptEntity(p, "edited", b, activity)
        BY <3>1, <3>2, <3>4, KindShape, AcceptEntityType
      <3> QED
        BY <2>5, <3>3, <3>4 DEF Edit
    <2>6. ASSUME NEW p \in ProposedChanges, NEW reviewer \in Reviewers,
                 Reject(p, reviewer)
          PROVE  TypeOK'
      <3>1. proposals[p].status # "absent" /\ "rejected" \in Decided
        BY <2>6 DEF Reject, Pending, Decided
      <3>2. \A act \in activities' : act.id \in ReviewActivityIds
        BY <2>6 DEF Reject, RecordActivity, TypeOK, ReviewActivityIds
      <3> QED
        BY <2>6, <3>1, <3>2, TransitionType DEF Reject, TypeOK
    <2> QED
      BY <2>1, <2>2, <2>3, <2>4, <2>5, <2>6 DEF Next
  <1> QED
    BY <1>1, <1>2, PTL DEF Spec

-----------------------------------------------------------------------------
(* What a step does to the accepted Assertions *)

\* Every step leaves the Assertions alone and forgets no link or validation
\* attempt, or it is the acceptance of one well-typed Assertion.
LEMMA StepEffect ==
  ASSUME TypeOK, [Next]_vars
  PROVE  \/ /\ assertions' = assertions
            /\ links \subseteq links'
            /\ attempts \subseteq attempts'
         \/ \E p \in ProposedChanges, decision \in Decided, b \in AssertionBodies,
               predicate \in Predicates, status \in AssertionStatus,
               prior \in SUBSET ReviewActivityIds, activity \in ReviewActivityIds :
               AcceptAssertion(p, decision, b, predicate, status, prior, activity)
PROOF
  <1>1. CASE UNCHANGED vars
    BY <1>1 DEF vars
  <1>2. ASSUME NEW batch \in GroundedBatches, SubmitGroundedBatch(batch)
        PROVE  assertions' = assertions /\ links \subseteq links' /\ attempts \subseteq attempts'
    BY <1>2 DEF SubmitGroundedBatch
  <1>3. ASSUME NEW batch \in PlannedBatches, SubmitPlannedBatch(batch)
        PROVE  assertions' = assertions /\ links \subseteq links' /\ attempts \subseteq attempts'
    BY <1>3 DEF SubmitPlannedBatch
  <1> DEFINE Accepted ==
        \E p \in ProposedChanges, decision \in Decided, b \in AssertionBodies,
           predicate \in Predicates, status \in AssertionStatus,
           prior \in SUBSET ReviewActivityIds, activity \in ReviewActivityIds :
           AcceptAssertion(p, decision, b, predicate, status, prior, activity)
             Kept == /\ assertions' = assertions
                     /\ links \subseteq links'
                     /\ attempts \subseteq attempts'
  <1>4. ASSUME NEW p \in ProposedChanges, NEW reviewer \in Reviewers,
               NEW predicate \in Predicates, Approve(p, reviewer, predicate)
        PROVE  Kept \/ Accepted
    <2> DEFINE b == proposals[p].body
               activity == [change |-> p, reviewer |-> reviewer, type |-> "approved"]
    <2>1. activity \in ReviewActivityIds /\ "approved" \in Decided
      BY DEF ReviewActivityIds, Decided
    <2>2. CASE b.kind = "Assertion" /\ AcceptAssertion(p, "approved", b, predicate,
                                         DefaultStatus(b.form), {}, activity)
      <3>1. b \in AssertionBodies /\ DefaultStatus(b.form) \in AssertionStatus
        BY <1>4, <2>2, KindShape DEF Approve, Pending, TypeOK, DefaultStatus, AssertionStatus
      <3> HIDE DEF b, activity
      <3> QED
        BY <2>1, <2>2, <3>1
    <2>3. CASE AcceptEntity(p, "approved", b, activity)
      BY <2>3 DEF AcceptEntity
    <2> QED
      BY <1>4, <2>2, <2>3 DEF Approve
  <1>5. ASSUME NEW p \in ProposedChanges, NEW reviewer \in Reviewers,
               NEW b \in Edits, Edit(p, reviewer, b)
        PROVE  Kept \/ Accepted
    <2> DEFINE activity == [change |-> p, reviewer |-> reviewer, type |-> "edited"]
               status == IF b.status = "proposed" THEN DefaultStatus(b.form)
                                                  ELSE b.status
    <2>1. activity \in ReviewActivityIds /\ "edited" \in Decided /\ b \in Bodies
      BY DEF ReviewActivityIds, Decided
    <2>2. CASE b.kind = "Assertion" /\ AcceptAssertion(p, "edited", b, b.predicate,
                                         status, b.provenance, activity)
      <3>1. b \in AssertionBodies
        BY <2>1, <2>2, KindShape
      <3>2. /\ b.predicate \in Predicates
            /\ b.provenance \in SUBSET ReviewActivityIds
            /\ status \in AssertionStatus
        BY <3>1 DEF AssertionBodies, DefaultStatus, AssertionStatus
      <3> HIDE DEF status, activity
      <3> QED
        BY <2>1, <2>2, <3>1, <3>2
    <2>3. CASE AcceptEntity(p, "edited", b, activity)
      BY <2>3 DEF AcceptEntity
    <2> QED
      BY <1>5, <2>2, <2>3 DEF Edit
  <1>6. ASSUME NEW p \in ProposedChanges, NEW reviewer \in Reviewers, Reject(p, reviewer)
        PROVE  Kept
    BY <1>6 DEF Reject
  <1> QED
    BY <1>1, <1>2, <1>3, <1>4, <1>5, <1>6 DEF Next

\* What an acceptance leaves in the Assertion table: the predecessor keeps
\* everything but its status and provenance, the accepted Assertion is stored
\* unless it is its own predecessor, and no other Assertion changes.
LEMMA AcceptEffect ==
  ASSUME TypeOK,
         NEW p \in ProposedChanges, NEW decision \in Decided, NEW b \in AssertionBodies,
         NEW predicate \in Predicates, NEW status \in AssertionStatus,
         NEW prior \in SUBSET ReviewActivityIds, NEW activity \in ReviewActivityIds,
         AcceptAssertion(p, decision, b, predicate, status, prior, activity)
  PROVE  /\ \A x \in Assertions : Known(x) => Known(x)'
         /\ \A x \in Assertions : x # b.id \/ b.supersedes = b.id =>
               /\ Known(x)' <=> Known(x)
               /\ Known(x) => /\ assertions'[x].form = assertions[x].form
                              /\ assertions'[x].supports = assertions[x].supports
                              /\ assertions'[x].evidence = assertions[x].evidence
                              /\ assertions'[x].supersedes = assertions[x].supersedes
         /\ b.supersedes # b.id =>
               /\ Known(b.id)'
               /\ assertions'[b.id].form = b.form
               /\ assertions'[b.id].supports = b.supports
               /\ assertions'[b.id].evidence = b.evidence
               /\ assertions'[b.id].supersedes = b.supersedes
PROOF
  <1> DEFINE record == [status |-> status, form |-> b.form, subject |-> b.subject,
                 predicate |-> predicate, evidence |-> b.evidence,
                 supports |-> b.supports, supersedes |-> b.supersedes,
                 provenance |-> prior \cup {activity}]
  <1>1. assertions' = SavedAssertions(b.id, record, b.supersedes, activity)
    BY DEF AcceptAssertion
  <1>2. record.status # "absent" /\ b.id \in Assertions
    BY DEF AssertionStatus, AssertionBodies
  <1>3. ASSUME b.supersedes # None
        PROVE  /\ b.supersedes \in Assertions
               /\ Known(b.supersedes)
               /\ assertions[b.supersedes] \in AssertionRecords
    <2>1. Current(b.supersedes) /\ b.supersedes \in Assertions
      BY <1>3 DEF AcceptAssertion, ReferencesValid, PredecessorValid, AssertionBodies
    <2> QED
      BY <2>1 DEF TypeOK, Current, Known, NoAssertion
  <1>4. \A r \in AssertionRecords :
           LET s == Superseded(r, activity)
           IN  /\ s.status = "superseded" /\ s.form = r.form /\ s.supports = r.supports
               /\ s.evidence = r.evidence /\ s.supersedes = r.supersedes
    BY DEF Superseded, AssertionRecords
  <1>5. \A x \in Assertions :
           assertions'[x] = IF x = b.supersedes THEN Superseded(assertions[x], activity)
                            ELSE IF x = b.id THEN record ELSE assertions[x]
    BY <1>1 DEF SavedAssertions
  <1>6. None \notin Assertions
    OBVIOUS
  <1> HIDE DEF record
  <1>7. \A x \in Assertions : x # b.id /\ x # b.supersedes => assertions'[x] = assertions[x]
    BY <1>5
  <1>8. ASSUME b.supersedes # None
        PROVE  LET q == b.supersedes
               IN  /\ Known(q)' /\ assertions'[q].form = assertions[q].form
                   /\ assertions'[q].supports = assertions[q].supports
                   /\ assertions'[q].evidence = assertions[q].evidence
                   /\ assertions'[q].supersedes = assertions[q].supersedes
    BY <1>3, <1>4, <1>5, <1>8 DEF Known
  <1>9. b.supersedes # b.id => assertions'[b.id] = record
    BY <1>2, <1>5
  <1>10. b.supersedes # b.id =>
               /\ Known(b.id)'
               /\ assertions'[b.id].form = b.form
               /\ assertions'[b.id].supports = b.supports
               /\ assertions'[b.id].evidence = b.evidence
               /\ assertions'[b.id].supersedes = b.supersedes
    BY <1>2, <1>9 DEF record, Known
  <1>11. \A x \in Assertions : x # b.id \/ b.supersedes = b.id =>
               /\ Known(x)' <=> Known(x)
               /\ Known(x) => /\ assertions'[x].form = assertions[x].form
                              /\ assertions'[x].supports = assertions[x].supports
                              /\ assertions'[x].evidence = assertions[x].evidence
                              /\ assertions'[x].supersedes = assertions[x].supersedes
    BY <1>3, <1>6, <1>7, <1>8 DEF Known
  <1> QED
    BY <1>10, <1>11

-----------------------------------------------------------------------------
(* The premises of accepted inferences *)

\* The search from a set of supports returns that set and the premises of all
\* it returns, and nothing outside a set closed in that way.
LEMMA ReachedClosed ==
  ASSUME NEW S \in SUBSET Assertions
  PROVE  /\ Reached(S) \subseteq Assertions
         /\ \A X \in SUBSET Assertions :
               S \subseteq X /\ (\A m \in X : Premises(m) \subseteq X) => Reached(S) \subseteq X
         /\ S \subseteq Reached(S)
         /\ \A m \in Reached(S) : Premises(m) \cap Assertions \subseteq Reached(S)
PROOF
  BY DEF Reached

\* Changing the premises of one node keeps a graph acyclic when the new
\* premises lie in a closed set that does not hold the node.
LEMMA AcyclicUpdate ==
  ASSUME NEW N, NEW P \in [N -> SUBSET N], NEW Q \in [N -> SUBSET N],
         NEW a \in N, NEW R \in SUBSET N,
         a \notin R, Q[a] \subseteq R,
         \A m \in R : P[m] \subseteq R,
         \A x \in N : x # a => Q[x] = P[x],
         \A Y \in SUBSET N : Y # {} => \E y \in Y : P[y] \cap Y = {}
  PROVE  \A Y \in SUBSET N : Y # {} => \E y \in Y : Q[y] \cap Y = {}
PROOF
  <1> SUFFICES ASSUME NEW Y \in SUBSET N, Y # {}
               PROVE  \E y \in Y : Q[y] \cap Y = {}
    OBVIOUS
  <1>1. CASE a \notin Y
    BY <1>1
  <1>2. CASE a \in Y /\ Y \cap R = {}
    BY <1>2
  <1>3. CASE Y \cap R # {}
    <2>1. PICK z \in Y \cap R : P[z] \cap (Y \cap R) = {}
      BY <1>3
    <2>2. Q[z] = P[z] /\ P[z] \subseteq R
      BY <2>1
    <2> QED
      BY <2>1, <2>2
  <1> QED
    BY <1>1, <1>2, <1>3

\* Every accepted inference has premises, and only accepted ones.
Grounded ==
  \A a \in Assertions :
     Known(a) /\ assertions[a].form = "analytic" =>
        /\ assertions[a].supports # {}
        /\ \A n \in assertions[a].supports : Known(n)

\* The inductive invariant behind InferenceTerminates.
SupportInv == TypeOK /\ SupportAcyclic /\ Grounded

LEMMA PremisesType ==
  ASSUME TypeOK, NEW x \in Assertions
  PROVE  Premises(x) \in SUBSET Assertions
PROOF
  BY DEF TypeOK, Known, Premises, NoAssertion, AssertionRecords

\* SupportAcyclic survives the acceptance of an Assertion.
LEMMA AcceptKeepsAcyclic ==
  ASSUME SupportInv, TypeOK',
         NEW p \in ProposedChanges, NEW decision \in Decided, NEW b \in AssertionBodies,
         NEW predicate \in Predicates, NEW status \in AssertionStatus,
         NEW prior \in SUBSET ReviewActivityIds, NEW activity \in ReviewActivityIds,
         AcceptAssertion(p, decision, b, predicate, status, prior, activity)
  PROVE  SupportAcyclic'
PROOF
  <1> DEFINE P == [x \in Assertions |-> Premises(x)]
             Q == [x \in Assertions |-> Premises(x)']
             R == Reached(b.supports)
  <1>1. b.id \in Assertions /\ b.supports \in SUBSET Assertions
    BY DEF AssertionBodies
  <1>2. P \in [Assertions -> SUBSET Assertions]
    BY PremisesType DEF SupportInv
  <1>3. Q \in [Assertions -> SUBSET Assertions]
    BY DEF TypeOK, Known, Premises, NoAssertion, AssertionRecords
  <1>4. \A Y \in SUBSET Assertions : Y # {} => \E y \in Y : P[y] \cap Y = {}
    BY DEF SupportInv, SupportAcyclic, NoCycleIn
  <1>5. \A x \in Assertions : x # b.id \/ b.supersedes = b.id => Q[x] = P[x]
    BY AcceptEffect DEF SupportInv, Premises, Known
  <1>6. R \in SUBSET Assertions /\ b.supports \subseteq R /\ \A m \in R : P[m] \subseteq R
    BY <1>1, <1>2, ReachedClosed
  <1>7. \A Y \in SUBSET Assertions : Y # {} => \E y \in Y : Q[y] \cap Y = {}
    <2>1. CASE b.supersedes = b.id
      <3>1. Q = P
        BY <1>5, <2>1
      <3> QED
        BY <1>4, <3>1
    <2>2. CASE b.supersedes # b.id /\ b.form = "analytic"
      <3>1. Q[b.id] = b.supports
        BY <1>1, <2>2, AcceptEffect DEF SupportInv, Premises, Known
      <3>2. b.id \notin R
        BY <2>2 DEF AcceptAssertion, ReferencesValid, SupportGraphValid
      <3>3. Q[b.id] \subseteq R /\ \A x \in Assertions : x # b.id => Q[x] = P[x]
        BY <1>5, <1>6, <3>1
      <3>4. R \in SUBSET Assertions /\ \A m \in R : P[m] \subseteq R
        BY <1>6
      <3> HIDE DEF P, Q, R
      <3> QED
        BY <1>1, <1>2, <1>3, <1>4, <3>2, <3>3, <3>4, AcyclicUpdate, SMTT(60)
    <2>3. CASE b.supersedes # b.id /\ b.form # "analytic"
      <3>1. Q[b.id] = {}
        BY <1>1, <2>3, AcceptEffect DEF SupportInv, Premises, Known
      <3> HIDE DEF P, Q, R
      <3> QED
        BY <1>1, <1>2, <1>3, <1>4, <1>5, <3>1, AcyclicUpdate
    <2> QED
      BY <2>1, <2>2, <2>3
  <1> QED
    BY <1>7 DEF SupportAcyclic, NoCycleIn

\* Grounded survives the acceptance of an Assertion.
LEMMA AcceptKeepsGrounded ==
  ASSUME SupportInv,
         NEW p \in ProposedChanges, NEW decision \in Decided, NEW b \in AssertionBodies,
         NEW predicate \in Predicates, NEW status \in AssertionStatus,
         NEW prior \in SUBSET ReviewActivityIds, NEW activity \in ReviewActivityIds,
         AcceptAssertion(p, decision, b, predicate, status, prior, activity)
  PROVE  Grounded'
PROOF
  <1> SUFFICES ASSUME NEW a \in Assertions,
                      Known(a)', assertions'[a].form = "analytic"
               PROVE  /\ assertions'[a].supports # {}
                      /\ \A n \in assertions'[a].supports : Known(n)'
    BY DEF Grounded
  <1>1. b.id \in Assertions /\ b.supports \in SUBSET Assertions
    BY DEF AssertionBodies
  <1>2. CASE a # b.id \/ b.supersedes = b.id
    <2>1. /\ Known(a) /\ assertions[a].form = "analytic"
          /\ assertions'[a].supports = assertions[a].supports
      BY <1>2, AcceptEffect DEF SupportInv
    <2>2. assertions[a].supports \in SUBSET Assertions
      BY <2>1 DEF SupportInv, TypeOK, Known, NoAssertion, AssertionRecords
    <2> QED
      BY <2>1, <2>2, AcceptEffect DEF SupportInv, Grounded
  <1>3. CASE a = b.id /\ b.supersedes # b.id
    <2>1. b.form = "analytic" /\ assertions'[a].supports = b.supports
      BY <1>3, AcceptEffect DEF SupportInv
    <2>2. b.supports # {} /\ \A n \in Reached(b.supports) : Known(n)
      BY <2>1 DEF AcceptAssertion, WellFormed, ReferencesValid, SupportGraphValid
    <2>3. b.supports \subseteq Reached(b.supports)
      BY <1>1, ReachedClosed
    <2> QED
      BY <1>1, <2>1, <2>2, <2>3, AcceptEffect DEF SupportInv
  <1> QED
    BY <1>2, <1>3

LEMMA SupportInvInductive ==
  ASSUME SupportInv, TypeOK', [Next]_vars
  PROVE  SupportInv'
PROOF
  <1>1. CASE assertions' = assertions
    <2>1. SupportAcyclic'
      BY <1>1 DEF SupportInv, SupportAcyclic, NoCycleIn, Premises, Known
    <2>2. Grounded'
      BY <1>1 DEF SupportInv, Grounded, Known
    <2> QED
      BY <2>1, <2>2 DEF SupportInv
  <1>2. CASE \E p \in ProposedChanges, decision \in Decided, b \in AssertionBodies,
               predicate \in Predicates, status \in AssertionStatus,
               prior \in SUBSET ReviewActivityIds, activity \in ReviewActivityIds :
               AcceptAssertion(p, decision, b, predicate, status, prior, activity)
    BY <1>2, AcceptKeepsAcyclic, AcceptKeepsGrounded DEF SupportInv
  <1> QED
    BY <1>1, <1>2, StepEffect DEF SupportInv

LEMMA SupportInvHolds == Spec => []SupportInv
PROOF
  <1>1. Init /\ TypeOK => SupportInv
    BY DEF Init, SupportInv, SupportAcyclic, NoCycleIn, Grounded, Premises, Known, NoAssertion
  <1>2. SupportInv /\ TypeOK' /\ [Next]_vars => SupportInv'
    BY SupportInvInductive
  <1> QED
    BY <1>1, <1>2, TypeCorrect, PTL DEF Spec

\* The premises of accepted analytic inferences never form a cycle.
THEOREM SupportStaysAcyclic == Spec => []SupportAcyclic
PROOF
  <1>1. SupportInv => SupportAcyclic
    BY DEF SupportInv
  <1> QED
    BY <1>1, SupportInvHolds, PTL

\* Every accepted analytic inference rests, through accepted Assertions only,
\* on an accepted direct one.
THEOREM InferencesTerminate == Spec => []InferenceTerminates
PROOF
  <1>1. SupportInv => InferenceTerminates
    <2> SUFFICES ASSUME SupportInv, NEW a \in Assertions,
                        Known(a), assertions[a].form = "analytic"
                 PROVE  /\ \A n \in Reached(Premises(a)) : Known(n)
                        /\ \E n \in Reached(Premises(a)) : assertions[n].form = "direct"
      BY DEF InferenceTerminates
    <2> DEFINE R == Reached(Premises(a))
               K == {n \in Assertions : Known(n)}
    <2>1. Premises(a) = assertions[a].supports /\ Premises(a) \in SUBSET Assertions
      BY PremisesType DEF SupportInv, Premises
    <2>2. Premises(a) \subseteq K /\ \A m \in K : Premises(m) \subseteq K
      BY <2>1, PremisesType DEF SupportInv, Grounded, Premises
    <2>3. R \subseteq K /\ Premises(a) \subseteq R
      <3>1. K \in SUBSET Assertions
        OBVIOUS
      <3>2. Premises(a) \subseteq R
        BY <2>1, ReachedClosed
      <3>3. R \subseteq K
        <4> HIDE DEF K
        <4> QED
          BY <2>1, <2>2, <3>1, ReachedClosed
      <3> QED
        BY <3>2, <3>3
    <2>4. R # {} /\ R \in SUBSET Assertions
      BY <2>1, <2>3 DEF SupportInv, Grounded
    <2>5. PICK y \in R : Premises(y) \cap R = {}
      BY <2>4 DEF SupportInv, SupportAcyclic, NoCycleIn
    <2>6. Known(y) /\ y \in Assertions
      BY <2>3
    <2>7. Premises(y) = {}
      BY <2>1, <2>5, <2>6, PremisesType, ReachedClosed DEF SupportInv
    <2>8. assertions[y].form # "analytic"
      BY <2>6, <2>7 DEF SupportInv, Grounded, Premises
    <2>9. assertions[y].form = "direct"
      BY <2>6, <2>8 DEF SupportInv, TypeOK, Known, NoAssertion, AssertionRecords
    <2> QED
      BY <2>3, <2>9
  <1> QED
    BY <1>1, SupportInvHolds, PTL

-----------------------------------------------------------------------------
(* Supersession and evidence *)

\* An Assertion has at most one successor.
THEOREM SuccessorUnique == Spec => []OneSuccessor
PROOF
  <1>1. Init => OneSuccessor
    BY DEF Init, OneSuccessor, Known, NoAssertion
  <1>2. TypeOK /\ OneSuccessor /\ [Next]_vars => OneSuccessor'
    <2> SUFFICES ASSUME TypeOK, OneSuccessor, [Next]_vars
                 PROVE  OneSuccessor'
      OBVIOUS
    <2>1. CASE assertions' = assertions
      BY <2>1 DEF OneSuccessor, Known
    <2>2. ASSUME NEW p \in ProposedChanges, NEW decision \in Decided,
                 NEW b \in AssertionBodies, NEW predicate \in Predicates,
                 NEW status \in AssertionStatus, NEW prior \in SUBSET ReviewActivityIds,
                 NEW activity \in ReviewActivityIds,
                 AcceptAssertion(p, decision, b, predicate, status, prior, activity)
          PROVE  OneSuccessor'
      <3>1. b.id \in Assertions
        BY DEF AssertionBodies
      <3>2. b.supersedes # None =>
               \A other \in Assertions :
                  Known(other) => assertions[other].supersedes # b.supersedes
        BY <2>2 DEF AcceptAssertion, ReferencesValid, PredecessorValid
      <3> SUFFICES ASSUME NEW x \in Assertions, NEW y \in Assertions,
                          Known(x)', Known(y)',
                          assertions'[x].supersedes # None,
                          assertions'[x].supersedes = assertions'[y].supersedes
                   PROVE  x = y
        BY DEF OneSuccessor
      <3>3. CASE b.supersedes = b.id
        BY <2>2, <3>3, AcceptEffect DEF OneSuccessor
      <3>4. CASE b.supersedes # b.id
        BY <2>2, <3>1, <3>2, <3>4, AcceptEffect DEF OneSuccessor
      <3> QED
        BY <3>3, <3>4
    <2> QED
      BY <2>1, <2>2, StepEffect
  <1> QED
    BY <1>1, <1>2, TypeCorrect, PTL DEF Spec

\* Every direct Assertion is tied to evidence it cites by a validated link.
THEOREM DirectAlwaysBacked == Spec => []DirectBacked
PROOF
  <1>1. Init => DirectBacked
    BY DEF Init, DirectBacked, Known, NoAssertion
  <1>2. TypeOK /\ DirectBacked /\ [Next]_vars => DirectBacked'
    <2> SUFFICES ASSUME TypeOK, DirectBacked, [Next]_vars,
                        NEW a \in Assertions, Known(a)', assertions'[a].form = "direct"
                 PROVE  \E l \in links' :
                           /\ l.assertion = a
                           /\ l.spec.role = "direct_support"
                           /\ l.spec.evidence \in assertions'[a].evidence
                           /\ l.spec.attempt \in attempts'
                           /\ TargetOf[l.spec.attempt] = l.spec.evidence
      BY DEF DirectBacked
    <2>1. CASE assertions' = assertions /\ links \subseteq links' /\ attempts \subseteq attempts'
      BY <2>1 DEF DirectBacked, Known
    <2>2. ASSUME NEW p \in ProposedChanges, NEW decision \in Decided,
                 NEW b \in AssertionBodies, NEW predicate \in Predicates,
                 NEW status \in AssertionStatus, NEW prior \in SUBSET ReviewActivityIds,
                 NEW activity \in ReviewActivityIds,
                 AcceptAssertion(p, decision, b, predicate, status, prior, activity)
          PROVE  \E l \in links' :
                    /\ l.assertion = a
                    /\ l.spec.role = "direct_support"
                    /\ l.spec.evidence \in assertions'[a].evidence
                    /\ l.spec.attempt \in attempts'
                    /\ TargetOf[l.spec.attempt] = l.spec.evidence
      <3> DEFINE specs == proposals[p].body.specs
      <3>1. links' = links \cup NewLinks(b.id, specs, activity) /\ attempts' = attempts
        BY <2>2 DEF AcceptAssertion
      <3>2. CASE a # b.id \/ b.supersedes = b.id
        <4>1. Known(a) /\ assertions[a].form = "direct"
              /\ assertions'[a].evidence = assertions[a].evidence
          BY <2>2, <3>2, AcceptEffect
        <4> QED
          BY <3>1, <4>1 DEF DirectBacked
      <3>3. CASE a = b.id /\ b.supersedes # b.id
        <4>1. b.form = "direct" /\ assertions'[a].evidence = b.evidence
          BY <2>2, <3>3, AcceptEffect
        <4>2. PICK s \in specs : /\ s.role = "direct_support"
                                 /\ s.evidence \in b.evidence
                                 /\ s.attempt \in attempts
                                 /\ TargetOf[s.attempt] = s.evidence
          BY <2>2, <4>1 DEF AcceptAssertion, LinkSpecsValid
        <4> DEFINE l == [assertion |-> b.id, spec |-> s, provenance |-> activity]
        <4>3. l \in links'
          BY <3>1 DEF NewLinks
        <4> QED
          BY <3>1, <3>3, <4>1, <4>2, <4>3
      <3> QED
        BY <3>2, <3>3
    <2> QED
      BY <2>1, <2>2, StepEffect
  <1> QED
    BY <1>1, <1>2, TypeCorrect, PTL DEF Spec

-----------------------------------------------------------------------------
(* What a step does to the ProposedChanges and their reviews *)

\* A submission: it changes no accepted record and no ProposedChange that is known.
Submits ==
  /\ UNCHANGED <<assertions, entities, activities>>
  /\ \A q \in ProposedChanges :
       \/ proposals'[q] = proposals[q]
       \/ proposals[q].status = "absent" /\ proposals'[q].status = "pending"

\* A review that changes no Assertion: a rejection or the acceptance of an entity.
Settles(p, decision, id, accepted) ==
  /\ assertions' = assertions
  /\ entities \subseteq entities'
  /\ \E outputs : RecordActivity(id, outputs)
  /\ Transition(p, decision, accepted)
  /\ decision # "rejected" => accepted.kind = "Entity" /\ accepted.id \in entities'

\* The acceptance of an Assertion.
Accepts(p, decision, id) ==
  \E b \in AssertionBodies, predicate \in Predicates, status \in AssertionStatus,
     prior \in SUBSET ReviewActivityIds :
       AcceptAssertion(p, decision, b, predicate, status, prior, id)

Reviews(p, decision, id) ==
  /\ Pending(p)
  /\ id.change = p /\ id.type = decision
  /\ Accepts(p, decision, id) \/ \E accepted : Settles(p, decision, id, accepted)

\* Every step is a submission, the review of one pending ProposedChange, or nothing.
LEMMA ReviewSteps ==
  ASSUME TypeOK, [Next]_vars
  PROVE  \/ Submits
         \/ \E p \in ProposedChanges, decision \in Decided, id \in ReviewActivityIds :
              Reviews(p, decision, id)
PROOF
  <1>1. CASE UNCHANGED vars
    BY <1>1 DEF vars, Submits
  <1>2. ASSUME NEW batch, DOMAIN batch \subseteq ProposedChanges,
               NEW fresh, fresh \subseteq Absent(batch), Publish(batch, fresh)
        PROVE  \A q \in ProposedChanges :
                 \/ proposals'[q] = proposals[q]
                 \/ proposals[q].status = "absent" /\ proposals'[q].status = "pending"
    BY <1>2 DEF Publish, Absent
  <1>3. ASSUME NEW batch \in GroundedBatches, SubmitGroundedBatch(batch)
        PROVE  Submits
    <2>1. Publish(batch, Absent(batch)) /\ DOMAIN batch \subseteq ProposedChanges
      BY <1>3 DEF SubmitGroundedBatch
    <2> QED
      BY <1>2, <1>3, <2>1 DEF SubmitGroundedBatch, Submits
  <1>4. ASSUME NEW batch \in PlannedBatches, SubmitPlannedBatch(batch)
        PROVE  Submits
    <2>1. /\ Publish(batch, DOMAIN batch) /\ DOMAIN batch \subseteq Absent(batch)
          /\ DOMAIN batch \subseteq ProposedChanges
      BY <1>4 DEF SubmitPlannedBatch
    <2> QED
      BY <1>2, <1>4, <2>1 DEF SubmitPlannedBatch, Submits
  <1>5. ASSUME NEW p \in ProposedChanges, NEW decision \in Decided, NEW id, NEW b,
               AcceptEntity(p, decision, b, id), b.kind = "Entity"
        PROVE  Settles(p, decision, id, b)
    BY <1>5 DEF AcceptEntity, Settles
  <1>6. ASSUME NEW p \in ProposedChanges, NEW reviewer \in Reviewers,
               NEW predicate \in Predicates, Approve(p, reviewer, predicate)
        PROVE  Reviews(p, "approved", [change |-> p, reviewer |-> reviewer, type |-> "approved"])
    <2> DEFINE b == proposals[p].body
               id == [change |-> p, reviewer |-> reviewer, type |-> "approved"]
    <2>1. Pending(p) /\ id.change = p /\ id.type = "approved"
      BY <1>6 DEF Approve
    <2>2. ASSUME b.kind = "Assertion",
                 AcceptAssertion(p, "approved", b, predicate,
                                 DefaultStatus(b.form), {}, id)
          PROVE  Reviews(p, "approved", id)
      <3>1. b \in AssertionBodies /\ DefaultStatus(b.form) \in AssertionStatus
        BY <1>6, <2>2, KindShape DEF Approve, Pending, TypeOK, DefaultStatus, AssertionStatus
      <3> HIDE DEF b, id
      <3> QED
        BY <2>1, <2>2, <3>1 DEF Reviews, Accepts
    <2>3. ASSUME b.kind = "Entity", AcceptEntity(p, "approved", b, id)
          PROVE  Reviews(p, "approved", id)
      <3>1. Settles(p, "approved", id, b)
        BY <1>5, <2>3 DEF Decided
      <3> HIDE DEF b, id
      <3> QED
        BY <2>1, <3>1 DEF Reviews
    <2> QED
      BY <1>6, <2>2, <2>3 DEF Approve
  <1>7. ASSUME NEW p \in ProposedChanges, NEW reviewer \in Reviewers,
               NEW b \in Edits, Edit(p, reviewer, b)
        PROVE  Reviews(p, "edited", [change |-> p, reviewer |-> reviewer, type |-> "edited"])
    <2> DEFINE id == [change |-> p, reviewer |-> reviewer, type |-> "edited"]
               status == IF b.status = "proposed" THEN DefaultStatus(b.form) ELSE b.status
    <2>1. Pending(p) /\ id.change = p /\ id.type = "edited"
      BY <1>7 DEF Edit
    <2>2. ASSUME b.kind = "Assertion",
                 AcceptAssertion(p, "edited", b, b.predicate,
                                 status, b.provenance, id)
          PROVE  Reviews(p, "edited", id)
      <3>1. b \in AssertionBodies
        BY <2>2, KindShape
      <3>2. /\ b.predicate \in Predicates
            /\ b.provenance \in SUBSET ReviewActivityIds
            /\ status \in AssertionStatus
        BY <3>1 DEF AssertionBodies, DefaultStatus, AssertionStatus
      <3> HIDE DEF id, status
      <3> QED
        BY <2>1, <2>2, <3>1, <3>2 DEF Reviews, Accepts
    <2>3. ASSUME b.kind = "Entity", AcceptEntity(p, "edited", b, id)
          PROVE  Reviews(p, "edited", id)
      <3>1. Settles(p, "edited", id, b)
        BY <1>5, <2>3 DEF Decided
      <3> HIDE DEF id
      <3> QED
        BY <2>1, <3>1 DEF Reviews
    <2> QED
      BY <1>7, <2>2, <2>3 DEF Edit
  <1>8. ASSUME NEW p \in ProposedChanges, NEW reviewer \in Reviewers, Reject(p, reviewer)
        PROVE  Reviews(p, "rejected", [change |-> p, reviewer |-> reviewer, type |-> "rejected"])
    <2> DEFINE id == [change |-> p, reviewer |-> reviewer, type |-> "rejected"]
    <2>1. Settles(p, "rejected", id, None)
      BY <1>8 DEF Reject, Settles
    <2>2. Pending(p) /\ id.change = p /\ id.type = "rejected"
      BY <1>8 DEF Reject
    <2> HIDE DEF id
    <2>3. Reviews(p, "rejected", id)
      BY <2>1, <2>2 DEF Reviews
    <2> QED
      BY <2>3 DEF id
  <1>9. \A p \in ProposedChanges, reviewer \in Reviewers, decision \in Decided :
          [change |-> p, reviewer |-> reviewer, type |-> decision] \in ReviewActivityIds
    BY DEF ReviewActivityIds, Decided
  <1>10. "approved" \in Decided /\ "edited" \in Decided /\ "rejected" \in Decided
    BY DEF Decided
  <1> QED
    BY <1>1, <1>3, <1>4, <1>6, <1>7, <1>8, <1>9, <1>10 DEF Next

\* A review decides the ProposedChange that it is about, records itself, and leaves
\* the other ProposedChanges as they are.
LEMMA ReviewDecides ==
  ASSUME TypeOK, NEW p \in ProposedChanges, NEW decision \in Decided,
         NEW id \in ReviewActivityIds, Reviews(p, decision, id)
  PROVE  /\ \A q \in ProposedChanges \ {p} : proposals'[q] = proposals[q]
         /\ proposals'[p].status = decision
         /\ \E outputs : RecordActivity(id, outputs)
         /\ entities \subseteq entities'
         /\ \A x \in Assertions : Known(x) => Known(x)'
         /\ decision # "rejected" =>
              LET b == proposals'[p].accepted
              IN  IF b.kind = "Entity" THEN b.id \in entities'
                                     ELSE b.id \in Assertions /\ assertions'[b.id].status # "absent"
PROOF
  <1>1. ASSUME NEW accepted, Transition(p, decision, accepted)
        PROVE  /\ \A q \in ProposedChanges \ {p} : proposals'[q] = proposals[q]
               /\ proposals'[p].status = decision /\ proposals'[p].accepted = accepted
    BY <1>1 DEF Transition, TypeOK
  <1>2. CASE \E accepted : Settles(p, decision, id, accepted)
    <2>1. PICK accepted : Settles(p, decision, id, accepted)
      BY <1>2
    <2> QED
      BY <1>1, <2>1 DEF Settles, Known
  <1>3. CASE Accepts(p, decision, id)
    <2>1. PICK b \in AssertionBodies, predicate \in Predicates, status \in AssertionStatus,
               prior \in SUBSET ReviewActivityIds :
               AcceptAssertion(p, decision, b, predicate, status, prior, id)
      BY <1>3 DEF Accepts
    <2> DEFINE accepted == [b EXCEPT !.predicate = predicate, !.status = status]
    <2>2. Transition(p, decision, accepted) /\ entities' = entities
      BY <2>1 DEF AcceptAssertion
    <2>3. accepted.kind = "Assertion" /\ accepted.id = b.id /\ b.id \in Assertions
      BY DEF AssertionBodies
    <2>4. \E outputs : RecordActivity(id, outputs)
      BY <2>1 DEF AcceptAssertion
    <2>5. /\ \A x \in Assertions : Known(x) => Known(x)'
          /\ Known(b.id)'
      <3>1. b.supersedes = b.id => Known(b.id)
        BY <2>1, <2>3 DEF AcceptAssertion, ReferencesValid, PredecessorValid, Current, Known
      <3> QED
        BY <2>1, <2>3, <3>1, AcceptEffect
    <2> HIDE DEF accepted
    <2>6. /\ \A q \in ProposedChanges \ {p} : proposals'[q] = proposals[q]
          /\ proposals'[p].status = decision /\ proposals'[p].accepted = accepted
      BY <1>1, <2>2
    <2>7. /\ proposals'[p].accepted.kind # "Entity"
          /\ proposals'[p].accepted.id \in Assertions
          /\ assertions'[proposals'[p].accepted.id].status # "absent"
      BY <2>3, <2>5, <2>6 DEF Known
    <2> QED
      BY <2>2, <2>4, <2>5, <2>6, <2>7
  <1> QED
    BY <1>2, <1>3 DEF Reviews

\* A decided ProposedChange is never touched again.
THEOREM DecisionsAreFinal == Spec => DecisionFinal
PROOF
  <1> DEFINE Kept == \A p \in ProposedChanges :
                       proposals[p].status \in Decided => proposals'[p] = proposals[p]
  <1>1. TypeOK /\ [Next]_vars => Kept
    BY ReviewSteps, ReviewDecides DEF Reviews, Submits, Pending, Decided
  <1>2. [][Kept]_vars <=> DecisionFinal
    BY PTL DEF DecisionFinal
  <1> QED
    BY <1>1, <1>2, TypeCorrect, PTL DEF Spec

\* What DecisionTraceable says of one ProposedChange.
Traceable(p) ==
  LET reviews == {activity \in activities : activity.id.change = p}
  IN  IF proposals[p].status \in Decided
      THEN /\ \E review \in reviews :
                /\ reviews = {review}
                /\ review.id.type = proposals[p].status
           /\ proposals[p].status # "rejected" =>
                LET b == proposals[p].accepted
                IN  IF b.kind = "Entity" THEN b.id \in entities ELSE Known(b.id)
      ELSE reviews = {}

\* An accepted record that is no entity is one of the Assertions.
AcceptedNamed ==
  \A p \in ProposedChanges :
    proposals[p].status \in {"approved", "edited"} /\ proposals[p].accepted.kind # "Entity"
    => proposals[p].accepted.id \in Assertions

LEMMA NextNamed ==
  ASSUME TypeOK, AcceptedNamed, [Next]_vars
  PROVE  AcceptedNamed'
PROOF
  <1>1. CASE Submits
    BY <1>1 DEF Submits, AcceptedNamed
  <1>2. ASSUME NEW p \in ProposedChanges, NEW decision \in Decided,
               NEW id \in ReviewActivityIds, Reviews(p, decision, id)
        PROVE  AcceptedNamed'
    BY <1>2, ReviewDecides DEF AcceptedNamed
  <1> QED
    BY <1>1, <1>2, ReviewSteps

\* A ProposedChange that was not decided has no review yet, and a review adds one.
LEMMA NextTraceable ==
  ASSUME TypeOK, AcceptedNamed, DecisionTraceable, [Next]_vars
  PROVE  DecisionTraceable'
PROOF
  <1>1. \A q \in ProposedChanges : Traceable(q)
    BY DEF DecisionTraceable, Traceable
  <1>2. CASE Submits
    BY <1>1, <1>2 DEF Submits, DecisionTraceable, Traceable, Known, Decided
  <1>3. ASSUME NEW p \in ProposedChanges, NEW decision \in Decided,
               NEW id \in ReviewActivityIds, Reviews(p, decision, id)
        PROVE  \A q \in ProposedChanges : Traceable(q)'
    <2>1. PICK outputs : RecordActivity(id, outputs)
      BY <1>3, ReviewDecides
    <2> DEFINE review == [id |-> id, outputs |-> outputs]
               of(q) == {activity \in activities : activity.id.change = q}
    <2>2. activities' = activities \cup {review} /\ review.id = id
      BY <2>1 DEF RecordActivity
    <2>3. id.change = p /\ id.type = decision /\ proposals[p].status \notin Decided
      BY <1>3 DEF Reviews, Pending, Decided
    <2>4. Traceable(p)'
      <3>1. of(p) = {}
        BY <1>1, <2>3 DEF Traceable
      <3>2. {activity \in activities' : activity.id.change = p} = {review}
        BY <2>2, <2>3, <3>1
      <3> HIDE DEF review
      <3> QED
        BY <1>3, <2>2, <2>3, <3>2, ReviewDecides DEF Traceable, Known
    <2>5. ASSUME NEW q \in ProposedChanges \ {p}
          PROVE  Traceable(q)'
      <3>1. {activity \in activities' : activity.id.change = q} = of(q)
        BY <2>2, <2>3
      <3>2. proposals'[q] = proposals[q] /\ entities \subseteq entities'
        BY <1>3, ReviewDecides
      <3>3. \A x \in Assertions : Known(x) => Known(x)'
        BY <1>3, ReviewDecides
      <3>4. CASE proposals[q].status \in {"approved", "edited"}
        <4>1. LET b == proposals[q].accepted
              IN  IF b.kind = "Entity" THEN b.id \in entities
                                       ELSE b.id \in Assertions /\ Known(b.id)
          BY <1>1, <3>4 DEF Traceable, AcceptedNamed, Decided
        <4>2. \E r \in of(q) : of(q) = {r} /\ r.id.type = proposals[q].status
          BY <1>1, <3>4 DEF Traceable, Decided
        <4> HIDE DEF of
        <4> QED
          BY <3>1, <3>2, <3>3, <3>4, <4>1, <4>2 DEF Traceable, Known, Decided
      <3>5. CASE proposals[q].status \notin {"approved", "edited"}
        BY <1>1, <3>1, <3>2, <3>5 DEF Traceable, Decided
      <3> QED
        BY <3>4, <3>5
    <2> QED
      BY <2>4, <2>5
  <1> QED
    BY <1>2, <1>3, ReviewSteps DEF DecisionTraceable, Traceable

\* Each decision has its one review, and the record that it accepted is there.
THEOREM DecisionsAreTraceable == Spec => []DecisionTraceable
PROOF
  <1>1. Init => AcceptedNamed /\ DecisionTraceable
    BY DEF Init, AcceptedNamed, DecisionTraceable, Unsubmitted, Decided
  <1>2. TypeOK /\ AcceptedNamed /\ DecisionTraceable /\ [Next]_vars
        => AcceptedNamed' /\ DecisionTraceable'
    BY NextNamed, NextTraceable
  <1> QED
    BY <1>1, <1>2, TypeCorrect, PTL DEF Spec

-----------------------------------------------------------------------------
(* What a step does to one Assertion *)

\* An Assertion that a step changes is the accepted one or its predecessor, and both
\* are outputs of the review that the step records.
LEMMA ChangedAssertion ==
  ASSUME TypeOK, [Next]_vars,
         NEW a \in Assertions, assertions'[a] # assertions[a]
  PROVE  \E outputs :
         \E p \in ProposedChanges, decision \in Decided, id \in ReviewActivityIds,
            b \in AssertionBodies :
           /\ Reviews(p, decision, id)
           /\ RecordActivity(id, outputs) /\ a \in outputs
           /\ id \in assertions'[a].provenance
           /\ b.supersedes # None =>
                /\ Current(b.supersedes)
                /\ assertions'[b.supersedes].status = "superseded"
           /\ \/ a = b.supersedes /\ assertions'[a].supersedes = assertions[a].supersedes
              \/ a = b.id /\ assertions'[a].supersedes = b.supersedes
PROOF
  <1>1. PICK p \in ProposedChanges, decision \in Decided, id \in ReviewActivityIds :
             Reviews(p, decision, id)
    BY ReviewSteps DEF Submits
  <1>2. Accepts(p, decision, id)
    BY <1>1 DEF Reviews, Settles
  <1>3. PICK b \in AssertionBodies, predicate \in Predicates, status \in AssertionStatus,
             prior \in SUBSET ReviewActivityIds :
             AcceptAssertion(p, decision, b, predicate, status, prior, id)
    BY <1>2 DEF Accepts
  <1> DEFINE record == [status |-> status, form |-> b.form, subject |-> b.subject,
                 predicate |-> predicate, evidence |-> b.evidence,
                 supports |-> b.supports, supersedes |-> b.supersedes,
                 provenance |-> prior \cup {id}]
             outputs == {b.id} \cup ({b.supersedes} \ {None})
  <1>4. assertions' = SavedAssertions(b.id, record, b.supersedes, id)
        /\ RecordActivity(id, outputs)
    BY <1>3 DEF AcceptAssertion
  <1>5. \A x \in Assertions :
          assertions'[x] = IF x = b.supersedes THEN Superseded(assertions[x], id)
                           ELSE IF x = b.id THEN record ELSE assertions[x]
    BY <1>4 DEF SavedAssertions
  <1>6. b.supersedes # None =>
          Current(b.supersedes) /\ b.supersedes \in Assertions
          /\ assertions[b.supersedes] \in AssertionRecords
    BY <1>3 DEF AcceptAssertion, ReferencesValid, PredecessorValid, AssertionBodies, Current,
       TypeOK, NoAssertion
  <1>7. \A r \in AssertionRecords :
          LET s == Superseded(r, id)
          IN  s.status = "superseded" /\ s.supersedes = r.supersedes /\ id \in s.provenance
    BY DEF Superseded, AssertionRecords
  <1>8. record.supersedes = b.supersedes /\ id \in record.provenance
    OBVIOUS
  <1>9. None \notin Assertions /\ a \in outputs
    BY <1>5
  <1> HIDE DEF record, outputs
  <1>10. \/ a = b.supersedes /\ assertions'[a] = Superseded(assertions[a], id)
         \/ a # b.supersedes /\ a = b.id /\ assertions'[a] = record
    BY <1>5
  <1>11. b.supersedes # None => assertions'[b.supersedes].status = "superseded"
    BY <1>5, <1>6, <1>7
  <1>12. id \in assertions'[a].provenance
         /\ \/ a = b.supersedes /\ assertions'[a].supersedes = assertions[a].supersedes
            \/ a = b.id /\ assertions'[a].supersedes = b.supersedes
    BY <1>6, <1>7, <1>8, <1>9, <1>10
  <1> QED
    BY <1>1, <1>4, <1>6, <1>9, <1>11, <1>12

\* A successor is stored together with the end of its predecessor, which was current.
THEOREM SupersessionIsAtomic == Spec => SupersessionAtomic
PROOF
  <1> DEFINE Together == \A a, p \in Assertions :
        /\ assertions'[a] # assertions[a]
        /\ assertions'[a].status # "absent"
        /\ assertions'[a].supersedes = p
        /\ Known(a) => assertions[a].supersedes # p
        => Current(p) /\ assertions'[p].status = "superseded"
  <1>1. TypeOK /\ [Next]_vars => Together
    BY ChangedAssertion DEF Current, Known
  <1>2. [][Together]_vars <=> SupersessionAtomic
    BY PTL DEF SupersessionAtomic
  <1> QED
    BY <1>1, <1>2, TypeCorrect, PTL DEF Spec

\* Every Assertion that changes is an output of a review of its own, and says so.
THEOREM ChangesAreAttributed == Spec => ChangesAttributed
PROOF
  <1> DEFINE Attributed == \A a \in Assertions :
        assertions'[a] # assertions[a] =>
          \E activity \in activities' \ activities :
             /\ a \in activity.outputs
             /\ activity.id \in assertions'[a].provenance
  <1>1. TypeOK /\ DecisionTraceable /\ [Next]_vars => Attributed
    <2> SUFFICES ASSUME TypeOK, DecisionTraceable, [Next]_vars,
                        NEW a \in Assertions, assertions'[a] # assertions[a]
                 PROVE  \E activity \in activities' \ activities :
                          a \in activity.outputs /\ activity.id \in assertions'[a].provenance
      OBVIOUS
    <2>1. PICK outputs :
               \E p \in ProposedChanges, decision \in Decided, id \in ReviewActivityIds :
                 /\ Reviews(p, decision, id)
                 /\ RecordActivity(id, outputs) /\ a \in outputs
                 /\ id \in assertions'[a].provenance
      BY ChangedAssertion
    <2>2. PICK p \in ProposedChanges, decision \in Decided, id \in ReviewActivityIds :
               /\ Reviews(p, decision, id)
               /\ RecordActivity(id, outputs) /\ a \in outputs
               /\ id \in assertions'[a].provenance
      BY <2>1
    <2> DEFINE review == [id |-> id, outputs |-> outputs]
    <2>3. {activity \in activities : activity.id.change = p} = {}
      BY <2>2 DEF DecisionTraceable, Reviews, Pending, Decided
    <2>4. review.id.change = p /\ review \in activities'
      BY <2>2 DEF Reviews, RecordActivity
    <2>5. review.id = id /\ review.outputs = outputs
      OBVIOUS
    <2> HIDE DEF review
    <2> QED
      BY <2>2, <2>3, <2>4, <2>5
  <1>2. [][Attributed]_vars <=> ChangesAttributed
    BY PTL DEF ChangesAttributed
  <1> QED
    BY <1>1, <1>2, TypeCorrect, DecisionsAreTraceable, PTL DEF Spec
=============================================================================
