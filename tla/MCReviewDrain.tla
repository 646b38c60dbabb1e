----------------------------- MODULE MCReviewDrain -----------------------------
(* A small instance of ReviewDrain for TLC. *)
EXTENDS ReviewDrain, TLC

CONSTANTS org, event, target, claim, lineage, first, second

\* An Event that names an Organization and is mentioned at an EvidenceTarget, an
\* Assertion about the Event, and a proposed lineage of two Documents.  Labels run
\* against the types.
MCType == org :> "Organization" @@ event :> "Event" @@ target :> "EvidenceTarget"
            @@ claim :> "Assertion" @@ lineage :> "SourceLineageRelation"
MCLabel == org :> 3 @@ event :> 2 @@ target :> 5 @@ claim :> 1 @@ lineage :> 4
MCRequires == org :> {} @@ event :> {org, target} @@ target :> {} @@ claim :> {event}
                @@ lineage :> {}

Asked(decision, limit, matching, predicate) ==
  [decision |-> decision, limit |-> limit, matching |-> matching, predicate |-> predicate]

MCInputs ==
  {Asked("approve", NoLimit, {org, event, target, claim}, FALSE),
   Asked("approve", 1, {org, event, claim}, TRUE),
   Asked("approve", 2, {event, claim}, TRUE),
   Asked("reject", NoLimit, {event}, FALSE),
   Asked("reject", 0, {org, event, claim}, FALSE)}
=============================================================================
