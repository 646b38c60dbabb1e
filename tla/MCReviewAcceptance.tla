-------------------------- MODULE MCReviewAcceptance --------------------------
(* Small instances of ReviewAcceptance for TLC. *)
EXTENDS ReviewAcceptance, TLC

CONSTANTS a1, a2, a3, org, literal1, literal2, t1, t2, k1, k2, k3, c1, c2, c3, c4, c5

Direct(id, subject, evidence, supersedes, status) ==
  [kind |-> "Assertion", id |-> id, form |-> "direct", subject |-> subject,
   predicate |-> "postponed", status |-> status, evidence |-> evidence,
   supports |-> {}, supersedes |-> supersedes, provenance |-> {}, specs |-> {}]

Inference(id, supports, supersedes) ==
  [kind |-> "Assertion", id |-> id, form |-> "analytic", subject |-> org,
   predicate |-> "postponed", status |-> "proposed", evidence |-> {},
   supports |-> supports, supersedes |-> supersedes, provenance |-> {},
   specs |-> {}]

Organization(id) == [kind |-> "Entity", id |-> id]

Support(target, attempt) ==
  [evidence |-> target, attempt |-> attempt, role |-> "direct_support"]

Context(target, attempt) == [Support(target, attempt) EXCEPT !.role = "context"]

MCTargetOf == [k \in {k1, k2, k3} |-> IF k = k2 THEN t2 ELSE t1]

\* An extraction of one document: an Organization and two Assertions about it.
\* It is submitted again, with the same identities, when extraction is re-run.
MCGroundedBatches ==
  {(c1 :> Organization(org)
    @@ c2 :> [Direct(a1, org, {t1}, None, "proposed") EXCEPT !.specs = {Support(t1, k1)}]
    @@ c3 :> [Direct(a2, org, {t2}, None, "proposed") EXCEPT !.specs = {Support(t2, k2)}])}

\* Two planned inferences, the second one resting on the first.
MCPlannedBatches ==
  {(c4 :> Inference(a3, {a1}, None) @@ c5 :> Inference(a2, {a3}, None))}

\* The same Assertion found again by a later run, with its own validation attempt.
MCRerunBatches ==
  MCGroundedBatches \cup
  {(c2 :> [Direct(a1, org, {t1}, None, "proposed") EXCEPT !.specs = {Support(t1, k3)}]
    @@ c3 :> [Direct(a2, org, {t2}, None, "proposed")
                EXCEPT !.specs = {Support(t2, k2), Context(t1, k3)}])}

\* What a reviewer may turn a proposal into: another id, other evidence, other
\* premises, a predecessor, a status, a provenance reference.
MCEdits ==
  {Direct(id, org, evidence, predecessor, status) :
     id \in {a1, a2}, evidence \in {{t1}, {t2}, {t1, t2}},
     predecessor \in {None, a1, a2}, status \in {"proposed", "retracted"}}
    \cup
  {Inference(id, supports, predecessor) :
     id \in {a1, a2, a3}, supports \in {{a1}, {a2}, {a3}, {a1, a2}},
     predecessor \in {None, a1, a3}}
    \cup
  {[Inference(a3, {a1}, None) EXCEPT !.provenance =
      {[change |-> c1, reviewer |-> "analyst", type |-> "approved"]}],
   Organization(org)}

=============================================================================
