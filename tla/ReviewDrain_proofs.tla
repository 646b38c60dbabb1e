-------------------------- MODULE ReviewDrain_proofs --------------------------
(***************************************************************************)
(* Proofs about ReviewDrain.  They need that the queue has a first item,   *)
(* which rests on the least element of a set of numbers.                   *)
(***************************************************************************)
EXTENDS ReviewDrain, TLAPS, WellFoundedInduction

-----------------------------------------------------------------------------
(* The queue has a first item *)

LessThan == OpToRel(<, Nat)

LEMMA LessThanWellFounded == IsWellFoundedOn(LessThan, Nat)
  BY NatLessThanWellFounded, Zenon DEF LessThan

LEMMA LessThanPairs == \A m, n \in Nat : <<n, m>> \in LessThan <=> n < m
  BY Zenon DEF LessThan, OpToRel

\* A set of natural numbers that is not empty has a least element.
LEMMA Least ==
  ASSUME NEW T, T \subseteq Nat, T # {}
  PROVE  \E m \in T : \A n \in T : m <= n
  <1>1. PICK m \in T : \A n \in T : <<n, m>> \notin LessThan
    BY LessThanWellFounded, WFMin
  <1>2. ASSUME NEW n \in T
        PROVE  m <= n
    <2>1. ~(n < m)
      BY <1>1, LessThanPairs
    <2> QED
      BY <2>1
  <1> QED
    BY <1>2

LEMMA AppendAddsItem ==
  ASSUME NEW S, NEW s \in Seq(S), NEW e \in S
  PROVE  {Append(s, e)[i] : i \in DOMAIN Append(s, e)} = {s[i] : i \in DOMAIN s} \cup {e}
  <1>1. /\ Len(s) \in Nat /\ DOMAIN s = 1 .. Len(s)
        /\ DOMAIN Append(s, e) = 1 .. Len(s) + 1
        /\ \A i \in 1 .. Len(s) : Append(s, e)[i] = s[i]
        /\ Append(s, e)[Len(s) + 1] = e
    OBVIOUS
  <1>2. 1 .. Len(s) + 1 = (1 .. Len(s)) \cup {Len(s) + 1}
    BY <1>1
  <1> QED
    BY <1>1, <1>2

LEMMA OrderOfTypes ==
  /\ DOMAIN RecordTypeOrder = {"Organization", "Actor", "Event", "EvidenceTarget", "Assertion",
                               "Relationship", "Outcome", "ArgumentEdge"}
  /\ \A t \in DOMAIN RecordTypeOrder : RecordTypeOrder[t] \in Nat
  /\ \A t, u \in DOMAIN RecordTypeOrder : RecordTypeOrder[t] = RecordTypeOrder[u] => t = u
  BY DEF RecordTypeOrder

\* A record refers to records of its own type and of types that the queue has before it.
LEMMA OrderOfReferences ==
  ASSUME NEW t \in RecordTypes, NEW u \in RefersTo[t], ~(t = "Event" /\ u = "EvidenceTarget")
  PROVE  /\ u \in DOMAIN RecordTypeOrder
         /\ t \in DOMAIN RecordTypeOrder => RecordTypeOrder[u] <= RecordTypeOrder[t]
  BY DEF RecordTypes, RecordTypeOrder, RefersTo, Entities

-----------------------------------------------------------------------------
(* The invariant *)

\* What is decided is no longer pending, and a drain has one input.
Records ==
  /\ \A c \in Changes : decidedBy[c] # Nobody => status[c] \in Decided
  /\ \A d \in Drains : \A in, other \in input[d] : in = other
  /\ \A d \in Drains : phase[d] = "idle" => executed[d] = <<>>

Inv == TypeOK /\ Records /\ ReportIsTruthful /\ ReferencesClosed

LEMMA FirstInQueue ==
  ASSUME TypeOK, Listable, NEW in \in Inputs, Queue(in) # {}
  PROVE  /\ NextItem(in) \in Queue(in)
         /\ \A b \in Queue(in) : b # NextItem(in) => Before(NextItem(in), b)
  <1> DEFINE Q == Queue(in)
             order(c) == RecordTypeOrder[Type[c]]
             Orders == {order(c) : c \in Q}
  <1>1. /\ Q \subseteq Changes
        /\ \A c \in Q : Type[c] \in DOMAIN RecordTypeOrder /\ order(c) \in Nat /\ Label[c] \in Nat
    BY ProposalsAssumption, DrainsAssumption, OrderOfTypes DEF Queue, Listable, PendingChanges
  <1>2. Orders \subseteq Nat /\ Orders # {}
    BY <1>1
  <1>3. PICK m \in Orders : \A n \in Orders : m <= n
    BY <1>2, Least
  <1> DEFINE First == {c \in Q : order(c) = m}
             Labels == {Label[c] : c \in First}
  <1>4. Labels \subseteq Nat /\ Labels # {}
    BY <1>1
  <1>5. PICK l \in Labels : \A n \in Labels : l <= n
    BY <1>4, Least
  <1>6. PICK c \in First : Label[c] = l
    BY <1>5
  <1>7. ASSUME NEW b \in Q, b # c
        PROVE  Before(c, b)
    <2>1. m <= order(b) /\ order(c) = m /\ m \in Nat /\ order(b) \in Nat
      BY <1>1, <1>3, <1>6
    <2>2. CASE order(b) = m
      <3>1. Type[b] = Type[c] /\ Label[c] <= Label[b]
        BY <1>1, <1>5, <1>6, <2>1, <2>2, OrderOfTypes
      <3>2. Label[c] # Label[b]
        BY <1>1, <1>6, <1>7, <3>1, ProposalsAssumption
      <3> QED
        BY <1>1, <3>1, <3>2 DEF Before
    <2>3. CASE order(b) # m
      BY <2>1, <2>3 DEF Before
    <2> QED
      BY <2>2, <2>3
  <1>8. \E a \in Q : \A b \in Q : b # a => Before(a, b)
    BY <1>7
  <1> QED
    BY <1>8 DEF NextItem

LEMMA InitInv == Init => Inv
  BY DrainsAssumption DEF Init, Inv, TypeOK, Records, ReportIsTruthful, ReferencesClosed, Decided

\* A decision leaves what was decided before as it is, and approves only what refers
\* to approved records.
LEMMA DecisionKeeps ==
  ASSUME Inv, NEW c \in Changes, status[c] = "pending", NEW decision \in {"approve", "reject"},
         NEW predicate, Decidable(c, decision, predicate),
         NEW agent \in Drains \cup {Reviewer}, Decide(c, decision, agent)
  PROVE  /\ status' \in [Changes -> Decided \cup {"absent", "pending"}]
         /\ decidedBy' \in [Changes -> Drains \cup {Reviewer, Nobody}]
         /\ decidedBy[c] = Nobody /\ decidedBy' = [decidedBy EXCEPT ![c] = agent]
         /\ \A b \in Changes : decidedBy'[b] # Nobody => status'[b] \in Decided
         /\ ReferencesClosed'
  <1>1. Verdict[decision] \in Decided /\ (Verdict[decision] = "approved" => decision = "approve")
    BY DEF Verdict, Decided
  <1>2. status' = [status EXCEPT ![c] = Verdict[decision]]
        /\ decidedBy' = [decidedBy EXCEPT ![c] = agent]
    BY DEF Decide
  <1>3. ReferencesClosed'
    <2> SUFFICES ASSUME NEW b \in Changes, status'[b] = "approved", NEW r \in Requires[b]
                 PROVE  status'[r] = "approved"
      BY DEF ReferencesClosed
    <2>1. r \in Changes
      BY ProposalsAssumption
    <2>2. status[r] = "approved"
      BY <1>1, <1>2 DEF Inv, TypeOK, ReferencesClosed, Decidable, ReferencesAccepted
    <2> QED
      BY <1>2, <2>1, <2>2 DEF Inv, TypeOK
  <1> QED
    BY <1>1, <1>2, <1>3 DEF Inv, TypeOK, Records, Decided

LEMMA NextInv == Inv /\ [Next]_vars => Inv'
  <1> SUFFICES ASSUME Inv, [Next]_vars
               PROVE  Inv'
    OBVIOUS
  <1>1. ASSUME NEW d \in Drains, NEW in \in Inputs, Select(d, in)
        PROVE  Inv'
    <2>1. TypeOK'
      BY <1>1 DEF Select, Inv, TypeOK
    <2>2. Records'
      BY <1>1 DEF Select, Inv, TypeOK, Records
    <2>3. ReportIsTruthful'
      <3>1. executed[d] = <<>> /\ (in.limit \in Nat \/ in.limit = NoLimit)
        BY <1>1, DrainsAssumption DEF Select, Inv, Records
      <3> QED
        BY <1>1, <3>1 DEF Select, Inv, TypeOK, ReportIsTruthful
    <2> QED
      BY <1>1, <2>1, <2>2, <2>3 DEF Select, Inv, ReferencesClosed
  <1>2. ASSUME NEW d \in Drains, Drain(d)
        PROVE  Inv'
    <2>1. PICK in \in input[d] : Item(d, in) \/ Stop(d, in)
      BY <1>2 DEF Drain
    <2>2. in \in Inputs /\ phase[d] = "draining" /\ input' = input
      BY <1>2 DEF Drain, Inv, TypeOK
    <2>3. CASE UNCHANGED <<status, decidedBy, executed>>
      <3>1. phase' \in [Drains -> {"idle", "draining", "queue_empty", "limit_reached",
                                   "validation_failed", "crashed"}]
            /\ \A e \in Drains : phase'[e] = "idle" <=> phase[e] = "idle"
        BY <2>1, <2>2, <2>3 DEF Item, Stop, Inv, TypeOK, AfterFailure
      <3> QED
        BY <2>2, <2>3, <3>1 DEF Inv, TypeOK, Records, ReportIsTruthful, ReferencesClosed
    <2>4. ASSUME Item(d, in), ~UNCHANGED <<status, decidedBy, executed>>
          PROVE  Inv'
      <3> DEFINE c == NextItem(in)
      <3>1. /\ Listable /\ Queue(in) # {} /\ Continues(d, in)
            /\ Decidable(c, in.decision, in.predicate) /\ Decide(c, in.decision, d)
            /\ executed' = [executed EXCEPT ![d] = Append(executed[d], c)] /\ UNCHANGED phase
        BY <2>4 DEF Item
      <3>2. c \in Changes /\ status[c] = "pending"
        BY <2>2, <3>1, FirstInQueue, DrainsAssumption DEF Inv, Queue
      <3>3. /\ status' \in [Changes -> Decided \cup {"absent", "pending"}]
            /\ decidedBy' \in [Changes -> Drains \cup {Reviewer, Nobody}]
            /\ decidedBy[c] = Nobody /\ decidedBy' = [decidedBy EXCEPT ![c] = d]
            /\ \A b \in Changes : decidedBy'[b] # Nobody => status'[b] \in Decided
            /\ ReferencesClosed'
        BY <2>2, <3>1, <3>2, DecisionKeeps, DrainsAssumption
      <3>4. executed[d] \in Seq(Changes) /\ executed' \in [Drains -> Seq(Changes)]
            /\ executed'[d] = Append(executed[d], c)
        BY <3>1, <3>2 DEF Inv, TypeOK
      <3>5. TypeOK' /\ Records'
        BY <2>2, <3>1, <3>3, <3>4 DEF Inv, TypeOK, Records
      <3>6. \A e \in Drains : e # d => executed'[e] = executed[e]
        BY <3>1 DEF Inv, TypeOK
      <3>7. c \notin {executed[d][i] : i \in DOMAIN executed[d]}
        BY <2>2, <3>3, DrainsAssumption DEF Inv, ReportIsTruthful
      <3>8. {executed'[d][i] : i \in DOMAIN executed'[d]}
              = {executed[d][i] : i \in DOMAIN executed[d]} \cup {c}
        <4> DEFINE items == executed[d]
        <4>1. items \in Seq(Changes) /\ c \in Changes /\ executed'[d] = Append(items, c)
          BY <3>2, <3>4
        <4> HIDE DEF c, items
        <4>2. {executed'[d][i] : i \in DOMAIN executed'[d]} = {items[i] : i \in DOMAIN items} \cup {c}
          BY <4>1, AppendAddsItem
        <4> QED
          BY <4>2 DEF items
      <3>9. \A i, j \in DOMAIN executed'[d] : executed'[d][i] = executed'[d][j] => i = j
        BY <3>4, <3>7 DEF Inv, ReportIsTruthful
      <3>10. \A other \in input[d] : other.limit # NoLimit => Len(executed'[d]) <= other.limit
        <4>1. \A other \in input[d] : other = in
          BY DEF Inv, Records
        <4>2. in.limit # NoLimit => in.limit \in Nat /\ Len(executed[d]) < in.limit
          BY <2>2, <3>1, DrainsAssumption DEF Continues
        <4> QED
          BY <3>4, <4>1, <4>2
      <3>11. ReportIsTruthful'
        <4> SUFFICES ASSUME NEW e \in Drains
                     PROVE  /\ {executed'[e][i] : i \in DOMAIN executed'[e]}
                                 = {b \in Changes : decidedBy'[b] = e}
                            /\ \A i, j \in DOMAIN executed'[e] :
                                 executed'[e][i] = executed'[e][j] => i = j
                            /\ \A other \in input'[e] :
                                 other.limit # NoLimit => Len(executed'[e]) <= other.limit
          BY DEF ReportIsTruthful
        <4>1. CASE e = d
          <5>1. {b \in Changes : decidedBy'[b] = d} = {b \in Changes : decidedBy[b] = d} \cup {c}
            BY <3>2, <3>3 DEF Inv, TypeOK
          <5> QED
            BY <2>2, <3>8, <3>9, <3>10, <4>1, <5>1 DEF Inv, ReportIsTruthful
        <4>2. CASE e # d
          <5>1. {b \in Changes : decidedBy'[b] = e} = {b \in Changes : decidedBy[b] = e}
            BY <3>3, <4>2, DrainsAssumption DEF Inv, TypeOK
          <5> QED
            BY <2>2, <3>6, <4>2, <5>1 DEF Inv, ReportIsTruthful
        <4> QED
          BY <4>1, <4>2
      <3> QED
        BY <3>3, <3>5, <3>11 DEF Inv
    <2> QED
      BY <2>1, <2>3, <2>4 DEF Stop
  <1>3. ASSUME NEW d \in Drains, Crash(d)
        PROVE  Inv'
    BY <1>3 DEF Crash, Inv, TypeOK, Records, ReportIsTruthful, ReferencesClosed
  <1>4. ASSUME NEW c \in Changes, Submit(c)
        PROVE  Inv'
    <2>1. status'[c] = "pending" /\ status[c] = "absent" /\ \A b \in Changes : b # c => status'[b] = status[b]
      BY <1>4 DEF Submit, Inv, TypeOK
    <2>2. TypeOK'
      BY <1>4 DEF Submit, Inv, TypeOK
    <2>3. Records' /\ ReportIsTruthful'
      BY <1>4, <2>1 DEF Submit, Inv, Records, ReportIsTruthful, Decided
    <2>4. ReferencesClosed'
      BY <2>1, ProposalsAssumption DEF Inv, ReferencesClosed
    <2> QED
      BY <2>2, <2>3, <2>4 DEF Inv
  <1>5. ASSUME NEW c \in Changes, NEW decision \in {"approve", "reject"}, Review(c, decision)
        PROVE  Inv'
    <2>1. /\ status' \in [Changes -> Decided \cup {"absent", "pending"}]
          /\ decidedBy' \in [Changes -> Drains \cup {Reviewer, Nobody}]
          /\ decidedBy[c] = Nobody /\ decidedBy' = [decidedBy EXCEPT ![c] = Reviewer]
          /\ \A b \in Changes : decidedBy'[b] # Nobody => status'[b] \in Decided
          /\ ReferencesClosed'
      BY <1>5, DecisionKeeps DEF Review
    <2>2. UNCHANGED <<phase, input, executed>>
      BY <1>5 DEF Review
    <2>3. \A d \in Drains : {b \in Changes : decidedBy'[b] = d} = {b \in Changes : decidedBy[b] = d}
      BY <2>1, DrainsAssumption DEF Inv, TypeOK
    <2>4. ReportIsTruthful'
      BY <2>2, <2>3 DEF Inv, ReportIsTruthful
    <2> QED
      BY <2>1, <2>2, <2>4 DEF Inv, TypeOK, Records
  <1>6. CASE UNCHANGED vars
    BY <1>6 DEF vars, Inv, TypeOK, Records, ReportIsTruthful, ReferencesClosed
  <1> QED
    BY <1>1, <1>2, <1>3, <1>4, <1>5, <1>6 DEF Next

LEMMA Invariance == Spec => []Inv
  BY InitInv, NextInv, PTL DEF Spec

-----------------------------------------------------------------------------
(* Theorems *)

\* Every variable keeps its type.
THEOREM TypeCorrect == Spec => []TypeOK
  <1>1. Inv => TypeOK
    BY DEF Inv
  <1> QED
    BY <1>1, Invariance, PTL

\* However many drains and reviewers there are, a drain reports what it decided, each
\* item once and within its limit.
THEOREM ReportsStayTruthful == Spec => []ReportIsTruthful
  <1>1. Inv => ReportIsTruthful
    BY DEF Inv
  <1> QED
    BY <1>1, Invariance, PTL

\* An approved record refers to approved records, in whatever order they are decided.
THEOREM ReferencesStayClosed == Spec => []ReferencesClosed
  <1>1. Inv => ReferencesClosed
    BY DEF Inv
  <1> QED
    BY <1>1, Invariance, PTL

\* A drain that fails at an item would not have come to what the item refers to,
\* unless that is of the same type or the EvidenceTarget of an Event.
THEOREM RequirementsAreFirst == Spec => RequirementsComeFirst
  <1> DEFINE Failed(d, in) == /\ phase[d] = "draining" /\ phase'[d] = "validation_failed"
                              /\ Listable /\ Continues(d, in)
             Excused(in) ==
               LET c == NextItem(in) IN
                 \/ Type[c] = "Assertion" /\ ~in.predicate
                 \/ \E r \in Requires[c] : /\ status[r] # "approved"
                                           /\ r \in Queue(in) => OutOfOrder(c, r)
  <1>1. ASSUME Inv, [Next]_vars, NEW d \in Drains, NEW in \in input[d], Failed(d, in)
        PROVE  Excused(in)
    <2> DEFINE c == NextItem(in)
    <2>1. Drain(d)
      <3>1. TypeOK /\ phase[d] = "draining" /\ phase'[d] = "validation_failed"
        BY <1>1 DEF Inv
      <3>2. ASSUME NEW e \in Drains, Drain(e) \/ Crash(e) \/ \E given \in Inputs : Select(e, given)
            PROVE  e = d /\ Drain(d)
        <4>1. ~Crash(e) \/ e # d
          BY <3>1 DEF Crash, TypeOK
        <4>2. CASE e # d
          BY <3>1, <3>2, <4>2 DEF Drain, Item, Stop, Crash, Select, TypeOK
        <4> QED
          BY <3>1, <3>2, <4>1, <4>2 DEF Select
      <3>3. ~UNCHANGED phase
        BY <3>1
      <3> QED
        BY <1>1, <3>2, <3>3 DEF Next, Submit, Review, vars
    <2>2. PICK other \in input[d] : Item(d, other) \/ Stop(d, other)
      BY <2>1 DEF Drain
    <2>3. other = in /\ in \in Inputs
      BY <1>1 DEF Inv, Records, TypeOK
    <2>4. Queue(in) # {} /\ ~Decidable(c, in.decision, in.predicate)
      BY <1>1, <2>2, <2>3 DEF Item, Stop, Inv, TypeOK
    <2>5. c \in Queue(in) /\ \A b \in Queue(in) : b # c => Before(c, b)
      BY <1>1, <2>3, <2>4, FirstInQueue DEF Inv
    <2>6. c \in Changes /\ Type[c] \in RecordTypes /\ Type[c] \in DOMAIN RecordTypeOrder
      BY <1>1, <2>3, <2>5, DrainsAssumption, ProposalsAssumption DEF Queue, Listable, PendingChanges
    <2>7. CASE Type[c] = "Assertion" /\ ~in.predicate
      BY <2>7
    <2>8. CASE ~ReferencesAccepted(c)
      <3>1. PICK r \in Requires[c] : status[r] # "approved"
        BY <2>8 DEF ReferencesAccepted
      <3>2. ASSUME r \in Queue(in)
            PROVE  OutOfOrder(c, r)
        <4> SUFFICES ASSUME ~OutOfOrder(c, r)
                     PROVE  FALSE
          OBVIOUS
        <4>1. /\ Type[r] \in DOMAIN RecordTypeOrder
              /\ RecordTypeOrder[Type[r]] <= RecordTypeOrder[Type[c]]
          BY <2>6, <3>1, OrderOfReferences, ProposalsAssumption DEF OutOfOrder
        <4>2. r = c \/ Before(c, r)
          BY <2>5, <3>2
        <4>3. RecordTypeOrder[Type[r]] \in Nat /\ RecordTypeOrder[Type[c]] \in Nat
          BY <2>6, <4>1, OrderOfTypes
        <4> QED
          BY <4>1, <4>2, <4>3 DEF Before, OutOfOrder
      <3> QED
        BY <3>1, <3>2
    <2> QED
      BY <2>4, <2>7, <2>8 DEF Decidable
  <1>2. Inv /\ [Next]_vars =>
          [\A d \in Drains : \A in \in input[d] : Failed(d, in) => Excused(in)]_vars
    BY <1>1
  <1> QED
    BY <1>2, Invariance, PTL DEF Spec, RequirementsComeFirst
=============================================================================
