----------------------- MODULE ArchivePublication_proofs -----------------------
(***************************************************************************)
(* For any number of processes and payloads and any size of a write: what  *)
(* is reported as put is there, whole and for good, in each of the four    *)
(* ways of the Archive.                                                    *)
(*                                                                         *)
(* The argument has two halves.  What a step of one process does to the    *)
(* others (Effect): a file under a name keeps its payload and, when it is  *)
(* whole, stays as it is, and what another process staged is left alone.   *)
(* And what a process itself has written when it comes to a step           *)
(* (Underway): then what it publishes or reports is whole.                 *)
(***************************************************************************)
EXTENDS ArchivePublication, ResourceInstallation, TLAPS

\* Which steps belong to which way.
WayOf ==
  \A p \in Processes :
    /\ pc[p] \in {"compare", "reused"} => way # "briefing"
    /\ pc[p] = "link" => way = "evidence"
    /\ pc[p] \in {"replace", "activate"} => way = "wiki"
    /\ pc[p] \in {"promote", "save"} => way = "briefing"
    /\ way # "briefing" \/ pc[p] = "idle" => part[p] = 1

\* A name has what it is the name of, and all of it unless it is that of a raw object.
RightContent(name) ==
  /\ name[1] = "raw" => way = "raw" /\ files[name].payload = name[2]
  /\ name[1] = "wiki" => files[name] = Whole(name[2])
  /\ name[1] = "briefing" => files[name] = Whole(payload[name[2]])
  /\ name[1] = "evidence" => files[name].length = Size

NamedRight == \A name \in Names : Exists(name) => RightContent(name)

\* What a process has written so far is where it wrote it.
UnderwayOf(p) ==
  /\ pc[p] = "write" => Exists(Place(p)) /\ files[Place(p)].payload = payload[p]
  /\ pc[p] \in {"link", "replace"} => files[Staging(p, 1)] = Whole(payload[p])
  /\ pc[p] = "activate" => files[Name(p, 1)] = Whole(payload[p])
  /\ pc[p] \in {"create", "write"} /\ part[p] = 2 => files[Staging(p, 1)] = Whole(payload[p])
  /\ pc[p] = "promote" =>
       /\ \A n \in part[p] .. 2 : files[Staging(p, n)] = Whole(payload[p])
       /\ part[p] = 2 => files[Name(p, 1)] = Whole(payload[p])
  /\ pc[p] \in {"save", "created", "reused"} =>
       \A n \in Parts : files[Name(p, n)] = Whole(payload[p])

Underway == \A p \in Processes : UnderwayOf(p)

RowsOfBriefings == \A p \in rows : way = "briefing" /\ pc[p] = "created"

Inv == TypeOK /\ WayOf /\ NamedRight /\ Underway /\ RowsOfBriefings /\ ActiveIsPublished

-----------------------------------------------------------------------------
(* Names *)

LEMMA NamesApart ==
  /\ \A name \in Names, temporary \in StagingNames : name # temporary
  /\ \A p, q \in Processes, m, n \in 1 .. 2 :
       Staging(p, m) = Staging(q, n) => p = q /\ m = n
  BY DEF Names, StagingNames, Staging

LEMMA NameType ==
  ASSUME TypeOK, NEW p \in Processes
  PROVE  /\ \A n \in Parts : Name(p, n) \in Names
         /\ \A n \in 1 .. 2 : Staging(p, n) \in StagingNames
         /\ Parts \subseteq 1 .. 2 /\ 1 \in Parts
  <1>1. \A n \in Parts : Name(p, n) \in Names
    <2>1. CASE way = "briefing"
      BY <2>1 DEF Parts, Name, Names
    <2>2. CASE way = "evidence"
      BY <2>2 DEF Parts, Name, Names
    <2>3. CASE way \in {"raw", "wiki"}
      BY <2>3 DEF Parts, Name, Names, TypeOK
    <2> QED
      BY <2>1, <2>2, <2>3 DEF TypeOK, Ways
  <1> QED
    BY <1>1 DEF Parts, Staging, StagingNames

LEMMA InitInv == Init => Inv
  <1> SUFFICES ASSUME Init
               PROVE  Inv
    OBVIOUS
  <1>1. TypeOK
    BY SizeAssumption DEF Init, TypeOK, Ended
  <1>2. NamedRight
    BY DEF Init, NamedRight, Exists
  <1> QED
    BY <1>1, <1>2 DEF Init, Inv, WayOf, Underway, UnderwayOf, RowsOfBriefings, ActiveIsPublished

-----------------------------------------------------------------------------
(* What a step does to the others *)

Kept ==
  \A name \in Names : Exists(name) =>
    /\ files'[name] # None
    /\ files'[name].payload = files[name].payload
    /\ files[name].length = Size => files'[name] = files[name]

Effect(p) ==
  /\ UNCHANGED <<way, payload>>
  /\ files' \in [Names \cup StagingNames -> Files \cup {None}]
  /\ Kept
  /\ \A q \in Processes \ {p} :
       /\ pc'[q] = pc[q] /\ part'[q] = part[q]
       /\ \A n \in 1 .. 2 : files'[Staging(q, n)] = files[Staging(q, n)]

LEMMA Longer ==
  ASSUME NEW file \in Files, file.length # Size
  PROVE  /\ [file EXCEPT !.length = @ + 1] \in Files
         /\ [file EXCEPT !.length = @ + 1].payload = file.payload
  <1>1. file.length + 1 \in 0 .. Size
    BY SizeAssumption DEF Files
  <1> QED
    BY <1>1 DEF Files

LEMMA WholeFile ==
  ASSUME NEW file \in Files, file.length = Size
  PROVE  file = Whole(file.payload)
  BY DEF Files, Whole

LEMMA Effects ==
  ASSUME Inv, NEW p \in Processes,
         \/ Start(p) \/ Compare(p) \/ Create(p) \/ Write(p) \/ Written(p) \/ WriteFails(p)
         \/ Link(p) \/ Replace(p) \/ Activate(p) \/ Promote(p) \/ SaveBriefing(p)
         \/ BriefingFails(p) \/ Crash(p)
  PROVE  Effect(p)
  <1> USE NameType, NamesApart DEF Inv, TypeOK, At, Exists
  <1>1. CASE Start(p) \/ Compare(p) \/ Written(p) \/ Activate(p) \/ SaveBriefing(p) \/ Crash(p)
    BY <1>1 DEF Effect, Kept, Start, Compare, Written, Activate, SaveBriefing, Crash, Goes
  <1>2. CASE Create(p)
    <2>1. CASE Exists(Place(p))
      BY <1>2, <2>1 DEF Effect, Kept, Create, Goes
    <2>2. CASE ~Exists(Place(p))
      <3>1. Place(p) \in Names \/ \E n \in 1 .. 2 : Place(p) = Staging(p, n)
        BY DEF Place
      <3>2. [payload |-> payload[p], length |-> 0] \in Files
        BY SizeAssumption DEF Files
      <3> QED
        BY <1>2, <2>2, <3>1, <3>2 DEF Effect, Kept, Create, With
    <2> QED
      BY <2>1, <2>2
  <1>3. CASE Write(p)
    <2>1. Place(p) \in Names \/ \E n \in 1 .. 2 : Place(p) = Staging(p, n)
      BY DEF Place
    <2>2. files[Place(p)] \in Files /\ files[Place(p)].length # Size
      BY <1>3, <2>1 DEF Write, Complete, Underway, UnderwayOf
    <2>4. files' = [files EXCEPT ![Place(p)] = [files[Place(p)] EXCEPT !.length = @ + 1]]
      BY <1>3 DEF Write, With
    <2>3. /\ [files[Place(p)] EXCEPT !.length = @ + 1] \in Files
          /\ [files[Place(p)] EXCEPT !.length = @ + 1].payload = files[Place(p)].payload
          /\ None \notin Files
      BY <2>2, Longer, SizeAssumption DEF Files
    <2> QED
      BY <1>3, <2>1, <2>2, <2>3, <2>4 DEF Effect, Kept, Write, With
  <1>4. CASE WriteFails(p) \/ BriefingFails(p)
    BY <1>4 DEF Effect, Kept, WriteFails, BriefingFails, Discarded, Without, With
  <1>5. CASE Link(p) \/ Replace(p)
    <2>1. CASE Exists(Name(p, 1))
      BY <1>5, <2>1 DEF Effect, Kept, Link, Linkable, Replace, Discarded, Without, With
    <2>2. CASE ~Exists(Name(p, 1))
      <3>1. files' = [Discarded(p) EXCEPT ![Name(p, 1)] = files[Staging(p, 1)]]
        BY <1>5, <2>2 DEF Link, Linkable, Replace, With
      <3>2. files[Staging(p, 1)] \in Files \cup {None}
        OBVIOUS
      <3>3. /\ files' \in [Names \cup StagingNames -> Files \cup {None}]
            /\ \A name \in Names : name # Name(p, 1) => files'[name] = files[name]
            /\ \A q \in Processes \ {p}, n \in 1 .. 2 : files'[Staging(q, n)] = files[Staging(q, n)]
        BY <3>1, <3>2 DEF Discarded, Without
      <3>4. Effect(p)!1 /\ Effect(p)!4
        BY <1>5, <2>2, <3>3 DEF Effect, Link, Linkable, Replace, With
      <3> QED
        BY <2>2, <3>3, <3>4 DEF Effect, Kept
    <2> QED
      BY <2>1, <2>2
  <1>6. CASE Promote(p)
    BY <1>6 DEF Effect, Kept, Promote, WayOf, Parts
  <1> QED
    BY <1>1, <1>2, <1>3, <1>4, <1>5, <1>6

-----------------------------------------------------------------------------
(* What follows for the invariant *)

LEMMA NamesSame ==
  ASSUME UNCHANGED <<way, payload>>
  PROVE  /\ Parts' = Parts
         /\ \A p \in Processes, n \in 1 .. 2 : Name(p, n)' = Name(p, n)
         /\ \A p \in Processes, n \in 1 .. 2 : Staging(p, n)' = Staging(p, n)
  BY DEF Parts, Name, Staging

\* A whole file under its name stays.
LEMMA WholeStays ==
  ASSUME Inv, Kept, NEW name \in Names, NEW x \in Payloads, files[name] = Whole(x)
  PROVE  files'[name] = Whole(x)
  <1>1. Whole(x) # None /\ Whole(x).length = Size
    BY SizeAssumption DEF Whole
  <1> QED
    BY <1>1 DEF Kept, Exists

\* The others go on with what they have written.
LEMMA OthersUnderway ==
  ASSUME Inv, NEW p \in Processes, Effect(p), NEW q \in Processes, q # p
  PROVE  UnderwayOf(q)'
  <1> USE NameType DEF Inv
  <1>1. pc'[q] = pc[q] /\ part'[q] = part[q] /\ payload'[q] = payload[q] /\ payload[q] \in Payloads
    BY DEF Effect, TypeOK
  <1>2. \A n \in 1 .. 2 : files'[Staging(q, n)] = files[Staging(q, n)]
    BY DEF Effect
  <1>3. \A n \in Parts : files[Name(q, n)] = Whole(payload[q]) => files'[Name(q, n)] = Whole(payload[q])
    BY <1>1, WholeStays DEF Effect
  <1>4. /\ Parts' = Parts /\ part[q] \in 1 .. 2
        /\ \A n \in 1 .. 2 : Name(q, n)' = Name(q, n) /\ Staging(q, n)' = Staging(q, n)
    BY NamesSame DEF Effect, TypeOK
  <1>5. pc[q] = "write" => Exists(Place(q))' /\ files'[Place(q)'].payload = payload[q]
    <2>1. CASE way = "raw"
      BY <1>4, <2>1 DEF Effect, Kept, Underway, UnderwayOf, Place, Exists
    <2>2. CASE way # "raw"
      BY <1>1, <1>2, <1>4, <2>2 DEF Effect, Underway, UnderwayOf, Place, Exists
    <2> QED
      BY <2>1, <2>2
  <1> QED
    BY <1>1, <1>2, <1>3, <1>4, <1>5 DEF Underway, UnderwayOf

\* A name that had its content has it still.
LEMMA ContentStays ==
  ASSUME Inv, NEW p \in Processes, Effect(p), NEW name \in Names, Exists(name)
  PROVE  RightContent(name)'
  <1>1. RightContent(name) /\ files[name] \in Files
    BY DEF Inv, NamedRight, TypeOK, Exists
  <1>2. name[1] \in {"wiki", "briefing", "evidence"} => files[name].length = Size
    BY <1>1 DEF RightContent, Whole
  <1> QED
    BY <1>1, <1>2 DEF RightContent, Effect, Kept, Whole

\* What is put under its own name is right there.
LEMMA OwnContent ==
  ASSUME Inv, NEW p \in Processes, UNCHANGED <<way, payload>>, NEW n \in Parts,
         files'[Name(p, n)].payload = payload[p],
         way = "raw" \/ files'[Name(p, n)] = Whole(payload[p])
  PROVE  RightContent(Name(p, n))'
  <1>1. Name(p, n)' = Name(p, n)
    BY NamesSame, NameType DEF Inv
  <1>2. CASE way = "evidence"
    BY <1>1, <1>2 DEF Name, RightContent, Whole
  <1>3. CASE way = "briefing"
    BY <1>1, <1>3 DEF Name, RightContent, Whole
  <1>4. CASE way \in {"raw", "wiki"}
    BY <1>1, <1>4 DEF Name, RightContent, Whole
  <1> QED
    BY <1>2, <1>3, <1>4 DEF Inv, TypeOK, Ways

\* A step keeps the invariant if its process keeps its part of it, and if what it puts
\* under a new name is what the name says.
LEMMA StepKeepsInv ==
  ASSUME Inv, NEW p \in Processes, Effect(p),
         UnderwayOf(p)', TypeOK', WayOf', RowsOfBriefings',
         \/ UNCHANGED active
         \/ way = "wiki" /\ active' = payload[p] /\ files[Name(p, 1)] = Whole(payload[p]),
         \A name \in Names : ~Exists(name) /\ files'[name] # None => RightContent(name)'
  PROVE  Inv'
  <1>1. NamedRight'
    BY ContentStays DEF NamedRight, Exists
  <1>2. Underway'
    BY OthersUnderway DEF Underway
  <1>3. ActiveIsPublished'
    <2>1. CASE UNCHANGED active
      <3>1. active \in Payloads => <<"wiki", active, 1>> \in Names
        BY DEF Names
      <3> QED
        BY <2>1, <3>1, WholeStays DEF Inv, TypeOK, ActiveIsPublished, Effect
    <2>2. CASE way = "wiki" /\ active' = payload[p] /\ files[Name(p, 1)] = Whole(payload[p])
      <3>1. Name(p, 1) = <<"wiki", payload[p], 1>> /\ Name(p, 1) \in Names /\ payload[p] \in Payloads
        BY <2>2, NameType DEF Inv, TypeOK, Name
      <3> QED
        BY <2>2, <3>1, WholeStays DEF ActiveIsPublished, Effect
    <2> QED
      BY <2>1, <2>2
  <1> QED
    BY <1>1, <1>2, <1>3 DEF Inv
-----------------------------------------------------------------------------
LEMMA NextInv == Inv /\ [Next]_vars => Inv'
  <1> SUFFICES ASSUME Inv, [Next]_vars
               PROVE  Inv'
    OBVIOUS
  <1> USE SizeAssumption, NameType, NamesApart, NamesSame, Effects, StepKeepsInv
  <1>1. ASSUME NEW p \in Processes, Start(p)
        PROVE  Inv'
    <2>1. Effect(p)
      BY <1>1
    <2>2. TypeOK' /\ WayOf' /\ RowsOfBriefings'
      BY <1>1, <2>1 DEF Effect, Inv, TypeOK, WayOf, RowsOfBriefings, Start, Ended, At, Goes,
         With, Ways
    <2>3. UnderwayOf(p)'
      BY <1>1, <2>1 DEF Effect, Inv, TypeOK, WayOf, Underway, UnderwayOf, Start, Ended, At,
         Goes, With, Place, Exists, Discarded, Without, Parts
    <2>4. \A name \in Names : ~Exists(name) /\ files'[name] # None => RightContent(name)'
      BY <1>1, <2>1 DEF Inv, TypeOK, Start, Goes, With, Exists, Discarded, Without
    <2> QED
      BY <1>1, <2>1, <2>2, <2>3, <2>4 DEF Inv, WayOf, Underway, UnderwayOf, Start, At, Goes,
         With
  <1>2. ASSUME NEW p \in Processes, Compare(p)
        PROVE  Inv'
    <2>1. Effect(p)
      BY <1>2
    <2>2. TypeOK' /\ WayOf' /\ RowsOfBriefings'
      BY <1>2, <2>1 DEF Effect, Inv, TypeOK, WayOf, RowsOfBriefings, Compare, Same, Ended, At,
         Goes, With, Ways
    <2>3. UnderwayOf(p)'
      BY <1>2, <2>1 DEF Effect, Inv, TypeOK, WayOf, Underway, UnderwayOf, Compare, Same,
         Ended, At, Goes, With, Place, Exists, Discarded, Without, Parts
    <2>4. \A name \in Names : ~Exists(name) /\ files'[name] # None => RightContent(name)'
      BY <1>2, <2>1 DEF Inv, TypeOK, Compare, Same, Goes, With, Exists, Discarded, Without
    <2> QED
      BY <1>2, <2>1, <2>2, <2>3, <2>4 DEF Inv, WayOf, Underway, UnderwayOf, Compare, Same, At,
         Goes, With
  <1>3. ASSUME NEW p \in Processes, Create(p)
        PROVE  Inv'
    <2>1. Effect(p)
      BY <1>3
    <2>2. TypeOK' /\ WayOf' /\ RowsOfBriefings'
      BY <1>3, <2>1 DEF Effect, Inv, TypeOK, WayOf, RowsOfBriefings, Create, Ended, At, Goes,
         With, Ways
    <2>3. UnderwayOf(p)'
      BY <1>3, <2>1 DEF Effect, Inv, TypeOK, WayOf, Underway, UnderwayOf, Create, Ended, At,
         Goes, With, Place, Exists, Discarded, Without, Parts
    <2>4. \A name \in Names : ~Exists(name) /\ files'[name] # None => RightContent(name)'
      <3>1. CASE way = "raw" /\ ~Exists(Name(p, 1))
        <4>1. /\ files'[Name(p, 1)].payload = payload[p]
              /\ \A name \in Names : name # Name(p, 1) => files'[name] = files[name]
          BY <1>3, <3>1 DEF Create, Place, Goes, With, Inv, TypeOK
        <4> QED
          BY <2>1, <3>1, <4>1, OwnContent DEF Inv, Effect, Exists
      <3>2. CASE way # "raw" \/ Exists(Name(p, 1))
        BY <1>3, <3>2 DEF Create, Place, Goes, With, Inv, TypeOK, Exists
      <3> QED
        BY <3>1, <3>2
    <2> QED
      BY <1>3, <2>1, <2>2, <2>3, <2>4 DEF Inv, WayOf, Underway, UnderwayOf, Create, At, Goes,
         With
  <1>4. ASSUME NEW p \in Processes, Write(p)
        PROVE  Inv'
    <2>1. Effect(p)
      BY <1>4
    <2>2. TypeOK' /\ WayOf' /\ RowsOfBriefings'
      BY <1>4, <2>1 DEF Effect, Inv, TypeOK, WayOf, RowsOfBriefings, Write, Complete, Ended,
         At, Goes, With, Ways
    <2>3. UnderwayOf(p)'
      <3>1. Place(p)' = Place(p) /\ Place(p) \in Names \cup StagingNames
        BY <1>4, <2>1 DEF Effect, Inv, TypeOK, Place, Write, With
      <3>2. files[Place(p)] \in Files /\ files[Place(p)].payload = payload[p] /\ files[Place(p)].length # Size
        BY <1>4, <3>1 DEF Inv, TypeOK, Underway, UnderwayOf, Write, At, Complete, Exists
      <3>3. files'[Place(p)] \in Files /\ files'[Place(p)].payload = payload[p]
        BY <1>4, <3>1, <3>2, Longer DEF Write, With, Inv, TypeOK
      <3>4. part[p] = 2 => files'[Staging(p, 1)] = files[Staging(p, 1)]
        BY <1>4 DEF Inv, TypeOK, WayOf, Place, Write, With
      <3> QED
        BY <1>4, <2>1, <3>1, <3>3, <3>4 DEF Effect, Inv, TypeOK, Underway, UnderwayOf, Write,
           With, At, Exists, Files
    <2>4. \A name \in Names : ~Exists(name) /\ files'[name] # None => RightContent(name)'
      <3>1. Place(p) \in Names => Exists(Place(p))
        BY <1>4 DEF Inv, Underway, UnderwayOf, Write, At
      <3> QED
        BY <1>4, <3>1 DEF Inv, TypeOK, Write, With, Exists
    <2> QED
      BY <1>4, <2>1, <2>2, <2>3, <2>4 DEF Inv, WayOf, Underway, UnderwayOf, Write, Complete,
         At, Goes, With
  <1>5. ASSUME NEW p \in Processes, Written(p)
        PROVE  Inv'
    <2>1. Effect(p)
      BY <1>5
    <2>2. TypeOK' /\ WayOf' /\ RowsOfBriefings'
      BY <1>5, <2>1 DEF Effect, Inv, TypeOK, WayOf, RowsOfBriefings, Written, Complete,
         AfterStage, Ended, At, Goes, With, Ways
    <2>3. UnderwayOf(p)'
      <3>1. files[Place(p)] = Whole(payload[p])
        <4>1. files[Place(p)] \in Files /\ files[Place(p)].payload = payload[p]
          BY <1>5 DEF Inv, TypeOK, Underway, UnderwayOf, Written, At, Place, Exists
        <4> QED
          BY <1>5, <4>1, WholeFile DEF Written, Complete
      <3> QED
        <4>1. CASE way = "raw"
          BY <1>5, <2>1, <3>1, <4>1 DEF Inv, TypeOK, UnderwayOf, Written, Effect, Place, Parts
        <4>2. CASE way \in {"evidence", "wiki"}
          BY <1>5, <3>1, <4>2 DEF Inv, TypeOK, WayOf, UnderwayOf, Written, AfterStage, Place,
             Staging
        <4>3. CASE way = "briefing"
          BY <1>5, <3>1, <4>3 DEF Inv, TypeOK, Underway, UnderwayOf, Written, Place, Staging, At
        <4> QED
          BY <4>1, <4>2, <4>3 DEF Inv, TypeOK, Ways
    <2>4. \A name \in Names : ~Exists(name) /\ files'[name] # None => RightContent(name)'
      BY <1>5, <2>1 DEF Inv, TypeOK, Written, Complete, AfterStage, Goes, With, Exists,
         Discarded, Without
    <2> QED
      BY <1>5, <2>1, <2>2, <2>3, <2>4 DEF Inv, WayOf, Underway, UnderwayOf, Written, Complete,
         AfterStage, At, Goes, With
  <1>6. ASSUME NEW p \in Processes, WriteFails(p)
        PROVE  Inv'
    <2>1. Effect(p)
      BY <1>6
    <2>2. TypeOK' /\ WayOf' /\ RowsOfBriefings'
      BY <1>6, <2>1 DEF Effect, Inv, TypeOK, WayOf, RowsOfBriefings, WriteFails, Ended, At,
         Goes, With, Ways
    <2>3. UnderwayOf(p)'
      BY <1>6, <2>1 DEF Effect, Inv, TypeOK, WayOf, Underway, UnderwayOf, WriteFails, Ended,
         At, Goes, With, Place, Exists, Discarded, Without, Parts
    <2>4. \A name \in Names : ~Exists(name) /\ files'[name] # None => RightContent(name)'
      BY <1>6, <2>1 DEF Inv, TypeOK, WriteFails, Goes, With, Exists, Discarded, Without
    <2> QED
      BY <1>6, <2>1, <2>2, <2>3, <2>4 DEF Inv, WayOf, Underway, UnderwayOf, WriteFails, At,
         Goes, With
  <1>7. ASSUME NEW p \in Processes, Link(p)
        PROVE  Inv'
    <2>1. Effect(p)
      BY <1>7
    <2>2. TypeOK' /\ WayOf' /\ RowsOfBriefings'
      BY <1>7, <2>1 DEF Effect, Inv, TypeOK, WayOf, RowsOfBriefings, Link, Linkable, LinkLost,
         Same, Ended, At, Goes, With, Ways
    <2>3. UnderwayOf(p)'
      BY <1>7, <2>1 DEF Effect, Inv, TypeOK, WayOf, Underway, UnderwayOf, Link, Linkable,
         LinkLost, Same, Ended, At, Goes, With, Place, Exists, Discarded, Without, Parts
    <2>4. \A name \in Names : ~Exists(name) /\ files'[name] # None => RightContent(name)'
      <3>1. CASE Exists(Name(p, 1))
        BY <1>7, <3>1 DEF Link, Linkable, With, Discarded, Without, Inv, TypeOK, Exists
      <3>2. CASE ~Exists(Name(p, 1))
        <4>1. /\ files'[Name(p, 1)] = Whole(payload[p])
              /\ \A name \in Names : name # Name(p, 1) => files'[name] = files[name]
          <5>1. files' = [Discarded(p) EXCEPT ![Name(p, 1)] = files[Staging(p, 1)]]
            BY <1>7, <3>2 DEF Link, Linkable, With
          <5>2. files[Staging(p, 1)] = Whole(payload[p])
            BY <1>7 DEF Link, At, Inv, Underway, UnderwayOf
          <5> QED
            BY <5>1, <5>2 DEF Discarded, Without, Inv, TypeOK
        <4> QED
          BY <2>1, <4>1, OwnContent DEF Inv, Effect, Exists, Whole
      <3> QED
        BY <3>1, <3>2
    <2> QED
      BY <1>7, <2>1, <2>2, <2>3, <2>4 DEF Inv, WayOf, Underway, UnderwayOf, Link, Linkable,
         LinkLost, Same, At, Goes, With
  <1>8. ASSUME NEW p \in Processes, Replace(p)
        PROVE  Inv'
    <2>1. Effect(p)
      BY <1>8
    <2>2. TypeOK' /\ WayOf' /\ RowsOfBriefings'
      BY <1>8, <2>1 DEF Effect, Inv, TypeOK, WayOf, RowsOfBriefings, Replace, Ended, At, Goes,
         With, Ways
    <2>3. UnderwayOf(p)'
      BY <1>8, <2>1 DEF Effect, Inv, TypeOK, WayOf, Underway, UnderwayOf, Replace, Ended, At,
         Goes, With, Place, Exists, Discarded, Without, Parts
    <2>4. \A name \in Names : ~Exists(name) /\ files'[name] # None => RightContent(name)'
      <3>1. CASE Exists(Name(p, 1))
        BY <1>8, <3>1 DEF Replace, Linkable, With, Discarded, Without, Inv, TypeOK, Exists
      <3>2. CASE ~Exists(Name(p, 1))
        <4>1. /\ files'[Name(p, 1)] = Whole(payload[p])
              /\ \A name \in Names : name # Name(p, 1) => files'[name] = files[name]
          <5>1. files' = [Discarded(p) EXCEPT ![Name(p, 1)] = files[Staging(p, 1)]]
            BY <1>8, <3>2 DEF Replace, Linkable, With
          <5>2. files[Staging(p, 1)] = Whole(payload[p])
            BY <1>8 DEF Replace, At, Inv, Underway, UnderwayOf
          <5> QED
            BY <5>1, <5>2 DEF Discarded, Without, Inv, TypeOK
        <4> QED
          BY <2>1, <4>1, OwnContent DEF Inv, Effect, Exists, Whole
      <3> QED
        BY <3>1, <3>2
    <2> QED
      BY <1>8, <2>1, <2>2, <2>3, <2>4 DEF Inv, WayOf, Underway, UnderwayOf, Replace, At, Goes,
         With
  <1>9. ASSUME NEW p \in Processes, Activate(p)
        PROVE  Inv'
    <2>1. Effect(p)
      BY <1>9
    <2>2. TypeOK' /\ WayOf' /\ RowsOfBriefings'
      BY <1>9, <2>1 DEF Effect, Inv, TypeOK, WayOf, RowsOfBriefings, Activate, Ended, At,
         Goes, With, Ways
    <2>3. UnderwayOf(p)'
      BY <1>9, <2>1 DEF Effect, Inv, TypeOK, WayOf, Underway, UnderwayOf, Activate, Ended, At,
         Goes, With, Place, Exists, Discarded, Without, Parts
    <2>4. \A name \in Names : ~Exists(name) /\ files'[name] # None => RightContent(name)'
      BY <1>9, <2>1 DEF Inv, TypeOK, Activate, Goes, With, Exists, Discarded, Without
    <2> QED
      BY <1>9, <2>1, <2>2, <2>3, <2>4 DEF Inv, WayOf, Underway, UnderwayOf, Activate, At,
         Goes, With
  <1>10. ASSUME NEW p \in Processes, Promote(p)
        PROVE  Inv'
    <2>1. Effect(p)
      BY <1>10
    <2>2. TypeOK' /\ WayOf' /\ RowsOfBriefings'
      BY <1>10, <2>1 DEF Effect, Inv, TypeOK, WayOf, RowsOfBriefings, Promote, AllPromoted,
         Ended, At, Goes, With, Ways
    <2>3. UnderwayOf(p)'
      BY <1>10, <2>1 DEF Effect, Inv, TypeOK, WayOf, Underway, UnderwayOf, Promote,
         AllPromoted, Ended, At, Goes, With, Place, Exists, Discarded, Without, Parts
    <2>4. \A name \in Names : ~Exists(name) /\ files'[name] # None => RightContent(name)'
      <3>1. /\ part[p] \in Parts /\ part[p] \in 1 .. 2
            /\ files'[Name(p, part[p])] = Whole(payload[p])
            /\ \A name \in Names : name # Name(p, part[p]) => files'[name] = files[name]
        BY <1>10 DEF Promote, At, Inv, TypeOK, WayOf, Parts, Underway, UnderwayOf
      <3> QED
        BY <2>1, <3>1, OwnContent DEF Effect, Exists, Whole
    <2> QED
      BY <1>10, <2>1, <2>2, <2>3, <2>4 DEF Inv, WayOf, Underway, UnderwayOf, Promote,
         AllPromoted, At, Goes, With
  <1>11. ASSUME NEW p \in Processes, SaveBriefing(p)
        PROVE  Inv'
    <2>1. Effect(p)
      BY <1>11
    <2>2. TypeOK' /\ WayOf' /\ RowsOfBriefings'
      BY <1>11, <2>1 DEF Effect, Inv, TypeOK, WayOf, RowsOfBriefings, SaveBriefing, Ended, At,
         Goes, With, Ways
    <2>3. UnderwayOf(p)'
      BY <1>11, <2>1 DEF Effect, Inv, TypeOK, WayOf, Underway, UnderwayOf, SaveBriefing,
         Ended, At, Goes, With, Place, Exists, Discarded, Without, Parts
    <2>4. \A name \in Names : ~Exists(name) /\ files'[name] # None => RightContent(name)'
      BY <1>11, <2>1 DEF Inv, TypeOK, SaveBriefing, Goes, With, Exists, Discarded, Without
    <2> QED
      BY <1>11, <2>1, <2>2, <2>3, <2>4 DEF Inv, WayOf, Underway, UnderwayOf, SaveBriefing, At,
         Goes, With
  <1>12. ASSUME NEW p \in Processes, BriefingFails(p)
        PROVE  Inv'
    <2>1. Effect(p)
      BY <1>12
    <2>2. TypeOK' /\ WayOf' /\ RowsOfBriefings'
      BY <1>12, <2>1 DEF Effect, Inv, TypeOK, WayOf, RowsOfBriefings, BriefingFails, Ended,
         At, Goes, With, Ways
    <2>3. UnderwayOf(p)'
      BY <1>12, <2>1 DEF Effect, Inv, TypeOK, WayOf, Underway, UnderwayOf, BriefingFails,
         Ended, At, Goes, With, Place, Exists, Discarded, Without, Parts
    <2>4. \A name \in Names : ~Exists(name) /\ files'[name] # None => RightContent(name)'
      BY <1>12, <2>1 DEF Inv, TypeOK, BriefingFails, Goes, With, Exists, Discarded, Without
    <2> QED
      BY <1>12, <2>1, <2>2, <2>3, <2>4 DEF Inv, WayOf, Underway, UnderwayOf, BriefingFails,
         At, Goes, With
  <1>13. ASSUME NEW p \in Processes, Crash(p)
        PROVE  Inv'
    <2>1. Effect(p)
      BY <1>13
    <2>2. TypeOK' /\ WayOf' /\ RowsOfBriefings'
      BY <1>13, <2>1 DEF Effect, Inv, TypeOK, WayOf, RowsOfBriefings, Crash, Ended, At, Goes,
         With, Ways
    <2>3. UnderwayOf(p)'
      BY <1>13, <2>1 DEF Effect, Inv, TypeOK, WayOf, Underway, UnderwayOf, Crash, Ended, At,
         Goes, With, Place, Exists, Discarded, Without, Parts
    <2>4. \A name \in Names : ~Exists(name) /\ files'[name] # None => RightContent(name)'
      BY <1>13, <2>1 DEF Inv, TypeOK, Crash, Goes, With, Exists, Discarded, Without
    <2> QED
      BY <1>13, <2>1, <2>2, <2>3, <2>4 DEF Inv, WayOf, Underway, UnderwayOf, Crash, At, Goes,
         With
  <1>14. CASE UNCHANGED vars
    BY <1>14 DEF vars, Inv, TypeOK, WayOf, NamedRight, RightContent, Underway, UnderwayOf,
       Place, Exists, RowsOfBriefings, ActiveIsPublished
  <1> QED
    BY <1>1, <1>2, <1>3, <1>4, <1>5, <1>6, <1>7, <1>8, <1>9, <1>10, <1>11, <1>12, <1>13,
       <1>14 DEF Next

LEMMA Invariance == Spec => []Inv
  BY InitInv, NextInv, PTL DEF Spec

-----------------------------------------------------------------------------
\* Names, files, rows and processes are well typed, for any number of them.
THEOREM TypeCorrect == Spec => []TypeOK
  <1>1. Inv => TypeOK
    BY DEF Inv
  <1> QED
    BY <1>1, Invariance, PTL

\* What a process reported as created or reused is there, whole, from then on.
THEOREM AcceptedStaysWhole == Spec => []AcceptedIsWhole
  <1>1. Inv => AcceptedIsWhole
    BY DEF Inv, Underway, UnderwayOf, AcceptedIsWhole
  <1> QED
    BY <1>1, Invariance, PTL

\* Evidence, wiki builds and Briefings are never seen in part, whoever dies or finds the
\* disk full.
THEOREM VisibleStaysWhole == Spec => []VisibleIsWhole
  <1>1. ASSUME Inv, way # "raw", NEW name \in Names, Exists(name)
        PROVE  files[name] \in {Whole(x) : x \in Payloads}
    <2>1. files[name] \in Files /\ RightContent(name) /\ Size \in Nat
      BY <1>1, SizeAssumption DEF Inv, TypeOK, NamedRight, Exists
    <2>2. files[name].length = Size
      <3>1. name[1] \in {"wiki", "briefing", "evidence"}
        BY <1>1, <2>1 DEF Names, RightContent
      <3> QED
        BY <2>1, <3>1 DEF RightContent, Whole
    <2> QED
      BY <2>1, <2>2, WholeFile DEF Files
  <1>2. Inv => VisibleIsWhole
    BY <1>1 DEF VisibleIsWhole
  <1> QED
    BY <1>2, Invariance, PTL

\* The active Candidate Wiki is a complete build, whoever published and activated it.
THEOREM ActiveStaysPublished == Spec => []ActiveIsPublished
  <1>1. Inv => ActiveIsPublished
    BY DEF Inv
  <1> QED
    BY <1>1, Invariance, PTL

\* Both files of a Briefing that has a row are in the Archive.
THEOREM BriefingsKeepFiles == Spec => []BriefingHasFiles
  <1>1. Inv => BriefingHasFiles
    BY DEF Inv, TypeOK, RowsOfBriefings, Underway, UnderwayOf, BriefingHasFiles, Parts, Name
  <1> QED
    BY <1>1, Invariance, PTL

\* No step of any process changes, replaces or removes what is whole under its name.
THEOREM PublishedIsKept == Spec => PublishedStays
  <1>1. ASSUME Inv, [Next]_vars, NEW name \in Names, files[name] \in {Whole(x) : x \in Payloads}
        PROVE  files'[name] = files[name]
    <2>1. CASE UNCHANGED vars
      BY <2>1 DEF vars
    <2>2. CASE Next
      <3>1. Kept
        BY <1>1, <2>2, Effects DEF Next, Effect
      <3> QED
        BY <1>1, <3>1, WholeStays
    <2> QED
      BY <1>1, <2>1, <2>2
  <1>2. Inv /\ [Next]_vars =>
          [\A name \in Names : files[name] \in {Whole(x) : x \in Payloads} =>
             files'[name] = files[name]]_vars
    BY <1>1
  <1> QED
    BY <1>2, Invariance, PTL DEF Spec, PublishedStays

-----------------------------------------------------------------------------
(* The Archive as a store that objects enter whole *)

\* A file that is whole by then is an object of the store.
LEMMA StoredWhole ==
  ASSUME NEW name \in Names, NEW x \in Payloads, files'[name] = Whole(x)
  PROVE  Stored(name)' = x
  <1>1. Whole(x) # None /\ Whole(x).length = Size /\ Whole(x).payload = x
    BY SizeAssumption DEF Whole
  <1> QED
    BY <1>1 DEF Stored, Exists

\* What processes put does not change.
LEMMA PutsSame ==
  ASSUME Inv, UNCHANGED <<way, payload>>
  PROVE  [p \in Processes |-> [names |-> PutNames(p), payload |-> payload[p]]]'
           = [p \in Processes |-> [names |-> PutNames(p), payload |-> payload[p]]]
  <1>1. \A p \in Processes : PutNames(p)' = PutNames(p)
    BY NamesSame, NameType DEF Inv, PutNames
  <1> QED
    BY <1>1

\* Whoever is reported as accepted stays so, and a step reports its own process only.
LEMMA AcceptedBy ==
  ASSUME Inv, NEW p \in Processes, Effect(p),
         pc'[p] \in {"created", "reused"} \/ pc[p] \notin {"created", "reused"}
  PROVE  Accepted' = IF pc'[p] \in {"created", "reused"} THEN Accepted \cup {p} ELSE Accepted
  BY DEF Effect, Accepted

\* A step that stores nothing and reports nothing is none of the store.
LEMMA SilentStep ==
  ASSUME Inv, NEW p \in Processes, Effect(p), UNCHANGED active,
         pc[p] \notin {"created", "reused"}, pc'[p] \notin {"created", "reused"},
         \A name \in Names : Stored(name)' = Stored(name)
  PROVE  UNCHANGED Promise!vars
  <1>1. Accepted' = Accepted
    BY AcceptedBy
  <1>2. [name \in Names |-> Stored(name)]' = [name \in Names |-> Stored(name)]
    OBVIOUS
  <1> QED
    BY <1>1, <1>2, PutsSame DEF Effect, Promise!vars

\* A whole file under a name that had none is a new object of the store.
LEMMA PutStep ==
  ASSUME Inv, Inv', NEW p \in Processes, Effect(p), NEW n \in Parts,
         Stored(Name(p, n)) = None, files'[Name(p, n)] = Whole(payload[p]),
         \A name \in Names \ {Name(p, n)} : files'[name] = files[name]
  PROVE  Promise!Put(p, Name(p, n))
  <1>1. Name(p, n) \in Names /\ Name(p, n) \in PutNames(p) /\ payload[p] \in Payloads
    BY NameType DEF Inv, TypeOK, PutNames
  <1>2. \A name \in Names : name = Name(p, n) => Stored(name)' = payload[p]
    BY <1>1, StoredWhole
  <1>3. \A name \in Names : name # Name(p, n) => Stored(name)' = Stored(name)
    BY DEF Stored, Exists
  <1>4. [name \in Names |-> Stored(name)]'
          = [[name \in Names |-> Stored(name)] EXCEPT ![Name(p, n)] = payload[p]]
    BY <1>1, <1>2, <1>3
  <1> QED
    BY <1>1, <1>4, PutsSame DEF Effect, Promise!Put

\* A step that reports a put, of what is stored by then.
LEMMA AcceptStep ==
  ASSUME Inv, Inv', NEW p \in Processes, Effect(p),
         pc[p] \notin {"created", "reused"}, pc'[p] \in {"created", "reused"},
         \/ \A name \in Names : Stored(name)' = Stored(name)
         \/ \E name \in Names : Promise!Put(p, name),
         \/ way # "wiki" /\ UNCHANGED active
         \/ way = "wiki" /\ active' = payload[p]
  PROVE  Promise!Accept(p)
  <1>1. p \notin Accepted /\ Accepted' = Accepted \cup {p}
    BY AcceptedBy DEF Accepted
  <1>2. \/ UNCHANGED [name \in Names |-> Stored(name)]
        \/ \E name \in Names : Promise!Put(p, name)
    OBVIOUS
  <1>3. /\ UNCHANGED [q \in Processes |-> [names |-> PutNames(q), payload |-> payload[q]]]
        /\ PutNames(p)' = PutNames(p) /\ payload'[p] = payload[p]
    BY PutsSame, NamesSame, NameType DEF Effect, Inv, PutNames
  <1>4. \A name \in PutNames(p) : name \in Names /\ Stored(name)' = payload[p]
    <2>1. \A n \in Parts : Name(p, n) \in Names /\ files'[Name(p, n)] = Whole(payload[p])
      BY NamesSame, NameType DEF Effect, Inv, Underway, UnderwayOf
    <2> QED
      BY <2>1, StoredWhole DEF PutNames, Inv, TypeOK
  <1>5. CASE way # "wiki"
    <2>1. PutNames(p) \cap Builds = {}
      BY <1>5 DEF PutNames, Name, Builds, Inv, TypeOK, Ways
    <2> QED
      BY <1>1, <1>2, <1>3, <1>4, <1>5, <2>1 DEF Promise!Accept, Promise!Holds
  <1>6. CASE way = "wiki"
    <2>1. <<"wiki", payload[p], 1>> \in PutNames(p) \cap Builds /\ payload[p] # None
      BY <1>6, SizeAssumption DEF PutNames, Name, Parts, Builds, Inv, TypeOK
    <2> QED
      BY <1>1, <1>2, <1>3, <1>4, <1>6, <2>1 DEF Promise!Accept, Promise!Holds
  <1> QED
    BY <1>5, <1>6

\* Each step of a process is a step of the store, or none.
LEMMA StepRefines ==
  ASSUME Inv, Inv', NEW p \in Processes,
         \/ Start(p) \/ Compare(p) \/ Create(p) \/ Write(p) \/ Written(p) \/ WriteFails(p)
         \/ Link(p) \/ Replace(p) \/ Activate(p) \/ Promote(p) \/ SaveBriefing(p)
         \/ BriefingFails(p) \/ Crash(p)
  PROVE  Promise!Next \/ UNCHANGED Promise!vars
  <1> DEFINE Silent == \A name \in Names : Stored(name)' = Stored(name)
             done == {"created", "reused"}
             Fits == pc[p] \notin done /\ pc'[p] \notin done /\ UNCHANGED active
  <1>1. Effect(p)
    BY Effects
  <1>2. TypeOK /\ WayOf /\ UNCHANGED <<way, payload>>
    BY <1>1 DEF Inv, Effect
  <1>3. (\A name \in Names : files'[name] = files[name]) => Silent
    BY DEF Stored, Exists
  <1>4. Silent /\ Fits => UNCHANGED Promise!vars
    BY <1>1, SilentStep
  <1>5. ASSUME NEW n \in Parts, Fits, Promise!Put(p, Name(p, n))
        PROVE  Promise!Next
    <2>1. Accepted' = Accepted
      BY <1>1, <1>5, AcceptedBy
    <2>2. Name(p, n) \in Names
      BY <1>2, NameType
    <2> QED
      BY <1>5, <2>1, <2>2 DEF Promise!Next
  <1>6. Promise!Accept(p) => Promise!Next
    BY DEF Promise!Next
  <1>7. CASE Start(p)
    <2>1. Fits /\ files' = files
      BY <1>2, <1>7 DEF Start, At, Goes, TypeOK
    <2> QED
      BY <1>3, <1>4, <2>1
  <1>8. CASE Compare(p)
    <2>1. files' = files /\ UNCHANGED active /\ pc[p] \notin done
      BY <1>8 DEF Compare, At, Goes
    <2>2. CASE pc'[p] \in done
      <3>1. way # "wiki"
        BY <1>2, <1>8, <2>2 DEF Compare, At, Goes, TypeOK
      <3> QED
        BY <1>1, <1>3, <1>6, <2>1, <2>2, <3>1, AcceptStep
    <2> QED
      BY <1>3, <1>4, <2>1, <2>2
  <1>9. CASE Create(p)
    <2>1. Fits
      BY <1>2, <1>9 DEF Create, At, Goes, With, TypeOK
    <2>2. CASE Exists(Place(p))
      BY <1>3, <1>4, <1>9, <2>1, <2>2 DEF Create, Goes
    <2>3. CASE ~Exists(Place(p))
      <3>1. files' = [files EXCEPT ![Place(p)] = [payload |-> payload[p], length |-> 0]]
        BY <1>9, <2>3 DEF Create, With
      <3>2. \A name \in Names : name # Place(p) => files'[name] = files[name]
        BY <1>2, <3>1 DEF TypeOK
      <3>3. Place(p) \in Names => Stored(Place(p))' = None /\ Stored(Place(p)) = None
        <4>1. Place(p) \in Names => files'[Place(p)].length = 0
          BY <1>2, <3>1 DEF TypeOK
        <4>2. Place(p)' = Place(p)
          BY <1>2, <2>1, <1>9, NamesSame, NameType, <2>3 DEF Create, With, Place, TypeOK
        <4> QED
          BY <2>3, <4>1, <4>2, SizeAssumption DEF Stored, Exists
      <3>4. Silent
        <4>1. ASSUME NEW name \in Names
              PROVE  Stored(name)' = Stored(name)
          <5>1. CASE name = Place(p)
            BY <3>1, <3>3, <5>1, SizeAssumption DEF Stored, Exists, TypeOK
          <5>2. CASE name # Place(p)
            BY <3>2, <5>2 DEF Stored, Exists
          <5> QED
            BY <5>1, <5>2
        <4> QED
          BY <4>1
      <3> QED
        BY <1>4, <2>1, <3>4
    <2> QED
      BY <2>2, <2>3
  <1>10. CASE Write(p)
    <2>1. Fits
      BY <1>2, <1>10 DEF Write, At, With, TypeOK
    <2>2. CASE way = "raw"
      <3>1. Place(p) = Name(p, 1) /\ Name(p, 1) \in Names /\ 1 \in Parts
        BY <1>2, <2>2, NameType DEF Place
      <3>2. /\ files[Name(p, 1)] \in Files /\ files[Name(p, 1)].payload = payload[p]
            /\ files[Name(p, 1)].length # Size
        BY <1>2, <1>10, <3>1, SizeAssumption
           DEF Write, At, Complete, Inv, Underway, UnderwayOf, TypeOK, Exists, Files
      <3>3. files' = [files EXCEPT ![Name(p, 1)] = [files[Name(p, 1)] EXCEPT !.length = @ + 1]]
        BY <1>10, <3>1 DEF Write, With
      <3>4. /\ files'[Name(p, 1)] \in Files /\ files'[Name(p, 1)].payload = payload[p]
            /\ \A name \in Names \ {Name(p, 1)} : files'[name] = files[name]
        BY <1>2, <3>1, <3>2, <3>3, Longer DEF TypeOK
      <3>5. Stored(Name(p, 1)) = None
        BY <3>2 DEF Stored
      <3>6. CASE files'[Name(p, 1)].length = Size
        <4>1. files'[Name(p, 1)] = Whole(payload[p])
          BY <3>4, <3>6, WholeFile
        <4> QED
          BY <1>1, <1>5, <2>1, <3>1, <3>4, <3>5, <4>1, PutStep
      <3>7. CASE files'[Name(p, 1)].length # Size
        <4>1. ASSUME NEW name \in Names
              PROVE  Stored(name)' = Stored(name)
          BY <3>4, <3>5, <3>7 DEF Stored, Exists
        <4> QED
          BY <1>4, <2>1, <4>1
      <3> QED
        BY <3>6, <3>7
    <2>3. CASE way # "raw"
      <3>1. \A name \in Names : files'[name] = files[name]
        BY <1>2, <1>10, <2>3, NameType, NamesApart DEF Write, With, Place, TypeOK
      <3> QED
        BY <1>3, <1>4, <2>1, <3>1
    <2> QED
      BY <2>2, <2>3
  <1>11. CASE Written(p)
    <2>1. files' = files /\ UNCHANGED active /\ pc[p] \notin done
      BY <1>11 DEF Written, At
    <2>2. CASE way = "raw"
      <3>1. pc'[p] = "created" /\ way # "wiki"
        BY <1>2, <1>11, <2>2 DEF Written, TypeOK
      <3> QED
        BY <1>1, <1>3, <1>6, <2>1, <3>1, AcceptStep
    <2>3. CASE way # "raw"
      <3>1. pc'[p] \notin done
        BY <1>2, <1>11, <2>3 DEF Written, TypeOK, Ways, AfterStage
      <3> QED
        BY <1>3, <1>4, <2>1, <3>1
    <2> QED
      BY <2>2, <2>3
  <1>12. CASE WriteFails(p) \/ BriefingFails(p)
    <2>1. Fits
      BY <1>2, <1>12 DEF WriteFails, BriefingFails, At, With, TypeOK
    <2>2. \A name \in Names : files'[name] = files[name]
      BY <1>2, <1>12, NameType, NamesApart
         DEF WriteFails, BriefingFails, With, Discarded, Without, TypeOK
    <2> QED
      BY <1>3, <1>4, <2>1, <2>2
  <1>13. CASE Link(p) \/ Replace(p)
    <2>1. /\ pc[p] \notin done /\ UNCHANGED active
          /\ 1 \in Parts /\ Name(p, 1) \in Names
          /\ files[Staging(p, 1)] = Whole(payload[p])
      BY <1>2, <1>13, NameType DEF Link, Replace, At, With, Inv, Underway, UnderwayOf
    <2>2. \A name \in Names : Discarded(p)[name] = files[name]
      BY <1>2, NameType, NamesApart DEF Discarded, Without, TypeOK
    <2>3. CASE Exists(Name(p, 1))
      <3>1. files' = Discarded(p)
        BY <1>13, <2>3 DEF Link, Linkable, Replace, With
      <3>2. Silent
        BY <1>3, <2>2, <3>1
      <3>3. pc'[p] \in done => way # "wiki"
        BY <1>2, <1>13, <2>3 DEF Link, Replace, With, WayOf, TypeOK, At
      <3> QED
        BY <1>1, <1>4, <1>6, <2>1, <3>2, <3>3, AcceptStep
    <2>4. CASE ~Exists(Name(p, 1))
      <3>1. files' = [Discarded(p) EXCEPT ![Name(p, 1)] = Whole(payload[p])]
        BY <1>13, <2>1, <2>4 DEF Link, Linkable, Replace, With
      <3>2. Stored(Name(p, 1)) = None
        BY <2>4 DEF Stored
      <3>3. /\ files'[Name(p, 1)] = Whole(payload[p])
            /\ \A name \in Names \ {Name(p, 1)} : files'[name] = files[name]
        BY <1>2, <2>1, <2>2, <3>1 DEF Discarded, Without, TypeOK
      <3>4. Promise!Put(p, Name(p, 1))
        BY <1>1, <2>1, <3>2, <3>3, PutStep
      <3>5. CASE Link(p)
        <4>1. pc'[p] = "created" /\ way # "wiki"
          BY <1>2, <2>4, <3>5 DEF Link, Linkable, With, At, WayOf, TypeOK
        <4> QED
          BY <1>1, <1>6, <2>1, <3>4, <4>1, AcceptStep
      <3>6. CASE Replace(p)
        <4>1. pc'[p] \notin done
          BY <1>2, <2>4, <3>6 DEF Replace, With, TypeOK
        <4> QED
          BY <1>5, <2>1, <3>4, <4>1
      <3> QED
        BY <1>13, <3>5, <3>6
    <2> QED
      BY <2>3, <2>4
  <1>14. CASE Activate(p)
    <2>1. /\ files' = files /\ pc[p] \notin done /\ pc'[p] \in done
          /\ way = "wiki" /\ active' = payload[p]
      BY <1>2, <1>14 DEF Activate, At, WayOf, TypeOK
    <2> QED
      BY <1>1, <1>3, <1>6, <2>1, AcceptStep
  <1>15. CASE Promote(p)
    <2>1. Fits
      BY <1>2, <1>15 DEF Promote, At, TypeOK
    <2>2. /\ part[p] \in Parts /\ part[p] \in 1 .. 2
          /\ files'[Name(p, part[p])] = Whole(payload[p])
          /\ \A name \in Names \ {Name(p, part[p])} : files'[name] = files[name]
      BY <1>15, NameType, NamesApart
         DEF Promote, At, Inv, TypeOK, WayOf, Parts, Underway, UnderwayOf
    <2>3. Stored(Name(p, part[p])) = None
      BY <1>15 DEF Promote, Stored
    <2> QED
      BY <1>1, <1>5, <2>1, <2>2, <2>3, PutStep
  <1>16. CASE SaveBriefing(p)
    <2>1. /\ files' = files /\ pc[p] \notin done /\ pc'[p] \in done
          /\ way # "wiki" /\ UNCHANGED active
      BY <1>2, <1>16 DEF SaveBriefing, At, WayOf, TypeOK
    <2> QED
      BY <1>1, <1>3, <1>6, <2>1, AcceptStep
  <1>17. CASE Crash(p)
    <2>1. Fits /\ files' = files
      BY <1>2, <1>17 DEF Crash, Goes, Ended, TypeOK
    <2> QED
      BY <1>3, <1>4, <2>1
  <1> QED
    BY <1>7, <1>8, <1>9, <1>10, <1>11, <1>12, <1>13, <1>14, <1>15, <1>16, <1>17

\* However writes, links and renames of any number of processes interleave, fail and
\* stop half way, the Archive is a store that objects enter whole and for good, and
\* what is reported, or active, is in it.
THEOREM ArchiveIsImplemented == Spec => ImplementsArchive
  <1>1. Init => Promise!Init
    <2> SUFFICES ASSUME Init
                 PROVE  Promise!Init
      OBVIOUS
    <2>1. Inv
      BY InitInv
    <2>2. \A p \in Processes : PutNames(p) \subseteq Names /\ payload[p] \in Payloads
      BY <2>1, NameType DEF PutNames, Inv, TypeOK
    <2>3. \A name \in Names : Stored(name) = None
      BY DEF Init, Stored, Exists
    <2>4. Accepted = {} /\ active = None
      BY DEF Init, Accepted
    <2> QED
      BY <2>2, <2>3, <2>4 DEF Promise!Init
  <1>2. Inv /\ Inv' /\ [Next]_vars => [Promise!Next]_(Promise!vars)
    <2> SUFFICES ASSUME Inv, Inv', [Next]_vars
                 PROVE  Promise!Next \/ UNCHANGED Promise!vars
      OBVIOUS
    <2>1. CASE Next
      BY <2>1, StepRefines DEF Next
    <2>2. CASE UNCHANGED vars
      <3>1. \A name \in Names : Stored(name)' = Stored(name)
        BY <2>2 DEF vars, Stored, Exists
      <3>2. Accepted' = Accepted
        BY <2>2 DEF vars, Accepted
      <3> QED
        BY <2>2, <3>1, <3>2, PutsSame DEF vars, Promise!vars
    <2> QED
      BY <2>1, <2>2
  <1> QED
    BY <1>1, <1>2, Invariance, PTL DEF Spec, ImplementsArchive, Promise!Spec

-----------------------------------------------------------------------------
(***************************************************************************)
(* Managed model resources are put with renames of directories too, by the *)
(* installer that ResourceInstallation models.  For any number of them:    *)
(* as long as one works by itself the invalid installation is not lost, a  *)
(* failure puts it back, and neither what dead installers left nor a ready *)
(* installation gets in its way.  An error of its own clean-up is the      *)
(* exception, after which only what it published itself is known.          *)
(*                                                                         *)
(* There is no lock, so that the invariant says nothing of installers that *)
(* run beside each other.  For one that does not it says where target and  *)
(* backup are at each place of the protocol (Undisturbed); it carries over *)
(* because a second one that becomes active makes both be beside another.  *)
(***************************************************************************)
Handler == {"undo", "undoing", "restore"}

Places == {"idle", "inspected", "staging", "staged", "clear", "clearing", "retire", "publish",
           "validate", "drop", "dropping", "return"} \cup Handler \cup Finished

\* Who staged a tree is known as long as there is one.
Present == [by : Installers \cup {Earlier}, valid : BOOLEAN, whole : BOOLEAN]

InstallTypeOK ==
  /\ target \in Present \cup {NoTree}
  /\ backup \in Present \cup {NoTree}
  /\ step \in [Installers -> Places]
  /\ staged \in [Installers -> Present \cup {NoTree}]
  /\ raised \in [Installers -> {"none", "early", "late"}]
  /\ found \in [Installers -> Present \cup {NoTree}]
  /\ beside \subseteq Installers

\* What an installer staged is whole, and is its own.
StagedWhole ==
  \A p \in Installers :
    /\ step[p] \in {"staged", "clear", "clearing", "retire", "publish", "validate", "drop",
                    "dropping", "return", "undo", "undoing"} => staged[p].whole /\ staged[p].by = p
    /\ step[p] \in {"idle", "inspected", "staging"} => staged[p] = NoTree

\* An error leads to the handler, or ends the installer.
RaisedHandled ==
  \A p \in Installers : step[p] \notin Handler \cup Finished => raised[p] = "none"

\* Only an installation that is not ready is replaced.
FoundUnready ==
  \A p \in Installers : Active(p) => ~Ready(found[p])

\* An installer that works by itself is the only one.
AloneIsOnly ==
  \A p, q \in Installers : Active(p) /\ Alone(p) /\ Active(q) => p = q

\* The installation that was found is out of the way, if there was one.
Aside(p) == IsThere(found[p]) => backup = found[p]

\* Where an installer that works by itself finds things at each of its places.
Undisturbed(p) ==
  /\ step[p] \in {"inspected", "staging", "staged", "clear", "clearing", "retire"} =>
       target = found[p]
  /\ step[p] \in {"clear", "clearing", "retire"} => IsThere(target)
  /\ step[p] \in {"clearing", "dropping"} => IsThere(backup) /\ ~backup.whole
  /\ step[p] = "retire" => backup = NoTree
  /\ step[p] = "publish" => target = NoTree
  /\ step[p] \in {"validate", "drop", "dropping", "return", "undo"} => target = staged[p]
  /\ step[p] \in {"drop", "dropping", "return"} => staged[p].valid
  /\ step[p] \in Handler /\ raised[p] = "none" => ~staged[p].valid
  /\ step[p] = "undoing" => IsThere(target) /\ ~target.whole
  /\ step[p] \in {"publish", "validate", "undo", "undoing"} /\ ~Late(p) => Aside(p)
  /\ step[p] = "restore" /\ ~Late(p) => target = found[p] \/ (target = NoTree /\ Aside(p))

AloneInv == \A p \in Installers : Active(p) /\ Alone(p) => Undisturbed(p)

InstallInv == InstallTypeOK /\ StagedWhole /\ RaisedHandled /\ FoundUnready /\ AloneIsOnly /\ AloneInv

-----------------------------------------------------------------------------
LEMMA TreeFacts ==
  /\ ~NoTree.valid /\ ~NoTree.whole /\ NoTree \notin Present
         /\ \A t \in Present : /\ IsThere(t)
                               /\ [t EXCEPT !.whole = FALSE] \in Present
                               /\ ~[t EXCEPT !.whole = FALSE].whole
         /\ \A p \in Installers, valid \in BOOLEAN :
              [by |-> p, valid |-> valid, whole |-> TRUE] \in Present
  <1>1. ~NoTree.valid /\ ~NoTree.whole /\ NoTree \notin Present
    BY InstallersAssumption DEF NoTree, Present
  <1>2. ASSUME NEW t \in Present
        PROVE  /\ IsThere(t)
               /\ [t EXCEPT !.whole = FALSE] \in Present
               /\ ~[t EXCEPT !.whole = FALSE].whole
    BY <1>1 DEF Present, IsThere
  <1>3. \A p \in Installers, valid \in BOOLEAN :
          [by |-> p, valid |-> valid, whole |-> TRUE] \in Present
    BY DEF Present
  <1> QED
    BY <1>1, <1>2, <1>3

\* A tree that is being removed is still there, and no longer whole.
LEMMA Broken ==
  ASSUME NEW t \in Present \cup {NoTree}, IsThere(t)
  PROVE  /\ [t EXCEPT !.whole = FALSE] # NoTree
         /\ ~[t EXCEPT !.whole = FALSE].whole
  BY TreeFacts DEF IsThere

LEMMA InstallTypeStep ==
  ASSUME InstallInv, NEW p \in Installers,
         Inspect(p) \/ Step(p) \/ Raises(p) \/ Die(p)
  PROVE  InstallTypeOK'
  <1> USE DEF InstallInv, InstallTypeOK, Places, Handler, Finished, Go, GoOnly
  <1>1. CASE Inspect(p)
    BY <1>1 DEF Inspect, Active
  <1>2. CASE CheckTarget(p)
    BY <1>2 DEF CheckTarget
  <1>3. CASE InstallStaged(p)
    <2>1. PICK valid \in BOOLEAN :
            staged' = [staged EXCEPT ![p] = [by |-> p, valid |-> valid, whole |-> TRUE]]
      BY <1>3 DEF InstallStaged
    <2>2. [by |-> p, valid |-> valid, whole |-> TRUE] \in Present
      BY DEF Present
    <2> QED
      BY <1>3, <2>1, <2>2 DEF InstallStaged
  <1>4. CASE Raises(p)
    BY <1>4 DEF Raises, RaiseAt
  <1>5. CASE LookAtTarget(p)
    BY <1>5 DEF LookAtTarget, BeforeRetire
  <1>6. CASE StartRemovingBackup(p, "clear", "clearing", "retire")
             \/ StartRemovingBackup(p, "drop", "dropping", "return")
    BY <1>6, TreeFacts DEF StartRemovingBackup, IsThere
  <1>7. CASE FinishRemovingBackup(p, "clearing", "retire", "restore")
             \/ FinishRemovingBackup(p, "dropping", "return", "undo")
    BY <1>7 DEF FinishRemovingBackup
  <1>8. CASE Retire(p) \/ RetireFails(p) \/ Publish(p) \/ PublishFails(p)
             \/ Validate(p)
    BY <1>8 DEF Retire, RetireFails, Publish, PublishFails, Validate
  <1>9. CASE Undo(p) \/ FinishUndo(p)
    BY <1>9, TreeFacts DEF Undo, FinishUndo, IsThere, AfterUndo
  <1>10. CASE Restore(p) \/ RestoreNothing(p) \/ Return(p) \/ Die(p)
    BY <1>10 DEF Restore, RestoreNothing, Return, Die
  <1> QED
    BY <1>1, <1>2, <1>3, <1>4, <1>5, <1>6, <1>7, <1>8, <1>9, <1>10 DEF Step

LEMMA StagedStep ==
  ASSUME InstallInv, NEW p \in Installers, Inspect(p) \/ Step(p) \/ Raises(p) \/ Die(p)
  PROVE  StagedWhole'
  <1> USE DEF InstallInv, InstallTypeOK, StagedWhole, Finished, Go, GoOnly
  <1>1. CASE InstallStaged(p)
    BY <1>1 DEF InstallStaged
  <1>2. CASE Inspect(p)
    BY <1>2 DEF Inspect
  <1>3. CASE CheckTarget(p) \/ LookAtTarget(p) \/ Raises(p)
    BY <1>3 DEF CheckTarget, LookAtTarget, BeforeRetire, Raises, RaiseAt
  <1>4. CASE StartRemovingBackup(p, "clear", "clearing", "retire")
             \/ StartRemovingBackup(p, "drop", "dropping", "return")
    BY <1>4 DEF StartRemovingBackup
  <1>5. CASE FinishRemovingBackup(p, "clearing", "retire", "restore")
             \/ FinishRemovingBackup(p, "dropping", "return", "undo")
    BY <1>5 DEF FinishRemovingBackup
  <1>6. CASE Retire(p) \/ RetireFails(p) \/ Publish(p) \/ PublishFails(p)
             \/ Validate(p)
    BY <1>6 DEF Retire, RetireFails, Publish, PublishFails, Validate
  <1>7. CASE Undo(p) \/ FinishUndo(p) \/ Restore(p) \/ RestoreNothing(p)
             \/ Return(p) \/ Die(p)
    BY <1>7 DEF Undo, FinishUndo, AfterUndo, Restore, RestoreNothing, Return, Die
  <1> QED
    BY <1>1, <1>2, <1>3, <1>4, <1>5, <1>6, <1>7 DEF Step

\* What every step of an installer but its inspection leaves as it is.
LEMMA StepFrame ==
  ASSUME NEW p \in Installers, Step(p) \/ Raises(p) \/ Die(p)
  PROVE  Active(p) /\ UNCHANGED <<found, beside>>
  BY DEF Step, Die, Raises, RaiseAt, Active, Finished, GoOnly, CheckTarget, InstallStaged,
     LookAtTarget, StartRemovingBackup, FinishRemovingBackup, Retire, RetireFails,
     Publish, PublishFails, Validate, Undo, FinishUndo, Restore, RestoreNothing, Return

\* An installer moves only itself.
LEMMA OthersStay ==
  ASSUME InstallInv, NEW p \in Installers, Inspect(p) \/ Step(p) \/ Raises(p) \/ Die(p)
  PROVE  /\ \A q \in Installers \ {p} : step'[q] = step[q]
         /\ step'[p] # step[p]
  BY DEF InstallInv, InstallTypeOK, Inspect, Step, Die, Raises, RaiseAt, Active, Finished,
     Go, GoOnly, CheckTarget, InstallStaged, LookAtTarget, BeforeRetire, AfterUndo,
     StartRemovingBackup, FinishRemovingBackup, Retire, RetireFails, Publish, PublishFails,
     Validate, Undo, FinishUndo, Restore, RestoreNothing, Return

LEMMA HandledStep ==
  ASSUME InstallInv, NEW p \in Installers, Inspect(p) \/ Step(p) \/ Raises(p) \/ Die(p)
  PROVE  RaisedHandled'
  <1> USE DEF InstallInv, RaisedHandled, InstallTypeOK, Handler, Finished
  <1>1. CASE Raises(p)
    BY <1>1 DEF Raises, RaiseAt, Go
  <1>2. CASE Inspect(p)
    BY <1>2 DEF Inspect, Go
  <1>3. CASE Step(p) \/ Die(p)
    <2>1. raised' = raised /\ step[p] \notin Finished \cup {"idle"}
      BY <1>3 DEF Step, Die, Active, GoOnly, CheckTarget, InstallStaged, LookAtTarget,
         StartRemovingBackup, FinishRemovingBackup, Retire, RetireFails, Publish,
         PublishFails, Validate, Undo, FinishUndo, Restore, RestoreNothing, Return
    <2>2. step[p] \in Handler => step'[p] \in Handler \cup Finished
      BY <1>3 DEF Step, Die, Active, GoOnly, Go, CheckTarget, InstallStaged, LookAtTarget,
         StartRemovingBackup, FinishRemovingBackup, Retire, RetireFails, Publish,
         PublishFails, Validate, Undo, FinishUndo, AfterUndo, Restore, RestoreNothing, Return
    <2> QED
      BY <1>3, <2>1, <2>2, OthersStay
  <1> QED
    BY <1>1, <1>2, <1>3

LEMMA UnreadyStep ==
  ASSUME InstallInv, NEW p \in Installers, Inspect(p) \/ Step(p) \/ Raises(p) \/ Die(p)
  PROVE  FoundUnready'
  <1>1. CASE Inspect(p)
    BY <1>1 DEF InstallInv, InstallTypeOK, FoundUnready, Inspect, Reusable, Active,
       Finished, Go
  <1>2. CASE Step(p) \/ Raises(p) \/ Die(p)
    BY <1>2, StepFrame, OthersStay DEF InstallInv, FoundUnready, Active
  <1> QED
    BY <1>1, <1>2

\* Two installers that are at work are beside each other.
LEMMA OnlyStep ==
  ASSUME InstallInv, NEW p \in Installers, Inspect(p) \/ Step(p) \/ Raises(p) \/ Die(p)
  PROVE  AloneIsOnly'
  <1>1. CASE Inspect(p)
    BY <1>1, OthersStay DEF InstallInv, AloneIsOnly, Inspect, Alone, Active, Finished
  <1>2. CASE Step(p) \/ Raises(p) \/ Die(p)
    BY <1>2, StepFrame, OthersStay DEF InstallInv, AloneIsOnly, Alone, Active
  <1> QED
    BY <1>1, <1>2

\* Nobody else moves while an installer works by itself.
LEMMA AloneMoves ==
  ASSUME InstallInv, NEW p \in Installers, Inspect(p) \/ Step(p) \/ Raises(p) \/ Die(p),
         NEW q \in Installers, Active(q), q \notin beside'
  PROVE  q = p /\ Alone(p) /\ (Step(p) \/ Raises(p) \/ Die(p))
  <1>1. CASE Inspect(p)
    BY <1>1 DEF Inspect, InstallInv, InstallTypeOK
  <1>2. CASE Step(p) \/ Raises(p) \/ Die(p)
    BY <1>2, StepFrame DEF InstallInv, AloneIsOnly, Alone
  <1> QED
    BY <1>1, <1>2

\* An installer that works by itself comes from each place to the next as it must.
LEMMA OwnStep ==
  ASSUME InstallInv, NEW p \in Installers, Step(p), Alone(p),
         Active(p)'
  PROVE  Undisturbed(p)'
  <1> USE TreeFacts DEF InstallInv, InstallTypeOK, StagedWhole, RaisedHandled, Places,
        Handler, Finished, Late, Go, GoOnly
  <1>0. Undisturbed(p)
    BY StepFrame DEF AloneInv
  <1>1. CASE CheckTarget(p)
    BY <1>0, <1>1 DEF CheckTarget, Undisturbed, Active
  <1>2. CASE InstallStaged(p)
    BY <1>0, <1>2 DEF InstallStaged, Undisturbed
  <1>3. CASE LookAtTarget(p)
    BY <1>0, <1>3 DEF LookAtTarget, BeforeRetire, Undisturbed, Aside, IsThere
  <1>4. CASE StartRemovingBackup(p, "clear", "clearing", "retire")
    <2>1. CASE IsThere(backup)
      <3>1. backup' = [backup EXCEPT !.whole = FALSE] /\ step'[p] = "clearing"
            /\ UNCHANGED <<target, staged, found>>
        BY <1>4, <2>1 DEF StartRemovingBackup
      <3>2. backup' # NoTree /\ ~backup'.whole
        BY <2>1, <3>1, Broken
      <3> QED
        BY <1>0, <1>4, <3>1, <3>2 DEF StartRemovingBackup, Undisturbed, IsThere
    <2>2. CASE ~IsThere(backup)
      BY <1>0, <1>4, <2>2 DEF StartRemovingBackup, Undisturbed, IsThere
    <2> QED
      BY <2>1, <2>2
  <1>5. CASE StartRemovingBackup(p, "drop", "dropping", "return")
    <2>1. CASE IsThere(backup)
      <3>1. backup' = [backup EXCEPT !.whole = FALSE] /\ step'[p] = "dropping"
            /\ UNCHANGED <<target, staged, found>>
        BY <1>5, <2>1 DEF StartRemovingBackup
      <3>2. backup' # NoTree /\ ~backup'.whole
        BY <2>1, <3>1, Broken
      <3> QED
        BY <1>0, <1>5, <3>1, <3>2 DEF StartRemovingBackup, Undisturbed, IsThere
    <2>2. CASE ~IsThere(backup)
      BY <1>0, <1>5, <2>2 DEF StartRemovingBackup, Undisturbed, IsThere
    <2> QED
      BY <2>1, <2>2
  <1>6. CASE FinishRemovingBackup(p, "clearing", "retire", "restore")
    BY <1>0, <1>6 DEF FinishRemovingBackup, Undisturbed
  <1>7. CASE FinishRemovingBackup(p, "dropping", "return", "undo")
    BY <1>0, <1>7 DEF FinishRemovingBackup, Undisturbed, Active
  <1>8. CASE Retire(p) \/ RetireFails(p)
    BY <1>0, <1>8 DEF Retire, RetireFails, MayBeInTheWay, Undisturbed, Aside, IsThere
  <1>9. CASE Publish(p) \/ PublishFails(p)
    BY <1>0, <1>9 DEF Publish, PublishFails, MayBeInTheWay, Undisturbed, Aside, IsThere
  <1>10. CASE Validate(p)
    BY <1>0, <1>10 DEF Validate, Validated, Ready, Undisturbed, Aside
  <1>11. CASE Undo(p) \/ FinishUndo(p)
    <2>1. CASE Undo(p) /\ IsThere(target)
      <3>1. target' = [target EXCEPT !.whole = FALSE] /\ step'[p] = "undoing"
            /\ UNCHANGED <<backup, staged, found>>
        BY <2>1 DEF Undo
      <3>2. target' # NoTree /\ ~target'.whole
        BY <2>1, <3>1, Broken
      <3> QED
        BY <1>0, <2>1, <3>1, <3>2 DEF Undo, Undisturbed, Aside, IsThere
    <2>2. CASE Undo(p) /\ ~IsThere(target)
      BY <1>0, <1>11, <2>2 DEF Undo, AfterUndo, Undisturbed, Aside, IsThere
    <2>3. CASE FinishUndo(p)
      BY <1>0, <1>11, <2>3 DEF FinishUndo, AfterUndo, Undisturbed, Aside
    <2> QED
      BY <1>11, <2>1, <2>2, <2>3
  <1>12. CASE Restore(p) \/ RestoreNothing(p) \/ Return(p)
    BY <1>12 DEF Restore, RestoreNothing, Return, Active
  <1> QED
    BY <1>1, <1>2, <1>3, <1>4, <1>5, <1>6, <1>7, <1>8, <1>9, <1>10, <1>11, <1>12 DEF Step

\* An error of an installer that works by itself: what it found is where it was, unless
\* the clean-up raised.
LEMMA OwnError ==
  ASSUME InstallInv, NEW p \in Installers, Raises(p), Alone(p), Active(p)'
  PROVE  Undisturbed(p)'
  <1>1. Undisturbed(p)
    BY StepFrame DEF InstallInv, AloneInv
  <1>2. step[p] \notin Handler \cup Finished => raised[p] = "none"
    BY DEF InstallInv, RaisedHandled
  <1>3. PICK when \in {"early", "late"}, there \in {"failed", "restore", "undo"} :
          /\ step' = [step EXCEPT ![p] = there] /\ raised' = [raised EXCEPT ![p] = when]
          /\ UNCHANGED <<target, backup, staged, found>>
          /\ there = "restore" => when = "late" \/ step[p] \in
               {"staging", "staged", "clear", "clearing", "retire", "publish"}
          /\ there = "undo" => step[p] \in {"validate", "drop", "dropping", "return"}
          /\ there = "undo" /\ when = "early" => step[p] = "validate"
    BY DEF Raises, RaiseAt, Go
  <1>4. step'[p] = there /\ raised'[p] = when /\ there # "failed"
    BY <1>3 DEF InstallInv, InstallTypeOK, Active, Finished
  <1>5. CASE there = "restore"
    BY <1>1, <1>2, <1>3, <1>4, <1>5 DEF Undisturbed, Aside, Late, Handler, Finished
  <1>6. CASE there = "undo"
    BY <1>1, <1>2, <1>3, <1>4, <1>6 DEF Undisturbed, Aside, Late, Handler, Finished
  <1> QED
    BY <1>4, <1>5, <1>6

LEMMA AloneStep ==
  ASSUME InstallInv, NEW p \in Installers,
         Inspect(p) \/ Step(p) \/ Raises(p) \/ Die(p)
  PROVE  AloneInv'
  <1> SUFFICES ASSUME NEW q \in Installers, Active(q)', Alone(q)'
               PROVE  Undisturbed(q)'
    BY DEF AloneInv
  <1>1. CASE Inspect(p) /\ q = p
    BY <1>1 DEF Inspect, Undisturbed, Active, Handler, Finished, Go, InstallInv,
       InstallTypeOK
  <1>2. CASE ~(Inspect(p) /\ q = p)
    <2>1. Active(q)
      BY <1>2, OthersStay, StepFrame DEF Active
    <2>2. q = p /\ Alone(p) /\ (Step(p) \/ Raises(p) \/ Die(p))
      BY <2>1, AloneMoves DEF Alone
    <2>3. ~Die(p)
      BY <2>2 DEF Die, GoOnly, Go, Active, Finished, InstallInv, InstallTypeOK
    <2> QED
      BY <2>2, <2>3, OwnStep, OwnError
  <1> QED
    BY <1>1, <1>2

LEMMA InitInstall == InstallInit => InstallInv
  <1> SUFFICES ASSUME InstallInit PROVE InstallInv
    OBVIOUS
  <1>1. InstallTypeOK
    <2>1. [by |-> Earlier, valid |-> FALSE, whole |-> TRUE] \in Present
      BY DEF Present
    <2>2. step \in [Installers -> Places]
      BY DEF InstallInit, Places
    <2> QED
      BY <2>1, <2>2 DEF InstallInit, InstallTypeOK
  <1>2. StagedWhole
    BY DEF InstallInit, StagedWhole
  <1>3. \A p \in Installers : ~Active(p)
    BY DEF InstallInit, Active
  <1> QED
    BY <1>1, <1>2, <1>3 DEF InstallInv, InstallInit, RaisedHandled, FoundUnready,
       AloneIsOnly, AloneInv

LEMMA NextInstall ==
  ASSUME InstallInv, [InstallNext]_(installVars)
  PROVE  InstallInv'
  <1>1. CASE InstallNext
    BY <1>1, InstallTypeStep, StagedStep, HandledStep, UnreadyStep, OnlyStep, AloneStep
       DEF InstallNext, InstallInv
  <1>2. CASE UNCHANGED installVars
    BY <1>2 DEF installVars, InstallInv, InstallTypeOK, StagedWhole, RaisedHandled, FoundUnready, AloneIsOnly,
       AloneInv, Active, Alone, Undisturbed, Aside, Late
  <1> QED
    BY <1>1, <1>2

\* Only an installation that is not ready is replaced, two installers that are at work
\* are beside each other, and one that is not finds both directories as it left them.
THEOREM InstallInvariance == InstallSpec => []InstallInv
  BY InitInstall, NextInstall, PTL DEF InstallSpec

-----------------------------------------------------------------------------
\* Until the replacement is validated, an installer that works by itself has the
\* invalid installation in one of the two places, whatever was in them before.
THEOREM InvalidIsKept == InstallSpec => []InvalidKept
  <1>1. InstallInv => InvalidKept
    <2> SUFFICES ASSUME InstallInv, NEW p \in Installers, Alone(p), Active(p),
                        ~Late(p), step[p] \notin {"drop", "dropping", "return"},
                        IsThere(found[p])
                 PROVE  found[p] \in {target, backup}
      BY DEF InvalidKept
    <2> QED
      BY DEF InstallInv, AloneInv, Undisturbed, Aside, InstallTypeOK, Places, Handler, Active
  <1> QED
    BY <1>1, InstallInvariance, PTL

\* How an installer that nobody disturbs comes to fail.
LEMMA HowItFails ==
  ASSUME InstallInv, [InstallNext]_(installVars), NEW p \in Installers, Fails(p), p \notin beside'
  PROVE  /\ Active(p) /\ Undisturbed(p)
         /\ \/ CheckTarget(p) \/ Restore(p) \/ RestoreNothing(p)
            \/ Raises(p) /\ raised'[p] # "none" /\ (Late(p)' \/ step[p] = "inspected")
  <1>1. PICK q \in Installers : Inspect(q) \/ Step(q) \/ Raises(q) \/ Die(q)
    BY DEF InstallNext, installVars, Fails
  <1>2. q = p
    BY <1>1, OthersStay DEF Fails
  <1>3. Step(p) \/ Raises(p)
    BY <1>1, <1>2 DEF Inspect, Die, GoOnly, Go, Fails, InstallInv, InstallTypeOK
  <1>4. Active(p) /\ Undisturbed(p)
    BY <1>3, StepFrame DEF InstallInv, AloneInv, Alone
  <1>5. Step(p) => CheckTarget(p) \/ FinishUndo(p) \/ Restore(p) \/ RestoreNothing(p)
    BY DEF Step, Fails, InstallInv, InstallTypeOK, GoOnly, Go, InstallStaged,
       LookAtTarget, BeforeRetire, StartRemovingBackup, FinishRemovingBackup, Retire,
       RetireFails, Publish, PublishFails, Validate, Undo, AfterUndo, Return
  <1>6. ~FinishUndo(p)
    BY <1>4 DEF FinishUndo, Undisturbed, AfterUndo, GoOnly, Go, Fails,
       InstallInv, InstallTypeOK
  <1>7. Raises(p) => raised'[p] # "none" /\ (Late(p)' \/ step[p] = "inspected")
    BY DEF Raises, RaiseAt, Fails, Go, Late, InstallInv, InstallTypeOK
  <1> QED
    BY <1>3, <1>4, <1>5, <1>6, <1>7

LEMMA RestoreStep ==
  ASSUME InstallInv, [InstallNext]_(installVars), NEW p \in Installers, Fails(p),
         p \notin beside', ~Late(p)', found[p].whole
  PROVE  target' = found[p]
  <1>1. /\ Active(p) /\ Undisturbed(p)
        /\ \/ CheckTarget(p) \/ Restore(p) \/ RestoreNothing(p)
           \/ Raises(p) /\ step[p] = "inspected"
    BY HowItFails
  <1>0. CheckTarget(p) \/ Restore(p) \/ RestoreNothing(p) => ~Late(p)
    BY DEF CheckTarget, Restore, RestoreNothing, GoOnly, Late
  <1>2. IsThere(found[p])
    BY TreeFacts DEF IsThere
  <1>3. CASE CheckTarget(p)
    BY <1>1, <1>3 DEF CheckTarget, GoOnly, Undisturbed
  <1>4. CASE Restore(p)
    BY <1>0, <1>1, <1>2, <1>4 DEF Restore, MayMoveTo, Undisturbed, Aside
  <1>5. CASE RestoreNothing(p)
    BY <1>0, <1>1, <1>2, <1>5 DEF RestoreNothing, GoOnly, MayBeInTheWay, Undisturbed,
       Aside, IsThere
  <1>6. CASE Raises(p) /\ step[p] = "inspected"
    BY <1>1, <1>6 DEF Raises, RaiseAt, Undisturbed
  <1> QED
    BY <1>1, <1>3, <1>4, <1>5, <1>6

\* A repair that works by itself and fails leaves the installation that it found, unless
\* what raised is its clean-up.
THEOREM FailuresRestore == InstallSpec => FailureRestores
  <1> DEFINE Restores ==
        \A p \in Installers :
          Fails(p) /\ p \notin beside' /\ ~Late(p)' /\ found[p].whole => target' = found[p]
  <1>1. InstallInv /\ [InstallNext]_(installVars) => [Restores]_(installVars)
    BY RestoreStep
  <1>2. [][Restores]_(installVars) <=> FailureRestores
    BY PTL DEF FailureRestores
  <1> HIDE DEF Restores
  <1> QED
    BY <1>1, <1>2, InstallInvariance, PTL DEF InstallSpec

LEMMA SuccessStep ==
  ASSUME InstallInv, [InstallNext]_(installVars), NEW p \in Installers, Fails(p),
         p \notin beside', raised'[p] = "none"
  PROVE  ~staged[p].valid \/ (IsThere(found[p]) /\ p \notin Repairing)
  <1>1. Active(p) /\ Undisturbed(p)
        /\ (CheckTarget(p) \/ Restore(p) \/ RestoreNothing(p))
    BY HowItFails
  <1>2. CASE CheckTarget(p)
    BY <1>1, <1>2 DEF CheckTarget, GoOnly, Go, Undisturbed, Fails, InstallInv,
       InstallTypeOK
  <1>3. CASE Restore(p) \/ RestoreNothing(p)
    BY <1>1, <1>3 DEF Restore, RestoreNothing, GoOnly, Undisturbed, Handler
  <1> QED
    BY <1>1, <1>2, <1>3

\* What installers that died, failed or raced left behind makes no later one fail that
\* works by itself and whose calls do not raise.
THEOREM AloneOnesSucceed == InstallSpec => AloneSucceeds
  <1> DEFINE Succeeds ==
        \A p \in Installers :
          Fails(p) /\ p \notin beside' /\ raised'[p] = "none" =>
            ~staged[p].valid \/ (IsThere(found[p]) /\ p \notin Repairing)
  <1>1. InstallInv /\ [InstallNext]_(installVars) => [Succeeds]_(installVars)
    BY SuccessStep
  <1>2. [][Succeeds]_(installVars) <=> AloneSucceeds
    BY PTL DEF AloneSucceeds
  <1> HIDE DEF Succeeds
  <1> QED
    BY <1>1, <1>2, InstallInvariance, PTL DEF InstallSpec

LEMMA StaysStep ==
  ASSUME InstallInv, [InstallNext]_(installVars), Ready(target), target' # target
  PROVE  \E p \in Installers :
           /\ step'[p] # step[p]
           /\ p \in beside' \/ (raised[p] # "none" /\ target = staged[p])
  <1>1. PICK p \in Installers : Inspect(p) \/ Step(p) \/ Raises(p) \/ Die(p)
    BY DEF InstallNext, installVars
  <1>2. Step(p)
    BY <1>1 DEF Inspect, Die, Raises, RaiseAt, GoOnly
  <1>3. step'[p] # step[p]
    BY <1>1, OthersStay
  <1>4. ASSUME Alone(p), raised[p] = "none" \/ target # staged[p]
        PROVE  FALSE
    <2>1. Undisturbed(p) /\ ~Ready(found[p])
      BY <1>2, <1>4, StepFrame DEF InstallInv, AloneInv, FoundUnready
    <2>2. Retire(p) \/ Publish(p) \/ Undo(p) \/ FinishUndo(p) \/ Restore(p)
      BY <1>2 DEF Step, GoOnly, CheckTarget, InstallStaged, LookAtTarget,
         StartRemovingBackup, FinishRemovingBackup, RetireFails, PublishFails, Validate,
         RestoreNothing, Return
    <2>3. CASE Retire(p)
      BY <2>1, <2>3 DEF Retire, Undisturbed
    <2>4. CASE Publish(p)
      BY <2>1, <2>4, TreeFacts DEF Publish, Undisturbed, Ready
    <2>5. CASE Undo(p)
      BY <1>4, <2>1, <2>5 DEF Undo, Undisturbed, Handler, Ready
    <2>6. CASE FinishUndo(p) \/ Restore(p)
      BY <2>6 DEF FinishUndo, Restore, MayMoveTo, GoOnly, Ready
    <2> QED
      BY <2>2, <2>3, <2>4, <2>5, <2>6
  <1> QED
    BY <1>2, <1>3, <1>4, StepFrame DEF Alone

\* A ready installation is taken away only by installers that run beside each other, or
\* by the one that published it when a call of its own raises before it returns.
THEOREM ReadyOnesStay == InstallSpec => ReadyStays
  <1> DEFINE Stays ==
        Ready(target) /\ target' # target =>
          \E p \in Installers :
            /\ step'[p] # step[p]
            /\ p \in beside' \/ (raised[p] # "none" /\ target = staged[p])
  <1>1. InstallInv /\ [InstallNext]_(installVars) => [Stays]_(installVars)
    BY StaysStep
  <1>2. [][Stays]_(installVars) <=> ReadyStays
    BY PTL DEF ReadyStays
  <1> HIDE DEF Stays
  <1> QED
    BY <1>1, <1>2, InstallInvariance, PTL DEF InstallSpec
=============================================================================
