--------------------------- MODULE ArchivePublication ---------------------------
(***************************************************************************)
(* The four ways in which LocalArchiveStore puts something where others    *)
(* find it, run by processes that share an Archive without a lock, that    *)
(* may fail to write and that may die at any step:                         *)
(*   "raw"       raw sources, PDF transformations and model run outputs    *)
(*               are written in place, under an exclusively created name;  *)
(*   "evidence"  hybrid evidence is staged, then linked to its name;       *)
(*   "wiki"      a Candidate Wiki build is staged, renamed to its name     *)
(*               and activated by a symbolic link;                         *)
(*   "briefing"  two files are staged and renamed, and a Ledger row names  *)
(*               them.                                                     *)
(* They use different directories, so that a behaviour has one of them.    *)
(***************************************************************************)
EXTENDS Naturals

CONSTANTS
  Processes,
  Payloads,
  Size,       \* a payload is written in this many pieces
  None

Ways == {"raw", "evidence", "wiki", "briefing"}

ASSUME SizeAssumption ==
  /\ Size \in Nat \ {0}
  /\ None \notin Payloads /\ None \notin [payload : Payloads, length : 0 .. Size]

VARIABLES
  way,      \* what the processes put
  payload,  \* what each of them puts
  files,    \* the files, and the directories of wiki builds, of the Archive
  active,   \* the build that review/wiki leads to
  rows,     \* the processes whose Briefing the Ledger has
  pc,
  part      \* which of its files a process is at

vars == <<way, payload, files, active, rows, pc, part>>

-----------------------------------------------------------------------------
(* Names *)

Parts == IF way = "briefing" THEN 1 .. 2 ELSE {1}

\* Hybrid evidence has the id of its inputs, a wiki build and a raw object that of
\* their content, a Briefing that of the time of its generation.
Name(p, n) ==
  CASE way = "evidence" -> <<"evidence", None, n>>
    [] way = "briefing" -> <<"briefing", p, n>>
    [] OTHER -> <<way, payload[p], n>>

\* _staged_relative_path, with a fresh uuid
Staging(p, n) == <<"staging", p, n>>

StagingNames == {"staging"} \X Processes \X (1 .. 2)

Names ==
  ({"evidence"} \X {None} \X {1}) \cup ({"raw", "wiki"} \X Payloads \X {1})
  \cup ({"briefing"} \X Processes \X (1 .. 2))

Whole(x) == [payload |-> x, length |-> Size]

Exists(name) == files[name] # None

-----------------------------------------------------------------------------
(* Steps *)

Ended == {"created", "reused", "failed", "crashed"}

At(p, here) == pc[p] = here

Goes(p, there) ==
  /\ pc' = [pc EXCEPT ![p] = there]
  /\ UNCHANGED <<way, payload, files, active, rows, part>>

\* The process goes on after a change of the files.
With(p, newFiles, there) ==
  /\ files' = newFiles
  /\ pc' = [pc EXCEPT ![p] = there]
  /\ UNCHANGED <<way, payload, active, rows, part>>

\* What was staged is removed at the end.
Without(names) == [name \in DOMAIN files |-> IF name \in names THEN None ELSE files[name]]

Discarded(p) == Without({Staging(p, n) : n \in Parts})

Start(p) ==
  /\ At(p, "idle")
  /\ Goes(p, IF way = "briefing" THEN "create"
             ELSE IF Exists(Name(p, 1)) THEN "compare" ELSE "create")

\* Mutant of Same: the name is trusted.
SameName(p) == Exists(Name(p, 1))

\* The digest, the bytes, or each file of the build.
Same(p) == files[Name(p, 1)] = Whole(payload[p])

Compare(p) ==
  /\ At(p, "compare")
  /\ Goes(p, IF ~Same(p) THEN "failed" ELSE IF way = "wiki" THEN "activate" ELSE "reused")

Place(p) == IF way = "raw" THEN Name(p, 1) ELSE Staging(p, part[p])

\* open("xb"); only the names of raw objects are shared.
Create(p) ==
  /\ At(p, "create")
  /\ IF Exists(Place(p))
     THEN Goes(p, "failed")
     ELSE With(p, [files EXCEPT ![Place(p)] = [payload |-> payload[p], length |-> 0]], "write")

Complete(p) == files[Place(p)].length = Size

Write(p) ==
  /\ At(p, "write")
  /\ ~Complete(p)
  /\ With(p, [files EXCEPT ![Place(p)].length = @ + 1], "write")

\* Mutant of AfterStage: the build is activated as soon as it is staged.
ActivateAtOnce == "activate"

AfterStage == "replace"

\* A Briefing stages its second file, and goes back to promote the first.
Written(p) ==
  /\ At(p, "write")
  /\ Complete(p)
  /\ pc' = [pc EXCEPT ![p] =
              CASE way = "raw" -> "created"
                [] way = "evidence" -> "link"
                [] way = "wiki" -> AfterStage
                [] way = "briefing" -> IF part[p] = 1 THEN "create" ELSE "promote"]
  /\ part' = IF way = "briefing" THEN [part EXCEPT ![p] = 3 - @] ELSE part
  /\ UNCHANGED <<way, payload, files, active, rows>>

\* The disk is full.  The file that is being written stays as it is, in place or
\* staged; a stage directory and the file that a Briefing staged before are removed.
WriteFails(p) ==
  /\ At(p, "write")
  /\ With(p, CASE way = "wiki" -> Discarded(p)
                [] way = "briefing" -> Without({Staging(p, n) : n \in 1 .. part[p] - 1})
                [] OTHER -> files,
          "failed")

\* Mutant of Linkable: os.replace in place of os.link.
Replaceable(p) == TRUE

Linkable(p) == ~Exists(Name(p, 1))

LinkLost(p) == IF Same(p) THEN "reused" ELSE "failed"

\* os.link is exclusive; a file that is there is compared.
Link(p) ==
  /\ At(p, "link")
  /\ IF Linkable(p)
     THEN With(p, [Discarded(p) EXCEPT ![Name(p, 1)] = files[Staging(p, 1)]], "created")
     ELSE With(p, Discarded(p), LinkLost(p))

\* os.replace of a directory fails if there is another that is not empty.
Replace(p) ==
  /\ At(p, "replace")
  /\ IF Exists(Name(p, 1))
     THEN With(p, Discarded(p), "failed")
     ELSE With(p, [Discarded(p) EXCEPT ![Name(p, 1)] = files[Staging(p, 1)]], "activate")

\* A link under a temporary name replaces the active one.
Activate(p) ==
  /\ At(p, "activate")
  /\ active' = payload[p]
  /\ pc' = [pc EXCEPT ![p] = "created"]
  /\ UNCHANGED <<way, payload, files, rows, part>>

\* Mutant of AllPromoted: the row is saved before the citations are in place.
TextPromoted(p) == TRUE

AllPromoted(p) == part[p] = 2

\* promote_staged_object, once for each file.
Promote(p) ==
  /\ At(p, "promote")
  /\ ~Exists(Name(p, part[p]))
  /\ files' = [files EXCEPT ![Name(p, part[p])] = files[Staging(p, part[p])],
                            ![Staging(p, part[p])] = None]
  /\ pc' = [pc EXCEPT ![p] = IF AllPromoted(p) THEN "save" ELSE "promote"]
  /\ part' = [part EXCEPT ![p] = 2]
  /\ UNCHANGED <<way, payload, active, rows>>

\* The end of sqlite_ledger_transaction, after generate_briefing returned.
SaveBriefing(p) ==
  /\ At(p, "save")
  /\ rows' = rows \cup {p}
  /\ pc' = [pc EXCEPT ![p] = "created"]
  /\ UNCHANGED <<way, payload, files, active, part>>

\* Files that were promoted stay, without a row that names them.
BriefingFails(p) ==
  /\ way = "briefing"
  /\ pc[p] \in {"create", "promote", "save"}
  /\ With(p, Discarded(p), "failed")

Crash(p) == pc[p] \notin Ended \cup {"idle"} /\ Goes(p, "crashed")

Init ==
  /\ way \in Ways
  /\ payload \in [Processes -> Payloads]
  /\ files = [name \in Names \cup StagingNames |-> None]
  /\ active = None
  /\ rows = {}
  /\ pc = [p \in Processes |-> "idle"]
  /\ part = [p \in Processes |-> 1]

Next ==
  \E p \in Processes :
    \/ Start(p) \/ Compare(p) \/ Create(p) \/ Write(p) \/ Written(p) \/ WriteFails(p)
    \/ Link(p) \/ Replace(p) \/ Activate(p) \/ Promote(p) \/ SaveBriefing(p)
    \/ BriefingFails(p) \/ Crash(p)

Spec == Init /\ [][Next]_vars
-----------------------------------------------------------------------------
(* Properties *)

Files == [payload : Payloads, length : 0 .. Size]

TypeOK ==
  /\ way \in Ways
  /\ payload \in [Processes -> Payloads]
  /\ files \in [Names \cup StagingNames -> Files \cup {None}]
  /\ active \in Payloads \cup {None}
  /\ rows \subseteq Processes
  /\ pc \in [Processes -> {"idle", "compare", "create", "write", "link", "replace", "activate",
                           "promote", "save"} \cup Ended]
  /\ part \in [Processes -> 1 .. 2]

\* What a process reported as created or reused is there with its content from
\* then on, whatever others put under the same name, and also where a writer that
\* died or found the disk full left a truncated object.
AcceptedIsWhole ==
  \A p \in Processes : pc[p] \in {"created", "reused"} =>
    \A n \in Parts : files[Name(p, n)] = Whole(payload[p])

\* Nobody finds a part of anything but a raw object.
VisibleIsWhole ==
  \A name \in Names :
    way # "raw" /\ Exists(name) => files[name] \in {Whole(x) : x \in Payloads}

\* review/wiki leads to a complete build, which is the one it is named for.
ActiveIsPublished == active # None => files[<<"wiki", active, 1>>] = Whole(active)

\* A Briefing of the Ledger has its text and its citations in the Archive.
BriefingHasFiles ==
  \A p \in rows : \A n \in 1 .. 2 : files[<<"briefing", p, n>>] = Whole(payload[p])

\* What is complete under its name is never changed, replaced or removed.
PublishedStays ==
  [][\A name \in Names : files[name] \in {Whole(x) : x \in Payloads} =>
       files'[name] = files[name]]_vars

(* What the Archive promises: the names as objects that are whole or not there. *)

Stored(name) ==
  IF Exists(name) /\ files[name].length = Size THEN files[name].payload ELSE None

PutNames(p) == {Name(p, n) : n \in Parts}

Accepted == {p \in Processes : pc[p] \in {"created", "reused"}}

Builds == {<<"wiki", x, 1>> : x \in Payloads}

Promise == INSTANCE AtomicArchive WITH
  put <- [p \in Processes |-> [names |-> PutNames(p), payload |-> payload[p]]],
  store <- [name \in Names |-> Stored(name)],
  active <- IF active = None THEN None ELSE <<"wiki", active, 1>>,
  accepted <- Accepted

\* However the writes, links and renames of processes interleave, fail and stop half
\* way, the Archive is a store that each object enters whole, in one step and for
\* good, and a put is reported only of what is in it.
ImplementsArchive == Promise!Spec
=============================================================================
