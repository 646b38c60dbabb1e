-------------------------- MODULE ResourceInstallation --------------------------
(***************************************************************************)
(* _install of the managed model resources: "kotekomi model resources      *)
(* install" replaces a directory of the Resource Root by one it staged,    *)
(* with an invalid installation kept aside.  There is no lock: installers  *)
(* meet others, and what others that died have left.                       *)
(*                                                                         *)
(* A rename is one step.  rmtree is two: from the first on the tree is no  *)
(* longer whole, and the last removes the directory if it is still there.  *)
(***************************************************************************)
EXTENDS Naturals

CONSTANTS
  Installers,
  Repairing,   \* installers that were given --repair
  Earlier,     \* who made the installation that is there at first
  Nobody

ASSUME InstallersAssumption ==
  /\ Repairing \subseteq Installers
  /\ Earlier \notin Installers /\ Nobody \notin Installers /\ Earlier # Nobody

\* A directory tree: who staged it, and whether inspect finds the pinned files in it.
Trees == [by : Installers \cup {Earlier, Nobody}, valid : BOOLEAN, whole : BOOLEAN]

NoTree == [by |-> Nobody, valid |-> FALSE, whole |-> FALSE]

VARIABLES
  target,     \* the Resource Installation, or NoTree
  backup,     \* .<resource>-invalid, or NoTree
  step,
  staged,     \* what each installer staged; that a directory left over is removed
              \* or stays, under a random name, makes no difference to the others
  raised,     \* history: whether a call of the installer raised, and when
  found,      \* history: the installation when the installer inspected it
  beside      \* history: installers that ran while another one did

installVars == <<target, backup, step, staged, raised, found, beside>>

-----------------------------------------------------------------------------
Finished == {"done", "reused", "failed", "crashed"}

Active(p) == step[p] \notin Finished \cup {"idle"}

Ready(tree) == tree.valid /\ tree.whole

IsThere(tree) == tree # NoTree

\* A rename over a directory succeeds only if that is empty, and one that is being
\* removed may be.
MayMoveTo(place) == ~place.whole

MayBeInTheWay(place) == IsThere(place)

Go(p, there) == step' = [step EXCEPT ![p] = there]

GoOnly(p, there) == Go(p, there) /\ UNCHANGED <<target, backup, staged, raised, found, beside>>

\* Mutant of Reusable: --repair installs anew.
ReusableUnlessRepairing(p) == Ready(target) /\ p \notin Repairing

Reusable(p) == Ready(target)

\* adapter.inspect
Inspect(p) ==
  /\ step[p] = "idle"
  /\ found' = [found EXCEPT ![p] = target]
  /\ beside' = IF \E q \in Installers : Active(q)
               THEN beside \cup {p} \cup {q \in Installers : Active(q)} ELSE beside
  /\ Go(p, IF Reusable(p) THEN "reused" ELSE "inspected")
  /\ UNCHANGED <<target, backup, staged, raised>>

\* An invalid installation is replaced with --repair only.
CheckTarget(p) ==
  /\ step[p] = "inspected"
  /\ GoOnly(p, IF IsThere(target) /\ p \notin Repairing THEN "failed" ELSE "staging")

\* install_staged: downloads, a smoke test and the manifest.  What it stages may
\* still fail inspection, which looks at the installed packages too.
InstallStaged(p) ==
  /\ step[p] = "staging"
  /\ \E valid \in BOOLEAN :
       staged' = [staged EXCEPT ![p] = [by |-> p, valid |-> valid, whole |-> TRUE]]
  /\ Go(p, "staged")
  /\ UNCHANGED <<target, backup, raised, found, beside>>

\* Mutant of BeforeRetire: the backup of an earlier repair is not removed.
KeepOldBackup == "retire"

BeforeRetire == "clear"

LookAtTarget(p) ==
  /\ step[p] = "staged"
  /\ GoOnly(p, IF IsThere(target) THEN BeforeRetire ELSE "publish")

\* if backup.exists(): shutil.rmtree(backup), before a rename to it and after a
\* validation.
StartRemovingBackup(p, here, there, next) ==
  /\ step[p] = here
  /\ IF IsThere(backup)
     THEN /\ backup' = [backup EXCEPT !.whole = FALSE]
          /\ Go(p, there)
          /\ UNCHANGED <<target, staged, raised, found, beside>>
     ELSE GoOnly(p, next)

\* It is an error if another process moved or removed the backup in the meantime.
FinishRemovingBackup(p, here, next, error) ==
  /\ step[p] = here
  /\ IF IsThere(backup) /\ ~backup.whole
     THEN /\ backup' = NoTree
          /\ Go(p, next)
          /\ UNCHANGED <<target, staged, raised, found, beside>>
     ELSE GoOnly(p, error)

\* Mutant of Retire: the invalid installation is removed instead.
RetireByRemoval(p) ==
  /\ step[p] = "retire"
  /\ IsThere(target) /\ MayMoveTo(backup)
  /\ target' = NoTree
  /\ Go(p, "publish")
  /\ UNCHANGED <<backup, staged, raised, found, beside>>

\* target.rename(backup)
Retire(p) ==
  /\ step[p] = "retire"
  /\ IsThere(target) /\ MayMoveTo(backup)
  /\ backup' = target
  /\ target' = NoTree
  /\ Go(p, "publish")
  /\ UNCHANGED <<staged, raised, found, beside>>

RetireFails(p) ==
  /\ step[p] = "retire"
  /\ ~IsThere(target) \/ MayBeInTheWay(backup)
  /\ GoOnly(p, "restore")

\* staged.rename(target)
Publish(p) ==
  /\ step[p] = "publish"
  /\ MayMoveTo(target)
  /\ target' = staged[p]
  /\ Go(p, "validate")
  /\ UNCHANGED <<backup, staged, raised, found, beside>>

PublishFails(p) == step[p] = "publish" /\ MayBeInTheWay(target) /\ GoOnly(p, "restore")

Validated(tree) == Ready(tree)

Validate(p) == step[p] = "validate" /\ GoOnly(p, IF Validated(target) THEN "drop" ELSE "undo")

\* Mutant of AfterUndo: the backup stays where it is.
LeaveBackup == "failed"

AfterUndo == "restore"

\* if published and target.exists(): shutil.rmtree(target)
Undo(p) ==
  /\ step[p] = "undo"
  /\ IF IsThere(target)
     THEN /\ target' = [target EXCEPT !.whole = FALSE]
          /\ Go(p, "undoing")
          /\ UNCHANGED <<backup, staged, raised, found, beside>>
     ELSE GoOnly(p, AfterUndo)

FinishUndo(p) ==
  /\ step[p] = "undoing"
  /\ IF IsThere(target) /\ ~target.whole
     THEN /\ target' = NoTree
          /\ Go(p, AfterUndo)
          /\ UNCHANGED <<backup, staged, raised, found, beside>>
     ELSE GoOnly(p, "failed")

\* if backup.exists(): backup.rename(target)
Restore(p) ==
  /\ step[p] = "restore"
  /\ IsThere(backup) /\ MayMoveTo(target)
  /\ target' = backup
  /\ backup' = NoTree
  /\ Go(p, "failed")
  /\ UNCHANGED <<staged, raised, found, beside>>

RestoreNothing(p) ==
  /\ step[p] = "restore"
  /\ ~IsThere(backup) \/ MayBeInTheWay(target)
  /\ GoOnly(p, "failed")

\* The result is put together.
Return(p) == step[p] = "return" /\ GoOnly(p, "done")

\* An OSError of the call at hand or a KeyboardInterrupt, whatever the call has done.
RaiseAt(p, here, there, when) ==
  /\ step[p] \in here
  /\ raised' = [raised EXCEPT ![p] = when]
  /\ Go(p, there)
  /\ UNCHANGED <<target, backup, staged, found, beside>>

\* except BaseException: what was published is removed and the backup put back, also
\* when what raised is the removal of the backup after the validation.
Raises(p) ==
  \/ RaiseAt(p, {"inspected"}, "failed", "early")
  \/ RaiseAt(p, {"staging", "staged", "clear", "clearing", "retire", "publish"}, "restore", "early")
  \/ RaiseAt(p, {"validate"}, "undo", "early")
  \* The rename is made and `published` not yet set.
  \/ RaiseAt(p, {"validate"}, "restore", "late")
  \/ RaiseAt(p, {"drop", "dropping", "return"}, "undo", "late")
  \/ RaiseAt(p, {"undo", "undoing", "restore"}, "failed", "late")

Die(p) == Active(p) /\ GoOnly(p, "crashed")

-----------------------------------------------------------------------------
\* Nothing is installed, or a release with other pins or a damaged disk left it.
InstallInit ==
  /\ target \in {NoTree, [by |-> Earlier, valid |-> FALSE, whole |-> TRUE]}
  /\ backup = NoTree
  /\ step = [p \in Installers |-> "idle"]
  /\ staged = [p \in Installers |-> NoTree]
  /\ raised = [p \in Installers |-> "none"]
  /\ found = [p \in Installers |-> NoTree]
  /\ beside = {}

Step(p) ==
  \/ CheckTarget(p) \/ InstallStaged(p) \/ LookAtTarget(p)
  \/ StartRemovingBackup(p, "clear", "clearing", "retire")
  \/ FinishRemovingBackup(p, "clearing", "retire", "restore")
  \/ Retire(p) \/ RetireFails(p) \/ Publish(p) \/ PublishFails(p) \/ Validate(p)
  \/ StartRemovingBackup(p, "drop", "dropping", "return")
  \/ FinishRemovingBackup(p, "dropping", "return", "undo")
  \/ Undo(p) \/ FinishUndo(p) \/ Restore(p) \/ RestoreNothing(p)
  \/ Return(p)

InstallNext == \E p \in Installers : Inspect(p) \/ Step(p) \/ Raises(p) \/ Die(p)

InstallSpec == InstallInit /\ [][InstallNext]_installVars
-----------------------------------------------------------------------------
(* Properties *)

Alone(p) == p \notin beside

Fails(p) == step[p] # "failed" /\ step'[p] = "failed"

\* An error of the clean-up: after the validation, or in the handler.
Late(p) == raised[p] = "late"

\* "The installer removes the invalid installation only after the replacement passes
\* validation": an installer that no other one disturbs has it in one of the two
\* places until then, also if a call of it raises or it dies, and whatever one
\* before it left.
InvalidKept ==
  \A p \in Installers :
    /\ Alone(p) /\ Active(p) /\ ~Late(p)
    /\ step[p] \notin {"drop", "dropping", "return"}
    /\ IsThere(found[p])
    => found[p] \in {target, backup}

\* An undisturbed repair that fails leaves the installation that it found, unless
\* that is half removed, for a backup may take its place then, or what raised is
\* the clean-up: the removal of the backup, or the handler itself.
FailureRestores ==
  [][\A p \in Installers :
       Fails(p) /\ p \notin beside' /\ ~Late(p)' /\ found[p].whole
         => target' = found[p]]_installVars

\* Whatever installers that died, failed or raced left in the two places, one that
\* is run by itself, with --repair if it finds something there, and whose calls do
\* not raise, fails only if what it stages does.
AloneSucceeds ==
  [][\A p \in Installers :
       Fails(p) /\ p \notin beside' /\ raised'[p] = "none" =>
         ~staged[p].valid \/ (IsThere(found[p]) /\ p \notin Repairing)]_installVars

\* "The installer reuses a ready installation": one is taken away only by installers
\* that run beside each other, or by the one that published it when a call of its
\* own raises before it returns.
ReadyStays ==
  [][Ready(target) /\ target' # target =>
       \E p \in Installers :
         /\ step'[p] # step[p]
         /\ p \in beside' \/ (raised[p] # "none" /\ target = staged[p])]_installVars
=============================================================================
