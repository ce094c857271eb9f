-------------------------------- MODULE Backup --------------------------------
(***************************************************************************)
(* Backup generations: one more command of the operator, on top of         *)
(* Retention.  A cut is captured while retention is shared and publication *)
(* exclusive, its closure is leased before retention is given back, and    *)
(* then copied beside publishers that go on, each tree as it is found, and *)
(* read back.  The generation is renamed into place and gets its marker    *)
(* last.                                                                   *)
(*                                                                         *)
(* `request.roots` holds the roots of the cut, `left` what of its closure  *)
(* has still to be copied, `copies` the staging directory and `working` the*)
(* generation.  Its name is a digest of catalog, pins and artifacts; of    *)
(* the catalog only the roots are modelled, so a generation with the same  *)
(* roots may or may not be the same one.  The target is another device: a  *)
(* power loss of the host does not reach it, one of its own is not         *)
(* modelled.                                                               *)
(***************************************************************************)
EXTENDS Retention

CONSTANT MaxGenerations   \* bound on the generations

Generations == 1..MaxGenerations

\* `working` names a batch or a generation.
ASSUME BackupAssumption == MaxGenerations \in 0..MaxBatches

VARIABLES
    generations,   \* what stands under each name in the target
    copies         \* the artifact trees in the staging directory

backupVars == <<generations, copies>>
maintenanceVars == <<allVars, backupVars>>

\* A tree is spoiled when its files are not those of the inventory.
Copies == [Artifacts -> {"none", "whole", "spoiled"}]
NoCopies == [a \in Artifacts |-> "none"]

\* A generation: what its catalog and its pins name, and the trees it holds.
Generation == [state : {"absent", "unmarked", "marked"},
               roots : SUBSET Artifacts, held : Copies]
NoGeneration == [state |-> "absent", roots |-> {}, held |-> NoCopies]

BackupTypeOK ==
    /\ RetentionTypeOK
    /\ generations \in [Generations -> Generation]
    /\ copies \in Copies

BackupInit ==
    /\ RetentionInit
    /\ generations = [g \in Generations |-> NoGeneration]
    /\ copies = NoCopies

-------------------------------------------------------------------------------
(* create_generation *)

\* What successful attempts may have produced, of all that job rows name.  A cut
\* without any root, whose generation is the catalog alone, is left out.
Successful == {as \in SUBSET retained : as \cup PinnedRoots # {}}

\* A staging directory is made and retention.lock taken, shared.
BeginBackup ==
    /\ doing = "nothing"
    /\ Successful # {}
    /\ RetentionShareable
    /\ copies' = NoCopies
    /\ retention' = [retention EXCEPT ![Operator] = "shared"]
    /\ Now("cut")
    /\ KeepStore
    /\ UNCHANGED <<publication, handles, pinVars, retained, request, plan, left, working,
                   trashVars, generations>>

Capturable(roots) ==
    /\ \A i \in PinIds : pins[i].state # "linked"
    /\ Closure(roots) \subseteq Inventory

\* With publication held, the catalog is copied and pins, inventory and closure
\* are read.
CaptureCut(succeeded) ==
    /\ doing = "cut"
    /\ publication = Nobody
    /\ Capturable(succeeded \cup PinnedRoots)
    /\ request' = [NoRequest EXCEPT !.roots = succeeded \cup PinnedRoots]
    /\ left' = Closure(succeeded \cup PinnedRoots)
    /\ Now("leaseCut")
    /\ UNCHANGED <<storeVars, pinVars, retained, plan, working, trashVars, backupVars>>

\* A pin cannot be read, or a root or an input is missing.
CutRefused(succeeded) ==
    /\ doing = "cut"
    /\ publication = Nobody
    /\ ~ Capturable(succeeded \cup PinnedRoots)
    /\ ReleaseOperator
    /\ Finish
    /\ KeepStore
    /\ UNCHANGED <<pinVars, retained, trashVars, backupVars>>

CutLeaseOpens(a) ==
    /\ doing = "leaseCut"
    /\ a \in Missing
    /\ OpenCommitted(Operator, a)
    /\ UNCHANGED <<retentionVars, backupVars>>

\* The closure is leased: retention.lock is released.
EndCut ==
    /\ doing = "leaseCut"
    /\ Missing = {}
    /\ retention' = [retention EXCEPT ![Operator] = "none"]
    /\ Now("copy")
    /\ KeepStore
    /\ UNCHANGED <<publication, handles, pinVars, retained, request, plan, left, working,
                   trashVars, backupVars>>

\* copy_tree_verified: a tree is copied as it stands at the artifact's path.
CopyOne ==
    /\ doing = "copy"
    /\ left # {}
    /\ copies' = [copies EXCEPT ![Smallest(left)] =
           IF Committed(Smallest(left)) THEN "whole" ELSE "spoiled"]
    /\ Now("verify")
    /\ UNCHANGED <<storeVars, pinVars, retained, request, plan, left, working, trashVars,
                   generations>>

\* A write falls short, of which _copy_regular takes no notice, or the disk keeps
\* something else than it was given.
CopySpoiled ==
    /\ doing = "copy"
    /\ left # {}
    /\ Fault("error")
    /\ copies' = [copies EXCEPT ![Smallest(left)] = "spoiled"]
    /\ Now("verify")
    /\ UNCHANGED <<files, locks, handles, step, draft, known, now, pinVars, retained,
                   request, plan, left, working, trashVars, generations>>

\* VerifyCopy, were the copy not read back.
TrustingVerifyCopy ==
    /\ doing = "verify"
    /\ left' = left \ {Smallest(left)}
    /\ Now("copy")
    /\ UNCHANGED <<storeVars, pinVars, retained, request, plan, working, trashVars, backupVars>>

\* The source and the copy read back are what the inventory said.
VerifyCopy ==
    /\ doing = "verify"
    /\ copies[Smallest(left)] = "whole"
    /\ left' = left \ {Smallest(left)}
    /\ Now("copy")
    /\ UNCHANGED <<storeVars, pinVars, retained, request, plan, working, trashVars, backupVars>>

\* They are not: the command raises and leaves its staging directory behind.
CopyRejected ==
    /\ doing = "verify"
    /\ copies[Smallest(left)] # "whole"
    /\ ReleaseOperator
    /\ Finish
    /\ KeepStore
    /\ UNCHANGED <<pinVars, retained, trashVars, backupVars>>

\* The manifest is written and the staging directory renamed.
PlaceGeneration(g) ==
    /\ doing = "copy"
    /\ left = {}
    /\ generations[g].state = "absent"
    /\ generations' = [generations EXCEPT ![g] =
           [state |-> "unmarked", roots |-> request.roots, held |-> copies]]
    /\ copies' = NoCopies
    /\ working' = g
    /\ Now("mark")
    /\ UNCHANGED <<storeVars, pinVars, retained, request, plan, left, trashVars>>

\* A generation of that name is there: it is returned and the staging directory
\* removed, or it is refused for want of a marker.
FindGeneration(g) ==
    /\ doing = "copy"
    /\ left = {}
    /\ generations[g].state # "absent"
    /\ generations[g].roots = request.roots
    /\ copies' = IF generations[g].state = "marked" THEN NoCopies ELSE copies
    /\ ReleaseOperator
    /\ Finish
    /\ KeepStore
    /\ UNCHANGED <<pinVars, retained, trashVars, generations>>

MarkGeneration ==
    /\ doing = "mark"
    /\ generations' = [generations EXCEPT ![working].state = "marked"]
    /\ ReleaseOperator
    /\ Finish
    /\ KeepStore
    /\ UNCHANGED <<pinVars, retained, trashVars, copies>>

\* The target cannot be written: the generation stays as far as it got.
BackupFails ==
    /\ doing \in {"cut", "copy", "mark"}
    /\ Fault("error")
    /\ ReleaseOperator
    /\ Finish
    /\ UNCHANGED <<files, writer, step, draft, known, now, pinVars, retained, trashVars,
                   backupVars>>

BackupStep ==
    \/ BeginBackup
    \/ \E succeeded \in Successful : CaptureCut(succeeded) \/ CutRefused(succeeded)
    \/ \E a \in Artifacts : CutLeaseOpens(a)
    \/ EndCut \/ CopyOne \/ CopySpoiled \/ VerifyCopy \/ CopyRejected
    \/ \E g \in Generations : PlaceGeneration(g) \/ FindGeneration(g)
    \/ MarkGeneration \/ BackupFails

BackupNext == (RetentionNext /\ UNCHANGED backupVars) \/ BackupStep

BackupSpec == BackupInit /\ [][BackupNext]_maintenanceVars

-------------------------------------------------------------------------------
(* Properties. *)

\* What restore_generation checks of a generation before the restored root appears:
\* every root of its catalog and pins is there and so is every input, each tree with
\* the files of its manifest.
Restorable(row) == \A a \in Closure(row.roots) : row.held[a] = "whole"

\* Every generation with a marker can be restored with all that its catalog and
\* pins name, whatever became of the sources while create_generation copied them
\* without retention.lock, and whatever the disk did to a copy.
GenerationsAreWhole ==
    \A g \in Generations : generations[g].state = "marked" => Restorable(generations[g])
===============================================================================
