---------------------------- MODULE RetentionProofs ----------------------------
(* Theorems about Retention and Backup, for any number of processes,          *)
(* artifacts, pins, batches, generations and faults.                          *)
EXTENDS Backup, ArtifactStoreProofs, WellFoundedInduction

-------------------------------------------------------------------------------
(* The inductive invariant.                                                    *)

\* The operator publishes nothing, and holds retention alone while it moves or
\* deletes.
OperatorInv ==
    /\ step[Operator] = "ready"
    /\ doing \in {"move", "purge", "tear"} => retention[Operator] = "exclusive"

\* Whatever is open was verified and synced.
HandlesInv == \A p \in Procs : handles[p] \subseteq opened

\* A batch holds what was moved into it, until its purge; the purge has still to
\* handle whatever is left of it.
BatchInv ==
    /\ \A b \in Batches :
        /\ batches[b].whole \cup batches[b].torn \subseteq batches[b].moved
        /\ batches[b].state \in {"absent", "unmarked"} => batches[b].whole = batches[b].moved
    /\ \A b \in receipts :
        /\ batches[b].state \notin {"absent", "unmarked"}
        /\ batches[b].whole = {} /\ batches[b].torn = {}
    /\ doing = "move" => batches[working].state = "unmarked"
    /\ doing \in {"purge", "tear"} =>
        /\ batches[working].state = "marked"
        /\ batches[working].whole \cup batches[working].torn \subseteq left
    /\ doing = "tear" =>
        /\ Smallest(left) \notin batches[working].whole
        /\ working \notin receipts
    /\ doing = "purge" /\ working \in receipts => left = {}

\* A copy of the cut that is no longer on the list of what is left was read back and
\* found whole, so a generation is placed whole, before it is marked.
CutCopied == \A a \in Closure(request.roots) \ left : copies[a] = "whole"
GenerationInv ==
    /\ \A g \in Generations : generations[g].state # "absent" => Restorable(generations[g])
    /\ doing = "mark" => generations[working].state # "absent"
    /\ doing \in {"leaseCut", "copy", "verify"} => CutCopied

\* The store, beside the operator.
StoreBesideInv == StoreTypeOK /\ CoreLock /\ FileInv /\ OperatorInv /\ HandlesInv

-------------------------------------------------------------------------------
(* The store.                                                                  *)

\* The operator takes or gives back locks and closes handles; nothing else of the
\* store changes.
LocksOnly ==
    /\ UNCHANGED <<tree, disk, writer, step, draft, opened, returned, now>>
    /\ faults' \in 0..MaxFaults
    /\ \/ publication' = publication
       \/ publication = Nobody /\ publication' = Operator
       \/ publication = Operator /\ publication' = Nobody
    /\ \/ retention' = retention
       \/ retention' = [retention EXCEPT ![Operator] = "none"]
       \/ retention' = [retention EXCEPT ![Operator] = "shared"] /\ RetentionShareable
       \/ retention' = [retention EXCEPT ![Operator] = "exclusive"] /\ RetentionFree
    /\ handles' = handles \/ handles' = [handles EXCEPT ![Operator] = {}]

LEMMA LocksOnlyKeep ==
    ASSUME StoreTypeOK, CoreLock, FileInv, HandlesInv, step[Operator] = "ready", LocksOnly
    PROVE  StoreTypeOK' /\ CoreLock' /\ FileInv' /\ HandlesInv' /\ step'[Operator] = "ready"
  <1>1. Operator \in Procs
    BY RetentionAssumption
  <1>2. StoreTypeOK'
    BY <1>1 DEF LocksOnly, StoreTypeOK
  <1>3. CoreLock'
    BY <1>1, ArtifactIds DEF LocksOnly, StoreTypeOK, CoreLock, Installing, RetentionShareable,
                             RetentionFree
  <1>4. \A p \in Procs : handles'[p] \subseteq handles[p]
    BY <1>1 DEF LocksOnly, StoreTypeOK
  <1>5. FileInv'
    BY <1>4 DEF LocksOnly, FileInv, LeasedIsWhole, Durable, Committed, Destination
  <1>6. HandlesInv'
    BY <1>4 DEF LocksOnly, HandlesInv
  <1> QED BY <1>2, <1>3, <1>5, <1>6 DEF LocksOnly

LEMMA HandlesStep ==
    ASSUME StoreTypeOK, CoreLock, HandlesInv, StoreNext PROVE HandlesInv'
  <1>1. ASSUME NEW p \in Procs, NEW a \in Artifacts, OpenCommitted(p, a) PROVE HandlesInv'
    BY <1>1 DEF OpenCommitted, HandlesInv, StoreTypeOK
  <1>2. ASSUME \A q \in Procs : handles'[q] \subseteq handles[q], opened' = opened PROVE HandlesInv'
    BY <1>2 DEF HandlesInv
  <1>3. ASSUME NEW p \in Procs, Conflict(p) PROVE HandlesInv'
    <2>1. handles' = handles /\ \A q \in Procs : handles[q] = {}
      BY <1>3 DEF Conflict, CoreLock
    <2> QED BY <2>1 DEF HandlesInv
  <1>4. CASE PowerLoss \/ Tick
    BY <1>2, <1>4 DEF PowerLoss, StopAll, Tick, known
  <1>5. ASSUME NEW p \in Procs, ProcStep(p), ~Conflict(p),
               \A a \in Artifacts : ~OpenCommitted(p, a)
        PROVE  \A q \in Procs : handles'[q] \subseteq handles[q]
    BY <1>5 DEF ProcStep, CloseHandle, BeginStage, TakeWriter, Abort, BeginCommit,
           PublishTakesRetention, RefuseInputs, InstallRename, Reuse, NeedExclusive, TakeExclusive,
           Quarantine, SyncParent, Mark, SyncRoot, PublishFails, Die, StoreTypeOK
  <1>6. ASSUME NEW p \in Procs, ProcStep(p), ~Conflict(p),
               \A a \in Artifacts : ~OpenCommitted(p, a)
        PROVE  opened' = opened
    BY <1>6 DEF ProcStep, CloseHandle, BeginStage, TakeWriter, Abort, BeginCommit,
           PublishTakesRetention, RefuseInputs, InstallRename, Reuse, NeedExclusive, TakeExclusive,
           Quarantine, SyncParent, Mark, SyncRoot, PublishFails, Die, known
  <1> QED BY <1>1, <1>2, <1>3, <1>4, <1>5, <1>6 DEF StoreNext

\* Another process, a tick or a power loss.
LEMMA StoreStepsKeep ==
    ASSUME StoreTypeOK, CoreLock, FileInv, HandlesInv, StoreNext
    PROVE  StoreTypeOK' /\ CoreLock' /\ FileInv' /\ HandlesInv'
  <1>1. StoreTypeOK'
    BY TypesStep
  <1>2. CoreLock'
    <2>1. CASE PowerLoss
      BY <2>1 DEF PowerLoss, StopAll, CoreLock, Installing
    <2>2. CASE Tick
      BY <2>2 DEF Tick, CoreLock, locks
    <2> QED BY <2>1, <2>2, CoreProc DEF StoreNext
  <1>3. FileInv'
    <2>1. CASE Tick
      <3>1. UNCHANGED <<tree, disk, handles, step, draft, opened, returned>>
        BY <2>1 DEF Tick, files, known
      <3> QED BY <3>1 DEF FileInv, LeasedIsWhole, Durable, Committed, Destination
    <2>2. ASSUME NEW p \in Procs, ProcStep(p) PROVE FileInv'
      BY <2>2, FilesQuiet, FilesInstallRename, FilesMark, FilesSync, FilesReplace DEF ProcStep
    <2> QED BY <2>1, <2>2, FilesPowerLoss DEF StoreNext
  <1> QED BY <1>1, <1>2, <1>3, HandlesStep

\* The collector's next artifact is one of those left.
LEMMA SmallestIsOne ==
    ASSUME NEW as \in SUBSET Nat, as # {} PROVE Smallest(as) \in as
  <1>1. PICK a \in as : \A b \in as : ~(<<b, a>> \in OpToRel(<, Nat))
    BY NatLessThanWellFounded, WFMin, Zenon
  <1>2. \A b \in as : a <= b
    <2> SUFFICES ASSUME NEW b \in as PROVE a <= b
      OBVIOUS
    <2>1. a \in Nat /\ b \in Nat
      OBVIOUS
    <2>2. ~(b < a)
      BY <1>1, <2>1 DEF OpToRel
    <2> QED BY <2>1, <2>2
  <1> QED BY <1>2, Zenon DEF Smallest

-------------------------------------------------------------------------------
(* What the operator does to the store.                                        *)

LEMMA FaultTypes ==
    ASSUME StoreTypeOK, NEW kind, Fault(kind) PROVE faults' \in 0..MaxFaults
  BY StoreAssumption DEF Fault, StoreTypeOK

LEMMA ReleaseLocks ==
    ASSUME StoreTypeOK, ReleaseOperator, faults' \in 0..MaxFaults,
           UNCHANGED <<files, writer, step, draft, known, now>>
    PROVE  LocksOnly
  BY DEF LocksOnly, ReleaseOperator, files, known

LEMMA KeepLocks ==
    ASSUME StoreTypeOK, UNCHANGED storeVars PROVE LocksOnly
  BY DEF LocksOnly, StoreTypeOK, storeVars, files, locks, known

\* The steps that do not write to the store, by command.
PinQuiet ==
    \/ \E i \in PinIds, roots \in RootSets : BeginPin(i, roots)
    \/ LeaseFails \/ LinkPin \/ RefusePin \/ FindPin \/ SyncPin \/ IndexPin \/ IndexFails
    \/ \E i \in PinIds : RetirePin(i) \/ RetireAgain(i)
    \/ SyncRetired
CollectQuiet ==
    \/ PlanSweep \/ SweepRefused \/ MarkBatch
    \/ \E b \in Batches : BeginMoving(b) \/ BeginPurge(b)
    \/ TearOne \/ DeleteOne \/ PurgeRefused \/ WriteReceipt \/ RemoveBatch
QueueQuiet == \E a \in Artifacts : Retain(a) \/ LetGo(a)
BackupQuiet ==
    \/ BeginBackup
    \/ \E succeeded \in Successful : CaptureCut(succeeded) \/ CutRefused(succeeded)
    \/ EndCut \/ CopyOne \/ CopySpoiled \/ VerifyCopy \/ CopyRejected
    \/ \E g \in Generations : PlaceGeneration(g) \/ FindGeneration(g)
    \/ MarkGeneration \/ BackupFails

LEMMA PinLocks == ASSUME StoreTypeOK, PinQuiet PROVE LocksOnly
  <1>1. CASE LeaseFails \/ RefusePin \/ FindPin \/ SyncPin \/ SyncRetired
    <2>1. ReleaseOperator /\ KeepStore
      BY <1>1 DEF LeaseFails, RefusePin, FindPin, SyncPin, SyncRetired
    <2> QED BY <2>1, ReleaseLocks DEF KeepStore, StoreTypeOK
  <1>2. CASE LinkPin
    BY <1>2 DEF LinkPin, LocksOnly, KeepStore, files, known, StoreTypeOK
  <1>3. CASE IndexFails
    BY <1>3, FaultTypes DEF IndexFails, LocksOnly, files, locks, known
  <1>4. ASSUME NEW i \in PinIds, RetirePin(i) PROVE LocksOnly
    BY <1>4 DEF RetirePin, LocksOnly, KeepStore, files, known, StoreTypeOK
  <1>5. CASE \/ \E i \in PinIds, roots \in RootSets : BeginPin(i, roots)
             \/ \E i \in PinIds : RetireAgain(i)
             \/ IndexPin
    BY <1>5, KeepLocks DEF BeginPin, RetireAgain, IndexPin
  <1> QED BY <1>1, <1>2, <1>3, <1>4, <1>5 DEF PinQuiet

LEMMA CollectLocks == ASSUME StoreTypeOK, CollectQuiet PROVE LocksOnly
  <1>1. CASE MarkBatch \/ PurgeRefused \/ RemoveBatch
    <2>1. ReleaseOperator /\ KeepStore
      BY <1>1 DEF MarkBatch, PurgeRefused, RemoveBatch
    <2> QED BY <2>1, ReleaseLocks DEF KeepStore, StoreTypeOK
  <1>2. ASSUME NEW b \in Batches, BeginMoving(b) \/ BeginPurge(b) PROVE LocksOnly
    BY <1>2 DEF BeginMoving, BeginPurge, LocksOnly, KeepStore, files, known, StoreTypeOK
  <1>3. CASE PlanSweep \/ SweepRefused \/ TearOne \/ DeleteOne \/ WriteReceipt
    BY <1>3, KeepLocks DEF PlanSweep, SweepRefused, TearOne, DeleteOne, WriteReceipt
  <1> QED BY <1>1, <1>2, <1>3 DEF CollectQuiet

LEMMA BackupLocks == ASSUME StoreTypeOK, BackupQuiet PROVE LocksOnly
  <1>1. ASSUME ReleaseOperator, KeepStore PROVE LocksOnly
    BY <1>1, ReleaseLocks DEF KeepStore, StoreTypeOK
  <1>2. CASE MarkGeneration \/ (\E g \in Generations : FindGeneration(g)) \/ CopyRejected
             \/ \E succeeded \in Successful : CutRefused(succeeded)
    BY <1>1, <1>2 DEF MarkGeneration, FindGeneration, CutRefused, CopyRejected
  <1>3. CASE BackupFails
    BY <1>3, FaultTypes, ReleaseLocks DEF BackupFails
  <1>6. CASE CopySpoiled
    BY <1>6, FaultTypes DEF CopySpoiled, LocksOnly, files, locks, known
  <1>4. CASE BeginBackup \/ EndCut
    BY <1>4 DEF BeginBackup, EndCut, LocksOnly, KeepStore, files, known, StoreTypeOK
  <1>5. CASE \/ CopyOne \/ VerifyCopy \/ (\E g \in Generations : PlaceGeneration(g))
             \/ \E succeeded \in Successful : CaptureCut(succeeded)
    BY <1>5, KeepLocks DEF CopyOne, VerifyCopy, PlaceGeneration, CaptureCut
  <1> QED BY <1>2, <1>3, <1>4, <1>5, <1>6 DEF BackupQuiet

\* Every step is one of the store beside the operator, the opening of an artifact
\* by the operator, a power loss, the moving of a candidate, or quiet.
LEMMA StepKinds ==
    ASSUME [BackupNext]_maintenanceVars
    PROVE  \/ /\ UNCHANGED backupVars
              /\ \/ Others \/ HostLosesPower \/ MoveOne
                 \/ \E a \in Artifacts : LeaseOpens(a) \/ CutLeaseOpens(a)
                 \/ PinQuiet \/ CollectQuiet \/ QueueQuiet \/ OperatorDies
           \/ BackupQuiet
           \/ UNCHANGED maintenanceVars
  BY DEF BackupNext, RetentionNext, BackupStep, PinStep, CollectStep, PinQuiet, CollectQuiet,
         QueueQuiet, BackupQuiet, CutLeaseOpens

LEMMA QuietLocks ==
    ASSUME StoreTypeOK,
           \/ PinQuiet \/ CollectQuiet \/ QueueQuiet \/ BackupQuiet \/ OperatorDies
           \/ UNCHANGED maintenanceVars
    PROVE  LocksOnly
  <1>1. CASE OperatorDies
    BY <1>1, FaultTypes, ReleaseLocks DEF OperatorDies
  <1>2. CASE QueueQuiet \/ UNCHANGED maintenanceVars
    BY <1>2, KeepLocks DEF QueueQuiet, Retain, LetGo, maintenanceVars, allVars
  <1> QED BY <1>1, <1>2, PinLocks, CollectLocks, BackupLocks

-------------------------------------------------------------------------------
(* Types.                                                                      *)

Places == {"nothing", "lease", "syncPin", "indexPin", "syncRetired", "sweep", "move", "purge",
           "tear", "cut", "leaseCut", "copy", "verify", "mark"}

\* What the operator keeps.
OpTypes ==
    /\ retained \subseteq Artifacts
    /\ doing \in Places
    /\ request \in Request
    /\ plan \in Plan
    /\ left \subseteq Artifacts
    /\ working \in 0..MaxBatches
\* What it keeps in files.
FileTypes ==
    /\ pins \in [PinIds -> PinRow]
    /\ pinDisk \in [PinIds -> PinRow]
    /\ indexed \subseteq PinIds
    /\ batches \in [Batches -> BatchRow]
    /\ receipts \subseteq Batches
    /\ generations \in [Generations -> Generation]
    /\ copies \in Copies

LEMMA TypeParts == BackupTypeOK <=> StoreTypeOK /\ OpTypes /\ FileTypes
  BY DEF BackupTypeOK, RetentionTypeOK, OpTypes, FileTypes, Places

\* What the operator is about to work on exists.
NamedInv ==
    /\ doing \in {"lease", "syncPin", "indexPin"} => request.id \in PinIds
    /\ doing \in {"move", "purge", "tear"} => working \in Batches
    /\ doing = "mark" => working \in Generations

LEMMA Nothings ==
    /\ NoRequest \in Request /\ NoPlan \in Plan /\ NoPin \in PinRow /\ NoBatch \in BatchRow
    /\ NoCopies \in Copies /\ NoGeneration \in Generation
    /\ MaxBatches \in Nat /\ 0 \in 0..MaxBatches
  BY RetentionAssumption DEF NoRequest, Request, NoPlan, Plan, NoPin, PinRow, NoBatch, BatchRow,
     NoCopies, Copies, NoGeneration, Generation

LEMMA ClosureIsArtifacts == ASSUME NEW roots PROVE Closure(roots) \subseteq Artifacts
  BY DEF Closure

LEMMA FinishTypes == ASSUME OpTypes, Finish, retained' = retained PROVE OpTypes'
  BY Nothings DEF OpTypes, Finish, Now, Places

LEMMA SweepPlanType ==
    ASSUME OpTypes, FileTypes, StoreTypeOK, NEW t \in Nat PROVE SweepPlan(retained, t) \in Plan
  <1>1. PinnedRoots \subseteq Artifacts
    BY DEF PinnedRoots, Active, FileTypes, PinRow
  <1>2. Fitting(Unprotected(retained, t)) \subseteq Artifacts
    <2>1. Unprotected(retained, t) \in SUBSET Artifacts
      BY DEF Unprotected, Inventory
    <2> QED BY <2>1, FittingAssumption
  <1>3. retained \subseteq Artifacts
    BY DEF OpTypes
  <1> QED BY <1>1, <1>2, <1>3 DEF SweepPlan, Plan

TypesHold == StoreTypeOK /\ OpTypes /\ FileTypes /\ NamedInv

\* A command ends: only what it keeps in files may have changed.
LEMMA EndedTypes ==
    ASSUME TypesHold, Finish, retained' = retained, FileTypes'
    PROVE  OpTypes' /\ FileTypes' /\ NamedInv'
  BY FinishTypes DEF TypesHold, Finish, Now, NamedInv

LEMMA PinRowTypes ==
    ASSUME NEW roots \in SUBSET Artifacts, NEW t \in Nat, NEW row \in PinRow
    PROVE  /\ [state |-> "linked", roots |-> roots, at |-> t] \in PinRow
           /\ [row EXCEPT !.state = "active"] \in PinRow
           /\ [row EXCEPT !.state = "retired"] \in PinRow
           /\ \A i \in PinIds : [id |-> i, roots |-> roots, at |-> t] \in Request
           /\ \A i \in PinIds : [NoRequest EXCEPT !.id = i] \in Request
           /\ [NoRequest EXCEPT !.roots = roots] \in Request
  <1>1. /\ [state |-> "linked", roots |-> roots, at |-> t] \in PinRow
        /\ [row EXCEPT !.state = "active"] \in PinRow
        /\ [row EXCEPT !.state = "retired"] \in PinRow
    BY Zenon DEF PinRow
  <1>2. \A i \in PinIds : [id |-> i, roots |-> roots, at |-> t] \in Request
    BY DEF Request
  <1>3. /\ \A i \in PinIds : [NoRequest EXCEPT !.id = i] \in Request
        /\ [NoRequest EXCEPT !.roots = roots] \in Request
    BY Nothings DEF Request, NoRequest
  <1> QED BY <1>1, <1>2, <1>3

LEMMA PinTypes ==
    ASSUME TypesHold, PinQuiet, generations' = generations, copies' = copies
    PROVE  OpTypes' /\ FileTypes' /\ NamedInv'
  <1> USE DEF TypesHold
  <1>0. /\ now \in Nat /\ request.roots \in SUBSET Artifacts /\ request.at \in Nat
        /\ \A i \in PinIds : pins[i] \in PinRow
    BY StoreAssumption DEF StoreTypeOK, OpTypes, FileTypes, Request
  <1>1. ASSUME NEW i \in PinIds, NEW roots \in RootSets, BeginPin(i, roots)
        PROVE  OpTypes' /\ FileTypes' /\ NamedInv'
    <2>1. roots \in SUBSET Artifacts
      BY RetentionAssumption
    <2>2. request' \in Request /\ request'.id = i /\ doing' = "lease"
      BY <1>0, <1>1, <2>1, PinRowTypes, Nothings DEF BeginPin, Now
    <2>3. UNCHANGED <<pinVars, retained, plan, left, working, trashVars>>
      BY <1>1 DEF BeginPin
    <2> QED BY <2>2, <2>3 DEF OpTypes, FileTypes, NamedInv, pinVars, trashVars, Places
  <1>2. CASE LeaseFails
    BY <1>2, EndedTypes DEF LeaseFails, FileTypes, pinVars, trashVars
  <1>3. CASE LinkPin
    <2>1. /\ pins' = [pins EXCEPT ![request.id] =
                         [state |-> "linked", roots |-> request.roots, at |-> request.at]]
          /\ doing = "lease" /\ doing' = "syncPin"
          /\ UNCHANGED <<pinDisk, indexed, retained, request, plan, left, working, trashVars>>
      BY <1>3 DEF LinkPin, Now
    <2>2. request.id \in PinIds
      BY <2>1 DEF NamedInv
    <2>3. pins' \in [PinIds -> PinRow]
      BY <1>0, <2>1, <2>2, PinRowTypes, Nothings DEF FileTypes
    <2> QED BY <2>1, <2>2, <2>3 DEF OpTypes, FileTypes, NamedInv, trashVars, Places
  <1>4. CASE RefusePin
    BY <1>4, EndedTypes DEF RefusePin, FileTypes, trashVars
  <1>5. CASE FindPin
    <2>1. /\ pinDisk' = pins /\ doing = "lease" /\ doing' = "indexPin"
          /\ UNCHANGED <<pins, indexed, retained, request, plan, left, working, trashVars>>
      BY <1>5 DEF FindPin, Now
    <2> QED BY <2>1 DEF OpTypes, FileTypes, NamedInv, trashVars, Places
  <1>6. CASE SyncPin
    <2>1. /\ pins' = [pins EXCEPT ![request.id].state = "active"]
          /\ pinDisk' = pins' /\ doing = "syncPin" /\ doing' = "indexPin"
          /\ UNCHANGED <<indexed, retained, request, plan, left, working, trashVars>>
      BY <1>6 DEF SyncPin, Now
    <2>2. request.id \in PinIds
      BY <2>1 DEF NamedInv
    <2>3. [pins[request.id] EXCEPT !.state = "active"] \in PinRow
      BY <1>0, <2>2, PinRowTypes
    <2>4. pins' \in [PinIds -> PinRow]
      BY <2>1, <2>3 DEF FileTypes
    <2> QED BY <2>1, <2>2, <2>4 DEF OpTypes, FileTypes, NamedInv, trashVars, Places
  <1>7. CASE IndexPin
    <2>1. FileTypes'
      BY <1>7 DEF IndexPin, FileTypes, NamedInv, trashVars
    <2> QED BY <1>7, <2>1, EndedTypes DEF IndexPin
  <1>8. CASE IndexFails
    BY <1>8, EndedTypes DEF IndexFails, FileTypes, pinVars, trashVars
  <1>9. ASSUME NEW i \in PinIds, RetirePin(i) PROVE OpTypes' /\ FileTypes' /\ NamedInv'
    <2>1. /\ pins' = [pins EXCEPT ![i].state = "retired"]
          /\ request' = [NoRequest EXCEPT !.id = i] /\ doing' = "syncRetired"
          /\ UNCHANGED <<pinDisk, indexed, retained, plan, left, working, trashVars>>
      BY <1>9 DEF RetirePin, Now
    <2>2. [pins[i] EXCEPT !.state = "retired"] \in PinRow /\ request' \in Request
      BY <1>0, <2>1, PinRowTypes
    <2>3. pins' \in [PinIds -> PinRow]
      BY <2>1, <2>2 DEF FileTypes
    <2> QED BY <2>1, <2>2, <2>3 DEF OpTypes, FileTypes, NamedInv, trashVars, Places
  <1>10. ASSUME NEW i \in PinIds, RetireAgain(i) PROVE OpTypes' /\ FileTypes' /\ NamedInv'
    BY <1>10 DEF RetireAgain, OpTypes, FileTypes, NamedInv, opVars, trashVars
  <1>11. CASE SyncRetired
    <2>1. FileTypes'
      BY <1>11 DEF SyncRetired, FileTypes, trashVars
    <2> QED BY <1>11, <2>1, EndedTypes DEF SyncRetired
  <1> QED BY <1>1, <1>2, <1>3, <1>4, <1>5, <1>6, <1>7, <1>8, <1>9, <1>10, <1>11 DEF PinQuiet

LEMMA BatchRowTypes ==
    ASSUME NEW row \in BatchRow, NEW t \in Nat, NEW as \in SUBSET Artifacts, NEW bs \in SUBSET Artifacts
    PROVE  /\ [row EXCEPT !.state = "unmarked"] \in BatchRow
           /\ [row EXCEPT !.state = "removed"] \in BatchRow
           /\ [row EXCEPT !.state = "marked", !.at = t] \in BatchRow
           /\ [row EXCEPT !.whole = as, !.torn = bs] \in BatchRow
           /\ [row EXCEPT !.moved = as, !.whole = bs] \in BatchRow
           /\ [row EXCEPT !.torn = {}] \in BatchRow
  <1>1. {} \in SUBSET Artifacts
    OBVIOUS
  <1> QED BY <1>1, Zenon DEF BatchRow

\* The steps that leave pins, job roots and generations alone.
LEMMA CollectTypes ==
    ASSUME TypesHold, CollectQuiet, generations' = generations, copies' = copies
    PROVE  OpTypes' /\ FileTypes' /\ NamedInv'
  <1> USE DEF TypesHold
  <1>0. /\ now \in Nat /\ \A b \in Batches : batches[b] \in BatchRow
        /\ \A b \in Batches : batches[b].moved \in SUBSET Artifacts
        /\ \A b \in Batches : batches[b].whole \in SUBSET Artifacts
        /\ \A b \in Batches : batches[b].torn \in SUBSET Artifacts
        /\ \A b \in Batches : b \in 0..MaxBatches
        /\ plan.candidates \in SUBSET Artifacts
    BY RetentionAssumption, StoreAssumption DEF StoreTypeOK, FileTypes, BatchRow, OpTypes, Plan, Batches
  <1>1. CASE PlanSweep
    <2>1. plan' \in Plan /\ doing' = "sweep"
      BY <1>0, <1>1, SweepPlanType DEF PlanSweep, Now
    <2> QED BY <1>1, <2>1 DEF PlanSweep, OpTypes, FileTypes, NamedInv, pinVars, trashVars, Places
  <1>2. CASE SweepRefused
    BY <1>2, EndedTypes DEF SweepRefused, FileTypes, pinVars, trashVars
  <1>3. CASE MarkBatch
    <2>1. /\ batches' = [batches EXCEPT ![working].state = "marked", ![working].at = now]
          /\ UNCHANGED <<pinVars, retained, receipts>> /\ Finish
      BY <1>3 DEF MarkBatch
    <2>2. batches' \in [Batches -> BatchRow]
      BY <1>0, <2>1, BatchRowTypes, Zenon DEF FileTypes
    <2> QED BY <2>1, <2>2, EndedTypes DEF FileTypes, pinVars
  <1>4. ASSUME NEW b \in Batches, BeginMoving(b) PROVE OpTypes' /\ FileTypes' /\ NamedInv'
    <2>1. /\ batches' = [batches EXCEPT ![b].state = "unmarked"]
          /\ working' = b /\ left' = plan.candidates /\ doing' = "move"
          /\ UNCHANGED <<pinVars, retained, request, plan, receipts>>
      BY <1>4 DEF BeginMoving, Now
    <2>2. [batches[b] EXCEPT !.state = "unmarked"] \in BatchRow
      BY <1>0, BatchRowTypes
    <2>3. batches' \in [Batches -> BatchRow]
      BY <2>1, <2>2 DEF FileTypes
    <2> QED BY <1>0, <2>1, <2>3 DEF OpTypes, FileTypes, NamedInv, pinVars, Places
  <1>5. ASSUME NEW b \in Batches, BeginPurge(b) PROVE OpTypes' /\ FileTypes' /\ NamedInv'
    <2>1. /\ working' = b /\ left' = batches[b].moved /\ doing' = "purge"
          /\ UNCHANGED <<pinVars, retained, request, plan, trashVars>>
      BY <1>5 DEF BeginPurge, Now
    <2> QED BY <1>0, <2>1 DEF OpTypes, FileTypes, NamedInv, pinVars, trashVars, Places
  <1>6. CASE TearOne
    <2> PICK a : a = Smallest(left)
      OBVIOUS
    <2>1. /\ a \in batches[working].whole
          /\ batches' = [batches EXCEPT ![working].whole = batches[working].whole \ {a},
                                        ![working].torn = batches[working].torn \cup {a}]
          /\ doing' = "tear"
          /\ UNCHANGED <<pinVars, retained, request, plan, left, working, receipts>>
      BY <1>6 DEF TearOne, Now
    <2>2. ASSUME working \in Batches
          PROVE  [batches[working] EXCEPT !.whole = batches[working].whole \ {a},
                                          !.torn = batches[working].torn \cup {a}] \in BatchRow
      BY <1>0, <2>1, <2>2, BatchRowTypes
    <2>3. batches' \in [Batches -> BatchRow]
      BY <2>1, <2>2 DEF FileTypes
    <2> QED BY <2>1, <2>3 DEF OpTypes, FileTypes, NamedInv, pinVars, Places
  <1>7. CASE DeleteOne
    <2>1. /\ batches' = [batches EXCEPT ![working].torn = {}]
          /\ left' \subseteq left /\ doing' = "purge"
          /\ UNCHANGED <<pinVars, retained, request, plan, working, receipts>>
      BY <1>7 DEF DeleteOne, Now
    <2>2. ASSUME working \in Batches PROVE [batches[working] EXCEPT !.torn = {}] \in BatchRow
      BY <1>0, <2>2, BatchRowTypes
    <2>3. batches' \in [Batches -> BatchRow]
      BY <2>1, <2>2 DEF FileTypes
    <2> QED BY <2>1, <2>3 DEF OpTypes, FileTypes, NamedInv, pinVars, Places
  <1>8. CASE PurgeRefused
    BY <1>8, EndedTypes DEF PurgeRefused, FileTypes, pinVars, trashVars
  <1>9. CASE WriteReceipt /\ working \in Batches
    BY <1>9 DEF WriteReceipt, OpTypes, FileTypes, NamedInv, pinVars, opVars
  <1>10. CASE RemoveBatch
    <2>1. /\ batches' = [batches EXCEPT ![working].state = "removed"]
          /\ UNCHANGED <<pinVars, retained, receipts>> /\ Finish
      BY <1>10 DEF RemoveBatch
    <2>2. ASSUME working \in Batches PROVE [batches[working] EXCEPT !.state = "removed"] \in BatchRow
      BY <1>0, <2>2, BatchRowTypes
    <2>3. batches' \in [Batches -> BatchRow]
      BY <2>1, <2>2 DEF FileTypes
    <2> QED BY <2>1, <2>3, EndedTypes DEF FileTypes, pinVars
  <1>11. WriteReceipt => working \in Batches
    BY DEF WriteReceipt, NamedInv
  <1> QED BY <1>1, <1>2, <1>3, <1>4, <1>5, <1>6, <1>7, <1>8, <1>9, <1>10, <1>11 DEF CollectQuiet

LEMMA QueueTypes ==
    ASSUME TypesHold, QueueQuiet, generations' = generations, copies' = copies
    PROVE  OpTypes' /\ FileTypes' /\ NamedInv'
  <1>1. /\ \E a \in Artifacts : retained' = retained \cup {a} \/ retained' = retained \ {a}
        /\ UNCHANGED <<pinVars, opVars, trashVars>>
    BY DEF QueueQuiet, Retain, LetGo
  <1> QED BY <1>1 DEF TypesHold, OpTypes, FileTypes, NamedInv, pinVars, opVars, trashVars, Places

LEMMA GenerationTypes ==
    ASSUME NEW row \in Generation, NEW roots \in SUBSET Artifacts, NEW trees \in Copies
    PROVE  /\ [state |-> "unmarked", roots |-> roots, held |-> trees] \in Generation
           /\ [row EXCEPT !.state = "marked"] \in Generation
           /\ [NoRequest EXCEPT !.roots = roots] \in Request
  <1>1. /\ [state |-> "unmarked", roots |-> roots, held |-> trees] \in Generation
        /\ [row EXCEPT !.state = "marked"] \in Generation
    BY Zenon DEF Generation
  <1>2. [NoRequest EXCEPT !.roots = roots] \in Request
    BY Nothings DEF Request, NoRequest
  <1> QED BY <1>1, <1>2

LEMMA CopiesTypes ==
    ASSUME NEW trees \in Copies, NEW a
    PROVE  /\ [trees EXCEPT ![a] = "whole"] \in Copies
           /\ [trees EXCEPT ![a] = "spoiled"] \in Copies
  BY DEF Copies

LEMMA BackupTypes ==
    ASSUME TypesHold, BackupQuiet PROVE OpTypes' /\ FileTypes' /\ NamedInv'
  <1> USE DEF TypesHold
  <1>0. /\ request.roots \in SUBSET Artifacts
        /\ copies \in Copies /\ NoCopies \in Copies
        /\ \A g \in Generations : generations[g] \in Generation
        /\ \A g \in Generations : g \in 0..MaxBatches
    BY RetentionAssumption, BackupAssumption, Nothings DEF OpTypes, FileTypes, Request, Generations
  <1>1. CASE BeginBackup
    BY <1>0, <1>1 DEF BeginBackup, Now, OpTypes, FileTypes, NamedInv, pinVars, trashVars, Places
  <1>2. ASSUME NEW succeeded \in Successful, CaptureCut(succeeded)
        PROVE  OpTypes' /\ FileTypes' /\ NamedInv'
    <2>1. succeeded \cup PinnedRoots \in SUBSET Artifacts
      <3>1. PinnedRoots \subseteq Artifacts
        BY DEF PinnedRoots, Active, FileTypes, PinRow
      <3> QED BY <3>1 DEF Successful, OpTypes
    <2>2. request' \in Request
      BY <1>2, <2>1, GenerationTypes, PinRowTypes, Nothings DEF CaptureCut
    <2>3. left' \subseteq Artifacts
      BY <1>2, ClosureIsArtifacts DEF CaptureCut
    <2> QED BY <1>2, <2>2, <2>3
            DEF CaptureCut, Now, OpTypes, FileTypes, NamedInv, pinVars, trashVars, backupVars, Places
  <1>3. CASE \/ \E succeeded \in Successful : CutRefused(succeeded)
             \/ CopyRejected \/ BackupFails
    <2>1. Finish /\ UNCHANGED <<pinVars, retained, trashVars, backupVars>>
      BY <1>3 DEF CutRefused, CopyRejected, BackupFails
    <2> QED BY <2>1, EndedTypes DEF FileTypes, pinVars, trashVars, backupVars
  <1>4. ASSUME NEW g \in Generations, FindGeneration(g)
        PROVE  OpTypes' /\ FileTypes' /\ NamedInv'
    <2>1. Finish /\ UNCHANGED <<pinVars, retained, trashVars, generations>> /\ copies' \in Copies
      BY <1>0, <1>4 DEF FindGeneration
    <2> QED BY <2>1, EndedTypes DEF FileTypes, pinVars, trashVars
  <1>5. CASE EndCut \/ VerifyCopy
    <2>1. /\ left' \subseteq left /\ doing' = "copy"
          /\ UNCHANGED <<pinVars, retained, request, plan, working, trashVars, backupVars>>
      BY <1>5 DEF EndCut, VerifyCopy, Now
    <2> QED BY <2>1 DEF OpTypes, FileTypes, NamedInv, pinVars, trashVars, backupVars, Places
  <1>8. CASE CopyOne \/ CopySpoiled
    <2>1. copies' \in Copies
      BY <1>0, <1>8, CopiesTypes DEF CopyOne, CopySpoiled
    <2>2. /\ doing' = "verify"
          /\ UNCHANGED <<pinVars, retained, request, plan, left, working, trashVars, generations>>
      BY <1>8 DEF CopyOne, CopySpoiled, Now
    <2> QED BY <2>1, <2>2 DEF OpTypes, FileTypes, NamedInv, pinVars, trashVars, Places
  <1>6. ASSUME NEW g \in Generations, PlaceGeneration(g)
        PROVE  OpTypes' /\ FileTypes' /\ NamedInv'
    <2>1. [state |-> "unmarked", roots |-> request.roots, held |-> copies] \in Generation
      BY <1>0, GenerationTypes, Nothings
    <2>2. generations' \in [Generations -> Generation] /\ copies' \in Copies
      BY <1>0, <1>6, <2>1 DEF PlaceGeneration, FileTypes
    <2> QED BY <1>0, <1>6, <2>2
            DEF PlaceGeneration, Now, OpTypes, FileTypes, NamedInv, pinVars, trashVars, Places
  <1>7. CASE MarkGeneration
    <2>1. working \in Generations
      BY <1>7 DEF MarkGeneration, NamedInv
    <2>2. [generations[working] EXCEPT !.state = "marked"] \in Generation
      BY <1>0, <2>1, GenerationTypes
    <2>3. generations' \in [Generations -> Generation] /\ copies' \in Copies
      BY <1>0, <1>7, <2>2 DEF MarkGeneration, FileTypes
    <2> QED BY <1>7, <2>3, EndedTypes DEF MarkGeneration, FileTypes, pinVars, trashVars
  <1> QED BY <1>1, <1>2, <1>3, <1>4, <1>5, <1>6, <1>7, <1>8 DEF BackupQuiet

\* The next candidate leaves its place in the store for the batch.
LEMMA MovingTypes ==
    ASSUME TypesHold, MoveOne, generations' = generations, copies' = copies
    PROVE  OpTypes' /\ FileTypes' /\ NamedInv'
  <1> USE DEF TypesHold
  <1> PICK a : a = Smallest(left)
    OBVIOUS
  <1>1. a \in Artifacts
    <2>1. left \in SUBSET Nat /\ left # {} /\ left \subseteq Artifacts
      BY ArtifactIds DEF MoveOne, OpTypes
    <2> QED BY <2>1, SmallestIsOne
  <1>2. /\ batches' = [batches EXCEPT ![working].moved = batches[working].moved \cup {a},
                                      ![working].whole = batches[working].whole \cup {a}]
        /\ left' = left \ {a} /\ doing = "move"
        /\ UNCHANGED <<pinVars, retained, doing, request, plan, working, receipts>>
    BY DEF MoveOne
  <1>3. working \in Batches
    BY <1>2 DEF NamedInv
  <1>4. batches[working].moved \cup {a} \in SUBSET Artifacts
        /\ batches[working].whole \cup {a} \in SUBSET Artifacts
        /\ batches[working] \in BatchRow
    BY <1>1, <1>3 DEF FileTypes, BatchRow
  <1>5. [batches[working] EXCEPT !.moved = batches[working].moved \cup {a},
                                 !.whole = batches[working].whole \cup {a}] \in BatchRow
    BY <1>4, BatchRowTypes, Nothings
  <1>6. batches' \in [Batches -> BatchRow]
    BY <1>2, <1>5 DEF FileTypes
  <1> QED BY <1>2, <1>6 DEF OpTypes, FileTypes, NamedInv, pinVars

LEMMA OtherTypes ==
    ASSUME TypesHold, generations' = generations, copies' = copies,
           \/ Others \/ HostLosesPower \/ OperatorDies
           \/ \E a \in Artifacts : LeaseOpens(a) \/ CutLeaseOpens(a)
           \/ UNCHANGED maintenanceVars
    PROVE  OpTypes' /\ FileTypes' /\ NamedInv'
  <1> USE DEF TypesHold
  <1>1. CASE UNCHANGED retentionVars
    BY <1>1 DEF retentionVars, OpTypes, FileTypes, NamedInv, pinVars, opVars, trashVars
  <1>2. CASE HostLosesPower
    <2>1. /\ pins' \in [PinIds -> {pins[i] : i \in PinIds} \cup {pinDisk[i] : i \in PinIds}]
          /\ pinDisk' = pins' /\ Finish /\ UNCHANGED <<indexed, retained, trashVars>>
      BY <1>2 DEF HostLosesPower
    <2>2. {pins[i] : i \in PinIds} \cup {pinDisk[i] : i \in PinIds} \subseteq PinRow
      BY DEF FileTypes
    <2>3. pins' \in [PinIds -> PinRow]
      BY <2>1, <2>2
    <2> QED BY <2>1, <2>3, EndedTypes DEF FileTypes, trashVars
  <1>3. CASE OperatorDies
    BY <1>3, EndedTypes DEF OperatorDies, FileTypes, pinVars, trashVars
  <1> QED BY <1>1, <1>2, <1>3 DEF Others, LeaseOpens, CutLeaseOpens, maintenanceVars, allVars

-------------------------------------------------------------------------------
(* The store, beside the operator.                                             *)

\* What is left to move is in its place.
MoveInv == doing = "move" => \A a \in left : Committed(a)

\* Another process leaves alone what the operator holds.
LEMMA OthersLeaveOperator ==
    ASSUME StoreTypeOK, NEW p \in Procs \ {Operator}, ProcStep(p)
    PROVE  /\ step'[Operator] = step[Operator] /\ retention'[Operator] = retention[Operator]
           /\ handles'[Operator] = handles[Operator]
  <1>1. Operator \in Procs
    BY RetentionAssumption
  <1>2. ASSUME Leave(p), handles' = handles
        PROVE  /\ step'[Operator] = step[Operator] /\ retention'[Operator] = retention[Operator]
               /\ handles'[Operator] = handles[Operator]
    BY <1>1, <1>2 DEF Leave, StoreTypeOK
  <1>3. CASE \/ Abort(p) \/ RefuseInputs(p) \/ Reuse(p) \/ Conflict(p) \/ SyncRoot(p)
             \/ PublishFails(p)
    BY <1>2, <1>3 DEF Abort, RefuseInputs, Reuse, Conflict, SyncRoot, PublishFails
  <1>4. CASE \/ \E a \in Artifacts : OpenCommitted(p, a) \/ CloseHandle(p, a) \/ BeginStage(p, a)
             \/ TakeWriter(p) \/ BeginCommit(p) \/ PublishTakesRetention(p) \/ Die(p)
    BY <1>1, <1>4 DEF OpenCommitted, CloseHandle, BeginStage, TakeWriter, BeginCommit,
           PublishTakesRetention, Die, Goto, locks, StoreTypeOK
  <1>5. CASE \/ InstallRename(p) \/ NeedExclusive(p) \/ TakeExclusive(p) \/ Quarantine(p)
             \/ SyncParent(p) \/ Mark(p)
    BY <1>1, <1>5 DEF InstallRename, NeedExclusive, TakeExclusive, Quarantine, SyncParent, Mark,
           Goto, locks, StoreTypeOK
  <1> QED BY <1>3, <1>4, <1>5 DEF ProcStep

\* Only who replaces a directory takes away what is committed.
LEMMA KeepsMarked ==
    ASSUME StoreTypeOK, CoreLock, FileInv, NEW p \in Procs, ProcStep(p),
           ~Quarantine(p), ~Conflict(p)
    PROVE  MarkedStays
  <1>1. ASSUME tree' = tree, \E as : disk' = Synced(as) PROVE MarkedStays
    BY <1>1, SyncsFiles
  <1>2. CASE \/ \E a \in Artifacts : CloseHandle(p, a) \/ BeginStage(p, a)
             \/ TakeWriter(p) \/ Abort(p) \/ BeginCommit(p) \/ PublishTakesRetention(p)
             \/ RefuseInputs(p) \/ TakeExclusive(p) \/ PublishFails(p) \/ Die(p)
    <2>1. UNCHANGED files
      BY <1>2 DEF CloseHandle, BeginStage, TakeWriter, Abort, BeginCommit, PublishTakesRetention,
                  RefuseInputs, TakeExclusive, PublishFails, Die
    <2> QED BY <2>1, UnchangedFiles
  <1>3. CASE \/ \E a \in Artifacts : OpenCommitted(p, a)
             \/ Reuse(p) \/ NeedExclusive(p) \/ SyncParent(p) \/ SyncRoot(p)
    BY <1>1, <1>3 DEF OpenCommitted, Reuse, NeedExclusive, SyncParent, SyncRoot
  <1>4. CASE InstallRename(p)
    <2>1. /\ tree[Destination(p)] = Empty /\ disk' = Synced(Inputs[draft[p]])
          /\ tree' = [tree EXCEPT ![Destination(p)] = Unmarked(draft[p])]
      BY <1>4 DEF InstallRename
    <2> QED BY <2>1, SyncedRows, EntryFacts DEF MarkedStays, StoreTypeOK
  <1>5. CASE Mark(p)
    <2>1. /\ step[p] = "placed" /\ disk' = disk
          /\ tree' = [tree EXCEPT ![Destination(p)] =
                         [content |-> draft[p], marked |-> TRUE, at |-> now]]
      BY <1>5 DEF Mark
    <2>2. ~tree[Destination(p)].marked
      <3>1. tree[Destination(p)] = Unmarked(draft[p])
        BY <2>1 DEF FileInv
      <3>2. ~Unmarked(draft[p]).marked
        BY DEF Unmarked
      <3> QED BY <3>1, <3>2
    <2> QED BY <2>1, <2>2 DEF MarkedStays, StoreTypeOK
  <1> QED BY <1>2, <1>3, <1>4, <1>5 DEF ProcStep

\* While retention is exclusive, nobody else installs, replaces or reads anything.
LEMMA AloneInStore ==
    ASSUME CoreLock, OperatorInv, retention[Operator] = "exclusive"
    PROVE  /\ \A q \in Procs : handles[q] = {} /\ step[q] \notin Installing /\ step[q] # "resolving"
           /\ \A q \in Procs : ~Quarantine(q) /\ ~Conflict(q)
  <1>1. Operator \in Procs
    BY RetentionAssumption
  <1>2. \A q \in Procs : q # Operator => retention[q] = "none"
    BY <1>1 DEF CoreLock
  <1> QED BY <1>1, <1>2 DEF CoreLock, OperatorInv, Quarantine, Conflict, Installing

\* The candidate that is moved leaves its place; whoever stands elsewhere stays.
LEMMA MovedAway ==
    ASSUME StoreTypeOK, OpTypes, MoveInv, MoveOne
    PROVE  \E a \in left :
              /\ a = Smallest(left) /\ a \in Artifacts /\ PathOf[a] \in Paths
              /\ left' = left \ {a} /\ opened' = opened \ {a} /\ returned' = returned \ {a}
              /\ tree[PathOf[a]].content = a
              /\ tree' = [tree EXCEPT ![PathOf[a]] = Empty]
              /\ disk' = [disk EXCEPT ![PathOf[a]] = Empty]
  <1> PICK a : a = Smallest(left)
    OBVIOUS
  <1>1. a \in left /\ a \in Artifacts
    <2>1. left \in SUBSET Nat /\ left # {} /\ left \subseteq Artifacts
      BY ArtifactIds DEF MoveOne, OpTypes
    <2> QED BY <2>1, SmallestIsOne
  <1>2. PathOf[a] \in Paths
    BY <1>1, StoreAssumption
  <1>3. tree[PathOf[a]].content = a
    BY <1>1 DEF MoveInv, MoveOne, Committed, Holds
  <1>4. /\ left' = left \ {a} /\ opened' = opened \ {a} /\ returned' = returned \ {a}
        /\ tree' = [tree EXCEPT ![PathOf[a]] = Empty]
        /\ disk' = [disk EXCEPT ![PathOf[a]] = Empty]
    BY DEF MoveOne
  <1> QED BY <1>1, <1>2, <1>3, <1>4

LEMMA MovedStays ==
    ASSUME StoreTypeOK, OpTypes, MoveInv, MoveOne, NEW b \in Artifacts, b # Smallest(left)
    PROVE  /\ Committed(b) => Committed(b)'
           /\ Durable(b) => Durable(b)'
  <1>1. PICK a \in left :
              /\ a = Smallest(left) /\ a \in Artifacts /\ PathOf[a] \in Paths
              /\ tree[PathOf[a]].content = a
              /\ tree' = [tree EXCEPT ![PathOf[a]] = Empty]
              /\ disk' = [disk EXCEPT ![PathOf[a]] = Empty]
    BY MovedAway
  <1>2. PathOf[b] \in Paths
    BY StoreAssumption
  <1>3. Committed(b) => PathOf[b] # PathOf[a]
    BY <1>1 DEF Committed, Holds
  <1> QED BY <1>1, <1>2, <1>3 DEF Durable, Committed, Holds, StoreTypeOK

LEMMA MovingStore ==
    ASSUME StoreBesideInv, OpTypes, MoveInv, MoveOne PROVE StoreBesideInv'
  <1> USE DEF StoreBesideInv
  <1>1. PICK a \in left :
              /\ a = Smallest(left) /\ a \in Artifacts /\ PathOf[a] \in Paths
              /\ opened' = opened \ {a} /\ returned' = returned \ {a}
              /\ tree[PathOf[a]].content = a
              /\ tree' = [tree EXCEPT ![PathOf[a]] = Empty]
              /\ disk' = [disk EXCEPT ![PathOf[a]] = Empty]
    BY MovedAway
  <1>2. /\ UNCHANGED <<writer, retention, publication, handles, step, draft, now, faults>>
        /\ doing = "move" /\ doing' = "move"
    BY DEF MoveOne, locks
  <1>3. retention[Operator] = "exclusive"
    BY <1>2 DEF OperatorInv
  <1>4. \A q \in Procs : handles[q] = {} /\ step[q] \notin Installing
    BY <1>3, AloneInStore
  <1>5. StoreTypeOK'
    BY <1>1, <1>2, EntryFacts DEF StoreTypeOK
  <1>6. CoreLock' /\ OperatorInv'
    BY <1>2 DEF CoreLock, OperatorInv
  <1>7. \A b \in opened' \cup returned' : Durable(b)'
    <2> SUFFICES ASSUME NEW b \in opened' \cup returned' PROVE Durable(b)'
      OBVIOUS
    <2>1. b \in opened \cup returned /\ b # a /\ b \in Artifacts
      BY <1>1 DEF StoreTypeOK
    <2> QED BY <1>1, <2>1, MovedStays DEF FileInv
  <1>8. \A d \in Paths : disk'[d].marked => disk'[d] = tree'[d]
    BY <1>1 DEF FileInv, StoreTypeOK
  <1>9. FileInv'
    BY <1>2, <1>4, <1>7, <1>8 DEF FileInv, LeasedIsWhole, Installing
  <1>10. HandlesInv'
    BY <1>2, <1>4 DEF HandlesInv
  <1> QED BY <1>5, <1>6, <1>9, <1>10

\* Where `doing` is while retention is exclusive, and how a step gets there.
LEMMA OperatorQuiet ==
    ASSUME TypesHold, OperatorInv, LocksOnly,
           \/ PinQuiet \/ CollectQuiet \/ QueueQuiet \/ BackupQuiet \/ OperatorDies
           \/ UNCHANGED maintenanceVars
    PROVE  OperatorInv'
  <1>0. Operator \in Procs
    BY RetentionAssumption
  <1>1. step'[Operator] = "ready"
    BY DEF LocksOnly, OperatorInv
  <1>2. ASSUME doing' \notin {"move", "purge", "tear"} PROVE OperatorInv'
    BY <1>1, <1>2 DEF OperatorInv
  <1>3. ASSUME retention' = retention, doing' \in {"move", "purge", "tear"} =>
                   doing \in {"move", "purge", "tear"}
        PROVE  OperatorInv'
    BY <1>1, <1>3 DEF OperatorInv
  <1>4. CASE QueueQuiet \/ UNCHANGED maintenanceVars
    <2>1. retention' = retention /\ doing' = doing
      BY <1>4 DEF QueueQuiet, Retain, LetGo, storeVars, locks, opVars, maintenanceVars, allVars,
                  retentionVars
    <2> QED BY <1>3, <2>1
  <1>5. CASE OperatorDies
    BY <1>2, <1>5 DEF OperatorDies, Finish, Now
  <1>6. CASE PinQuiet
    <2>1. \/ doing' \notin {"move", "purge", "tear"}
          \/ retention' = retention /\ doing' = doing
      BY <1>6 DEF PinQuiet, BeginPin, LeaseFails, LinkPin, RefusePin, FindPin, SyncPin, IndexPin,
             IndexFails, RetirePin, RetireAgain, SyncRetired, Finish, Now, storeVars, locks, opVars
    <2> QED BY <1>2, <1>3, <2>1
  <1>7. CASE BackupQuiet
    <2>1. doing' \notin {"move", "purge", "tear"}
      BY <1>7 DEF BackupQuiet, BeginBackup, CaptureCut, CutRefused, EndCut, CopyOne,
             CopySpoiled, VerifyCopy, CopyRejected,
             PlaceGeneration, FindGeneration, MarkGeneration, BackupFails, Finish, Now
    <2> QED BY <1>2, <2>1
  <1>8. ASSUME NEW b \in Batches, BeginMoving(b) \/ BeginPurge(b) PROVE OperatorInv'
    <2>1. retention' = [retention EXCEPT ![Operator] = "exclusive"]
      BY <1>8 DEF BeginMoving, BeginPurge
    <2> QED BY <1>0, <1>1, <2>1 DEF OperatorInv, TypesHold, StoreTypeOK
  <1>9. CASE TearOne \/ DeleteOne \/ WriteReceipt
    <2>1. retention' = retention /\ doing \in {"purge", "tear"}
      BY <1>9 DEF TearOne, DeleteOne, WriteReceipt, storeVars, locks
    <2> QED BY <1>3, <2>1
  <1>10. CASE PlanSweep \/ SweepRefused \/ MarkBatch \/ PurgeRefused \/ RemoveBatch
    BY <1>2, <1>10 DEF PlanSweep, SweepRefused, MarkBatch, PurgeRefused, RemoveBatch, Finish, Now
  <1> QED BY <1>4, <1>5, <1>6, <1>7, <1>8, <1>9, <1>10 DEF CollectQuiet

LEMMA StoreBesideStep ==
    ASSUME TypesHold, StoreBesideInv, MoveInv, [BackupNext]_maintenanceVars
    PROVE  StoreBesideInv'
  <1>1. CASE Others
    <2>1. StoreNext /\ doing' = doing
      BY <1>1 DEF Others, StoreNext, retentionVars, opVars
    <2>2. step'[Operator] = step[Operator] /\ retention'[Operator] = retention[Operator]
      BY <1>1, OthersLeaveOperator DEF Others, Tick, locks, StoreBesideInv
    <2> QED BY <2>1, <2>2, StoreStepsKeep DEF StoreBesideInv, OperatorInv
  <1>2. ASSUME NEW a \in Artifacts, LeaseOpens(a) \/ CutLeaseOpens(a) PROVE StoreBesideInv'
    <2>1. /\ OpenCommitted(Operator, a) /\ Operator \in Procs /\ doing' = doing
          /\ UNCHANGED <<retention, step>>
      BY <1>2, RetentionAssumption
         DEF LeaseOpens, CutLeaseOpens, OpenCommitted, locks, retentionVars, opVars
    <2>2. StoreNext
      BY <2>1 DEF StoreNext, ProcStep
    <2> QED BY <2>1, <2>2, StoreStepsKeep DEF StoreBesideInv, OperatorInv
  <1>3. CASE HostLosesPower
    <2>1. PowerLoss /\ doing' = "nothing" /\ step' = [p \in Procs |-> "ready"]
      BY <1>3 DEF HostLosesPower, PowerLoss, StopAll, Finish, Now
    <2>2. StoreNext
      BY <2>1 DEF StoreNext
    <2> QED BY <2>1, <2>2, StoreStepsKeep, RetentionAssumption DEF StoreBesideInv, OperatorInv
  <1>4. CASE MoveOne
    BY <1>4, MovingStore DEF TypesHold
  <1>5. CASE \/ PinQuiet \/ CollectQuiet \/ QueueQuiet \/ BackupQuiet \/ OperatorDies
             \/ UNCHANGED maintenanceVars
    <2>1. LocksOnly
      BY <1>5, QuietLocks DEF StoreBesideInv
    <2> QED BY <1>5, <2>1, LocksOnlyKeep, OperatorQuiet DEF StoreBesideInv, OperatorInv
  <1> QED BY <1>1, <1>2, <1>3, <1>4, <1>5, StepKinds

LEMMA TypesHoldStep ==
    ASSUME TypesHold, StoreTypeOK', [BackupNext]_maintenanceVars PROVE TypesHold'
  <1>1. OpTypes' /\ FileTypes' /\ NamedInv'
    BY StepKinds, PinTypes, CollectTypes, QueueTypes, BackupTypes, MovingTypes, OtherTypes
       DEF maintenanceVars, backupVars
  <1> QED BY <1>1 DEF TypesHold

\* The plan is confirmed under exclusive retention, and nothing is committed or
\* taken away until its candidates are moved.
LEMMA MoveStep ==
    ASSUME TypesHold, StoreBesideInv, MoveInv, [BackupNext]_maintenanceVars PROVE MoveInv'
  <1> USE DEF TypesHold, StoreBesideInv
  <1>1. ASSUME doing' # "move" PROVE MoveInv'
    BY <1>1 DEF MoveInv
  <1>2. ASSUME UNCHANGED <<tree, left, doing>> PROVE MoveInv'
    BY <1>2 DEF MoveInv, Committed
  <1>3. CASE Others
    <2>1. UNCHANGED <<left, doing>>
      BY <1>3 DEF Others, retentionVars, opVars
    <2>2. CASE Tick
      BY <1>2, <2>1, <2>2 DEF Tick, files
    <2>3. ASSUME NEW p \in Procs \ {Operator}, ProcStep(p), doing = "move" PROVE MoveInv'
      <3>1. retention[Operator] = "exclusive"
        BY <2>3 DEF OperatorInv
      <3>2. MarkedStays
        BY <2>3, <3>1, AloneInStore, KeepsMarked
      <3>3. \A a \in left : a \in Artifacts
        BY DEF OpTypes
      <3> QED BY <2>1, <2>3, <3>2, <3>3, CommittedStays DEF MoveInv
    <2> QED BY <1>1, <1>3, <2>1, <2>2, <2>3 DEF Others
  <1>4. ASSUME NEW a \in Artifacts, LeaseOpens(a) \/ CutLeaseOpens(a) PROVE MoveInv'
    BY <1>2, <1>4 DEF LeaseOpens, CutLeaseOpens, OpenCommitted, retentionVars, opVars
  <1>5. CASE HostLosesPower \/ OperatorDies
    BY <1>1, <1>5 DEF HostLosesPower, OperatorDies, Finish, Now
  <1>6. CASE MoveOne
    <2>1. PICK a \in left : a = Smallest(left) /\ left' = left \ {a}
      BY <1>6, MovedAway
    <2>2. ASSUME NEW b \in left' PROVE Committed(b)'
      <3>1. b \in left /\ b # Smallest(left) /\ b \in Artifacts
        BY <2>1, <2>2 DEF OpTypes
      <3>2. Committed(b)
        BY <1>6, <3>1 DEF MoveInv, MoveOne
      <3> QED BY <1>6, <3>1, <3>2, MovedStays
    <2> QED BY <2>2 DEF MoveInv
  <1>7. CASE PinQuiet
    BY <1>1, <1>2, <1>7 DEF PinQuiet, BeginPin, LeaseFails, LinkPin, RefusePin, FindPin, SyncPin,
           IndexPin, IndexFails, RetirePin, RetireAgain, SyncRetired, Finish, Now, storeVars, files,
           opVars
  <1>8. CASE BackupQuiet
    BY <1>1, <1>8 DEF BackupQuiet, BeginBackup, CaptureCut, CutRefused, EndCut, CopyOne,
           CopySpoiled, VerifyCopy, CopyRejected,
           PlaceGeneration, FindGeneration, MarkGeneration, BackupFails, Finish, Now
  <1>9. CASE QueueQuiet \/ UNCHANGED maintenanceVars
    BY <1>2, <1>9 DEF QueueQuiet, Retain, LetGo, storeVars, files, opVars, maintenanceVars, allVars,
           retentionVars
  <1>10. CASE \/ PlanSweep \/ SweepRefused \/ MarkBatch \/ TearOne \/ DeleteOne \/ PurgeRefused
              \/ WriteReceipt \/ RemoveBatch
    BY <1>1, <1>10 DEF PlanSweep, SweepRefused, MarkBatch, TearOne, DeleteOne, PurgeRefused,
           WriteReceipt, RemoveBatch, Finish, Now, opVars
  <1>11. ASSUME NEW b \in Batches, BeginPurge(b) PROVE MoveInv'
    BY <1>1, <1>11 DEF BeginPurge, Now
  <1>12. ASSUME NEW b \in Batches, BeginMoving(b) PROVE MoveInv'
    <2>1. /\ left' = plan.candidates /\ Confirmed /\ tree' = tree
      BY <1>12 DEF BeginMoving, KeepStore, files
    <2>2. plan.candidates = Fitting(Unprotected(plan.retained, plan.at))
      BY <2>1 DEF Confirmed, SweepPlan
    <2>3. /\ Unprotected(plan.retained, plan.at) \in SUBSET Artifacts
          /\ Unprotected(plan.retained, plan.at) \subseteq Inventory
      BY DEF Unprotected, Inventory
    <2>4. left' \subseteq Inventory
      BY <2>1, <2>2, <2>3, FittingAssumption
    <2> QED BY <2>1, <2>4 DEF MoveInv, Inventory, Committed
  <1> QED BY <1>3, <1>4, <1>5, <1>6, <1>7, <1>8, <1>9, <1>10, <1>11, <1>12, StepKinds DEF CollectQuiet

-------------------------------------------------------------------------------
(* Batches.                                                                    *)

\* A step that leaves the trash alone, and the operator with it.
LEMMA BatchesAlone ==
    ASSUME BatchInv, UNCHANGED trashVars,
           doing' \notin {"move", "purge", "tear"} \/ UNCHANGED <<doing, left, working>>
    PROVE  BatchInv'
  BY DEF BatchInv, trashVars

LEMMA BatchesQuiet ==
    ASSUME BatchInv,
           \/ Others \/ HostLosesPower \/ OperatorDies \/ PinQuiet \/ QueueQuiet \/ BackupQuiet
           \/ \E a \in Artifacts : LeaseOpens(a) \/ CutLeaseOpens(a)
           \/ UNCHANGED maintenanceVars
           \/ PlanSweep \/ SweepRefused \/ PurgeRefused
    PROVE  BatchInv'
  <1>1. CASE \/ Others \/ QueueQuiet \/ UNCHANGED maintenanceVars
             \/ \E a \in Artifacts : LeaseOpens(a) \/ CutLeaseOpens(a)
    <2>1. UNCHANGED trashVars /\ UNCHANGED <<doing, left, working>>
      BY <1>1 DEF Others, QueueQuiet, Retain, LetGo, LeaseOpens, CutLeaseOpens, retentionVars,
                  opVars, maintenanceVars, allVars
    <2> QED BY <2>1, BatchesAlone
  <1>2. CASE HostLosesPower \/ OperatorDies \/ PlanSweep \/ SweepRefused \/ PurgeRefused
    <2>1. UNCHANGED trashVars /\ doing' \notin {"move", "purge", "tear"}
      BY <1>2 DEF HostLosesPower, OperatorDies, PlanSweep, SweepRefused, PurgeRefused, Finish, Now
    <2> QED BY <2>1, BatchesAlone
  <1>3. CASE PinQuiet
    <2>1. /\ UNCHANGED trashVars
          /\ doing' \notin {"move", "purge", "tear"} \/ UNCHANGED <<doing, left, working>>
      BY <1>3 DEF PinQuiet, BeginPin, LeaseFails, LinkPin, RefusePin, FindPin, SyncPin, IndexPin,
             IndexFails, RetirePin, RetireAgain, SyncRetired, Finish, Now, opVars
    <2> QED BY <2>1, BatchesAlone
  <1>4. CASE BackupQuiet
    <2>1. UNCHANGED trashVars /\ doing' \notin {"move", "purge", "tear"}
      BY <1>4 DEF BackupQuiet, BeginBackup, CaptureCut, CutRefused, EndCut, CopyOne,
             CopySpoiled, VerifyCopy, CopyRejected,
             PlaceGeneration, FindGeneration, MarkGeneration, BackupFails, Finish, Now
    <2> QED BY <2>1, BatchesAlone
  <1> QED BY <1>1, <1>2, <1>3, <1>4

\* Rows of the trash, as the collector changes them.
LEMMA BatchFields ==
    ASSUME FileTypes, NEW b \in Batches, NEW t, NEW as, NEW bs
    PROVE  LET row == batches[b] IN
           /\ \A s : /\ [row EXCEPT !.state = s].state = s
                     /\ [row EXCEPT !.state = s].moved = row.moved
                     /\ [row EXCEPT !.state = s].whole = row.whole
                     /\ [row EXCEPT !.state = s].torn = row.torn
                     /\ [row EXCEPT !.state = s, !.at = t].state = s
                     /\ [row EXCEPT !.state = s, !.at = t].moved = row.moved
                     /\ [row EXCEPT !.state = s, !.at = t].whole = row.whole
                     /\ [row EXCEPT !.state = s, !.at = t].torn = row.torn
           /\ /\ [row EXCEPT !.whole = as, !.torn = bs].state = row.state
              /\ [row EXCEPT !.whole = as, !.torn = bs].moved = row.moved
              /\ [row EXCEPT !.whole = as, !.torn = bs].whole = as
              /\ [row EXCEPT !.whole = as, !.torn = bs].torn = bs
           /\ /\ [row EXCEPT !.moved = as, !.whole = bs].state = row.state
              /\ [row EXCEPT !.moved = as, !.whole = bs].moved = as
              /\ [row EXCEPT !.moved = as, !.whole = bs].whole = bs
              /\ [row EXCEPT !.moved = as, !.whole = bs].torn = row.torn
           /\ /\ [row EXCEPT !.torn = {}].state = row.state
              /\ [row EXCEPT !.torn = {}].moved = row.moved
              /\ [row EXCEPT !.torn = {}].whole = row.whole
              /\ [row EXCEPT !.torn = {}].torn = {}
  <1>1. batches[b] \in BatchRow
    BY DEF FileTypes
  <1> QED BY <1>1 DEF BatchRow

\* One batch changes: what has to hold of it, and of what the operator does next.
LEMMA OneBatch ==
    ASSUME FileTypes, BatchInv, NEW b \in Batches, NEW row,
           batches' = [batches EXCEPT ![b] = row],
           row.whole \cup row.torn \subseteq row.moved,
           row.state \in {"absent", "unmarked"} => row.whole = row.moved,
           b \in receipts =>
               row.state \notin {"absent", "unmarked"} /\ row.whole = {} /\ row.torn = {},
           receipts' = receipts,
           doing' = "move" => working' = b /\ row.state = "unmarked",
           doing' \in {"purge", "tear"} =>
               working' = b /\ row.state = "marked" /\ row.whole \cup row.torn \subseteq left',
           doing' = "tear" => Smallest(left)' \notin row.whole /\ b \notin receipts,
           doing' = "purge" /\ b \in receipts => left' = {}
    PROVE  BatchInv'
  <1>1. /\ batches'[b] = row
        /\ \A c \in Batches : c # b => batches'[c] = batches[c]
    BY DEF FileTypes
  <1>2. receipts \subseteq Batches
    BY DEF FileTypes
  <1>3. \A c \in Batches :
            /\ batches'[c].whole \cup batches'[c].torn \subseteq batches'[c].moved
            /\ batches'[c].state \in {"absent", "unmarked"} => batches'[c].whole = batches'[c].moved
    BY <1>1 DEF BatchInv
  <1>4. \A c \in receipts :
            /\ batches'[c].state \notin {"absent", "unmarked"}
            /\ batches'[c].whole = {} /\ batches'[c].torn = {}
    BY <1>1, <1>2 DEF BatchInv
  <1> QED BY <1>1, <1>3, <1>4 DEF BatchInv

LEMMA BatchesMove ==
    ASSUME TypesHold, BatchInv,
           MoveOne \/ MarkBatch \/ \E b \in Batches : BeginMoving(b) \/ BeginPurge(b)
    PROVE  BatchInv'
  <1> USE DEF TypesHold
  <1>1. ASSUME NEW b \in Batches, BeginMoving(b) PROVE BatchInv'
    <2> PICK row : row = [batches[b] EXCEPT !.state = "unmarked"]
      OBVIOUS
    <2>1. /\ batches' = [batches EXCEPT ![b] = row] /\ batches[b].state = "absent"
          /\ receipts' = receipts /\ working' = b /\ doing' = "move"
      BY <1>1 DEF BeginMoving, Now
    <2>2. /\ row.state = "unmarked" /\ row.moved = batches[b].moved
          /\ row.whole = batches[b].whole /\ row.torn = batches[b].torn
      BY BatchFields
    <2> QED BY <2>1, <2>2, OneBatch DEF BatchInv
  <1>2. ASSUME NEW b \in Batches, BeginPurge(b) PROVE BatchInv'
    <2>1. /\ UNCHANGED trashVars /\ batches[b].state = "marked" /\ b \notin receipts
          /\ working' = b /\ left' = batches[b].moved /\ doing' = "purge"
      BY <1>2 DEF BeginPurge, Now
    <2> QED BY <2>1 DEF BatchInv, trashVars
  <1>3. CASE MoveOne
    <2> PICK a : a = Smallest(left)
      OBVIOUS
    <2> PICK row : row = [batches[working] EXCEPT !.moved = batches[working].moved \cup {a},
                                                  !.whole = batches[working].whole \cup {a}]
      OBVIOUS
    <2>1. /\ batches' = [batches EXCEPT ![working] = row] /\ receipts' = receipts
          /\ doing = "move" /\ doing' = doing /\ working' = working
      BY <1>3 DEF MoveOne
    <2>2. working \in Batches
      BY <2>1 DEF NamedInv
    <2>3. /\ row.state = batches[working].state /\ row.moved = batches[working].moved \cup {a}
          /\ row.whole = batches[working].whole \cup {a} /\ row.torn = batches[working].torn
      BY <2>2, BatchFields
    <2> QED BY <2>1, <2>2, <2>3, OneBatch, ZenonT(40) DEF BatchInv
  <1>4. CASE MarkBatch
    <2> PICK row : row = [batches[working] EXCEPT !.state = "marked", !.at = now]
      OBVIOUS
    <2>1. /\ batches' = [batches EXCEPT ![working] = row] /\ receipts' = receipts
          /\ doing = "move" /\ doing' = "nothing"
      BY <1>4 DEF MarkBatch, Finish, Now
    <2>2. working \in Batches
      BY <2>1 DEF NamedInv
    <2>3. /\ row.state = "marked" /\ row.moved = batches[working].moved
          /\ row.whole = batches[working].whole /\ row.torn = batches[working].torn
      BY <2>2, BatchFields
    <2> QED BY <2>1, <2>2, <2>3, OneBatch DEF BatchInv
  <1> QED BY <1>1, <1>2, <1>3, <1>4

LEMMA BatchesPurge ==
    ASSUME TypesHold, BatchInv, TearOne \/ DeleteOne \/ WriteReceipt \/ RemoveBatch
    PROVE  BatchInv'
  <1> USE DEF TypesHold
  <1>0. working \in Batches
    BY DEF NamedInv, TearOne, DeleteOne, WriteReceipt, RemoveBatch
  <1> PICK a : a = Smallest(left)
    OBVIOUS
  <1>1. CASE TearOne
    <2> PICK row : row = [batches[working] EXCEPT !.whole = batches[working].whole \ {a},
                                                  !.torn = batches[working].torn \cup {a}]
      OBVIOUS
    <2>1. /\ batches' = [batches EXCEPT ![working] = row] /\ receipts' = receipts
          /\ doing = "purge" /\ doing' = "tear" /\ left' = left /\ working' = working
          /\ a \in batches[working].whole
      BY <1>1 DEF TearOne, Now
    <2>2. /\ row.state = batches[working].state /\ row.moved = batches[working].moved
          /\ row.whole = batches[working].whole \ {a} /\ row.torn = batches[working].torn \cup {a}
      BY <1>0, BatchFields
    <2>3. Smallest(left)' = a
      BY <2>1 DEF Smallest
    <2> QED BY <1>0, <2>1, <2>2, <2>3, OneBatch DEF BatchInv
  <1>2. CASE DeleteOne
    <2> PICK row : row = [batches[working] EXCEPT !.torn = {}]
      OBVIOUS
    <2>1. /\ batches' = [batches EXCEPT ![working] = row] /\ receipts' = receipts
          /\ doing = "tear" /\ doing' = "purge" /\ left' = left \ {a} /\ working' = working
      BY <1>2 DEF DeleteOne, Now
    <2>2. /\ row.state = batches[working].state /\ row.moved = batches[working].moved
          /\ row.whole = batches[working].whole /\ row.torn = {}
      BY <1>0, BatchFields
    <2>3. a \notin batches[working].whole
      BY <2>1 DEF BatchInv
    <2> QED BY <1>0, <2>1, <2>2, <2>3, OneBatch DEF BatchInv
  <1>3. CASE WriteReceipt
    <2>1. /\ receipts' = receipts \cup {working} /\ batches' = batches /\ doing = "purge"
          /\ left = {} /\ UNCHANGED <<doing, left, working>>
      BY <1>3 DEF WriteReceipt, opVars
    <2>2. /\ batches[working].state = "marked"
          /\ batches[working].whole = {} /\ batches[working].torn = {}
      BY <2>1 DEF BatchInv
    <2> QED BY <2>1, <2>2 DEF BatchInv
  <1>4. CASE RemoveBatch
    <2> PICK row : row = [batches[working] EXCEPT !.state = "removed"]
      OBVIOUS
    <2>1. /\ batches' = [batches EXCEPT ![working] = row] /\ receipts' = receipts
          /\ doing' = "nothing"
      BY <1>4 DEF RemoveBatch, Finish, Now
    <2>2. /\ row.state = "removed" /\ row.moved = batches[working].moved
          /\ row.whole = batches[working].whole /\ row.torn = batches[working].torn
      BY <1>0, BatchFields
    <2> QED BY <1>0, <2>1, <2>2, OneBatch DEF BatchInv
  <1> QED BY <1>1, <1>2, <1>3, <1>4

LEMMA BatchStep ==
    ASSUME TypesHold, BatchInv, [BackupNext]_maintenanceVars PROVE BatchInv'
  BY StepKinds, BatchesQuiet, BatchesMove, BatchesPurge DEF CollectQuiet

-------------------------------------------------------------------------------
(* Generations.                                                                *)

LEMMA GenerationsAlone ==
    ASSUME GenerationInv, UNCHANGED backupVars,
           doing' \notin {"leaseCut", "copy", "verify", "mark"} \/ UNCHANGED opVars
    PROVE  GenerationInv'
  BY DEF GenerationInv, CutCopied, Restorable, backupVars, opVars

LEMMA GenerationStep ==
    ASSUME TypesHold, GenerationInv, [BackupNext]_maintenanceVars PROVE GenerationInv'
  <1>1. CASE /\ UNCHANGED backupVars
             /\ \/ Others \/ QueueQuiet \/ UNCHANGED maintenanceVars
                \/ \E a \in Artifacts : LeaseOpens(a) \/ CutLeaseOpens(a)
    <2>1. UNCHANGED opVars
      BY <1>1 DEF Others, QueueQuiet, Retain, LetGo, LeaseOpens, CutLeaseOpens, retentionVars,
                  maintenanceVars, allVars
    <2> QED BY <1>1, <2>1, GenerationsAlone
  <1>2. CASE /\ UNCHANGED backupVars
             /\ HostLosesPower \/ OperatorDies \/ MoveOne \/ CollectQuiet
    <2>1. doing' \notin {"leaseCut", "copy", "verify", "mark"}
      BY <1>2 DEF HostLosesPower, OperatorDies, MoveOne, CollectQuiet, PlanSweep, SweepRefused,
             MarkBatch, BeginMoving, BeginPurge, TearOne, DeleteOne, PurgeRefused, WriteReceipt,
             RemoveBatch, Finish, Now, opVars
    <2> QED BY <1>2, <2>1, GenerationsAlone
  <1>3. CASE UNCHANGED backupVars /\ PinQuiet
    <2>1. doing' \notin {"leaseCut", "copy", "verify", "mark"} \/ UNCHANGED opVars
      BY <1>3 DEF PinQuiet, BeginPin, LeaseFails, LinkPin, RefusePin, FindPin, SyncPin, IndexPin,
             IndexFails, RetirePin, RetireAgain, SyncRetired, Finish, Now
    <2> QED BY <1>3, <2>1, GenerationsAlone
  <1>4. CASE \/ BeginBackup \/ CopyRejected \/ BackupFails
             \/ \E succeeded \in Successful : CutRefused(succeeded)
             \/ \E g \in Generations : FindGeneration(g)
    <2>1. UNCHANGED generations /\ doing' \notin {"leaseCut", "copy", "verify", "mark"}
      BY <1>4 DEF BeginBackup, CutRefused, CopyRejected, FindGeneration, BackupFails, backupVars,
             Finish, Now
    <2> QED BY <2>1 DEF GenerationInv, Restorable
  \* The cut begins with all of its closure on the list, and only what was read back
  \* whole leaves it.
  <1>5. ASSUME UNCHANGED generations, doing' \in {"leaseCut", "copy", "verify"}, CutCopied'
        PROVE  GenerationInv'
    BY <1>5 DEF GenerationInv, Restorable
  <1>7. ASSUME NEW succeeded \in Successful, CaptureCut(succeeded) PROVE GenerationInv'
    <2> PICK roots : roots = succeeded \cup PinnedRoots
      OBVIOUS
    <2>1. /\ left' = Closure(roots) /\ request' = [NoRequest EXCEPT !.roots = roots]
          /\ doing' = "leaseCut" /\ UNCHANGED generations
      BY <1>7 DEF CaptureCut, Now, backupVars
    <2>2. request'.roots = roots
      BY <2>1 DEF NoRequest
    <2>3. CutCopied'
      BY <2>1, <2>2 DEF CutCopied, Closure
    <2> QED BY <1>5, <2>1, <2>3
  <1>8. CASE EndCut
    <2>1. doing' = "copy" /\ CutCopied' /\ UNCHANGED generations
      BY <1>8 DEF EndCut, Now, backupVars, GenerationInv, CutCopied
    <2> QED BY <1>5, <2>1
  <1>9. CASE CopyOne \/ CopySpoiled
    <2>1. /\ doing = "copy" /\ doing' = "verify" /\ UNCHANGED <<request, left, generations>>
          /\ \E copy : copies' = [copies EXCEPT ![Smallest(left)] = copy]
          /\ left # {}
      BY <1>9 DEF CopyOne, CopySpoiled, Now
    <2>2. Smallest(left) \in left
      BY <2>1, ArtifactIds, SmallestIsOne DEF TypesHold, OpTypes
    <2>3. CutCopied'
      BY <2>1, <2>2 DEF GenerationInv, CutCopied, TypesHold, FileTypes, Copies
    <2> QED BY <1>5, <2>1, <2>3
  <1>10. CASE VerifyCopy
    <2>1. /\ doing = "verify" /\ doing' = "copy" /\ UNCHANGED <<request, copies, generations>>
          /\ left' = left \ {Smallest(left)} /\ copies[Smallest(left)] = "whole"
      BY <1>10 DEF VerifyCopy, Now, backupVars
    <2>2. CutCopied'
      BY <2>1 DEF GenerationInv, CutCopied
    <2> QED BY <1>5, <2>1, <2>2
  <1>11. ASSUME NEW g \in Generations, PlaceGeneration(g) PROVE GenerationInv'
    <2> PICK row : row = [state |-> "unmarked", roots |-> request.roots, held |-> copies]
      OBVIOUS
    <2>1. /\ generations' = [generations EXCEPT ![g] = row] /\ left = {} /\ working' = g
          /\ doing = "copy" /\ doing' = "mark"
      BY <1>11 DEF PlaceGeneration, Now
    <2>2. Restorable(row) /\ row.state = "unmarked"
      BY <2>1 DEF GenerationInv, CutCopied, Restorable
    <2>3. \A h \in Generations : generations'[h] = IF h = g THEN row ELSE generations[h]
      BY <2>1 DEF TypesHold, FileTypes
    <2> QED BY <2>1, <2>2, <2>3 DEF GenerationInv, Restorable
  <1>6. CASE MarkGeneration
    <2> PICK row : row = [generations[working] EXCEPT !.state = "marked"]
      OBVIOUS
    <2>1. /\ generations' = [generations EXCEPT ![working] = row] /\ working \in Generations
          /\ generations[working].state # "absent" /\ doing' = "nothing"
      BY <1>6 DEF MarkGeneration, Finish, Now, TypesHold, NamedInv, GenerationInv
    <2>2. row.roots = generations[working].roots /\ row.held = generations[working].held
      BY <2>1 DEF TypesHold, FileTypes, Generation
    <2>3. Restorable(row)
      BY <2>1, <2>2 DEF GenerationInv, Restorable
    <2>4. \A h \in Generations : generations'[h] = IF h = working THEN row ELSE generations[h]
      BY <2>1 DEF TypesHold, FileTypes
    <2> QED BY <2>1, <2>3, <2>4 DEF GenerationInv, Restorable
  <1> QED BY <1>1, <1>2, <1>3, <1>4, <1>6, <1>7, <1>8, <1>9, <1>10, <1>11, StepKinds
          DEF BackupQuiet, maintenanceVars

-------------------------------------------------------------------------------
(* Theorems.                                                                   *)

MaintenanceInv == TypesHold /\ StoreBesideInv /\ MoveInv /\ BatchInv /\ GenerationInv

LEMMA MaintenanceInit == BackupInit => MaintenanceInv
  <1> SUFFICES ASSUME BackupInit PROVE MaintenanceInv
    OBVIOUS
  <1>1. StoreInv
    BY StoreInvInit DEF BackupInit, RetentionInit
  <1>2. TypesHold
    BY <1>1, Nothings DEF BackupInit, RetentionInit, TypesHold, StoreInv, OpTypes, FileTypes,
       NamedInv, Places
  <1>3. StoreBesideInv
    BY <1>1, LocksCore, RetentionAssumption
       DEF BackupInit, RetentionInit, StoreInit, StoreBesideInv, StoreInv, OperatorInv, HandlesInv
  <1>4. MoveInv /\ BatchInv /\ GenerationInv
    BY DEF BackupInit, RetentionInit, MoveInv, BatchInv, NoBatch, GenerationInv, NoGeneration
  <1> QED BY <1>2, <1>3, <1>4 DEF MaintenanceInv

LEMMA MaintenanceStep ==
    ASSUME MaintenanceInv, [BackupNext]_maintenanceVars PROVE MaintenanceInv'
  <1> USE DEF MaintenanceInv
  <1>1. StoreBesideInv'
    BY StoreBesideStep
  <1>2. TypesHold'
    BY <1>1, TypesHoldStep DEF StoreBesideInv
  <1> QED BY <1>1, <1>2, MoveStep, BatchStep, GenerationStep

LEMMA MaintenanceInvariant == BackupSpec => []MaintenanceInv
  BY MaintenanceInit, MaintenanceStep, PTL DEF BackupSpec

\* Type correctness of what the commands keep in memory and in files, for any number
\* of pins, batches and generations.
THEOREM MaintenanceTypes == BackupSpec => []BackupTypeOK
  <1>1. MaintenanceInv => BackupTypeOK
    BY TypeParts DEF MaintenanceInv, TypesHold
  <1> QED BY <1>1, MaintenanceInvariant, PTL

\* Whatever a command or a fault interrupts, a batch without its COMMITTED marker
\* still has all that was moved into it, since purge_trash never touches it; and a
\* deletion receipt stands only for a batch of which nothing is left, however often
\* its purge died half-way.
THEOREM MarkersAreTrue == BackupSpec => []TrashIsAsMarked
  <1>1. MaintenanceInv => TrashIsAsMarked
    BY DEF MaintenanceInv, BatchInv, TrashIsAsMarked
  <1> QED BY <1>1, MaintenanceInvariant, PTL

\* Every generation that create_generation marked holds the closure of the roots that
\* its catalog and its pins name, each tree read back as its inventory has it, whatever
\* was published or displaced while it was copied and whatever the disk did to a copy.
THEOREM MarkedGenerationsAreWhole == BackupSpec => []GenerationsAreWhole
  <1>1. MaintenanceInv => GenerationsAreWhole
    BY DEF MaintenanceInv, GenerationInv, GenerationsAreWhole
  <1> QED BY <1>1, MaintenanceInvariant, PTL

\* An open handle keeps its artifact in place beside the collector as well: a sweep
\* moves under exclusive retention only.
THEOREM LeasesProtectFromSweeps == BackupSpec => []LeasedIsWhole
  <1>1. MaintenanceInv => LeasedIsWhole
    BY DEF MaintenanceInv, StoreBesideInv, FileInv
  <1> QED BY <1>1, MaintenanceInvariant, PTL

-------------------------------------------------------------------------------
(* What job rows and pins name.                                                *)

\* No other artifact goes to the same path: it is no run, of which two attempts at
\* one path may differ.
Addressed(a) == \A c \in Artifacts : PathOf[c] = PathOf[a] => c = a

RetainableAddressed == \A a \in Retainable : Addressed(a)
PinnableAddressed == \A roots \in RootSets : \A a \in Closure(roots) : Addressed(a)

LEMMA ClosureHoldsRoots == ASSUME NEW roots \in SUBSET Artifacts PROVE roots \subseteq Closure(roots)
  BY DEF Closure

LEMMA ClosureGrows ==
    ASSUME NEW few, NEW many, few \subseteq many PROVE Closure(few) \subseteq Closure(many)
  BY DEF Closure

LEMMA ClosureIsLeast ==
    ASSUME NEW roots, NEW C \in SUBSET Artifacts, roots \subseteq C, \A b \in C : Inputs[b] \subseteq C
    PROVE  Closure(roots) \subseteq C
  BY DEF Closure

\* What is alone at its path stays durable, until a sweep moves it.
LEMMA DurableKept ==
    ASSUME TypesHold, StoreBesideInv, MoveInv, [BackupNext]_maintenanceVars,
           NEW a \in Artifacts, Addressed(a), Durable(a), ~(doing = "move" /\ a \in left)
    PROVE  Durable(a)'
  <1> USE DEF TypesHold, StoreBesideInv
  <1>1. ASSUME UNCHANGED <<tree, disk>> PROVE Durable(a)'
    BY <1>1 DEF Durable, Committed
  <1>2. ASSUME NEW p \in Procs, ProcStep(p) PROVE Durable(a)'
    <2>1. CASE Quarantine(p) \/ Conflict(p)
      <3> PICK d : d = Destination(p)
        OBVIOUS
      <3>1. /\ step[p] = "resolving"
            /\ tree' = [tree EXCEPT ![d] = Empty]
            /\ disk' = [Synced(Inputs[draft[p]]) EXCEPT ![d] = Empty]
        BY <2>1 DEF Quarantine, Conflict, Checking
      <3>2. draft[p] \in Artifacts /\ d = PathOf[draft[p]] /\ d \in Paths /\ PathOf[a] \in Paths
        BY <3>1, StoreAssumption DEF CoreLock, Destination
      <3>3. PathOf[a] # d
        <4>1. Quarantine(p) => ~tree[d].marked
          BY DEF Quarantine
        <4>2. Conflict(p) => ~Committed(draft[p])
          BY DEF Conflict
        <4>3. PathOf[a] = d => draft[p] = a
          BY <3>2 DEF Addressed
        <4> QED BY <2>1, <4>1, <4>2, <4>3 DEF Durable, Committed, Holds
      <3>4. tree'[PathOf[a]] = tree[PathOf[a]] /\ disk'[PathOf[a]] \in {disk[PathOf[a]], tree[PathOf[a]]}
        BY <3>1, <3>2, <3>3, SyncedRows DEF StoreTypeOK
      <3> QED BY <3>4 DEF Durable, Committed, Holds
    <2> QED BY <1>2, <2>1, KeepsMarked, DurableStays
  <1>3. CASE Others
    BY <1>1, <1>2, <1>3 DEF Others, Tick, files
  <1>4. ASSUME NEW b \in Artifacts, LeaseOpens(b) \/ CutLeaseOpens(b) PROVE Durable(a)'
    <2>1. Operator \in Procs /\ ProcStep(Operator)
      BY <1>4, RetentionAssumption DEF LeaseOpens, CutLeaseOpens, ProcStep
    <2> QED BY <1>2, <2>1
  <1>5. CASE HostLosesPower
    BY <1>5, PowerKeeps DEF HostLosesPower
  <1>6. CASE MoveOne
    BY <1>6, MovedAway, MovedStays DEF MoveOne
  <1>7. CASE \/ PinQuiet \/ CollectQuiet \/ QueueQuiet \/ BackupQuiet \/ OperatorDies
             \/ UNCHANGED maintenanceVars
    BY <1>1, <1>7, QuietLocks DEF LocksOnly
  <1> QED BY <1>3, <1>4, <1>5, <1>6, <1>7, StepKinds

\* How a step comes to be followed by more moving.
LEMMA MovingSteps ==
    ASSUME [BackupNext]_maintenanceVars, doing' = "move"
    PROVE  \/ doing = "move" /\ (Others \/ UNCHANGED maintenanceVars)
           \/ MoveOne
           \/ \E b \in Batches : BeginMoving(b)
  <1>1. Others \/ UNCHANGED maintenanceVars => doing = "move"
    BY DEF Others, retentionVars, opVars, maintenanceVars, allVars
  <1>2. ~(\E a \in Artifacts : LeaseOpens(a) \/ CutLeaseOpens(a)) /\ ~HostLosesPower /\ ~OperatorDies
    BY DEF LeaseOpens, CutLeaseOpens, retentionVars, opVars, HostLosesPower, OperatorDies, Finish, Now
  <1>3. ~PinQuiet
    BY DEF PinQuiet, BeginPin, LeaseFails, LinkPin, RefusePin, FindPin, SyncPin, IndexPin,
           IndexFails, RetirePin, RetireAgain, SyncRetired, Finish, Now, opVars
  <1>4. ~BackupQuiet
    BY DEF BackupQuiet, BeginBackup, CaptureCut, CutRefused, EndCut, CopyOne,
           CopySpoiled, VerifyCopy, CopyRejected,
           PlaceGeneration, FindGeneration, MarkGeneration, BackupFails, Finish, Now
  <1>5. ~QueueQuiet
    BY DEF QueueQuiet, Retain, LetGo, opVars
  <1>6. CollectQuiet => \E b \in Batches : BeginMoving(b)
    BY DEF CollectQuiet, PlanSweep, SweepRefused, MarkBatch, BeginPurge, TearOne, DeleteOne,
           PurgeRefused, WriteReceipt, RemoveBatch, Finish, Now, opVars
  <1> QED BY <1>1, <1>2, <1>3, <1>4, <1>5, <1>6, StepKinds

\* A sweep begins to move what neither job rows nor pins reach, and goes on with that.
LEMMA MovingSpares ==
    ASSUME TypesHold, StoreBesideInv, MoveInv, [BackupNext]_maintenanceVars, doing' = "move"
    PROVE  /\ UNCHANGED <<retained, pins, pinDisk>>
           /\ \/ doing = "move" /\ left' \subseteq left
              \/ /\ doing = "sweep"
                 /\ left' \cap retained = {}
                 /\ \A i \in Active : left' \cap Closure(pins[i].roots) = {}
  <1> USE DEF TypesHold
  <1>1. ASSUME NEW b \in Batches, BeginMoving(b)
        PROVE  /\ UNCHANGED <<retained, pins, pinDisk>> /\ doing = "sweep"
               /\ left' \cap retained = {}
               /\ \A i \in Active : left' \cap Closure(pins[i].roots) = {}
    <2>1. /\ left' = plan.candidates /\ Confirmed /\ doing = "sweep"
          /\ UNCHANGED <<retained, pins, pinDisk>>
      BY <1>1 DEF BeginMoving, pinVars
    <2>2. plan.candidates = Fitting(Unprotected(plan.retained, plan.at))
          /\ retained \subseteq plan.retained
      BY <2>1 DEF Confirmed, SweepPlan
    <2> PICK all : all = plan.retained \cup PinnedRoots \cup Young(plan.at)
      OBVIOUS
    <2>3. left' \cap Closure(all) = {}
      <3>1. Unprotected(plan.retained, plan.at) \in SUBSET Artifacts
            /\ Unprotected(plan.retained, plan.at) \cap Closure(all) = {}
        BY DEF Unprotected, Inventory
      <3> QED BY <2>1, <2>2, <3>1, FittingAssumption
    <2>4. retained \subseteq Closure(all)
      <3>1. retained \subseteq Closure(retained)
        BY ClosureHoldsRoots DEF OpTypes
      <3> QED BY <2>2, <3>1, ClosureGrows
    <2>5. ASSUME NEW i \in Active PROVE Closure(pins[i].roots) \subseteq Closure(all)
      <3>1. pins[i].roots \subseteq all
        BY DEF PinnedRoots
      <3> QED BY <3>1, ClosureGrows
    <2> QED BY <2>1, <2>3, <2>4, <2>5
  <1>2. CASE MoveOne
    BY <1>2, MovedAway DEF MoveOne, pinVars
  <1>3. CASE doing = "move" /\ (Others \/ UNCHANGED maintenanceVars)
    BY <1>3 DEF Others, retentionVars, opVars, pinVars, maintenanceVars, allVars
  <1> QED BY <1>1, <1>2, <1>3, MovingSteps

\* What job rows name is there to stay, and no sweep is about to take it.
RetainedInv ==
    /\ \A a \in retained : a \in Retainable /\ Durable(a)
    /\ doing = "move" => left \cap retained = {}

LEMMA OnlyQueueNames == ASSUME [BackupNext]_maintenanceVars PROVE UNCHANGED retained \/ QueueQuiet
  BY StepKinds DEF Others, HostLosesPower, MoveOne, LeaseOpens, CutLeaseOpens, OperatorDies,
     maintenanceVars, allVars, retentionVars, PinQuiet, BeginPin, LeaseFails, LinkPin, RefusePin,
     FindPin, SyncPin, IndexPin, IndexFails, RetirePin, RetireAgain, SyncRetired, CollectQuiet,
     PlanSweep, SweepRefused, MarkBatch, BeginMoving, BeginPurge, TearOne, DeleteOne, PurgeRefused,
     WriteReceipt, RemoveBatch, BackupQuiet, BeginBackup, CaptureCut, CutRefused, EndCut, CopyOne,
     CopySpoiled, VerifyCopy, CopyRejected,
     PlaceGeneration, FindGeneration, MarkGeneration, BackupFails

LEMMA RetainedStep ==
    ASSUME RetainableAddressed, MaintenanceInv, RetainedInv, [BackupNext]_maintenanceVars
    PROVE  RetainedInv'
  <1> USE DEF MaintenanceInv
  <1>1. UNCHANGED retained \/ QueueQuiet
    BY OnlyQueueNames
  <1>2. ASSUME NEW a \in retained' PROVE a \in Retainable /\ Durable(a)'
    <2>1. a \in retained \/ (doing = "nothing" /\ a \in Retainable /\ a \in opened)
      BY <1>1, <1>2 DEF QueueQuiet, Retain, LetGo
    <2>2. a \in Retainable /\ Durable(a) /\ a \in Artifacts
      BY <2>1, RetentionAssumption DEF RetainedInv, StoreBesideInv, FileInv
    <2>3. ~(doing = "move" /\ a \in left)
      BY <2>1 DEF RetainedInv
    <2> QED BY <2>2, <2>3, DurableKept DEF RetainableAddressed
  <1>3. ASSUME doing' = "move" PROVE left' \cap retained' = {}
    BY <1>3, MovingSpares DEF RetainedInv
  <1> QED BY <1>2, <1>3 DEF RetainedInv

\* Beside publishers, sweeps, purges and backups, and over any faults, an artifact that
\* the job rows name is committed, if no other goes to its path: each sweep looks at
\* the rows again under exclusive retention.
THEOREM RetainedAreKept == ASSUME RetainableAddressed PROVE BackupSpec => []RetainedStays
  <1>1. BackupInit => RetainedInv
    BY DEF BackupInit, RetentionInit, RetainedInv
  <1>2. MaintenanceInv /\ RetainedInv /\ [BackupNext]_maintenanceVars => RetainedInv'
    BY RetainedStep
  <1>3. RetainedInv => RetainedStays
    BY DEF RetainedInv, RetainedStays, Durable
  <1> QED BY <1>1, <1>2, <1>3, MaintenanceInvariant, PTL DEF BackupSpec

\* A record that protects something protects what is there to stay.
Protecting(row) ==
    row.state \in {"linked", "active"} =>
        row.roots \in RootSets /\ \A a \in Closure(row.roots) : Durable(a)

\* Every record that processes see, or would see after a power loss, protects; the two
\* differ only while the command that publishes or retires a pin is at work.
PinsInv ==
    /\ doing = "lease" => request.roots \in RootSets
    /\ doing = "syncPin" => pins[request.id].state = "linked"
    /\ \A i \in PinIds : Protecting(pins[i])
    /\ "power" \in FaultKinds => \A i \in PinIds : Protecting(pinDisk[i])
    /\ "power" \in FaultKinds /\ doing \notin {"syncPin", "syncRetired"} => pinDisk = pins
    /\ doing = "move" => \A i \in Active : left \cap Closure(pins[i].roots) = {}

\* What Protecting says of a record after the step.
StillProtecting(row) ==
    row.state \in {"linked", "active"} =>
        row.roots \in RootSets /\ \A a \in Closure(row.roots) : Durable(a)'

\* A record of a pin goes on protecting over any step.
LEMMA ProtectingStays ==
    ASSUME PinnableAddressed, MaintenanceInv, [BackupNext]_maintenanceVars, NEW row,
           Protecting(row),
           row.state \in {"linked", "active"} /\ doing = "move" =>
               left \cap Closure(row.roots) = {}
    PROVE  StillProtecting(row)
  <1> SUFFICES ASSUME row.state \in {"linked", "active"}, NEW a \in Closure(row.roots)
               PROVE  row.roots \in RootSets /\ Durable(a)'
    BY DEF Protecting, StillProtecting
  <1>1. row.roots \in RootSets /\ Durable(a) /\ a \in Artifacts
    BY ClosureIsArtifacts DEF Protecting
  <1>2. Addressed(a)
    BY <1>1 DEF PinnableAddressed
  <1>3. ~(doing = "move" /\ a \in left)
    OBVIOUS
  <1> QED BY <1>1, <1>2, <1>3, DurableKept DEF MaintenanceInv

\* What a step does to the records.
LEMMA PinSteps ==
    ASSUME TypesHold, [BackupNext]_maintenanceVars
    PROVE  \/ /\ UNCHANGED <<pins, pinDisk>>
              /\ \/ /\ doing' \notin {"lease", "syncPin", "syncRetired"}
                    /\ doing \notin {"syncPin", "syncRetired"}
                 \/ UNCHANGED <<doing, request>>
                 \/ OperatorDies
                 \/ doing' = "lease" /\ doing = "nothing" /\ request'.roots \in RootSets
           \/ LinkPin \/ RefusePin \/ FindPin \/ SyncPin \/ SyncRetired \/ HostLosesPower
           \/ \E i \in PinIds : RetirePin(i)
  <1>1. CASE \/ Others \/ QueueQuiet \/ UNCHANGED maintenanceVars
             \/ \E a \in Artifacts : LeaseOpens(a) \/ CutLeaseOpens(a)
    BY <1>1 DEF Others, QueueQuiet, Retain, LetGo, LeaseOpens, CutLeaseOpens, retentionVars,
                opVars, pinVars, maintenanceVars, allVars
  <1>2. CASE MoveOne \/ CollectQuiet
    BY <1>2 DEF MoveOne, CollectQuiet, PlanSweep, SweepRefused, MarkBatch, BeginMoving, BeginPurge,
       TearOne, DeleteOne, PurgeRefused, WriteReceipt, RemoveBatch, Finish, Now, opVars, pinVars
  <1>3. CASE BackupQuiet
    BY <1>3 DEF BackupQuiet, BeginBackup, CaptureCut, CutRefused, EndCut, CopyOne,
           CopySpoiled, VerifyCopy, CopyRejected,
           PlaceGeneration, FindGeneration, MarkGeneration, BackupFails, Finish, Now, pinVars
  <1>4. CASE OperatorDies
    BY <1>4 DEF OperatorDies, pinVars
  <1>5. ASSUME NEW i \in PinIds, NEW roots \in RootSets, BeginPin(i, roots)
        PROVE  /\ UNCHANGED <<pins, pinDisk>>
               /\ doing' = "lease" /\ doing = "nothing" /\ request'.roots \in RootSets
    BY <1>5 DEF BeginPin, Now, pinVars
  <1>6. CASE LeaseFails \/ IndexPin \/ IndexFails \/ \E i \in PinIds : RetireAgain(i)
    BY <1>6 DEF LeaseFails, IndexPin, IndexFails, RetireAgain, Finish, Now, pinVars, opVars
  <1> QED BY <1>1, <1>2, <1>3, <1>4, <1>5, <1>6, StepKinds DEF PinQuiet

\* Between the two directory syncs of a command, either the process is killed or the
\* host loses power, not first one and later the other.
PowerOrDeath == ~({"death", "power"} \subseteq FaultKinds)

\* A step that is not about to move anything, by what it leaves of the records.
LEMMA PinsKept ==
    ASSUME PinsInv, doing' # "move" \/ (\A i \in Active' : left' \cap Closure(pins'[i].roots) = {}),
           doing' = "lease" => request'.roots \in RootSets,
           doing' = "syncPin" => pins'[request'.id].state = "linked",
           \A i \in PinIds : StillProtecting(pins'[i]),
           "power" \in FaultKinds => \A i \in PinIds : StillProtecting(pinDisk'[i]),
           "power" \in FaultKinds /\ doing' \notin {"syncPin", "syncRetired"} => pinDisk' = pins'
    PROVE  PinsInv'
  BY DEF PinsInv, Protecting, StillProtecting

LEMMA PinsStep ==
    ASSUME PinnableAddressed, PowerOrDeath, MaintenanceInv, PinsInv, [BackupNext]_maintenanceVars
    PROVE  PinsInv'
  <1>1. \A i \in PinIds : StillProtecting(pins[i])
    <2> SUFFICES ASSUME NEW i \in PinIds PROVE StillProtecting(pins[i])
      OBVIOUS
    <2>1. Protecting(pins[i])
      BY DEF PinsInv
    <2>2. pins[i].state \in {"linked", "active"} /\ doing = "move" =>
              left \cap Closure(pins[i].roots) = {}
      BY DEF PinsInv, Active
    <2> QED BY <2>1, <2>2, ProtectingStays
  <1>2. ASSUME "power" \in FaultKinds PROVE \A i \in PinIds : StillProtecting(pinDisk[i])
    <2> SUFFICES ASSUME NEW i \in PinIds PROVE StillProtecting(pinDisk[i])
      OBVIOUS
    <2>1. Protecting(pinDisk[i])
      BY <1>2 DEF PinsInv
    <2>2. pinDisk[i].state \in {"linked", "active"} /\ doing = "move" =>
              left \cap Closure(pinDisk[i].roots) = {}
      BY <1>2 DEF PinsInv, Active
    <2> QED BY <2>1, <2>2, ProtectingStays
  <1>3. doing' = "move" => \A i \in Active' : left' \cap Closure(pins'[i].roots) = {}
    <2> SUFFICES ASSUME doing' = "move" PROVE \A i \in Active' : left' \cap Closure(pins'[i].roots) = {}
      OBVIOUS
    <2>1. pins' = pins
      BY MovingSpares DEF MaintenanceInv
    <2>2. Active' = Active
      BY <2>1 DEF Active
    <2>3. \A i \in Active : left' \cap Closure(pins[i].roots) = {}
      BY MovingSpares DEF MaintenanceInv, PinsInv
    <2> QED BY <2>1, <2>2, <2>3
  <1>4. \A i \in PinIds : pins[i] \in PinRow /\ pinDisk[i] \in PinRow
    BY DEF MaintenanceInv, TypesHold, FileTypes
  <1>5. CASE LinkPin
    <2> PICK row : row = [state |-> "linked", roots |-> request.roots, at |-> request.at]
      OBVIOUS
    <2>1. /\ pins' = [pins EXCEPT ![request.id] = row] /\ pinDisk' = pinDisk
          /\ doing = "lease" /\ doing' = "syncPin" /\ Missing = {} /\ request' = request
      BY <1>5 DEF LinkPin, Now
    <2>2. row.roots = request.roots /\ row.roots \in RootSets /\ row.state = "linked"
      BY <2>1 DEF PinsInv
    <2>3. Protecting(row)
      <3>1. handles[Operator] \in SUBSET Artifacts /\ handles[Operator] \subseteq opened
        BY RetentionAssumption DEF MaintenanceInv, StoreBesideInv, StoreTypeOK, HandlesInv
      <3>2. /\ request.roots \subseteq handles[Operator]
            /\ \A b \in handles[Operator] : Inputs[b] \subseteq handles[Operator]
        BY <2>1 DEF Missing
      <3>3. Closure(row.roots) \subseteq opened
        BY <2>2, <3>1, <3>2, ClosureIsLeast
      <3> QED BY <2>2, <3>3 DEF Protecting, MaintenanceInv, StoreBesideInv, FileInv
    <2>4. StillProtecting(row)
      BY <2>1, <2>3, ProtectingStays
    <2>5. \A i \in PinIds : pins'[i] \in {pins[i], row}
      BY <2>1 DEF MaintenanceInv, TypesHold, FileTypes
    <2>6. \A i \in PinIds : StillProtecting(pins'[i])
      BY <1>1, <2>4, <2>5
    <2>7. pins'[request'.id].state = "linked"
      BY <2>1, <2>2 DEF MaintenanceInv, TypesHold, NamedInv, FileTypes
    <2> QED BY <1>2, <2>1, <2>6, <2>7, PinsKept
  <1>6. CASE SyncPin
    <2> PICK row : row = [pins[request.id] EXCEPT !.state = "active"]
      OBVIOUS
    <2>1. /\ pins' = [pins EXCEPT ![request.id] = row] /\ pinDisk' = pins'
          /\ doing' = "indexPin" /\ doing = "syncPin"
      BY <1>6 DEF SyncPin, Now
    <2>2. request.id \in PinIds
      BY <2>1 DEF MaintenanceInv, TypesHold, NamedInv
    <2>3. row.roots = pins[request.id].roots /\ pins[request.id].state = "linked"
      BY <1>4, <2>1, <2>2 DEF PinRow, PinsInv
    <2>4. StillProtecting(row)
      BY <1>1, <2>2, <2>3 DEF StillProtecting
    <2>5. \A i \in PinIds : pins'[i] \in {pins[i], row}
      BY <2>1 DEF MaintenanceInv, TypesHold, FileTypes
    <2>6. \A i \in PinIds : StillProtecting(pins'[i])
      BY <1>1, <2>4, <2>5
    <2> QED BY <2>1, <2>6, PinsKept
  <1>7. ASSUME NEW i \in PinIds, RetirePin(i) PROVE PinsInv'
    <2> PICK row : row = [pins[i] EXCEPT !.state = "retired"]
      OBVIOUS
    <2>1. /\ pins' = [pins EXCEPT ![i] = row] /\ pinDisk' = pinDisk /\ doing' = "syncRetired"
      BY <1>7 DEF RetirePin, Now
    <2>2. row.state = "retired"
      BY <1>4 DEF PinRow
    <2>3. \A j \in PinIds : pins'[j] \in {pins[j], row}
      BY <2>1 DEF MaintenanceInv, TypesHold, FileTypes
    <2>4. StillProtecting(row)
      BY <2>2 DEF StillProtecting
    <2>5. \A j \in PinIds : StillProtecting(pins'[j])
      BY <1>1, <2>3, <2>4
    <2> QED BY <1>2, <2>1, <2>5, PinsKept
  <1>8. CASE RefusePin
    <2>1. pins' = pins /\ pinDisk' \in {pins, pinDisk} /\ doing = "lease" /\ doing' = "nothing"
      BY <1>8 DEF RefusePin, Finish, Now
    <2>2. "power" \in FaultKinds => pinDisk = pins
      BY <2>1 DEF PinsInv
    <2> QED BY <1>1, <1>2, <2>1, <2>2, PinsKept
  <1>9. CASE FindPin \/ SyncRetired
    <2>1. pins' = pins /\ pinDisk' = pins /\ doing' \in {"indexPin", "nothing"}
      BY <1>9 DEF FindPin, SyncRetired, Finish, Now
    <2> QED BY <1>1, <2>1, PinsKept
  <1>10. CASE HostLosesPower
    <2>1. /\ \A i \in PinIds : pins'[i] \in {pins[i], pinDisk[i]}
          /\ pinDisk' = pins' /\ doing' = "nothing" /\ "power" \in FaultKinds
      BY <1>10 DEF HostLosesPower, Finish, Now, PowerLoss, Fault
    <2>2. \A i \in PinIds : StillProtecting(pins'[i])
      BY <1>1, <1>2, <2>1
    <2> QED BY <2>1, <2>2, PinsKept
  <1>11. CASE /\ UNCHANGED <<pins, pinDisk>>
              /\ \/ /\ doing' \notin {"lease", "syncPin", "syncRetired"}
                    /\ doing \notin {"syncPin", "syncRetired"}
                 \/ UNCHANGED <<doing, request>>
                 \/ OperatorDies
                 \/ doing' = "lease" /\ doing = "nothing" /\ request'.roots \in RootSets
    <2>1. "power" \in FaultKinds => ~OperatorDies
      BY DEF OperatorDies, Fault, PowerOrDeath
    <2>2. OperatorDies => doing' = "nothing"
      BY DEF OperatorDies, Finish, Now
    <2>3. doing' = "lease" => request'.roots \in RootSets
      BY <1>11, <2>2 DEF PinsInv
    <2>4. "power" \in FaultKinds /\ doing' \notin {"syncPin", "syncRetired"} => pinDisk' = pins'
      BY <1>11, <2>1 DEF PinsInv
    <2>5. doing' = "syncPin" => pins'[request'.id].state = "linked"
      BY <1>11, <2>2 DEF PinsInv
    <2> QED BY <1>1, <1>2, <1>3, <1>11, <2>3, <2>4, <2>5, PinsKept
  <1> QED BY <1>5, <1>6, <1>7, <1>8, <1>9, <1>10, <1>11, PinSteps DEF MaintenanceInv

\* While kills and power losses do not both strike, the closure of every active pin is
\* committed and outlives a power loss, if it holds no run that another attempt may
\* displace: create_pin leases the closure before it names the pin, and a sweep looks
\* at the pins again under exclusive retention.
THEOREM PinnedAreKept ==
    ASSUME PinnableAddressed, PowerOrDeath PROVE BackupSpec => []PinnedStays
  <1>1. BackupInit => PinsInv
    BY DEF BackupInit, RetentionInit, PinsInv, Protecting, NoPin
  <1>2. MaintenanceInv /\ PinsInv /\ [BackupNext]_maintenanceVars => PinsInv'
    BY PinsStep
  <1>3. PinsInv => PinnedStays
    BY DEF PinsInv, Protecting, PinnedStays, Active, Durable
  <1> QED BY <1>1, <1>2, <1>3, MaintenanceInvariant, PTL DEF BackupSpec

-------------------------------------------------------------------------------
(* What a backup copies.                                                       *)

\* What a backup has still to copy is where it was when the cut was captured.
CutStays == doing \in {"copy", "verify"} => \A a \in left : Committed(a)

\* The cut begins with its closure on the list, and its end finds all of it leased.
CutInv ==
    /\ doing = "leaseCut" => left = Closure(request.roots)
    /\ doing \in {"copy", "verify"} => left \subseteq handles[Operator]

LEMMA CutStep ==
    ASSUME MaintenanceInv, CutInv, [BackupNext]_maintenanceVars PROVE CutInv'
  <1>1. ASSUME doing' \notin {"leaseCut", "copy", "verify"} PROVE CutInv'
    BY <1>1 DEF CutInv
  <1>2. ASSUME UNCHANGED <<doing, request, left>>, handles[Operator] \subseteq handles'[Operator]
        PROVE  CutInv'
    BY <1>2 DEF CutInv, Closure
  <1>3. Operator \in Procs /\ StoreTypeOK
    BY RetentionAssumption DEF MaintenanceInv, StoreBesideInv
  <1>4. CASE Others
    <2>1. UNCHANGED <<doing, request, left>>
      BY <1>4 DEF Others, retentionVars, opVars
    <2>2. handles'[Operator] = handles[Operator]
      BY <1>3, <1>4, OthersLeaveOperator DEF Others, Tick
    <2> QED BY <1>2, <2>1, <2>2
  <1>5. ASSUME NEW a \in Artifacts, LeaseOpens(a) \/ CutLeaseOpens(a) PROVE CutInv'
    <2>1. /\ UNCHANGED <<doing, request, left>>
          /\ handles' = [handles EXCEPT ![Operator] = handles[Operator] \cup {a}]
      BY <1>5 DEF LeaseOpens, CutLeaseOpens, OpenCommitted, retentionVars, opVars
    <2> QED BY <1>2, <1>3, <2>1 DEF StoreTypeOK
  <1>6. CASE HostLosesPower \/ OperatorDies \/ MoveOne \/ CollectQuiet
    BY <1>1, <1>6 DEF HostLosesPower, OperatorDies, MoveOne, CollectQuiet, PlanSweep, SweepRefused,
       MarkBatch, BeginMoving, BeginPurge, TearOne, DeleteOne, PurgeRefused, WriteReceipt,
       RemoveBatch, Finish, Now, opVars
  <1>7. CASE PinQuiet
    <2>1. \/ doing' \notin {"leaseCut", "copy", "verify"}
          \/ UNCHANGED <<doing, request, left, handles>>
      BY <1>7 DEF PinQuiet, BeginPin, LeaseFails, LinkPin, RefusePin, FindPin, SyncPin, IndexPin,
             IndexFails, RetirePin, RetireAgain, SyncRetired, Finish, Now, opVars, storeVars
    <2> QED BY <1>1, <1>2, <2>1
  <1>8. CASE QueueQuiet \/ UNCHANGED maintenanceVars
    <2>1. UNCHANGED <<doing, request, left, handles>>
      BY <1>8 DEF QueueQuiet, Retain, LetGo, opVars, storeVars, maintenanceVars, allVars,
                  retentionVars
    <2> QED BY <1>2, <2>1
  <1>9. CASE \/ BeginBackup \/ CopyRejected \/ MarkGeneration \/ BackupFails
             \/ \E succeeded \in Successful : CutRefused(succeeded)
             \/ \E g \in Generations : PlaceGeneration(g) \/ FindGeneration(g)
    BY <1>1, <1>9 DEF BeginBackup, CutRefused, CopyRejected, PlaceGeneration, FindGeneration,
       MarkGeneration, BackupFails, Finish, Now
  <1>10. ASSUME NEW succeeded \in Successful, CaptureCut(succeeded) PROVE CutInv'
    <2> PICK roots : roots = succeeded \cup PinnedRoots
      OBVIOUS
    <2>1. /\ left' = Closure(roots) /\ request' = [NoRequest EXCEPT !.roots = roots]
          /\ doing' = "leaseCut"
      BY <1>10 DEF CaptureCut, Now
    <2>2. request'.roots = roots
      BY <2>1 DEF NoRequest
    <2> QED BY <2>1, <2>2 DEF CutInv, Closure
  <1>11. CASE EndCut
    <2>1. doing = "leaseCut" /\ Missing = {} /\ UNCHANGED <<handles, left>> /\ doing' = "copy"
      BY <1>11 DEF EndCut, Now
    <2> PICK held : held = handles[Operator]
      OBVIOUS
    <2>2. held \in SUBSET Artifacts
      BY <1>3 DEF StoreTypeOK
    <2>3. request.roots \subseteq held /\ \A b \in held : Inputs[b] \subseteq held
      BY <2>1 DEF Missing
    <2>4. left \subseteq held
      BY <2>1, <2>2, <2>3, ClosureIsLeast DEF CutInv
    <2> QED BY <2>1, <2>4 DEF CutInv
  <1>12. CASE CopyOne \/ CopySpoiled \/ VerifyCopy
    <2>1. /\ doing \in {"copy", "verify"} /\ doing' \in {"copy", "verify"}
          /\ left' \subseteq left /\ handles' = handles
      BY <1>12 DEF CopyOne, CopySpoiled, VerifyCopy, Now, storeVars
    <2> QED BY <2>1 DEF CutInv
  <1> QED BY <1>4, <1>5, <1>6, <1>7, <1>8, <1>9, <1>10, <1>11, <1>12, StepKinds DEF BackupQuiet

\* Beside publishers that displace what stands at a shared path, and after retention.lock
\* was given back, every artifact that create_generation has still to copy stays
\* committed in its place: its lease was opened before the lock was released.
THEOREM CutsStayWhileCopied == BackupSpec => []CutStays
  <1>1. BackupInit => CutInv
    BY DEF BackupInit, RetentionInit, CutInv
  <1>2. MaintenanceInv /\ CutInv /\ [BackupNext]_maintenanceVars => CutInv'
    BY CutStep
  <1>3. MaintenanceInv /\ CutInv => CutStays
    BY RetentionAssumption
       DEF MaintenanceInv, StoreBesideInv, FileInv, LeasedIsWhole, CutInv, CutStays
  <1> QED BY <1>1, <1>2, <1>3, MaintenanceInvariant, PTL DEF BackupSpec

-------------------------------------------------------------------------------
(* What a sweep takes.                                                         *)

\* What a sweep has still to move is neither named by a job row or an active pin, nor
\* young, nor an input, at any distance, of what is.
SweepsSpare ==
    doing = "move" => left \cap Closure(retained \cup PinnedRoots \cup Young(plan.at)) = {}

\* While a sweep moves, nobody else commits anything.
LEMMA MovingAlone ==
    ASSUME TypesHold, StoreBesideInv, doing = "move", Others \/ UNCHANGED maintenanceVars
    PROVE  \A a \in Artifacts : Committed(a)' => tree'[PathOf[a]] = tree[PathOf[a]]
  <1> USE DEF TypesHold, StoreBesideInv
  <1>1. ASSUME NEW p \in Procs, ProcStep(p)
        PROVE  \A a \in Artifacts : Committed(a)' => tree'[PathOf[a]] = tree[PathOf[a]]
    <2>1. step[p] \notin Installing /\ ~Quarantine(p) /\ ~Conflict(p)
      BY AloneInStore DEF OperatorInv
    <2>2. CASE InstallRename(p)
      <3>1. /\ tree' = [tree EXCEPT ![Destination(p)] = Unmarked(draft[p])]
            /\ ~Unmarked(draft[p]).marked
        BY <2>2 DEF InstallRename, Unmarked
      <3> QED BY <3>1, StoreAssumption DEF Committed, Holds, StoreTypeOK
    <2>3. CASE ~InstallRename(p)
      BY <1>1, <2>1, <2>3 DEF ProcStep, OpenCommitted, CloseHandle, BeginStage, TakeWriter, Abort,
         BeginCommit, PublishTakesRetention, RefuseInputs, Reuse, NeedExclusive, TakeExclusive,
         SyncParent, Mark, SyncRoot, PublishFails, Die, files, Installing
    <2> QED BY <2>2, <2>3
  <1>2. CASE UNCHANGED files
    BY <1>2 DEF files
  <1> QED BY <1>1, <1>2 DEF Others, Tick, maintenanceVars, allVars, storeVars

\* Then nothing becomes young either.
LEMMA ProtectedShrinks ==
    ASSUME UNCHANGED <<retained, pins, plan>>, NEW t, t = plan.at,
           \A a \in Artifacts : Committed(a)' => tree'[PathOf[a]] = tree[PathOf[a]]
    PROVE  Closure(retained \cup PinnedRoots \cup Young(t))' \subseteq
           Closure(retained \cup PinnedRoots \cup Young(t))
  <1>1. Young(t)' \subseteq Young(t)
    BY DEF Young, Inventory, Age, Committed
  <1>2. PinnedRoots' = PinnedRoots
    BY DEF PinnedRoots, Active
  <1> PICK few : few = (retained \cup PinnedRoots \cup Young(t))'
    OBVIOUS
  <1> PICK many : many = retained \cup PinnedRoots \cup Young(t)
    OBVIOUS
  <1>3. few \subseteq many
    BY <1>1, <1>2
  <1> QED BY <1>3, ClosureGrows DEF Closure

LEMMA SweepsSpareStep ==
    ASSUME MaintenanceInv, SweepsSpare, [BackupNext]_maintenanceVars PROVE SweepsSpare'
  <1> USE DEF MaintenanceInv
  <1> SUFFICES ASSUME doing' = "move" PROVE SweepsSpare'
    BY DEF SweepsSpare
  <1> PICK t : t = plan.at
    OBVIOUS
  <1> DEFINE Kept == Closure(retained \cup PinnedRoots \cup Young(t))
  <1>1. ASSUME UNCHANGED <<retained, pins, plan>>, left' \cap Kept = {},
               \A a \in Artifacts : Committed(a)' => tree'[PathOf[a]] = tree[PathOf[a]]
        PROVE  SweepsSpare'
    <2>1. Kept' \subseteq Kept
      BY <1>1, ProtectedShrinks
    <2>2. plan'.at = t
      BY <1>1
    <2> QED BY <1>1, <2>1, <2>2 DEF SweepsSpare
  <1>2. ASSUME NEW b \in Batches, BeginMoving(b) PROVE SweepsSpare'
    <2>1. /\ left' = plan.candidates /\ Confirmed /\ UNCHANGED <<retained, pins, plan, tree>>
      BY <1>2 DEF BeginMoving, pinVars, KeepStore, files
    <2>2. /\ plan.candidates = Fitting(Unprotected(plan.retained, t))
          /\ retained \subseteq plan.retained
      BY <2>1 DEF Confirmed, SweepPlan
    <2>3. /\ Unprotected(plan.retained, t) \in SUBSET Artifacts
          /\ Unprotected(plan.retained, t)
                 \cap Closure(plan.retained \cup PinnedRoots \cup Young(t)) = {}
      BY DEF Unprotected, Inventory
    <2>4. Kept \subseteq Closure(plan.retained \cup PinnedRoots \cup Young(t))
      BY <2>2, ClosureGrows
    <2>5. left' \subseteq Unprotected(plan.retained, t)
      BY <2>1, <2>2, <2>3, FittingAssumption
    <2>6. left' \cap Kept = {}
      <3> HIDE DEF Kept
      <3> QED BY <2>3, <2>4, <2>5
    <2> QED BY <1>1, <2>1, <2>6
  <1>3. CASE MoveOne
    <2>1. PICK e \in left :
              /\ left' = left \ {e} /\ PathOf[e] \in Paths
              /\ tree' = [tree EXCEPT ![PathOf[e]] = Empty]
      BY <1>3, MovedAway DEF StoreBesideInv, TypesHold
    <2>2. doing = "move" /\ UNCHANGED <<retained, pins, plan>>
      BY <1>3 DEF MoveOne, pinVars
    <2>3. \A a \in Artifacts : Committed(a)' => tree'[PathOf[a]] = tree[PathOf[a]]
      BY <2>1, EntryFacts, StoreAssumption DEF Committed, Holds, StoreBesideInv, StoreTypeOK
    <2>4. left' \cap Kept = {}
      BY <2>1, <2>2 DEF SweepsSpare
    <2> QED BY <1>1, <2>2, <2>3, <2>4
  <1>4. CASE doing = "move" /\ (Others \/ UNCHANGED maintenanceVars)
    <2>1. UNCHANGED <<retained, pins, plan, left>>
      BY <1>4 DEF Others, retentionVars, opVars, pinVars, maintenanceVars, allVars
    <2>2. left' \cap Kept = {}
      BY <1>4, <2>1 DEF SweepsSpare
    <2> QED BY <1>1, <1>4, <2>1, <2>2, MovingAlone
  <1> QED BY <1>2, <1>3, <1>4, MovingSteps

\* At every artifact that a sweep moves, beside publishers that go on and whatever its
\* byte budget, what is left to move has none of what job rows and active pins name,
\* of what is younger than the minimum age, or of what these are built from.
THEOREM SweepsSpareTheProtected == BackupSpec => []SweepsSpare
  <1>1. BackupInit => SweepsSpare
    BY DEF BackupInit, RetentionInit, SweepsSpare
  <1>2. MaintenanceInv /\ SweepsSpare /\ [BackupNext]_maintenanceVars => SweepsSpare'
    BY SweepsSpareStep
  <1> QED BY <1>1, <1>2, MaintenanceInvariant, PTL DEF BackupSpec

-------------------------------------------------------------------------------
(* Lineage beside sweeps.                                                      *)

\* What some sweep moved into a batch, whatever became of the batch.
Swept == UNION {batches[b].moved : b \in Batches}

\* An input that a committed artifact lacks was moved by a sweep.
OnlySweepsTakeInputs == \A a \in Inventory : Inputs[a] \subseteq Inventory \cup Swept

LineageBesideInv == LineageBut(Swept)

\* No batch forgets what was moved into it.
LEMMA MovedIsRecorded ==
    ASSUME TypesHold, [BackupNext]_maintenanceVars, NEW b \in Batches
    PROVE  batches[b].moved \subseteq batches'[b].moved
  <1> USE DEF TypesHold
  <1>1. ASSUME NEW c \in Batches, NEW row, batches' = [batches EXCEPT ![c] = row],
               batches[c].moved \subseteq row.moved
        PROVE  batches[b].moved \subseteq batches'[b].moved
    BY <1>1 DEF FileTypes
  <1>2. CASE \/ Others \/ QueueQuiet \/ UNCHANGED maintenanceVars \/ BackupQuiet
             \/ \E a \in Artifacts : LeaseOpens(a) \/ CutLeaseOpens(a)
    <2>1. batches' = batches
      BY <1>2 DEF Others, QueueQuiet, Retain, LetGo, LeaseOpens, CutLeaseOpens, retentionVars,
             trashVars, maintenanceVars, allVars, BackupQuiet, BeginBackup, CaptureCut, CutRefused,
             EndCut, CopyOne, CopySpoiled, VerifyCopy, CopyRejected,
             PlaceGeneration, FindGeneration, MarkGeneration, BackupFails
    <2> QED BY <2>1
  <1>3. CASE \/ HostLosesPower \/ OperatorDies \/ PinQuiet
             \/ PlanSweep \/ SweepRefused \/ PurgeRefused \/ WriteReceipt
             \/ \E c \in Batches : BeginPurge(c)
    <2>1. batches' = batches
      BY <1>3 DEF HostLosesPower, OperatorDies, PinQuiet, BeginPin, LeaseFails, LinkPin, RefusePin,
             FindPin, SyncPin, IndexPin, IndexFails, RetirePin, RetireAgain, SyncRetired, trashVars,
             PlanSweep, SweepRefused, PurgeRefused, WriteReceipt, BeginPurge
    <2> QED BY <2>1
  <1>4. ASSUME NEW c \in Batches, BeginMoving(c)
        PROVE  batches[b].moved \subseteq batches'[b].moved
    <2> PICK row : row = [batches[c] EXCEPT !.state = "unmarked"]
      OBVIOUS
    <2>1. batches' = [batches EXCEPT ![c] = row] /\ row.moved = batches[c].moved
      BY <1>4, BatchFields DEF BeginMoving
    <2> QED BY <1>1, <2>1
  <1>5. CASE MoveOne
    <2> PICK a : a = Smallest(left)
      OBVIOUS
    <2> PICK row : row = [batches[working] EXCEPT !.moved = batches[working].moved \cup {a},
                                                  !.whole = batches[working].whole \cup {a}]
      OBVIOUS
    <2>1. working \in Batches /\ batches' = [batches EXCEPT ![working] = row]
      BY <1>5 DEF MoveOne, NamedInv
    <2>2. row.moved = batches[working].moved \cup {a}
      BY <2>1, BatchFields
    <2> QED BY <1>1, <2>1, <2>2
  <1>6. CASE MarkBatch
    <2> PICK row : row = [batches[working] EXCEPT !.state = "marked", !.at = now]
      OBVIOUS
    <2>1. working \in Batches /\ batches' = [batches EXCEPT ![working] = row]
      BY <1>6 DEF MarkBatch, NamedInv
    <2>2. row.moved = batches[working].moved
      BY <2>1, BatchFields
    <2> QED BY <1>1, <2>1, <2>2
  <1>7. CASE TearOne \/ DeleteOne \/ RemoveBatch
    <2> PICK few : few = batches[working].whole \ {Smallest(left)}
      OBVIOUS
    <2> PICK more : more = batches[working].torn \cup {Smallest(left)}
      OBVIOUS
    <2>1. PICK row : /\ batches' = [batches EXCEPT ![working] = row]
                     /\ \/ row = [batches[working] EXCEPT !.whole = few, !.torn = more]
                        \/ row = [batches[working] EXCEPT !.torn = {}]
                        \/ row = [batches[working] EXCEPT !.state = "removed"]
      BY <1>7 DEF TearOne, DeleteOne, RemoveBatch
    <2>2. working \in Batches
      BY <1>7 DEF TearOne, DeleteOne, RemoveBatch, NamedInv
    <2>3. /\ [batches[working] EXCEPT !.whole = few, !.torn = more].moved = batches[working].moved
          /\ [batches[working] EXCEPT !.torn = {}].moved = batches[working].moved
          /\ [batches[working] EXCEPT !.state = "removed"].moved = batches[working].moved
      BY <2>2 DEF FileTypes, BatchRow
    <2>4. row.moved = batches[working].moved
      BY <2>1, <2>3
    <2> QED BY <1>1, <2>1, <2>2, <2>4
  <1> QED BY <1>2, <1>3, <1>4, <1>5, <1>6, <1>7, StepKinds DEF CollectQuiet

\* Outside the sweeps the lineage is the store's own business.
LEMMA LineageOutside ==
    ASSUME InputsAddressed, StoreBesideInv, NEW gone, LineageBut(gone),
           [BackupNext]_maintenanceVars, ~MoveOne
    PROVE  LineageBut(gone)'
  <1> USE DEF StoreBesideInv
  <1>1. CASE Others
    <2>1. StoreNext
      BY <1>1 DEF Others, StoreNext
    <2> QED BY <2>1, LineageStep
  <1>2. CASE HostLosesPower
    BY <1>2, LineagePowerLoss DEF HostLosesPower
  <1>3. ASSUME NEW a \in Artifacts, LeaseOpens(a) \/ CutLeaseOpens(a) PROVE LineageBut(gone)'
    <2>1. StoreNext
      BY <1>3, RetentionAssumption DEF LeaseOpens, CutLeaseOpens, ProcStep, StoreNext
    <2> QED BY <2>1, LineageStep
  <1>4. CASE \/ PinQuiet \/ CollectQuiet \/ QueueQuiet \/ BackupQuiet \/ OperatorDies
             \/ UNCHANGED maintenanceVars
    <2>1. UNCHANGED <<tree, disk, step, draft>>
      BY <1>4, QuietLocks DEF LocksOnly
    <2> QED BY <2>1 DEF LineageBut, Durable, Committed
  <1> QED BY <1>1, <1>2, <1>3, <1>4, StepKinds

\* What a sweep moves is missing, but recorded.
LEMMA LineageMoves ==
    ASSUME MaintenanceInv, LineageBut(Swept), MoveOne, Swept \subseteq Swept'
    PROVE  LineageBut(Swept)'
  <1> USE DEF MaintenanceInv
  <1>1. PICK e \in left :
            /\ e = Smallest(left) /\ PathOf[e] \in Paths
            /\ tree' = [tree EXCEPT ![PathOf[e]] = Empty]
    BY MovedAway DEF StoreBesideInv, TypesHold
  <1>2. e \in Swept'
    <2> PICK row : row = [batches[working] EXCEPT !.moved = batches[working].moved \cup {e},
                                                  !.whole = batches[working].whole \cup {e}]
      OBVIOUS
    <2>1. working \in Batches /\ batches' = [batches EXCEPT ![working] = row]
      BY <1>1 DEF MoveOne, TypesHold, NamedInv
    <2>2. e \in row.moved /\ row = batches'[working]
      BY <2>1, BatchFields DEF TypesHold, FileTypes
    <2> QED BY <2>1, <2>2 DEF Swept
  <1>3. \A p \in Procs : step'[p] \notin Installing
    BY AloneInStore DEF MoveOne, StoreBesideInv, OperatorInv
  <1>4. ASSUME NEW a \in Artifacts, Committed(a)', NEW c \in Inputs[a], c \notin Swept'
        PROVE  Durable(c)'
    <2>1. c \in Artifacts /\ PathOf[a] \in Paths /\ c # e /\ c \notin Swept
      BY <1>2, <1>4, StoreAssumption
    <2>2. PathOf[a] # PathOf[e] /\ Committed(a)
      BY <1>1, <1>4, <2>1, EntryFacts DEF Committed, Holds, StoreBesideInv, StoreTypeOK
    <2>3. Durable(c)
      BY <2>1, <2>2 DEF LineageBut
    <2> QED BY <1>1, <2>1, <2>3, MovedStays DEF StoreBesideInv, TypesHold
  <1> QED BY <1>3, <1>4 DEF LineageBut

LEMMA LineageBesideStep ==
    ASSUME InputsAddressed, MaintenanceInv, LineageBesideInv, [BackupNext]_maintenanceVars
    PROVE  LineageBesideInv'
  <1>1. Swept \subseteq Swept'
    BY MovedIsRecorded DEF MaintenanceInv, Swept
  <1>2. CASE MoveOne
    BY <1>1, <1>2, LineageMoves DEF LineageBesideInv
  <1>3. CASE ~MoveOne
    <2> PICK gone : gone = Swept
      OBVIOUS
    <2>1. LineageBut(gone)'
      BY <1>3, LineageOutside DEF LineageBesideInv, MaintenanceInv
    <2> QED BY <1>1, <2>1 DEF LineageBesideInv, LineageBut
  <1> QED BY <1>2, <1>3

\* When inputs are at paths of their own, an input that a committed artifact lacks is
\* one that a sweep took, because the artifact itself did not fit the byte budget or
\* the sweep was killed, and stands in the record of the sweep's batch: no publication,
\* replacement, kill, disk error, loss of power, purge or backup takes one away.
THEOREM MissingInputsWereSwept ==
    ASSUME InputsAddressed PROVE BackupSpec => []OnlySweepsTakeInputs
  <1>1. BackupInit => LineageBesideInv
    BY LineageInit DEF BackupInit, RetentionInit, LineageBesideInv, LineageBut
  <1>2. MaintenanceInv /\ LineageBesideInv /\ [BackupNext]_maintenanceVars => LineageBesideInv'
    BY LineageBesideStep
  <1>3. LineageBesideInv => OnlySweepsTakeInputs
    BY StoreAssumption
       DEF LineageBesideInv, LineageBut, OnlySweepsTakeInputs, Inventory, Durable
  <1> QED BY <1>1, <1>2, <1>3, MaintenanceInvariant, PTL DEF BackupSpec
===============================================================================
