------------------------------ MODULE Retention ------------------------------
(***************************************************************************)
(* Pins and two-phase garbage collection over the artifact store.          *)
(*                                                                         *)
(* Every operation here is a command that runs under controller.lock, so   *)
(* one at a time: `Operator` is that process and `doing` where it stands.  *)
(* The other processes of the store (children that outlived a controller,  *)
(* readers) go on meanwhile; only retention.lock and publication.lock      *)
(* stand between them and the operator.  No command runs while a           *)
(* controller serves, so the queue's rows, and with them `retained`, change*)
(* only between commands.                                                  *)
(*                                                                         *)
(* A rename of the collector and the fsyncs after it are one step, and so  *)
(* is a publication of a receipt.                                          *)
(***************************************************************************)
EXTENDS ArtifactStore, SequencesExt

CONSTANTS
    Operator,     \* the process that runs the commands
    PinIds,       \* pin names
    RootSets,     \* the roots an operator may ask to pin
    Retainable,   \* artifacts that job rows may name
    SizeOf,       \* Artifacts -> size_bytes
    MaxSweep,     \* GarbageCollectionPolicy.maximum_sweep_bytes
    MinAge,       \* minimum_artifact_age_ns
    Grace,        \* trash_grace_period_ns
    MaxBatches    \* bound on the sweeps

Batches == 1..MaxBatches
NoPinId == "no pin"

ASSUME RetentionAssumption ==
    /\ Operator \in Procs
    /\ NoPinId \notin PinIds
    /\ RootSets \subseteq (SUBSET Artifacts) \ {{}}
    /\ Retainable \subseteq Artifacts
    /\ SizeOf \in [Artifacts -> Nat]
    /\ MaxSweep \in Nat
    /\ MinAge \in Nat
    /\ Grace \in Nat
    /\ MaxBatches \in Nat

VARIABLES
    pins,       \* the record of each pin name, as processes see it
    pinDisk,    \* the same after a power loss
    indexed,    \* pins the SQLite projection lists as active
    retained,   \* what SQLiteRetentionRootProvider.retained_roots reads
    doing,      \* where the operator stands
    request,    \* the pin it creates or retires
    plan,       \* the plan it executes
    left,       \* candidates or trees it has still to handle
    working,    \* the batch it works on
    batches,    \* the directories under gc-batches
    receipts    \* batches with a deletion receipt

pinVars == <<pins, pinDisk, indexed>>
opVars == <<doing, request, plan, left, working>>
trashVars == <<batches, receipts>>
retentionVars == <<pinVars, retained, opVars, trashVars>>
allVars == <<storeVars, retentionVars>>

-------------------------------------------------------------------------------

\* A pin is "linked" while its record has the temporary name as well: readers
\* refuse a file with two links.
PinRow == [state : {"absent", "linked", "active", "retired"},
           roots : SUBSET Artifacts, at : Nat]
NoPin == [state |-> "absent", roots |-> {}, at |-> 0]
Request == [id : PinIds \cup {NoPinId}, roots : SUBSET Artifacts, at : Nat]
NoRequest == [id |-> NoPinId, roots |-> {}, at |-> 0]
Plan == [at : Nat, retained : SUBSET Artifacts, pinned : SUBSET Artifacts,
         candidates : SUBSET Artifacts]
NoPlan == [at |-> 0, retained |-> {}, pinned |-> {}, candidates |-> {}]

\* A batch: what was moved into it, which trees are intact and which half deleted.
BatchRow == [state : {"absent", "unmarked", "marked", "removed"},
             moved : SUBSET Artifacts, whole : SUBSET Artifacts,
             torn : SUBSET Artifacts, at : Nat]
NoBatch == [state |-> "absent", moved |-> {}, whole |-> {}, torn |-> {}, at |-> 0]

\* The last five places of `doing` are those of Backup, another command.
RetentionTypeOK ==
    /\ StoreTypeOK
    /\ pins \in [PinIds -> PinRow]
    /\ pinDisk \in [PinIds -> PinRow]
    /\ indexed \subseteq PinIds
    /\ retained \subseteq Artifacts
    /\ doing \in {"nothing", "lease", "syncPin", "indexPin", "syncRetired",
                  "sweep", "move", "purge", "tear",
                  "cut", "leaseCut", "copy", "verify", "mark"}
    /\ request \in Request
    /\ plan \in Plan
    /\ left \subseteq Artifacts
    /\ working \in 0..MaxBatches
    /\ batches \in [Batches -> BatchRow]
    /\ receipts \subseteq Batches

RetentionInit ==
    /\ StoreInit
    /\ pins = [i \in PinIds |-> NoPin]
    /\ pinDisk = pins
    /\ indexed = {}
    /\ retained = {}
    /\ doing = "nothing"
    /\ request = NoRequest
    /\ plan = NoPlan
    /\ left = {}
    /\ working = 0
    /\ batches = [b \in Batches |-> NoBatch]
    /\ receipts = {}

-------------------------------------------------------------------------------
(* Lineage and plans. *)

\* _closure: everything reachable from the roots over input ids.
Closure(roots) ==
    {a \in Artifacts : \A C \in SUBSET Artifacts :
        (roots \subseteq C /\ \A b \in C : Inputs[b] \subseteq C) => a \in C}

Inventory == {a \in Artifacts : Committed(a)}
Age(a, t) == t - tree[PathOf[a]].at
Young(t) == {a \in Inventory : Age(a, t) < MinAge}
Active == {i \in PinIds : pins[i].state \in {"linked", "active"}}
PinnedRoots == UNION {pins[i].roots : i \in Active}

\* What _plan_locked does not protect.
Unprotected(kept, t) ==
    Inventory \ Closure(kept \cup PinnedRoots \cup Young(t))

\* The sweep takes unprotected artifacts by id as long as they fit the byte budget
\* and passes over those that do not.
Fitting(as) ==
    LET add(taken, a) ==
            IF taken.bytes + SizeOf[a] <= MaxSweep
            THEN [bytes |-> taken.bytes + SizeOf[a], set |-> taken.set \cup {a}]
            ELSE taken
    IN  FoldLeft(add, [bytes |-> 0, set |-> {}], SetToSortSeq(as, LAMBDA a, b : a < b)).set

\* Of the constants only: a sweep takes nothing that it was not offered.
ASSUME FittingAssumption == \A as \in SUBSET Artifacts : Fitting(as) \subseteq as

\* SweepPlan, were the roots that jobs name left out of what is protected.
PinsOnlySweepPlan(kept, t) ==
    [at |-> t, retained |-> kept, pinned |-> PinnedRoots,
     candidates |-> Fitting(Unprotected({}, t))]

SweepPlan(kept, t) ==
    [at |-> t, retained |-> kept, pinned |-> PinnedRoots,
     candidates |-> Fitting(Unprotected(kept, t))]

\* _active_pins_locked raises for a pin it cannot read, _closure for a root or an
\* input that is not in the inventory.
Plannable(kept, t) ==
    /\ \A i \in PinIds : pins[i].state # "linked"
    /\ Closure(kept \cup PinnedRoots \cup Young(t)) \subseteq Inventory

-------------------------------------------------------------------------------
(* The operator's steps. *)

Now(what) == doing' = what

Finish ==
    /\ Now("nothing")
    /\ request' = NoRequest
    /\ plan' = NoPlan
    /\ left' = {}
    /\ working' = 0

ReleaseOperator ==
    /\ handles' = [handles EXCEPT ![Operator] = {}]
    /\ publication' = IF publication = Operator THEN Nobody ELSE publication
    /\ retention' = [retention EXCEPT ![Operator] = "none"]

KeepStore == UNCHANGED <<files, writer, step, draft, known, now, faults>>

(* create_pin *)

BeginPin(i, roots) ==
    /\ doing = "nothing"
    /\ Now("lease")
    /\ request' = [id |-> i, roots |-> roots, at |-> now]
    /\ UNCHANGED <<storeVars, pinVars, retained, plan, left, working, trashVars>>

\* What acquire_lease has still to open: roots, and inputs of what it opened.
Missing ==
    (request.roots \cup UNION {Inputs[b] : b \in handles[Operator]}) \ handles[Operator]

LeaseOpens(a) ==
    /\ doing = "lease"
    /\ a \in Missing
    /\ OpenCommitted(Operator, a)
    /\ UNCHANGED retentionVars

LeaseFails ==
    /\ doing = "lease"
    /\ RetentionShareable
    /\ publication = Nobody
    /\ \E a \in Missing : ~ Committed(a)
    /\ ReleaseOperator
    /\ Finish
    /\ KeepStore
    /\ UNCHANGED <<pinVars, retained, trashVars>>

\* LinkPin, were the lease not held when the pin is published.
UnleasedLinkPin ==
    /\ doing = "lease"
    /\ Missing # {}
    /\ \A a \in request.roots : Committed(a)
    /\ publication = Nobody
    /\ publication' = Operator
    /\ pins[request.id].state = "absent"
    /\ pins' = [pins EXCEPT ![request.id] =
                    [state |-> "linked", roots |-> request.roots, at |-> request.at]]
    /\ Now("syncPin")
    /\ KeepStore
    /\ UNCHANGED <<retention, handles, pinDisk, indexed, retained,
                   request, plan, left, working, trashVars>>

\* The closure is leased: the record is linked to its name.
LinkPin ==
    /\ doing = "lease"
    /\ Missing = {}
    /\ publication = Nobody
    /\ publication' = Operator
    /\ pins[request.id].state = "absent"
    /\ pins' = [pins EXCEPT ![request.id] =
                    [state |-> "linked", roots |-> request.roots, at |-> request.at]]
    /\ Now("syncPin")
    /\ KeepStore
    /\ UNCHANGED <<retention, handles, pinDisk, indexed, retained,
                   request, plan, left, working, trashVars>>

\* The name is taken: by a retired pin, by one that cannot be read, or by another
\* record, of which the time of the request is part.
RefusePin ==
    /\ doing = "lease"
    /\ Missing = {}
    /\ publication = Nobody
    /\ LET found == pins[request.id] IN
        /\ \/ found.state \in {"retired", "linked"}
           \/ found.state = "active" /\ <<found.roots, found.at>> # <<request.roots, request.at>>
        /\ pinDisk' = IF found.state = "retired" THEN pinDisk ELSE pins
    /\ ReleaseOperator
    /\ Finish
    /\ KeepStore
    /\ UNCHANGED <<pins, indexed, retained, trashVars>>

\* The very record is there; the directory is synced again.
FindPin ==
    /\ doing = "lease"
    /\ Missing = {}
    /\ publication = Nobody
    /\ pins[request.id] = [state |-> "active", roots |-> request.roots, at |-> request.at]
    /\ pinDisk' = pins
    /\ Now("indexPin")
    /\ ReleaseOperator
    /\ KeepStore
    /\ UNCHANGED <<pins, indexed, retained, request, plan, left, working, trashVars>>

\* The pins directory is synced, the temporary name removed, the directory synced
\* again; the lease is closed.
SyncPin ==
    /\ doing = "syncPin"
    /\ pins' = [pins EXCEPT ![request.id].state = "active"]
    /\ pinDisk' = pins'
    /\ Now("indexPin")
    /\ ReleaseOperator
    /\ KeepStore
    /\ UNCHANGED <<indexed, retained, request, plan, left, working, trashVars>>

\* IndexPin, were the request given up before its name is read.
ForgetfulIndexPin ==
    /\ doing = "indexPin"
    /\ Finish
    /\ indexed' = indexed \cup {request'.id}
    /\ UNCHANGED <<storeVars, pins, pinDisk, retained, trashVars>>

\* ManageRetention.create_pin indexes the pin.
IndexPin ==
    /\ doing = "indexPin"
    /\ indexed' = indexed \cup {request.id}
    /\ Finish
    /\ UNCHANGED <<storeVars, pins, pinDisk, retained, trashVars>>

(* retire_pin *)

\* Under shared retention and exclusive publication the record is renamed.
RetirePin(i) ==
    /\ doing = "nothing"
    /\ pins[i].state = "active"
    /\ RetentionShareable
    /\ publication = Nobody
    /\ retention' = [retention EXCEPT ![Operator] = "shared"]
    /\ publication' = Operator
    /\ pins' = [pins EXCEPT ![i].state = "retired"]
    /\ request' = [NoRequest EXCEPT !.id = i]
    /\ Now("syncRetired")
    /\ KeepStore
    /\ UNCHANGED <<handles, pinDisk, indexed, retained, plan, left, working, trashVars>>

\* Both directories are synced; the projection follows.
SyncRetired ==
    /\ doing = "syncRetired"
    /\ pinDisk' = pins
    /\ indexed' = indexed \ {request.id}
    /\ ReleaseOperator
    /\ Finish
    /\ KeepStore
    /\ UNCHANGED <<pins, retained, trashVars>>

\* retire_pin finds the pin retired and returns it as it is.
RetireAgain(i) ==
    /\ doing = "nothing"
    /\ pins[i].state = "retired"
    /\ RetentionShareable
    /\ publication = Nobody
    /\ indexed' = indexed \ {i}
    /\ UNCHANGED <<storeVars, pins, pinDisk, retained, opVars, trashVars>>

(* plan_garbage_collection and execute_garbage_collection, one command *)

\* The dry run, under shared retention; it raises when a lineage is incomplete.
PlanSweep ==
    /\ doing = "nothing"
    /\ RetentionShareable
    /\ Plannable(retained, now)
    /\ \E b \in Batches : batches[b].state = "absent"
    /\ plan' = SweepPlan(retained, now)
    /\ Now("sweep")
    /\ UNCHANGED <<storeVars, pinVars, retained, request, left, working, trashVars>>

\* The plan still says what it said, at the time it was made for.
Confirmed ==
    /\ retained \subseteq plan.retained
    /\ Plannable(plan.retained, plan.at)
    /\ SweepPlan(plan.retained, plan.at) = plan

\* A reader holds retention (timeout 0), or the plan is stale.
SweepRefused ==
    /\ doing = "sweep"
    /\ ~ RetentionFree \/ ~ Confirmed
    /\ Finish
    /\ UNCHANGED <<storeVars, pinVars, retained, trashVars>>

\* BeginMoving, were the plan not revalidated under the lock.
BlindBeginMoving(b) ==
    /\ doing = "sweep"
    /\ RetentionFree
    /\ batches[b].state = "absent"
    /\ retention' = [retention EXCEPT ![Operator] = "exclusive"]
    /\ batches' = [batches EXCEPT ![b].state = "unmarked"]
    /\ working' = b
    /\ left' = plan.candidates
    /\ Now("move")
    /\ KeepStore
    /\ UNCHANGED <<publication, handles, pinVars, retained, request, plan, receipts>>

\* Exclusive retention is taken, the plan revalidated and the batch directory made.
BeginMoving(b) ==
    /\ doing = "sweep"
    /\ RetentionFree
    /\ Confirmed
    /\ batches[b].state = "absent"
    /\ retention' = [retention EXCEPT ![Operator] = "exclusive"]
    /\ batches' = [batches EXCEPT ![b].state = "unmarked"]
    /\ working' = b
    /\ left' = plan.candidates
    /\ Now("move")
    /\ KeepStore
    /\ UNCHANGED <<publication, handles, pinVars, retained, request, plan, receipts>>

Smallest(as) == CHOOSE a \in as : \A b \in as : a <= b

\* The next candidate is renamed into the batch.
MoveOne ==
    /\ doing = "move"
    /\ left # {}
    /\ LET a == Smallest(left) IN
        /\ tree' = [tree EXCEPT ![PathOf[a]] = Empty]
        /\ disk' = [disk EXCEPT ![PathOf[a]] = Empty]
        /\ opened' = opened \ {a}
        /\ returned' = returned \ {a}
        /\ batches' = [batches EXCEPT ![working].moved = @ \cup {a},
                                      ![working].whole = @ \cup {a}]
        /\ left' = left \ {a}
    /\ UNCHANGED <<locks, handles, step, draft, now, faults, pinVars, retained,
                   doing, request, plan, working, receipts>>

\* batch.json and COMMITTED are written and synced.
MarkBatch ==
    /\ doing = "move"
    /\ left = {}
    /\ batches' = [batches EXCEPT ![working].state = "marked", ![working].at = now]
    /\ ReleaseOperator
    /\ Finish
    /\ KeepStore
    /\ UNCHANGED <<pinVars, retained, receipts>>

(* purge_trash *)

\* BeginPurge, were batch.json enough and the marker not read.
MarkerlessBeginPurge(b) ==
    /\ doing = "nothing"
    /\ RetentionFree
    /\ b \notin receipts
    /\ batches[b].state \in {"unmarked", "marked"}
    /\ now >= batches[b].at + Grace
    /\ retention' = [retention EXCEPT ![Operator] = "exclusive"]
    /\ working' = b
    /\ left' = batches[b].moved
    /\ Now("purge")
    /\ KeepStore
    /\ UNCHANGED <<publication, handles, pinVars, retained, request, plan, trashVars>>

BeginPurge(b) ==
    /\ doing = "nothing"
    /\ RetentionFree
    /\ b \notin receipts
    /\ batches[b].state = "marked"
    /\ now >= batches[b].at + Grace
    /\ retention' = [retention EXCEPT ![Operator] = "exclusive"]
    /\ working' = b
    /\ left' = batches[b].moved
    /\ Now("purge")
    /\ KeepStore
    /\ UNCHANGED <<publication, handles, pinVars, retained, request, plan, trashVars>>

\* remove_verified_tree: the tree is what the manifest says; files go one by one.
TearOne ==
    /\ doing = "purge"
    /\ left # {}
    /\ LET a == Smallest(left) IN
        /\ a \in batches[working].whole
        /\ batches' = [batches EXCEPT ![working].whole = @ \ {a},
                                      ![working].torn = @ \cup {a}]
    /\ Now("tear")
    /\ UNCHANGED <<storeVars, pinVars, retained, request, plan, left, working, receipts>>

\* The last file and the directories of the tree are gone.
DeleteOne ==
    /\ doing = "tear"
    /\ batches' = [batches EXCEPT ![working].torn = {}]
    /\ left' = left \ {Smallest(left)}
    /\ Now("purge")
    /\ UNCHANGED <<storeVars, pinVars, retained, request, plan, working, receipts>>

\* The tree is not what the manifest says: the purge raises.
PurgeRefused ==
    /\ doing = "purge"
    /\ left # {}
    /\ Smallest(left) \notin batches[working].whole
    /\ ReleaseOperator
    /\ Finish
    /\ KeepStore
    /\ UNCHANGED <<pinVars, retained, trashVars>>

WriteReceipt ==
    /\ doing = "purge"
    /\ left = {}
    /\ working \notin receipts
    /\ receipts' = receipts \cup {working}
    /\ UNCHANGED <<storeVars, pinVars, retained, opVars, batches>>

RemoveBatch ==
    /\ doing = "purge"
    /\ left = {}
    /\ working \in receipts
    /\ batches' = [batches EXCEPT ![working].state = "removed"]
    /\ ReleaseOperator
    /\ Finish
    /\ KeepStore
    /\ UNCHANGED <<pinVars, retained, receipts>>

-------------------------------------------------------------------------------
(* The queue, between commands, and faults. *)

\* A job is queued with the artifact among its inputs, or succeeds with it: either
\* way somebody opened it to verify it.
Retain(a) ==
    /\ doing = "nothing"
    /\ a \in Retainable \ retained
    /\ a \in opened
    /\ retained' = retained \cup {a}
    /\ UNCHANGED <<storeVars, pinVars, opVars, trashVars>>

\* A live job with that input ends.
LetGo(a) ==
    /\ doing = "nothing"
    /\ a \in retained
    /\ retained' = retained \ {a}
    /\ UNCHANGED <<storeVars, pinVars, opVars, trashVars>>

\* The SQLite projection cannot be written: the command fails.
IndexFails ==
    /\ doing = "indexPin"
    /\ Fault("error")
    /\ Finish
    /\ UNCHANGED <<files, locks, handles, step, draft, known, now, pinVars, retained, trashVars>>

OperatorDies ==
    /\ doing # "nothing"
    /\ Fault("death")
    /\ ReleaseOperator
    /\ Finish
    /\ UNCHANGED <<files, writer, step, draft, known, now, pinVars, retained, trashVars>>

\* A pin whose directory was not synced has either record afterwards.
HostLosesPower ==
    /\ PowerLoss
    /\ pins' \in {q \in [PinIds -> {pins[i] : i \in PinIds} \cup {pinDisk[i] : i \in PinIds}] :
                    \A i \in PinIds : q[i] \in {pins[i], pinDisk[i]}}
    /\ pinDisk' = pins'
    /\ Finish
    /\ UNCHANGED <<indexed, retained, trashVars>>

Others ==
    /\ (\E p \in Procs \ {Operator} : ProcStep(p)) \/ Tick
    /\ UNCHANGED retentionVars

PinStep ==
    \/ \E i \in PinIds, roots \in RootSets : BeginPin(i, roots)
    \/ \E a \in Artifacts : LeaseOpens(a)
    \/ LeaseFails \/ LinkPin \/ RefusePin \/ FindPin \/ SyncPin \/ IndexPin \/ IndexFails
    \/ \E i \in PinIds : RetirePin(i) \/ RetireAgain(i)
    \/ SyncRetired

CollectStep ==
    \/ PlanSweep \/ SweepRefused \/ MoveOne \/ MarkBatch
    \/ \E b \in Batches : BeginMoving(b) \/ BeginPurge(b)
    \/ TearOne \/ DeleteOne \/ PurgeRefused \/ WriteReceipt \/ RemoveBatch

RetentionNext ==
    \/ Others
    \/ PinStep
    \/ CollectStep
    \/ \E a \in Artifacts : Retain(a) \/ LetGo(a)
    \/ OperatorDies
    \/ HostLosesPower

RetentionSpec == RetentionInit /\ [][RetentionNext]_allVars

-------------------------------------------------------------------------------
(* Properties. *)

\* What an active pin protects is committed and survives a power loss, inputs of
\* inputs included.
PinnedStays ==
    \A i \in Active : \A a \in Closure(pins[i].roots) :
        Committed(a) /\ Holds(disk[PathOf[a]], a)

\* An artifact that a queued, running or successful job names is there.
RetainedStays == \A a \in retained : Committed(a)

\* Unless a sweep was cut short or is at work, whatever is committed has its
\* inputs: a sweep moves nothing that an artifact it leaves is built from.
LineageIsComplete ==
    (\A b \in Batches : batches[b].state # "unmarked") =>
        \A a \in Inventory : Inputs[a] \subseteq Inventory

\* What the marker and the receipt of a batch say of it is true, wherever a sweep, a
\* purge or its repetition was cut short: without its marker a batch is recoverable,
\* with all that was moved into it intact; with a receipt nothing of it is left.
TrashIsAsMarked ==
    \A b \in Batches :
        /\ batches[b].state = "unmarked" => batches[b].whole = batches[b].moved
        /\ b \in receipts => batches[b].whole = {} /\ batches[b].torn = {}

\* Outside the commands every active pin can be read: no scanner stumbles over a
\* record whose publication was cut short.
PinsAreReadable == doing = "nothing" => \A i \in PinIds : pins[i].state # "linked"
===============================================================================
