---------------------------- MODULE ArtifactStore ----------------------------
(***************************************************************************)
(* The local artifact repository: processes that stage, publish and read   *)
(* immutable artifacts in one data root, kept apart by three advisory file *)
(* locks only.                                                             *)
(*                                                                         *)
(*   writer       exclusive, from stage() to the end of commit() or abort()*)
(*   retention    shared by every open handle and by publication; exclusive*)
(*                to replace what already stands at a final path           *)
(*   publication  exclusive while a publication is in progress             *)
(*                                                                         *)
(* flock belongs to an open description, so a process that holds retention *)
(* through a handle excludes itself.  The locks die with their process.    *)
(*                                                                         *)
(* `tree` is what processes see, `disk` what the fsyncs so far guarantee;  *)
(* after a power loss each path holds either of them.  The staging tree is *)
(* private to its writer and synced before it is renamed, so it appears    *)
(* only as the writer's draft.  A call that raises before it changes       *)
(* anything is no action.                                                  *)
(***************************************************************************)
EXTENDS Naturals, Integers, FiniteSets

CONSTANTS
    Procs,        \* processes with the repository open
    Artifacts,    \* artifact ids: digests, ordered as numbers
    Inputs,       \* Artifacts -> SUBSET Artifacts, the draft's input_artifact_ids
    Paths,        \* final directories
    PathOf,       \* Artifacts -> Paths, by artifact_relative_path
    KeepsInputs,  \* processes that keep inputs open over stage() and commit()
    FaultKinds,   \* which faults happen: "death", "error", "power"
    MaxFaults,    \* bound on their number
    MaxTime       \* bound on the clock

NoArtifact == -1
Nobody == "nobody"

ASSUME StoreAssumption ==
    /\ Artifacts \subseteq Nat
    /\ IsFiniteSet(Artifacts)
    /\ IsFiniteSet(Procs)
    /\ Nobody \notin Procs
    /\ Inputs \in [Artifacts -> SUBSET Artifacts]
    /\ PathOf \in [Artifacts -> Paths]
    /\ KeepsInputs \subseteq Procs
    /\ FaultKinds \subseteq {"death", "error", "power"}
    /\ MaxFaults \in Nat
    /\ MaxTime \in Nat

VARIABLES
    tree,         \* what stands at each path
    disk,         \* what is certain to stand there after a power loss
    writer,       \* the process that holds writer.lock
    retention,    \* how each process's running operation holds retention.lock
    publication,  \* the process that holds publication.lock exclusively
    handles,      \* the artifacts each process has open, each a shared retention
    step,         \* where each process stands in a publication
    draft,        \* what it is publishing
    opened,       \* artifacts whose bytes some reader was handed
    returned,     \* artifacts that the commit() which installed them returned
    now,          \* the clock, of which marker times are readings
    faults        \* faults so far

files == <<tree, disk>>
locks == <<writer, retention, publication>>
known == <<opened, returned>>
storeVars == <<files, locks, handles, step, draft, known, now, faults>>

-------------------------------------------------------------------------------

\* A directory at a final path: whose content, whether COMMITTED is in it and
\* the time of that marker.
Entry == [content : Artifacts \cup {NoArtifact}, marked : BOOLEAN, at : Nat]
Empty == [content |-> NoArtifact, marked |-> FALSE, at |-> 0]
Unmarked(a) == [content |-> a, marked |-> FALSE, at |-> 0]

Steps == {"ready", "wantWriter", "wantRetention", "wantPublication",
          "wantExclusive", "resolving", "renamed", "placed", "marked"}
Installing == {"renamed", "placed", "marked"}

StoreTypeOK ==
    /\ tree \in [Paths -> Entry]
    /\ disk \in [Paths -> Entry]
    /\ writer \in Procs \cup {Nobody}
    /\ retention \in [Procs -> {"none", "shared", "exclusive"}]
    /\ publication \in Procs \cup {Nobody}
    /\ handles \in [Procs -> SUBSET Artifacts]
    /\ step \in [Procs -> Steps]
    /\ draft \in [Procs -> Artifacts \cup {NoArtifact}]
    /\ opened \subseteq Artifacts
    /\ returned \subseteq Artifacts
    /\ now \in 0..MaxTime
    /\ faults \in 0..MaxFaults

StoreInit ==
    /\ tree = [d \in Paths |-> Empty]
    /\ disk = tree
    /\ writer = Nobody
    /\ retention = [p \in Procs |-> "none"]
    /\ publication = Nobody
    /\ handles = [p \in Procs |-> {}]
    /\ step = [p \in Procs |-> "ready"]
    /\ draft = [p \in Procs |-> NoArtifact]
    /\ opened = {}
    /\ returned = {}
    /\ now = 0
    /\ faults = 0

-------------------------------------------------------------------------------
(* Helpers. *)

Holds(entry, a) == entry.content = a /\ entry.marked

\* _verify_committed succeeds for a.
Committed(a) == Holds(tree[PathOf[a]], a)

\* flock: who may take retention.lock in either mode.
RetentionShareable == \A q \in Procs : retention[q] # "exclusive"
RetentionFree == \A q \in Procs : retention[q] = "none" /\ handles[q] = {}

\* fsync of a directory and of its parent.
Synced(as) == [d \in Paths |-> IF d \in {PathOf[a] : a \in as} THEN tree[d] ELSE disk[d]]

Destination(p) == PathOf[draft[p]]
InputsCommitted(p) == \A b \in Inputs[draft[p]] : Committed(b)

\* Holding what the check of the final path needs: retention in either mode and
\* publication.
Checking(p) ==
    /\ step[p] \in {"wantPublication", "resolving"}
    /\ publication = Nobody

\* commit() ends or raises, its callers abort(): the locks of the publication are
\* released, the caller's own handles are not.
Leave(p) ==
    /\ writer' = Nobody
    /\ publication' = IF publication = p THEN Nobody ELSE publication
    /\ retention' = [retention EXCEPT ![p] = "none"]
    /\ step' = [step EXCEPT ![p] = "ready"]
    /\ draft' = [draft EXCEPT ![p] = NoArtifact]

Goto(p, s) == step' = [step EXCEPT ![p] = s]

-------------------------------------------------------------------------------
(* Some definitions are preceded by a form that says what would happen were   *)
(* the code otherwise.  No action uses them: they are what the properties are *)
(* tried against.                                                             *)

\* OpenCommitted, were the directory fsyncs not repeated.
TrustingOpenCommitted(p, a) ==
    /\ step[p] = "ready"
    /\ a \notin handles[p]
    /\ RetentionShareable
    /\ publication = Nobody
    /\ Committed(a)
    /\ handles' = [handles EXCEPT ![p] = @ \cup {a}]
    /\ opened' = opened \cup {a}
    /\ UNCHANGED <<files, locks, step, draft, returned, now, faults>>

\* open_committed.  Its shared publication lock is taken and released within the
\* call and the call writes nothing but fsyncs, so it is one step; retention stays
\* shared for as long as the handle is open.
OpenCommitted(p, a) ==
    /\ step[p] = "ready"
    /\ a \notin handles[p]
    /\ RetentionShareable
    /\ publication = Nobody
    /\ Committed(a)
    /\ disk' = Synced({a})
    /\ handles' = [handles EXCEPT ![p] = @ \cup {a}]
    /\ opened' = opened \cup {a}
    /\ UNCHANGED <<tree, locks, step, draft, returned, now, faults>>

CloseHandle(p, a) ==
    /\ step[p] = "ready"
    /\ a \in handles[p]
    /\ handles' = [handles EXCEPT ![p] = @ \ {a}]
    /\ UNCHANGED <<files, locks, step, draft, known, now, faults>>

-------------------------------------------------------------------------------
(* Publication. *)

\* stage() is called and waits for writer.lock.
BeginStage(p, a) ==
    /\ step[p] = "ready"
    /\ draft[p] = NoArtifact
    /\ p \in KeepsInputs \/ handles[p] = {}
    /\ draft' = [draft EXCEPT ![p] = a]
    /\ Goto(p, "wantWriter")
    /\ UNCHANGED <<files, locks, handles, known, now, faults>>

TakeWriter(p) ==
    /\ step[p] = "wantWriter"
    /\ writer = Nobody
    /\ writer' = p
    /\ Goto(p, "ready")
    /\ UNCHANGED <<files, retention, publication, handles, draft, known, now, faults>>

\* abort(), or a commit() that raises before it publishes.
Abort(p) ==
    /\ step[p] = "ready"
    /\ draft[p] # NoArtifact
    /\ Leave(p)
    /\ UNCHANGED <<files, handles, known, now, faults>>

\* commit(): the staging tree is complete and synced; now it waits for retention.
BeginCommit(p) ==
    /\ step[p] = "ready"
    /\ draft[p] # NoArtifact
    /\ p \in KeepsInputs \/ handles[p] = {}
    /\ Goto(p, "wantRetention")
    /\ UNCHANGED <<files, locks, handles, draft, known, now, faults>>

PublishTakesRetention(p) ==
    /\ step[p] = "wantRetention"
    /\ RetentionShareable
    /\ retention' = [retention EXCEPT ![p] = "shared"]
    /\ Goto(p, "wantPublication")
    /\ UNCHANGED <<files, writer, publication, handles, draft, known, now, faults>>

\* _verify_inputs_locked raises.
RefuseInputs(p) ==
    /\ Checking(p)
    /\ ~ InputsCommitted(p)
    /\ Leave(p)
    /\ UNCHANGED <<files, handles, known, now, faults>>

\* InstallRename, were the inputs verified but not synced.
HastyInstallRename(p) ==
    /\ Checking(p)
    /\ InputsCommitted(p)
    /\ tree[Destination(p)] = Empty
    /\ publication' = p
    /\ tree' = [tree EXCEPT ![Destination(p)] = Unmarked(draft[p])]
    /\ Goto(p, "renamed")
    /\ UNCHANGED <<disk, writer, retention, handles, draft, known, now, faults>>

\* The final path is free: the staging tree is renamed to it.
InstallRename(p) ==
    /\ Checking(p)
    /\ InputsCommitted(p)
    /\ tree[Destination(p)] = Empty
    /\ publication' = p
    /\ tree' = [tree EXCEPT ![Destination(p)] = Unmarked(draft[p])]
    /\ disk' = Synced(Inputs[draft[p]])
    /\ Goto(p, "renamed")
    /\ UNCHANGED <<writer, retention, handles, draft, known, now, faults>>

\* The same artifact is committed there already: staging is discarded and the
\* artifact returned as it is, its directories not synced again.
Reuse(p) ==
    /\ Checking(p)
    /\ InputsCommitted(p)
    /\ Committed(draft[p])
    /\ disk' = Synced(Inputs[draft[p]])
    /\ Leave(p)
    /\ UNCHANGED <<tree, handles, known, now, faults>>

\* NeedExclusive, were the shared lock kept while the exclusive one is awaited.
HoardingNeedExclusive(p) ==
    /\ Checking(p)
    /\ step[p] = "wantPublication"
    /\ InputsCommitted(p)
    /\ tree[Destination(p)] # Empty
    /\ ~ Committed(draft[p])
    /\ disk' = Synced(Inputs[draft[p]])
    /\ Goto(p, "wantExclusive")
    /\ UNCHANGED <<tree, locks, handles, draft, known, now, faults>>

\* Something else stands there: _publish gives its locks back and asks for
\* exclusive retention.
NeedExclusive(p) ==
    /\ Checking(p)
    /\ step[p] = "wantPublication"
    /\ InputsCommitted(p)
    /\ tree[Destination(p)] # Empty
    /\ ~ Committed(draft[p])
    /\ disk' = Synced(Inputs[draft[p]])
    /\ retention' = [retention EXCEPT ![p] = "none"]
    /\ Goto(p, "wantExclusive")
    /\ UNCHANGED <<tree, writer, publication, handles, draft, known, now, faults>>

\* TakeExclusive, were a shared lock enough to replace what stands there.
SharingTakeExclusive(p) ==
    /\ step[p] = "wantExclusive"
    /\ RetentionShareable
    /\ retention' = [retention EXCEPT ![p] = "shared"]
    /\ Goto(p, "resolving")
    /\ UNCHANGED <<files, writer, publication, handles, draft, known, now, faults>>

\* _resolve_existing_path_under_exclusive_retention waits without a timeout.
TakeExclusive(p) ==
    /\ step[p] = "wantExclusive"
    /\ RetentionFree
    /\ retention' = [retention EXCEPT ![p] = "exclusive"]
    /\ Goto(p, "resolving")
    /\ UNCHANGED <<files, writer, publication, handles, draft, known, now, faults>>

\* What stands there is not committed: it is moved to the trash, durably, and the
\* path is looked at again.
Quarantine(p) ==
    /\ Checking(p)
    /\ step[p] = "resolving"
    /\ InputsCommitted(p)
    /\ tree[Destination(p)] # Empty
    /\ ~ tree[Destination(p)].marked
    /\ tree' = [tree EXCEPT ![Destination(p)] = Empty]
    /\ disk' = [Synced(Inputs[draft[p]]) EXCEPT ![Destination(p)] = Empty]
    /\ UNCHANGED <<locks, handles, step, draft, known, now, faults>>

\* Other committed content stands there: both go to the trash and commit() raises.
Conflict(p) ==
    /\ Checking(p)
    /\ step[p] = "resolving"
    /\ InputsCommitted(p)
    /\ tree[Destination(p)].marked
    /\ ~ Committed(draft[p])
    /\ tree' = [tree EXCEPT ![Destination(p)] = Empty]
    /\ disk' = [Synced(Inputs[draft[p]]) EXCEPT ![Destination(p)] = Empty]
    /\ opened' = opened \ {tree[Destination(p)].content}
    /\ returned' = returned \ {tree[Destination(p)].content}
    /\ Leave(p)
    /\ UNCHANGED <<handles, now, faults>>

\* fsync of the final parent.
SyncParent(p) ==
    /\ step[p] = "renamed"
    /\ disk' = Synced({draft[p]})
    /\ Goto(p, "placed")
    /\ UNCHANGED <<tree, locks, handles, draft, known, now, faults>>

\* The marker is written, synced and moved to COMMITTED.
Mark(p) ==
    /\ step[p] = "placed"
    /\ tree' = [tree EXCEPT ![Destination(p)] =
                    [content |-> draft[p], marked |-> TRUE, at |-> now]]
    /\ Goto(p, "marked")
    /\ UNCHANGED <<disk, locks, handles, draft, known, now, faults>>

\* SyncRoot, were commit() to return before the last fsyncs.
HastySyncRoot(p) ==
    /\ step[p] = "marked"
    /\ returned' = returned \cup {draft[p]}
    /\ Leave(p)
    /\ UNCHANGED <<files, handles, opened, now, faults>>

\* SyncRoot, were the draft read after it was given up.
ForgetfulSyncRoot(p) ==
    /\ step[p] = "marked"
    /\ disk' = Synced({draft[p]})
    /\ Leave(p)
    /\ returned' = returned \cup {draft'[p]}
    /\ UNCHANGED <<tree, handles, opened, now, faults>>

\* fsync of the final directory and its parent; commit() returns.
SyncRoot(p) ==
    /\ step[p] = "marked"
    /\ disk' = Synced({draft[p]})
    /\ returned' = returned \cup {draft[p]}
    /\ Leave(p)
    /\ UNCHANGED <<tree, handles, opened, now, faults>>

-------------------------------------------------------------------------------
(* Faults and time. *)

Fault(kind) ==
    /\ kind \in FaultKinds
    /\ faults < MaxFaults
    /\ faults' = faults + 1

\* A disk error between the rename and the last fsync: commit() raises and leaves
\* what it had put at the path.
PublishFails(p) ==
    /\ Fault("error")
    /\ step[p] \in Installing
    /\ Leave(p)
    /\ UNCHANGED <<files, handles, known, now>>

\* A process is killed: the kernel releases its locks and closes its handles.
Die(p) ==
    /\ Fault("death")
    /\ step[p] # "ready" \/ draft[p] # NoArtifact \/ handles[p] # {}
    /\ writer' = IF writer = p THEN Nobody ELSE writer
    /\ publication' = IF publication = p THEN Nobody ELSE publication
    /\ retention' = [retention EXCEPT ![p] = "none"]
    /\ handles' = [handles EXCEPT ![p] = {}]
    /\ step' = [step EXCEPT ![p] = "ready"]
    /\ draft' = [draft EXCEPT ![p] = NoArtifact]
    /\ UNCHANGED <<files, known, now>>

\* What a path may hold after a power loss: the last synced state, the last state,
\* or a directory whose name got there before its marker.
Survivors(d) ==
    {disk[d], tree[d]} \cup
        (IF tree[d].content # disk[d].content /\ tree[d] # Empty
         THEN {Unmarked(tree[d].content)} ELSE {})

AfterPowerLoss == {t \in [Paths -> UNION {Survivors(d) : d \in Paths}] :
                      \A d \in Paths : t[d] \in Survivors(d)}

StopAll ==
    /\ writer' = Nobody
    /\ publication' = Nobody
    /\ retention' = [p \in Procs |-> "none"]
    /\ handles' = [p \in Procs |-> {}]
    /\ step' = [p \in Procs |-> "ready"]
    /\ draft' = [p \in Procs |-> NoArtifact]

PowerLoss ==
    /\ Fault("power")
    /\ tree' \in AfterPowerLoss
    /\ disk' = tree'
    /\ StopAll
    /\ UNCHANGED <<known, now>>

Tick ==
    /\ now < MaxTime
    /\ now' = now + 1
    /\ UNCHANGED <<files, locks, handles, step, draft, known, faults>>

-------------------------------------------------------------------------------

ProcStep(p) ==
    \/ \E a \in Artifacts : OpenCommitted(p, a) \/ CloseHandle(p, a) \/ BeginStage(p, a)
    \/ TakeWriter(p) \/ Abort(p) \/ BeginCommit(p) \/ PublishTakesRetention(p)
    \/ RefuseInputs(p) \/ InstallRename(p) \/ Reuse(p) \/ NeedExclusive(p)
    \/ TakeExclusive(p) \/ Quarantine(p) \/ Conflict(p)
    \/ SyncParent(p) \/ Mark(p) \/ SyncRoot(p)
    \/ PublishFails(p) \/ Die(p)

StoreNext == (\E p \in Procs : ProcStep(p)) \/ PowerLoss \/ Tick

StoreSpec == StoreInit /\ [][StoreNext]_storeVars

-------------------------------------------------------------------------------
(* Properties. *)

\* An artifact whose bytes a reader was handed, or whose publisher returned from
\* commit(), is committed and survives a power loss: open_committed adopts what a
\* killed publisher left before it returns.
KnownIsDurable ==
    \A a \in opened \cup returned : Committed(a) /\ Holds(disk[PathOf[a]], a)

\* While a handle is open its artifact stays where it is: whoever replaces a
\* directory needs exclusive retention.
LeasedIsWhole ==
    \A p \in Procs : \A a \in handles[p] : Committed(a)

\* Whatever is found committed after a power loss has all its inputs there too:
\* publication syncs the inputs before it names the output.
LineageSurvives ==
    \A a \in Artifacts :
        Holds(disk[PathOf[a]], a) =>
            \A b \in Inputs[a] : Holds(disk[PathOf[b]], b)

\* Whom a process that waits for a lock without a timeout waits for.
WaitsFor(p) ==
    CASE step[p] = "wantWriter" -> {writer} \ {Nobody}
      [] step[p] = "wantRetention" -> {q \in Procs : retention[q] = "exclusive"}
      [] step[p] \in {"wantPublication", "resolving"} -> {publication} \ {Nobody}
      [] step[p] = "wantExclusive" ->
            {q \in Procs : retention[q] # "none" \/ handles[q] # {}}
      [] OTHER -> {}

\* No processes wait for each other for ever: the documented lock order is writer,
\* retention, publication.
NoWaitCycle ==
    \A S \in (SUBSET Procs) \ {{}} : \E p \in S : WaitsFor(p) \cap S = {}
===============================================================================
