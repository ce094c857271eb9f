------------------------- MODULE ArtifactStoreProofs -------------------------
(* Theorems about ArtifactStore, for every value of its constants: any number *)
(* of processes, artifacts, paths and faults of any kind.                     *)
EXTENDS ArtifactStore, TLAPS

-------------------------------------------------------------------------------
(* The inductive invariant.                                                    *)

\* Of the processes P that publish, one at most owns writer.lock, one at most is
\* installing and owns publication.lock, and each holds retention as its step
\* needs it.  Exclusive retention is alone, without any open handle.
LockInv(P) ==
    /\ \A p \in P : step[p] # "ready" => draft[p] \in Artifacts
    /\ \A p \in P : (draft[p] # NoArtifact /\ step[p] # "wantWriter") <=> writer = p
    /\ \A p \in P : step[p] \in Installing <=> publication = p
    /\ \A p \in P : retention[p] = "none" <=>
           step[p] \in {"ready", "wantWriter", "wantRetention", "wantExclusive"}
    /\ \A p \in P : step[p] = "wantPublication" => retention[p] = "shared"
    /\ \A p \in P : step[p] = "resolving" => retention[p] = "exclusive"
    /\ \A p \in P : retention[p] = "exclusive" =>
           \A q \in Procs : (q # p => retention[q] = "none") /\ handles[q] = {}
    /\ \A p \in P \ KeepsInputs : handles[p] # {} => step[p] = "ready"

\* What the files depend on of it, and true as well beside a process that waits for
\* locks, or holds them, without publishing.
CoreLock ==
    /\ \A p \in Procs : step[p] \notin {"ready", "wantWriter"} => draft[p] \in Artifacts
    /\ \A p \in Procs : step[p] \in Installing => publication = p
    /\ \A p \in Procs : step[p] \in {"wantPublication"} \cup Installing => retention[p] # "none"
    /\ \A p \in Procs : step[p] = "resolving" => retention[p] = "exclusive"
    /\ \A p \in Procs : retention[p] = "exclusive" =>
           \A q \in Procs : (q # p => retention[q] = "none") /\ handles[q] = {}

\* Committed, and still so after a power loss.
Durable(a) == Committed(a) /\ Holds(disk[PathOf[a]], a)

\* A synced marker is still there, and what an installing process has placed is
\* at its destination.
FileInv ==
    /\ \A d \in Paths : disk[d].marked => disk[d] = tree[d]
    /\ \A p \in Procs : step[p] \in {"renamed", "placed"} =>
           tree[Destination(p)] = Unmarked(draft[p])
    /\ \A p \in Procs : step[p] = "marked" => Committed(draft[p])
    /\ LeasedIsWhole
    /\ \A a \in opened \cup returned : Durable(a)

StoreInv == StoreTypeOK /\ LockInv(Procs) /\ FileInv

\* Inputs are at paths of their own: only runs, which are named by their
\* attempt, share one.
InputsAddressed ==
    \A a \in Artifacts : \A b \in Inputs[a] : \A c \in Artifacts :
        PathOf[c] = PathOf[b] => c = b

\* What is committed, and what an installing process is about to commit, has
\* durable inputs, but for those that something else than a publication took away.
LineageBut(gone) ==
    /\ \A a \in Artifacts : Committed(a) => \A b \in Inputs[a] : b \in gone \/ Durable(b)
    /\ \A p \in Procs : step[p] \in Installing =>
           \A b \in Inputs[draft[p]] : b \in gone \/ Durable(b)

-------------------------------------------------------------------------------
(* What the steps are made of.                                                 *)

LEMMA ArtifactIds == NoArtifact \notin Artifacts /\ Artifacts \subseteq Nat /\ Nobody \notin Procs
  BY StoreAssumption DEF NoArtifact

LEMMA LocksCore == LockInv(Procs) => CoreLock
  BY DEF LockInv, CoreLock, Installing

LEMMA EntryFacts ==
    /\ Empty \in Entry /\ ~Empty.marked
    /\ \A a \in Artifacts : Unmarked(a) \in Entry /\ ~Unmarked(a).marked /\ Unmarked(a) # Empty
  <1>1. Empty \in Entry /\ ~Empty.marked
    BY DEF Empty, Entry
  <1>2. ASSUME NEW a \in Artifacts
        PROVE  Unmarked(a) \in Entry /\ ~Unmarked(a).marked /\ Unmarked(a) # Empty
    <2>1. Unmarked(a).content = a /\ Empty.content = NoArtifact
      BY DEF Unmarked, Empty
    <2> QED BY <2>1, ArtifactIds DEF Unmarked, Entry
  <1> QED BY <1>1, <1>2

\* An fsync copies what stands at some paths.
LEMMA SyncedRows ==
    ASSUME StoreTypeOK, NEW as
    PROVE  /\ Synced(as) \in [Paths -> Entry]
           /\ \A d \in Paths : Synced(as)[d] \in {disk[d], tree[d]}
           /\ \A a \in as : PathOf[a] \in Paths => Synced(as)[PathOf[a]] = tree[PathOf[a]]
  BY DEF StoreTypeOK, Synced

\* Leave frees what the process held and nothing else.
LEMMA LeaveLocks ==
    ASSUME StoreTypeOK, NEW P \in SUBSET Procs, LockInv(P), NEW p \in P,
           Leave(p), writer = p, handles' = handles
    PROVE  LockInv(P)'
  <1>1. /\ writer' = Nobody /\ publication' = (IF publication = p THEN Nobody ELSE publication)
        /\ retention' = [retention EXCEPT ![p] = "none"] /\ step' = [step EXCEPT ![p] = "ready"]
        /\ draft' = [draft EXCEPT ![p] = NoArtifact]
    BY DEF Leave
  <1> QED BY <1>1, ArtifactIds DEF LockInv, StoreTypeOK, Installing

-------------------------------------------------------------------------------
(* Types.                                                                      *)

LEMMA TypesLeave ==
    ASSUME StoreTypeOK, NEW p \in Procs, Leave(p)
    PROVE  /\ writer' \in Procs \cup {Nobody}
           /\ retention' \in [Procs -> {"none", "shared", "exclusive"}]
           /\ publication' \in Procs \cup {Nobody}
           /\ step' \in [Procs -> Steps]
           /\ draft' \in [Procs -> Artifacts \cup {NoArtifact}]
  BY DEF StoreTypeOK, Leave, Steps

LEMMA TypesPublish ==
    ASSUME StoreTypeOK, CoreLock, NEW p \in Procs,
           \/ RefuseInputs(p) \/ InstallRename(p) \/ Reuse(p) \/ NeedExclusive(p)
           \/ Quarantine(p) \/ Conflict(p) \/ SyncParent(p) \/ Mark(p) \/ SyncRoot(p)
    PROVE  StoreTypeOK'
  <1>1. draft[p] \in Artifacts /\ Destination(p) \in Paths
    <2>1. step[p] \notin {"ready", "wantWriter"}
      BY DEF RefuseInputs, InstallRename, Reuse, NeedExclusive, Quarantine, Conflict, Checking,
             SyncParent, Mark, SyncRoot
    <2> QED BY <2>1, StoreAssumption DEF CoreLock, Destination
  <1>2. CASE RefuseInputs(p)
    BY <1>2, TypesLeave DEF RefuseInputs, StoreTypeOK, files, known
  <1>3. CASE InstallRename(p)
    BY <1>1, <1>3, EntryFacts, SyncedRows
       DEF InstallRename, StoreTypeOK, Goto, Steps, known
  <1>4. CASE Reuse(p)
    BY <1>4, TypesLeave, SyncedRows DEF Reuse, StoreTypeOK, known
  <1>5. CASE NeedExclusive(p)
    BY <1>5, SyncedRows DEF NeedExclusive, StoreTypeOK, Goto, Steps, known
  <1>6. CASE Quarantine(p) \/ Conflict(p)
    <2>1. tree' \in [Paths -> Entry] /\ disk' \in [Paths -> Entry]
      BY <1>1, <1>6, EntryFacts, SyncedRows DEF Quarantine, Conflict, StoreTypeOK
    <2>2. CASE Quarantine(p)
      BY <2>1, <2>2 DEF Quarantine, StoreTypeOK, locks, known
    <2>3. CASE Conflict(p)
      BY <2>1, <2>3, TypesLeave DEF Conflict, StoreTypeOK
    <2> QED BY <1>6, <2>2, <2>3
  <1>7. CASE SyncParent(p)
    BY <1>7, SyncedRows DEF SyncParent, StoreTypeOK, Goto, Steps, locks, known
  <1>8. CASE Mark(p)
    <2>1. now \in Nat
      BY DEF StoreTypeOK
    <2>2. [content |-> draft[p], marked |-> TRUE, at |-> now] \in Entry
      BY <1>1, <2>1 DEF Entry
    <2> QED BY <1>8, <2>2 DEF Mark, StoreTypeOK, Goto, Steps, locks, known
  <1>9. CASE SyncRoot(p)
    BY <1>1, <1>9, TypesLeave, SyncedRows DEF SyncRoot, StoreTypeOK
  <1> QED BY <1>2, <1>3, <1>4, <1>5, <1>6, <1>7, <1>8, <1>9

LEMMA TypesProc == ASSUME StoreTypeOK, CoreLock, NEW p \in Procs, ProcStep(p) PROVE StoreTypeOK'
  <1>1. ASSUME NEW a \in Artifacts, OpenCommitted(p, a) PROVE StoreTypeOK'
    BY <1>1, SyncedRows DEF OpenCommitted, StoreTypeOK, locks
  <1>2. ASSUME NEW a \in Artifacts, CloseHandle(p, a) PROVE StoreTypeOK'
    BY <1>2 DEF CloseHandle, StoreTypeOK, files, locks, known
  <1>3. ASSUME NEW a \in Artifacts, BeginStage(p, a) PROVE StoreTypeOK'
    BY <1>3 DEF BeginStage, StoreTypeOK, files, locks, known, Goto, Steps
  <1>4. CASE TakeWriter(p) \/ BeginCommit(p) \/ PublishTakesRetention(p) \/ TakeExclusive(p)
    BY <1>4 DEF TakeWriter, BeginCommit, PublishTakesRetention, TakeExclusive, StoreTypeOK, files,
                locks, known, Goto, Steps
  <1>5. CASE Abort(p)
    BY <1>5, TypesLeave DEF Abort, StoreTypeOK, files, known
  <1>6. CASE PublishFails(p)
    BY <1>6, TypesLeave, StoreAssumption DEF PublishFails, Fault, StoreTypeOK, files, known
  <1>7. CASE Die(p)
    BY <1>7, StoreAssumption DEF Die, Fault, StoreTypeOK, files, known, Steps
  <1> QED BY <1>1, <1>2, <1>3, <1>4, <1>5, <1>6, <1>7, TypesPublish DEF ProcStep

\* After a power loss a path holds an entry that was there, or one without its
\* marker.
LEMMA SurvivingRows ==
    ASSUME StoreTypeOK, PowerLoss
    PROVE  /\ tree' \in [Paths -> Entry] /\ disk' = tree'
           /\ \A d \in Paths : tree'[d] \in Survivors(d)
  <1>1. /\ \A d \in Paths : tree'[d] \in Survivors(d)
        /\ tree' \in [Paths -> UNION {Survivors(d) : d \in Paths}] /\ disk' = tree'
    BY DEF PowerLoss, AfterPowerLoss
  <1>2. ASSUME NEW d \in Paths PROVE tree'[d] \in Entry
    <2>1. tree[d] \in Entry /\ disk[d] \in Entry
      BY DEF StoreTypeOK
    <2>2. Unmarked(tree[d].content) \in Entry
      BY <2>1 DEF Entry, Unmarked
    <2> QED BY <1>1, <2>1, <2>2 DEF Survivors
  <1> QED BY <1>1, <1>2

LEMMA TypesStep == ASSUME StoreTypeOK, CoreLock, [StoreNext]_storeVars PROVE StoreTypeOK'
  <1>1. CASE PowerLoss
    BY <1>1, SurvivingRows, StoreAssumption DEF PowerLoss, Fault, StopAll, StoreTypeOK, known, Steps
  <1>2. CASE Tick
    BY <1>2, StoreAssumption DEF Tick, StoreTypeOK, files, locks, known
  <1>3. CASE UNCHANGED storeVars
    BY <1>3 DEF storeVars, StoreTypeOK, files, locks, known
  <1> QED BY <1>1, <1>2, <1>3, TypesProc DEF StoreNext

-------------------------------------------------------------------------------
(* Locks.                                                                      *)

LEMMA CorePublish ==
    ASSUME StoreTypeOK, CoreLock, NEW p \in Procs,
           \/ RefuseInputs(p) \/ InstallRename(p) \/ Reuse(p) \/ NeedExclusive(p)
           \/ Quarantine(p) \/ Conflict(p) \/ SyncParent(p) \/ Mark(p) \/ SyncRoot(p)
           \/ PublishFails(p) \/ Abort(p)
    PROVE  CoreLock'
  <1>1. CASE RefuseInputs(p) \/ Reuse(p) \/ Conflict(p) \/ SyncRoot(p) \/ PublishFails(p) \/ Abort(p)
    <2>1. Leave(p) /\ handles' = handles
      BY <1>1 DEF RefuseInputs, Reuse, Conflict, SyncRoot, PublishFails, Abort
    <2>2. /\ publication' = (IF publication = p THEN Nobody ELSE publication)
          /\ retention' = [retention EXCEPT ![p] = "none"]
          /\ step' = [step EXCEPT ![p] = "ready"]
          /\ draft' = [draft EXCEPT ![p] = NoArtifact]
      BY <2>1 DEF Leave
    <2> QED BY <2>1, <2>2, ArtifactIds DEF CoreLock, StoreTypeOK, Installing
  <1>2. CASE InstallRename(p)
    BY <1>2, ArtifactIds DEF InstallRename, Checking, Goto, CoreLock, StoreTypeOK, Installing
  <1>3. CASE NeedExclusive(p)
    BY <1>3, ArtifactIds DEF NeedExclusive, Checking, Goto, CoreLock, StoreTypeOK, Installing
  <1>4. CASE Quarantine(p)
    BY <1>4 DEF Quarantine, CoreLock, locks
  <1>5. CASE SyncParent(p)
    BY <1>5 DEF SyncParent, Goto, CoreLock, StoreTypeOK, Installing, locks
  <1>6. CASE Mark(p)
    BY <1>6 DEF Mark, Goto, CoreLock, StoreTypeOK, Installing, locks
  <1> QED BY <1>1, <1>2, <1>3, <1>4, <1>5, <1>6

LEMMA CoreProc == ASSUME StoreTypeOK, CoreLock, NEW p \in Procs, ProcStep(p) PROVE CoreLock'
  <1>1. ASSUME NEW a \in Artifacts, OpenCommitted(p, a) PROVE CoreLock'
    BY <1>1 DEF OpenCommitted, RetentionShareable, CoreLock, StoreTypeOK, locks
  <1>2. ASSUME NEW a \in Artifacts, CloseHandle(p, a) PROVE CoreLock'
    BY <1>2 DEF CloseHandle, CoreLock, StoreTypeOK, locks
  <1>3. ASSUME NEW a \in Artifacts, BeginStage(p, a) PROVE CoreLock'
    BY <1>3, ArtifactIds DEF BeginStage, Goto, CoreLock, StoreTypeOK, Installing, locks
  <1>4. CASE TakeWriter(p)
    BY <1>4 DEF TakeWriter, Goto, CoreLock, StoreTypeOK, Installing
  <1>5. CASE BeginCommit(p)
    <2>1. draft[p] \in Artifacts
      BY <1>5 DEF BeginCommit, StoreTypeOK
    <2> QED BY <1>5, <2>1 DEF BeginCommit, Goto, CoreLock, StoreTypeOK, Installing, locks
  <1>6. CASE PublishTakesRetention(p)
    BY <1>6 DEF PublishTakesRetention, RetentionShareable, Goto, CoreLock, StoreTypeOK, Installing
  <1>7. CASE TakeExclusive(p)
    BY <1>7 DEF TakeExclusive, RetentionFree, Goto, CoreLock, StoreTypeOK, Installing
  <1>8. CASE Die(p)
    BY <1>8, ArtifactIds DEF Die, CoreLock, StoreTypeOK, Installing
  <1> QED BY <1>1, <1>2, <1>3, <1>4, <1>5, <1>6, <1>7, <1>8, CorePublish DEF ProcStep

LEMMA LocksPublish ==
    ASSUME StoreTypeOK, NEW P \in SUBSET Procs, LockInv(P), NEW p \in P,
           \/ RefuseInputs(p) \/ InstallRename(p) \/ Reuse(p) \/ NeedExclusive(p)
           \/ Quarantine(p) \/ Conflict(p) \/ SyncParent(p) \/ Mark(p) \/ SyncRoot(p)
           \/ PublishFails(p) \/ Abort(p)
    PROVE  LockInv(P)'
  <1>1. CASE RefuseInputs(p) \/ Reuse(p) \/ Conflict(p) \/ SyncRoot(p) \/ PublishFails(p) \/ Abort(p)
    <2>1. writer = p /\ Leave(p) /\ handles' = handles
      BY <1>1, ArtifactIds DEF RefuseInputs, Reuse, Conflict, Checking, SyncRoot, PublishFails, Abort,
                             Installing, LockInv
    <2> QED BY <2>1, LeaveLocks
  <1>2. CASE InstallRename(p)
    BY <1>2, ArtifactIds DEF InstallRename, Checking, Goto, LockInv, StoreTypeOK, Installing
  <1>3. CASE NeedExclusive(p)
    BY <1>3, ArtifactIds DEF NeedExclusive, Checking, Goto, LockInv, StoreTypeOK, Installing
  <1>4. CASE Quarantine(p)
    BY <1>4 DEF Quarantine, LockInv, locks
  <1>5. CASE SyncParent(p)
    BY <1>5 DEF SyncParent, Goto, LockInv, StoreTypeOK, Installing, locks
  <1>6. CASE Mark(p)
    BY <1>6 DEF Mark, Goto, LockInv, StoreTypeOK, Installing, locks
  <1> QED BY <1>1, <1>2, <1>3, <1>4, <1>5, <1>6

LEMMA LocksProc == ASSUME StoreTypeOK, NEW P \in SUBSET Procs, LockInv(P), NEW p \in P, ProcStep(p) PROVE LockInv(P)'
  <1>1. ASSUME NEW a \in Artifacts, OpenCommitted(p, a) PROVE LockInv(P)'
    BY <1>1 DEF OpenCommitted, RetentionShareable, LockInv, StoreTypeOK, locks
  <1>2. ASSUME NEW a \in Artifacts, CloseHandle(p, a) PROVE LockInv(P)'
    BY <1>2 DEF CloseHandle, LockInv, StoreTypeOK, locks
  <1>3. ASSUME NEW a \in Artifacts, BeginStage(p, a) PROVE LockInv(P)'
    BY <1>3, ArtifactIds DEF BeginStage, Goto, LockInv, StoreTypeOK, Installing, locks
  <1>4. CASE TakeWriter(p)
    BY <1>4, ArtifactIds DEF TakeWriter, Goto, LockInv, StoreTypeOK, Installing
  <1>5. CASE BeginCommit(p)
    BY <1>5, ArtifactIds DEF BeginCommit, Goto, LockInv, StoreTypeOK, Installing, locks
  <1>6. CASE PublishTakesRetention(p)
    BY <1>6, ArtifactIds DEF PublishTakesRetention, RetentionShareable, Goto, LockInv, StoreTypeOK,
                           Installing
  <1>7. CASE TakeExclusive(p)
    BY <1>7, ArtifactIds DEF TakeExclusive, RetentionFree, Goto, LockInv, StoreTypeOK, Installing
  <1>8. CASE Die(p)
    BY <1>8, ArtifactIds DEF Die, LockInv, StoreTypeOK, Installing
  <1> QED BY <1>1, <1>2, <1>3, <1>4, <1>5, <1>6, <1>7, <1>8, LocksPublish DEF ProcStep

\* A power loss leaves nobody with a lock; time changes none.
LEMMA LocksBeside ==
    ASSUME NEW P \in SUBSET Procs, LockInv(P), PowerLoss \/ Tick \/ UNCHANGED storeVars
    PROVE  LockInv(P)'
  <1>1. CASE PowerLoss
    BY <1>1, ArtifactIds DEF PowerLoss, StopAll, LockInv, Installing
  <1>2. CASE Tick \/ UNCHANGED storeVars
    BY <1>2 DEF Tick, storeVars, LockInv, locks
  <1> QED BY <1>1, <1>2

LEMMA LocksStep == ASSUME StoreTypeOK, LockInv(Procs), [StoreNext]_storeVars PROVE LockInv(Procs)'
  BY LocksBeside, LocksProc DEF StoreNext

-------------------------------------------------------------------------------
(* Files.                                                                      *)

\* What most steps do to the files: a committed directory stays, and what is
\* synced is what stands there.
MarkedStays ==
    \A d \in Paths :
        /\ tree[d].marked => tree'[d] = tree[d]
        /\ disk'[d] \in {disk[d], tree[d]}

LEMMA CommittedStays ==
    ASSUME MarkedStays, NEW a \in Artifacts, Committed(a) PROVE Committed(a)'
  <1>1. PathOf[a] \in Paths
    BY StoreAssumption
  <1> QED BY <1>1 DEF MarkedStays, Committed, Holds

LEMMA DurableStays ==
    ASSUME MarkedStays, NEW a \in Artifacts, Durable(a) PROVE Durable(a)'
  <1>1. PathOf[a] \in Paths
    BY StoreAssumption
  <1> QED BY <1>1 DEF MarkedStays, Durable, Committed, Holds

\* A step that changes no directory but syncs some, or none.
LEMMA QuietFiles ==
    ASSUME StoreTypeOK, FileInv, tree' = tree,
           \A d \in Paths : disk'[d] \in {disk[d], tree[d]}
    PROVE  MarkedStays /\ \A d \in Paths : disk'[d].marked => disk'[d] = tree'[d]
  BY DEF MarkedStays, FileInv

LEMMA UnchangedFiles ==
    ASSUME StoreTypeOK, FileInv, UNCHANGED files
    PROVE  MarkedStays /\ \A d \in Paths : disk'[d].marked => disk'[d] = tree'[d]
  BY DEF MarkedStays, FileInv, files

LEMMA SyncsFiles ==
    ASSUME StoreTypeOK, FileInv, tree' = tree, NEW as, disk' = Synced(as)
    PROVE  MarkedStays /\ \A d \in Paths : disk'[d].marked => disk'[d] = tree'[d]
  BY SyncedRows, QuietFiles

\* What is left to show of a step that keeps what is committed: the directory of
\* an installing process, and the artifacts that are newly known.
LEMMA FilesStay ==
    ASSUME StoreTypeOK, FileInv, MarkedStays,
           \A d \in Paths : disk'[d].marked => disk'[d] = tree'[d],
           \A p \in Procs : step'[p] \in {"renamed", "placed"} =>
               tree'[Destination(p)'] = Unmarked(draft'[p]),
           \A p \in Procs : step'[p] = "marked" => Committed(draft[p])',
           \A p \in Procs : \A a \in handles'[p] : a \in Artifacts /\
               (a \in handles[p] \/ Committed(a)),
           \A a \in opened' \cup returned' : a \in Artifacts /\
               (a \in opened \cup returned \/ Durable(a)')
    PROVE  FileInv'
  <1>1. LeasedIsWhole'
    BY CommittedStays DEF LeasedIsWhole, FileInv
  <1>2. \A a \in opened' \cup returned' : Durable(a)'
    BY DurableStays DEF FileInv
  <1> QED BY <1>1, <1>2 DEF FileInv, LeasedIsWhole, Committed, Destination

\* A process that starts nothing and ends nothing of an installation leaves the
\* destinations of the others where they are.
LEMMA OthersInstall ==
    ASSUME StoreTypeOK, CoreLock, FileInv, tree' = tree, NEW p \in Procs,
           \A q \in Procs : q # p => step'[q] = step[q] /\ draft'[q] = draft[q],
           step'[p] \notin Installing
    PROVE  /\ \A q \in Procs : step'[q] \in {"renamed", "placed"} =>
                  tree'[Destination(q)'] = Unmarked(draft'[q])
           /\ \A q \in Procs : step'[q] = "marked" => Committed(draft[q])'
  BY DEF FileInv, Destination, Committed, Installing

LEMMA LeaveSteps ==
    ASSUME StoreTypeOK, NEW p \in Procs, Leave(p)
    PROVE  /\ \A q \in Procs : q # p => step'[q] = step[q] /\ draft'[q] = draft[q]
           /\ step'[p] \notin Installing
  BY DEF Leave, StoreTypeOK, Installing

\* A process syncs some directories or none, and hands out nothing new.
LEMMA FilesBeside ==
    ASSUME StoreTypeOK, CoreLock, FileInv, NEW p \in Procs,
           tree' = tree, \E as : disk' = Synced(as) \/ disk' = disk,
           opened' = opened, returned' = returned,
           \A q \in Procs : handles'[q] \subseteq handles[q],
           \A q \in Procs : q # p => step'[q] = step[q] /\ draft'[q] = draft[q],
           step'[p] \notin Installing
    PROVE  FileInv'
  <1>1. MarkedStays /\ \A d \in Paths : disk'[d].marked => disk'[d] = tree'[d]
    BY SyncsFiles, UnchangedFiles DEF files
  <1>2. /\ \A q \in Procs : step'[q] \in {"renamed", "placed"} =>
               tree'[Destination(q)'] = Unmarked(draft'[q])
        /\ \A q \in Procs : step'[q] = "marked" => Committed(draft[q])'
    BY OthersInstall
  <1>3. \A q \in Procs : \A b \in handles'[q] :
            b \in Artifacts /\ (b \in handles[q] \/ Committed(b))
    BY DEF StoreTypeOK
  <1>4. \A b \in opened' \cup returned' :
            b \in Artifacts /\ (b \in opened \cup returned \/ Durable(b)')
    BY DEF StoreTypeOK
  <1> QED BY <1>1, <1>2, <1>3, <1>4, FilesStay

\* Steps that change no directory.
LEMMA FilesQuiet ==
    ASSUME StoreTypeOK, CoreLock, FileInv, NEW p \in Procs,
           \/ TakeWriter(p) \/ Abort(p) \/ BeginCommit(p) \/ PublishTakesRetention(p)
           \/ RefuseInputs(p) \/ Reuse(p) \/ NeedExclusive(p) \/ TakeExclusive(p)
           \/ PublishFails(p) \/ Die(p)
           \/ \E a \in Artifacts : OpenCommitted(p, a) \/ CloseHandle(p, a) \/ BeginStage(p, a)
    PROVE  FileInv'
  <1>1. ASSUME NEW a \in Artifacts, OpenCommitted(p, a) PROVE FileInv'
    <2>1. /\ tree' = tree /\ disk' = Synced({a}) /\ step' = step /\ draft' = draft
          /\ handles' = [handles EXCEPT ![p] = handles[p] \cup {a}]
          /\ opened' = opened \cup {a} /\ returned' = returned /\ Committed(a)
          /\ step[p] = "ready"
      BY <1>1 DEF OpenCommitted, locks
    <2>2. MarkedStays /\ \A d \in Paths : disk'[d].marked => disk'[d] = tree'[d]
      BY <2>1, SyncsFiles
    <2>3. Durable(a)'
      <3>1. PathOf[a] \in Paths
        BY StoreAssumption
      <3>2. disk'[PathOf[a]] = tree[PathOf[a]]
        BY <2>1, <3>1, SyncedRows
      <3> QED BY <2>1, <3>2 DEF Durable, Committed
    <2>4. \A q \in Procs : \A b \in handles'[q] :
              b \in Artifacts /\ (b \in handles[q] \/ Committed(b))
      BY <2>1 DEF StoreTypeOK
    <2>5. /\ \A q \in Procs : step'[q] \in {"renamed", "placed"} =>
                 tree'[Destination(q)'] = Unmarked(draft'[q])
          /\ \A q \in Procs : step'[q] = "marked" => Committed(draft[q])'
      BY <2>1, OthersInstall DEF Installing
    <2>6. \A b \in opened' \cup returned' :
              b \in Artifacts /\ (b \in opened \cup returned \/ Durable(b)')
      BY <2>1, <2>3 DEF StoreTypeOK
    <2> QED BY <2>2, <2>4, <2>5, <2>6, FilesStay
  <1>2. ASSUME tree' = tree, \E as : disk' = Synced(as) \/ disk' = disk,
               opened' = opened, returned' = returned,
               \A q \in Procs : handles'[q] \subseteq handles[q],
               \A q \in Procs : q # p => step'[q] = step[q] /\ draft'[q] = draft[q],
               step'[p] \notin Installing
        PROVE  FileInv'
    BY <1>2, FilesBeside
  <1>3. ASSUME NEW a \in Artifacts, CloseHandle(p, a) \/ BeginStage(p, a) PROVE FileInv'
    BY <1>2, <1>3 DEF CloseHandle, BeginStage, StoreTypeOK, files, known, Goto, Installing
  <1>4. CASE TakeWriter(p) \/ BeginCommit(p) \/ PublishTakesRetention(p) \/ TakeExclusive(p)
    BY <1>2, <1>4 DEF TakeWriter, BeginCommit, PublishTakesRetention, TakeExclusive, StoreTypeOK,
                      files, known, Goto, Installing
  <1>5. CASE Abort(p) \/ RefuseInputs(p) \/ Reuse(p) \/ PublishFails(p)
    BY <1>2, <1>5, LeaveSteps DEF Abort, RefuseInputs, Reuse, PublishFails, files, known
  <1>6. CASE NeedExclusive(p)
    BY <1>2, <1>6 DEF NeedExclusive, StoreTypeOK, known, Goto, Installing
  <1>7. CASE Die(p)
    BY <1>2, <1>7 DEF Die, StoreTypeOK, files, known, Installing
  <1> QED BY <1>1, <1>3, <1>4, <1>5, <1>6, <1>7

\* Steps of an installation, which holds publication alone.
LEMMA OneInstalls ==
    ASSUME StoreTypeOK, CoreLock, NEW p \in Procs, publication \in {p, Nobody}
    PROVE  \A q \in Procs : q # p => step[q] \notin Installing
  BY ArtifactIds DEF CoreLock

LEMMA FilesInstallRename ==
    ASSUME StoreTypeOK, CoreLock, FileInv, NEW p \in Procs, InstallRename(p) PROVE FileInv'
  <1>0. /\ step[p] \notin {"ready", "wantWriter"} /\ publication = Nobody /\ tree[Destination(p)] = Empty
        /\ tree' = [tree EXCEPT ![Destination(p)] = Unmarked(draft[p])]
        /\ disk' = Synced(Inputs[draft[p]]) /\ step' = [step EXCEPT ![p] = "renamed"]
        /\ draft' = draft /\ handles' = handles /\ opened' = opened /\ returned' = returned
    BY DEF InstallRename, Checking, Goto, known
  <1>1. draft[p] \in Artifacts /\ Destination(p) \in Paths
    BY <1>0, StoreAssumption DEF CoreLock, Destination
  <1>2. /\ \A d \in Paths : disk'[d] \in {disk[d], tree[d]}
        /\ ~Empty.marked
    BY <1>0, SyncedRows, EntryFacts
  <1>3. MarkedStays /\ \A d \in Paths : disk'[d].marked => disk'[d] = tree'[d]
    BY <1>0, <1>1, <1>2 DEF MarkedStays, FileInv, StoreTypeOK
  <1>4. \A q \in Procs : q # p => step[q] \notin Installing
    BY <1>0, OneInstalls
  <1>5. Destination(p)' = Destination(p)
    BY <1>0 DEF Destination
  <1>6. tree'[Destination(p)] = Unmarked(draft[p])
    BY <1>0, <1>1 DEF StoreTypeOK
  <1>7. /\ \A q \in Procs : step'[q] \in {"renamed", "placed"} =>
               tree'[Destination(q)'] = Unmarked(draft'[q])
        /\ \A q \in Procs : step'[q] = "marked" => Committed(draft[q])'
    BY <1>0, <1>4, <1>5, <1>6 DEF StoreTypeOK, Installing
  <1> QED BY <1>0, <1>3, <1>7, FilesStay DEF StoreTypeOK

LEMMA FilesMark ==
    ASSUME StoreTypeOK, CoreLock, FileInv, NEW p \in Procs, Mark(p) PROVE FileInv'
  <1> PICK entry : entry = [content |-> draft[p], marked |-> TRUE, at |-> now]
    OBVIOUS
  <1>0. /\ step[p] = "placed" /\ tree' = [tree EXCEPT ![Destination(p)] = entry]
        /\ disk' = disk /\ step' = [step EXCEPT ![p] = "marked"]
        /\ draft' = draft /\ handles' = handles /\ opened' = opened /\ returned' = returned
    BY DEF Mark, Goto, known
  <1>1. /\ draft[p] \in Artifacts /\ Destination(p) \in Paths /\ publication = p
        /\ tree[Destination(p)] = Unmarked(draft[p]) /\ entry.content = draft[p] /\ entry.marked
    BY <1>0, StoreAssumption DEF CoreLock, Destination, FileInv, Installing
  <1>2. ~Unmarked(draft[p]).marked
    BY <1>1, EntryFacts
  <1>3. MarkedStays /\ \A d \in Paths : disk'[d].marked => disk'[d] = tree'[d]
    BY <1>0, <1>1, <1>2 DEF MarkedStays, FileInv, StoreTypeOK
  <1>4. \A q \in Procs : q # p => step[q] \notin Installing
    BY <1>1, OneInstalls
  <1>5. Committed(draft[p])'
    BY <1>0, <1>1 DEF Committed, Holds, StoreTypeOK, Destination
  <1>6. /\ \A q \in Procs : step'[q] \in {"renamed", "placed"} =>
               tree'[Destination(q)'] = Unmarked(draft'[q])
        /\ \A q \in Procs : step'[q] = "marked" => Committed(draft[q])'
    BY <1>0, <1>4, <1>5 DEF StoreTypeOK, Installing
  <1> QED BY <1>0, <1>3, <1>6, FilesStay DEF StoreTypeOK

LEMMA FilesSync ==
    ASSUME StoreTypeOK, CoreLock, FileInv, NEW p \in Procs, SyncParent(p) \/ SyncRoot(p)
    PROVE  FileInv'
  <1>0. /\ tree' = tree /\ disk' = Synced({draft[p]})
        /\ handles' = handles /\ opened' = opened
    BY DEF SyncParent, SyncRoot, known
  <1>1. MarkedStays /\ \A d \in Paths : disk'[d].marked => disk'[d] = tree'[d]
    BY <1>0, SyncsFiles
  <1>2. CASE SyncParent(p)
    <2>1. /\ step[p] = "renamed" /\ step' = [step EXCEPT ![p] = "placed"]
          /\ draft' = draft /\ returned' = returned
      BY <1>2 DEF SyncParent, Goto, known
    <2>2. /\ \A q \in Procs : step'[q] \in {"renamed", "placed"} =>
                 tree'[Destination(q)'] = Unmarked(draft'[q])
          /\ \A q \in Procs : step'[q] = "marked" => Committed(draft[q])'
      BY <1>0, <2>1 DEF StoreTypeOK, FileInv, Destination, Committed
    <2> QED BY <1>0, <1>1, <2>1, <2>2, FilesStay DEF StoreTypeOK
  <1>3. CASE SyncRoot(p)
    <2>1. step[p] = "marked" /\ Leave(p) /\ returned' = returned \cup {draft[p]}
      BY <1>3 DEF SyncRoot
    <2>2. draft[p] \in Artifacts /\ PathOf[draft[p]] \in Paths /\ Committed(draft[p])
      BY <2>1, StoreAssumption DEF CoreLock, FileInv
    <2>3. \A a : a = draft[p] => Durable(a)'
      <3>1. disk'[PathOf[draft[p]]] = tree[PathOf[draft[p]]]
        BY <1>0, <2>2, SyncedRows
      <3> QED BY <1>0, <2>2, <3>1 DEF Durable, Committed
    <2>4. /\ \A q \in Procs : step'[q] \in {"renamed", "placed"} =>
                 tree'[Destination(q)'] = Unmarked(draft'[q])
          /\ \A q \in Procs : step'[q] = "marked" => Committed(draft[q])'
      BY <1>0, <2>1, LeaveSteps, OthersInstall
    <2> QED BY <1>0, <1>1, <2>1, <2>2, <2>3, <2>4, FilesStay DEF StoreTypeOK
  <1> QED BY <1>2, <1>3

\* What is moved to the trash is moved by the one process that holds retention,
\* when no handle is open.
LEMMA FilesReplace ==
    ASSUME StoreTypeOK, CoreLock, FileInv, NEW p \in Procs, Quarantine(p) \/ Conflict(p)
    PROVE  FileInv'
  <1> PICK d : d = Destination(p)
    OBVIOUS
  <1>0. /\ step[p] = "resolving" /\ publication = Nobody
        /\ tree' = [tree EXCEPT ![d] = Empty]
        /\ disk' = [Synced(Inputs[draft[p]]) EXCEPT ![d] = Empty] /\ handles' = handles
    BY DEF Quarantine, Conflict, Checking
  <1>1. d \in Paths /\ (\A q \in Procs : handles[q] = {})
    BY <1>0, StoreAssumption DEF CoreLock, Destination
  <1>2. /\ \A e \in Paths : e # d => tree'[e] = tree[e] /\ disk'[e] \in {disk[e], tree[e]}
        /\ tree'[d] = Empty /\ disk'[d] = Empty /\ ~Empty.marked
    BY <1>0, <1>1, SyncedRows, EntryFacts DEF StoreTypeOK
  <1>3. \A e \in Paths : disk'[e].marked => disk'[e] = tree'[e]
    BY <1>2 DEF FileInv
  <1>4. \A q \in Procs : step'[q] \notin Installing
    <2>1. \A q \in Procs : step[q] \notin Installing
      BY <1>0, ArtifactIds DEF CoreLock
    <2>2. CASE Quarantine(p)
      BY <2>1, <2>2 DEF Quarantine
    <2>3. CASE Conflict(p)
      BY <2>1, <2>3, LeaveSteps DEF Conflict
    <2> QED BY <2>2, <2>3
  <1>5. \A a \in opened' \cup returned' :
            a \in opened \cup returned /\ a \in Artifacts /\ PathOf[a] # d
    <2> SUFFICES ASSUME NEW a \in opened' \cup returned'
                 PROVE  a \in opened \cup returned /\ a \in Artifacts /\ PathOf[a] # d
      OBVIOUS
    <2>1. a \in opened \cup returned /\ a \in Artifacts
      BY DEF Quarantine, Conflict, known, StoreTypeOK
    <2>2. tree[PathOf[a]].content = a /\ tree[PathOf[a]].marked
      BY <2>1 DEF FileInv, Durable, Committed, Holds
    <2>3. Quarantine(p) => ~tree[d].marked
      BY DEF Quarantine
    <2>4. Conflict(p) => a # tree[d].content
      BY DEF Conflict
    <2> QED BY <2>1, <2>2, <2>3, <2>4
  <1>6. \A a \in opened' \cup returned' : Durable(a)'
    <2> SUFFICES ASSUME NEW a \in opened' \cup returned' PROVE Durable(a)'
      OBVIOUS
    <2>1. a \in opened \cup returned /\ a \in Artifacts /\ PathOf[a] # d /\ PathOf[a] \in Paths
      BY <1>5, StoreAssumption
    <2>2. Holds(tree[PathOf[a]], a) /\ Holds(disk[PathOf[a]], a)
      BY <2>1 DEF FileInv, Durable, Committed
    <2> QED BY <1>2, <2>1, <2>2 DEF Durable, Committed, Holds
  <1>7. LeasedIsWhole'
    BY <1>0, <1>1 DEF LeasedIsWhole
  <1> QED BY <1>3, <1>4, <1>6, <1>7 DEF FileInv, Installing

\* A synced marker outlives a power loss, and nothing appears that was not there.
LEMMA PowerKeeps ==
    ASSUME StoreTypeOK, PowerLoss, NEW a \in Artifacts
    PROVE  /\ Durable(a) => Durable(a)'
           /\ Holds(disk[PathOf[a]], a)' => Committed(a) \/ Holds(disk[PathOf[a]], a)
           /\ Committed(a)' => Holds(disk[PathOf[a]], a)'
  <1> PICK d : d = PathOf[a]
    OBVIOUS
  <1>1. d \in Paths /\ disk' = tree' /\ tree'[d] \in Survivors(d)
    BY SurvivingRows, StoreAssumption
  <1>2. ~Unmarked(tree[d].content).marked
    BY DEF Unmarked
  <1>3. tree'[d] \in {disk[d], tree[d]} \/ (tree[d].content # disk[d].content /\ ~tree'[d].marked)
    BY <1>1, <1>2 DEF Survivors
  <1> QED BY <1>1, <1>3 DEF Durable, Committed, Holds

LEMMA FilesPowerLoss == ASSUME StoreTypeOK, FileInv, PowerLoss PROVE FileInv'
  <1>1. /\ disk' = tree' /\ opened' = opened /\ returned' = returned
        /\ \A p \in Procs : step'[p] = "ready" /\ handles'[p] = {}
    BY SurvivingRows DEF PowerLoss, StopAll, known
  <1>2. \A a \in opened' \cup returned' : Durable(a)'
    <2> SUFFICES ASSUME NEW a \in opened \cup returned PROVE Durable(a)'
      BY <1>1
    <2>1. a \in Artifacts /\ Durable(a)
      BY DEF StoreTypeOK, FileInv
    <2> QED BY <2>1, PowerKeeps
  <1>3. LeasedIsWhole'
    BY <1>1 DEF LeasedIsWhole
  <1> QED BY <1>1, <1>2, <1>3 DEF FileInv

LEMMA FilesStep == ASSUME StoreInv, [StoreNext]_storeVars PROVE FileInv'
  <1> USE DEF StoreInv
  <1>1. CASE Tick \/ UNCHANGED storeVars
    <2>1. UNCHANGED <<tree, disk, handles, step, draft, opened, returned>>
      BY <1>1 DEF Tick, storeVars, files, known
    <2> QED BY <2>1 DEF FileInv, LeasedIsWhole, Durable, Committed, Destination
  <1>2. ASSUME NEW p \in Procs, ProcStep(p) PROVE FileInv'
    BY <1>2, LocksCore, FilesQuiet, FilesInstallRename, FilesMark, FilesSync, FilesReplace DEF ProcStep
  <1> QED BY <1>1, <1>2, FilesPowerLoss DEF StoreNext

LEMMA StoreInvInit == StoreInit => StoreInv
  <1> SUFFICES ASSUME StoreInit PROVE StoreInv
    OBVIOUS
  <1>1. StoreTypeOK
    BY EntryFacts, StoreAssumption DEF StoreInit, StoreTypeOK, Steps
  <1>2. LockInv(Procs)
    BY ArtifactIds DEF StoreInit, LockInv, Installing
  <1>3. FileInv
    BY EntryFacts DEF StoreInit, FileInv, LeasedIsWhole
  <1> QED BY <1>1, <1>2, <1>3 DEF StoreInv

LEMMA StoreInvStep == ASSUME StoreInv, [StoreNext]_storeVars PROVE StoreInv'
  BY LocksCore, TypesStep, LocksStep, FilesStep DEF StoreInv

LEMMA StoreInvariant == StoreSpec => []StoreInv
  BY StoreInvInit, StoreInvStep, PTL DEF StoreSpec

-------------------------------------------------------------------------------
(* Theorems.                                                                   *)

\* Type correctness of the repository's paths, locks and publications.
THEOREM StoreTypes == StoreSpec => []StoreTypeOK
  <1>1. StoreInv => StoreTypeOK
    BY DEF StoreInv
  <1> QED BY <1>1, StoreInvariant, PTL

\* What a reader was handed or commit() installed and returned is committed and
\* outlives every later power loss.
THEOREM KnownStaysDurable == StoreSpec => []KnownIsDurable
  <1>1. StoreInv => KnownIsDurable
    BY DEF StoreInv, FileInv, Durable, KnownIsDurable
  <1> QED BY <1>1, StoreInvariant, PTL

\* An artifact with an open handle stays committed at its path: the shared
\* retention of the handle keeps out whoever would replace the directory.
THEOREM LeasesProtect == StoreSpec => []LeasedIsWhole
  <1>1. StoreInv => LeasedIsWhole
    BY DEF StoreInv, FileInv
  <1> QED BY <1>1, StoreInvariant, PTL

-------------------------------------------------------------------------------
(* Lineage.                                                                    *)

\* A step keeps the lineage when it keeps what is committed, commits at most what
\* was being installed, and installs only what has durable inputs.
LEMMA LineageStays ==
    ASSUME NEW gone, LineageBut(gone), MarkedStays,
           \A a \in Artifacts : Committed(a)' =>
               Committed(a) \/ \E p \in Procs : step[p] \in Installing /\ draft[p] = a,
           \A p \in Procs : step'[p] \in Installing =>
               \/ step[p] \in Installing /\ draft'[p] = draft[p] /\ draft[p] \in Artifacts
               \/ \A b \in Inputs[draft'[p]] : Durable(b)'
    PROVE  LineageBut(gone)'
  <1>1. \A a \in Artifacts : \A b \in Inputs[a] : Durable(b) => Durable(b)'
    <2> SUFFICES ASSUME NEW a \in Artifacts, NEW b \in Inputs[a], Durable(b) PROVE Durable(b)'
      OBVIOUS
    <2>1. b \in Artifacts
      BY StoreAssumption
    <2> QED BY <2>1, DurableStays
  <1>2. \A a \in Artifacts : Committed(a)' => \A b \in Inputs[a] : b \in gone \/ Durable(b)'
    BY <1>1 DEF LineageBut
  <1>3. \A p \in Procs : step'[p] \in Installing =>
            \A b \in Inputs[draft'[p]] : b \in gone \/ Durable(b)'
    BY <1>1 DEF LineageBut
  <1> QED BY <1>2, <1>3 DEF LineageBut

\* Steps that change no directory and start no installation.
LEMMA LineageQuiet ==
    ASSUME StoreTypeOK, CoreLock, FileInv, NEW gone, LineageBut(gone), tree' = tree,
           \E as : disk' = Synced(as) \/ disk' = disk,
           \A q \in Procs : step'[q] \in Installing => step[q] \in Installing /\ draft'[q] = draft[q]
    PROVE  LineageBut(gone)'
  <1>1. MarkedStays
    BY SyncsFiles, UnchangedFiles DEF files
  <1>2. \A a \in Artifacts : Committed(a)' => Committed(a)
    BY DEF Committed
  <1>3. \A q \in Procs : step[q] \in Installing => draft[q] \in Artifacts
    BY DEF CoreLock, Installing
  <1> QED BY <1>1, <1>2, <1>3, LineageStays

LEMMA LineageInstallRename ==
    ASSUME StoreTypeOK, CoreLock, FileInv, NEW gone, LineageBut(gone),
           NEW p \in Procs, InstallRename(p)
    PROVE  LineageBut(gone)'
  <1>0. /\ step[p] \notin {"ready", "wantWriter"} /\ tree[Destination(p)] = Empty /\ InputsCommitted(p)
        /\ tree' = [tree EXCEPT ![Destination(p)] = Unmarked(draft[p])]
        /\ disk' = Synced(Inputs[draft[p]]) /\ step' = [step EXCEPT ![p] = "renamed"]
        /\ draft' = draft
    BY DEF InstallRename, Checking, Goto
  <1>1. draft[p] \in Artifacts /\ Destination(p) \in Paths
    BY <1>0, StoreAssumption DEF CoreLock, Destination
  <1>2. /\ \A d \in Paths : disk'[d] \in {disk[d], tree[d]}
        /\ ~Empty.marked /\ ~Unmarked(draft[p]).marked
    BY <1>0, <1>1, SyncedRows, EntryFacts
  <1>3. MarkedStays
    BY <1>0, <1>1, <1>2 DEF MarkedStays, StoreTypeOK
  <1>4. ASSUME NEW a \in Artifacts, Committed(a)' PROVE Committed(a)
    <2>1. PathOf[a] \in Paths /\ Holds(tree'[PathOf[a]], a)
      BY <1>4, StoreAssumption DEF Committed
    <2> QED BY <1>0, <1>1, <1>2, <2>1 DEF Committed, Holds, StoreTypeOK
  <1>5. ASSUME NEW b \in Inputs[draft[p]] PROVE Durable(b)'
    <2>1. b \in Artifacts /\ PathOf[b] \in Paths /\ Committed(b)
      BY <1>0, <1>1, StoreAssumption DEF InputsCommitted
    <2>2. disk'[PathOf[b]] = tree[PathOf[b]]
      BY <1>0, <2>1, SyncedRows
    <2> QED BY <1>3, <2>1, <2>2, CommittedStays DEF Durable, Committed
  <1>6. \A q \in Procs : step'[q] \in Installing =>
               \/ step[q] \in Installing /\ draft'[q] = draft[q] /\ draft[q] \in Artifacts
               \/ \A b \in Inputs[draft'[q]] : Durable(b)'
    BY <1>0, <1>5 DEF StoreTypeOK, CoreLock, Installing
  <1> QED BY <1>3, <1>4, <1>6, LineageStays

LEMMA LineageMark ==
    ASSUME StoreTypeOK, CoreLock, FileInv, NEW gone, LineageBut(gone),
           NEW p \in Procs, Mark(p)
    PROVE  LineageBut(gone)'
  <1> PICK entry : entry = [content |-> draft[p], marked |-> TRUE, at |-> now]
    OBVIOUS
  <1>0. /\ step[p] = "placed" /\ tree' = [tree EXCEPT ![Destination(p)] = entry]
        /\ disk' = disk /\ step' = [step EXCEPT ![p] = "marked"] /\ draft' = draft
    BY DEF Mark, Goto
  <1>1. /\ draft[p] \in Artifacts /\ Destination(p) \in Paths
        /\ tree[Destination(p)] = Unmarked(draft[p]) /\ entry.content = draft[p]
    BY <1>0, StoreAssumption DEF CoreLock, Destination, FileInv, Installing
  <1>2. ~Unmarked(draft[p]).marked
    BY <1>1, EntryFacts
  <1>3. MarkedStays
    BY <1>0, <1>1, <1>2 DEF MarkedStays, StoreTypeOK
  <1>4. ASSUME NEW a \in Artifacts, Committed(a)', a # draft[p] PROVE Committed(a)
    <2>1. PathOf[a] \in Paths /\ Holds(tree'[PathOf[a]], a)
      BY <1>4, StoreAssumption DEF Committed
    <2> QED BY <1>0, <1>1, <1>4, <2>1 DEF Committed, Holds, StoreTypeOK
  <1>5. \A a \in Artifacts : Committed(a)' =>
            Committed(a) \/ \E q \in Procs : step[q] \in Installing /\ draft[q] = a
    BY <1>0, <1>4 DEF Installing
  <1>6. \A q \in Procs : step'[q] \in Installing =>
            step[q] \in Installing /\ draft'[q] = draft[q] /\ draft[q] \in Artifacts
    BY <1>0 DEF StoreTypeOK, CoreLock, Installing
  <1> QED BY <1>3, <1>5, <1>6, LineageStays

\* What is moved to the trash is no input: an unmarked directory, or one at a path
\* that several artifacts share.
LEMMA LineageReplace ==
    ASSUME InputsAddressed, StoreTypeOK, CoreLock, FileInv, NEW gone, LineageBut(gone),
           NEW p \in Procs, Quarantine(p) \/ Conflict(p)
    PROVE  LineageBut(gone)'
  <1> PICK d : d = Destination(p)
    OBVIOUS
  <1>0. /\ step[p] = "resolving" /\ publication = Nobody
        /\ tree' = [tree EXCEPT ![d] = Empty]
        /\ disk' = [Synced(Inputs[draft[p]]) EXCEPT ![d] = Empty]
    BY DEF Quarantine, Conflict, Checking
  <1>1. d \in Paths /\ draft[p] \in Artifacts /\ d = PathOf[draft[p]]
    BY <1>0, StoreAssumption DEF CoreLock, Destination
  <1>2. /\ \A e \in Paths : e # d => tree'[e] = tree[e] /\ disk'[e] \in {disk[e], tree[e]}
        /\ tree'[d] = Empty /\ ~Empty.marked
    BY <1>0, <1>1, SyncedRows, EntryFacts DEF StoreTypeOK
  <1>3. \A q \in Procs : step'[q] \notin Installing
    <2>1. \A q \in Procs : step[q] \notin Installing
      BY <1>0, ArtifactIds DEF CoreLock
    <2>2. CASE Quarantine(p)
      BY <2>1, <2>2 DEF Quarantine
    <2>3. CASE Conflict(p)
      BY <2>1, <2>3, LeaveSteps DEF Conflict
    <2> QED BY <2>2, <2>3
  <1>4. ASSUME NEW a \in Artifacts, Committed(a)', NEW b \in Inputs[a], b \notin gone PROVE Durable(b)'
    <2>1. PathOf[a] \in Paths /\ b \in Artifacts /\ PathOf[b] \in Paths
      BY StoreAssumption
    <2>2. Committed(a)
      BY <1>2, <1>4, <2>1 DEF Committed, Holds
    <2>3. Durable(b)
      BY <1>4, <2>2 DEF LineageBut
    <2>4. PathOf[b] # d
      <3>1. Quarantine(p) => ~tree[d].marked
        BY DEF Quarantine
      <3>2. Conflict(p) => ~Committed(draft[p])
        BY DEF Conflict
      <3>3. PathOf[b] = d => draft[p] = b
        BY <1>1 DEF InputsAddressed
      <3> QED BY <2>3, <3>1, <3>2, <3>3 DEF Durable, Committed, Holds
    <2> QED BY <1>2, <2>1, <2>3, <2>4 DEF Durable, Committed, Holds
  <1> QED BY <1>3, <1>4 DEF LineageBut

LEMMA LineagePowerLoss ==
    ASSUME StoreTypeOK, CoreLock, FileInv, NEW gone, LineageBut(gone), PowerLoss
    PROVE  LineageBut(gone)'
  <1>1. \A p \in Procs : step'[p] \notin Installing
    BY DEF PowerLoss, StopAll, Installing
  <1>2. ASSUME NEW a \in Artifacts, Committed(a)', NEW b \in Inputs[a], b \notin gone PROVE Durable(b)'
    <2>1. PathOf[a] \in Paths /\ b \in Artifacts
      BY StoreAssumption
    <2>2. Committed(a)
      BY <1>2, <2>1, PowerKeeps DEF FileInv, Committed, Holds
    <2> QED BY <1>2, <2>1, <2>2, PowerKeeps DEF LineageBut
  <1> QED BY <1>1, <1>2 DEF LineageBut

LEMMA LineageStep ==
    ASSUME InputsAddressed, StoreTypeOK, CoreLock, FileInv, NEW gone, LineageBut(gone),
           [StoreNext]_storeVars
    PROVE  LineageBut(gone)'
  <1>1. ASSUME NEW p \in Procs,
               \/ TakeWriter(p) \/ Abort(p) \/ BeginCommit(p) \/ PublishTakesRetention(p)
               \/ RefuseInputs(p) \/ Reuse(p) \/ NeedExclusive(p) \/ TakeExclusive(p)
               \/ SyncParent(p) \/ SyncRoot(p) \/ PublishFails(p) \/ Die(p)
               \/ \E a \in Artifacts : OpenCommitted(p, a) \/ CloseHandle(p, a) \/ BeginStage(p, a)
        PROVE  LineageBut(gone)'
    <2>1. tree' = tree /\ \E as : disk' = Synced(as) \/ disk' = disk
      BY <1>1 DEF TakeWriter, Abort, BeginCommit, PublishTakesRetention, RefuseInputs, Reuse,
                  NeedExclusive, TakeExclusive, SyncParent, SyncRoot, PublishFails, Die,
                  OpenCommitted, CloseHandle, BeginStage, files
    <2>2. \A q \in Procs : step'[q] \in Installing => step[q] \in Installing /\ draft'[q] = draft[q]
      <3>1. CASE Abort(p) \/ RefuseInputs(p) \/ Reuse(p) \/ SyncRoot(p) \/ PublishFails(p)
        BY <3>1, LeaveSteps DEF Abort, RefuseInputs, Reuse, SyncRoot, PublishFails
      <3>2. CASE TakeWriter(p) \/ BeginCommit(p) \/ PublishTakesRetention(p) \/ NeedExclusive(p)
                 \/ TakeExclusive(p) \/ SyncParent(p) \/ Die(p)
        BY <3>2 DEF TakeWriter, BeginCommit, PublishTakesRetention, NeedExclusive, TakeExclusive,
                    SyncParent, Die, Goto, Installing, StoreTypeOK
      <3>3. ASSUME NEW a \in Artifacts,
                   OpenCommitted(p, a) \/ CloseHandle(p, a) \/ BeginStage(p, a)
            PROVE  \A q \in Procs : step'[q] \in Installing =>
                       step[q] \in Installing /\ draft'[q] = draft[q]
        BY <3>3 DEF OpenCommitted, CloseHandle, BeginStage, Goto, Installing, StoreTypeOK
      <3> QED BY <1>1, <3>1, <3>2, <3>3
    <2> QED BY <2>1, <2>2, LineageQuiet
  <1>2. CASE Tick \/ UNCHANGED storeVars
    <2>1. UNCHANGED <<tree, disk, step, draft>>
      BY <1>2 DEF Tick, storeVars, files
    <2> QED BY <2>1, LineageQuiet
  <1>3. ASSUME NEW p \in Procs, ProcStep(p) PROVE LineageBut(gone)'
    BY <1>1, <1>3, LineageInstallRename, LineageMark, LineageReplace DEF ProcStep
  <1> QED BY <1>2, <1>3, LineagePowerLoss DEF StoreNext

LEMMA LineageInit == ASSUME NEW gone PROVE StoreInit => LineageBut(gone)
  <1> SUFFICES ASSUME StoreInit PROVE LineageBut(gone)
    OBVIOUS
  <1>1. ASSUME NEW a \in Artifacts PROVE ~Committed(a)
    BY EntryFacts, StoreAssumption DEF StoreInit, Committed, Holds
  <1> QED BY <1>1 DEF StoreInit, LineageBut, Installing

\* A synced marker is committed, and so its inputs are durable.
LEMMA DurableLineage == ASSUME FileInv, LineageBut({}) PROVE LineageSurvives
  <1> SUFFICES ASSUME NEW a \in Artifacts, Holds(disk[PathOf[a]], a), NEW b \in Inputs[a]
               PROVE  Holds(disk[PathOf[b]], b)
    BY DEF LineageSurvives
  <1>1. Committed(a)
    BY StoreAssumption DEF FileInv, Committed, Holds
  <1> QED BY <1>1 DEF LineageBut, Durable

\* When inputs are at paths of their own, what is committed after any power loss
\* has all its inputs there: _publish syncs the inputs before it renames the output,
\* and what is moved to the trash later is nobody's input.
THEOREM LineageIsDurable == ASSUME InputsAddressed PROVE StoreSpec => []LineageSurvives
  <1>1. StoreInit => StoreInv /\ LineageBut({})
    BY StoreInvInit, LineageInit
  <1>2. StoreInv /\ LineageBut({}) /\ [StoreNext]_storeVars => (StoreInv /\ LineageBut({}))'
    BY StoreInvStep, LineageStep, LocksCore DEF StoreInv
  <1>3. StoreInv /\ LineageBut({}) => LineageSurvives
    BY DurableLineage DEF StoreInv
  <1> QED BY <1>1, <1>2, <1>3, PTL DEF StoreSpec

-------------------------------------------------------------------------------
(* Waiting.                                                                    *)

\* What the order of the locks comes to: whoever holds publication is installing,
\* whoever holds retention or an open handle does not wait for retention or for
\* writer.lock, and the owner of writer.lock does not ask for it again.
LockOrder ==
    /\ publication # Nobody => step[publication] \in Installing
    /\ writer # Nobody => step[writer] # "wantWriter"
    /\ \A p \in Procs : retention[p] # "none" \/ handles[p] # {} =>
           step[p] \in {"wantPublication", "resolving", "ready"} \cup Installing

\* Only four kinds of step wait, and whom they wait for stands further along the
\* lock order, or holds an open handle.
LEMMA Waiting ==
    ASSUME StoreTypeOK, LockOrder, NEW p \in Procs
    PROVE  /\ step[p] \in Installing \cup {"ready"} => WaitsFor(p) = {}
           /\ step[p] \in {"wantPublication", "resolving"} =>
                  \A q \in WaitsFor(p) : q \in Procs /\ step[q] \in Installing
           /\ step[p] \in {"wantRetention", "wantExclusive"} =>
                  \A q \in WaitsFor(p) : q \in Procs /\
                      step[q] \in {"wantPublication", "resolving", "ready"} \cup Installing
           /\ step[p] = "wantWriter" =>
                  \A q \in WaitsFor(p) : q \in Procs /\ step[q] # "wantWriter"
  <1>1. step[p] \in Installing \cup {"ready"} => WaitsFor(p) = {}
    BY DEF WaitsFor, Installing
  <1>2. ASSUME step[p] \in {"wantPublication", "resolving"}, NEW q \in WaitsFor(p)
        PROVE  q \in Procs /\ step[q] \in Installing
    <2>1. WaitsFor(p) = {publication} \ {Nobody}
      BY <1>2 DEF WaitsFor
    <2> QED BY <2>1 DEF StoreTypeOK, LockOrder
  <1>3. ASSUME step[p] = "wantRetention", NEW q \in WaitsFor(p)
        PROVE  q \in Procs /\ step[q] \in {"wantPublication", "resolving", "ready"} \cup Installing
    <2>1. WaitsFor(p) = {r \in Procs : retention[r] = "exclusive"}
      BY <1>3 DEF WaitsFor
    <2> QED BY <2>1 DEF StoreTypeOK, LockOrder, Steps, Installing
  <1>4. ASSUME step[p] = "wantExclusive", NEW q \in WaitsFor(p)
        PROVE  q \in Procs /\ step[q] \in {"wantPublication", "resolving", "ready"} \cup Installing
    <2>1. WaitsFor(p) = {r \in Procs : retention[r] # "none" \/ handles[r] # {}}
      BY <1>4 DEF WaitsFor
    <2> QED BY <2>1 DEF StoreTypeOK, LockOrder, Steps, Installing
  <1>5. ASSUME step[p] = "wantWriter", NEW q \in WaitsFor(p)
        PROVE  q \in Procs /\ step[q] # "wantWriter"
    <2>1. WaitsFor(p) = {writer} \ {Nobody}
      BY <1>5 DEF WaitsFor
    <2> QED BY <2>1 DEF StoreTypeOK, LockOrder
  <1> QED BY <1>1, <1>2, <1>3, <1>4, <1>5

\* Processes that hold locks in that order never wait for each other in a cycle.
LEMMA OrderNeverCycles == ASSUME StoreTypeOK, LockOrder PROVE NoWaitCycle
  <1> SUFFICES ASSUME NEW S \in SUBSET Procs, S # {}
               PROVE  \E p \in S : WaitsFor(p) \cap S = {}
    BY DEF NoWaitCycle
  <1>1. CASE \E p \in S : step[p] \in Installing \cup {"ready"}
    BY <1>1, Waiting
  <1>2. CASE /\ \A p \in S : step[p] \notin Installing \cup {"ready"}
             /\ \E p \in S : step[p] \in {"wantPublication", "resolving"}
    BY <1>2, Waiting
  <1>3. CASE /\ \A p \in S : step[p] \notin Installing \cup {"ready"}
             /\ \A p \in S : step[p] \notin {"wantPublication", "resolving"}
             /\ \E p \in S : step[p] \in {"wantRetention", "wantExclusive"}
    BY <1>3, Waiting
  <1>4. CASE \A p \in S : step[p] \notin Installing \cup
                 {"ready", "wantPublication", "resolving", "wantRetention", "wantExclusive"}
    <2>1. \A p \in S : step[p] = "wantWriter"
      BY <1>4 DEF StoreTypeOK, Steps, Installing
    <2> QED BY <2>1, Waiting
  <1> QED BY <1>1, <1>2, <1>3, <1>4

\* Processes that keep no handle open over stage() or commit() hold them so.
LEMMA LocksOrder == ASSUME StoreTypeOK, LockInv(Procs), KeepsInputs = {} PROVE LockOrder
  <1>1. /\ publication # Nobody => step[publication] \in Installing
        /\ writer # Nobody => step[writer] # "wantWriter"
    BY DEF StoreTypeOK, LockInv
  <1>2. \A p \in Procs : retention[p] # "none" \/ handles[p] # {} =>
            step[p] \in {"wantPublication", "resolving", "ready"} \cup Installing
    BY DEF StoreTypeOK, LockInv, Steps, Installing
  <1> QED BY <1>1, <1>2 DEF LockOrder

\* When no process keeps a handle open over stage() or commit(), processes never
\* wait for each other in a cycle: the lock order writer, retention, publication,
\* and retention given back before it is asked for exclusively.
THEOREM LocksNeverCycle == ASSUME KeepsInputs = {} PROVE StoreSpec => []NoWaitCycle
  <1>1. StoreInv => NoWaitCycle
    BY LocksOrder, OrderNeverCycles DEF StoreInv
  <1> QED BY <1>1, StoreInvariant, PTL
===============================================================================
