------------------------------- MODULE Catalog --------------------------------
(***************************************************************************)
(* The artifact catalog: an SQLite index of the committed artifacts of the *)
(* store, kept by the one controller, and the restart receipt that spares  *)
(* the next controller a full verification.                                *)
(*                                                                         *)
(* A controller session begins and ends under writer.lock.  In between     *)
(* other processes publish and the controller indexes what they report.    *)
(* Processes outlive the controller: they publish between sessions too,    *)
(* and nobody indexes that.  A build key is a digest of what an artifact   *)
(* is derived from; two contents under one key are a collision, and        *)
(* neither is served.                                                      *)
(*                                                                         *)
(* Every SQLite transaction is one step and survives a power loss          *)
(* (synchronous = FULL).  The rows of run_index are those of the VERIFIED  *)
(* runs, written in the same transactions; they, the lineage edges (a      *)
(* function of the artifact id) and the warming of the verification cache  *)
(* are left out.  A transaction that raises changes nothing.               *)
(***************************************************************************)
EXTENDS ArtifactStore

CONSTANTS
    Controller,   \* the process that holds controller.lock while a session lasts
    BuildKeys,
    BuildKeyOf    \* Artifacts -> BuildKeys

ASSUME CatalogAssumption ==
    /\ Controller \in Procs
    /\ BuildKeyOf \in [Artifacts -> BuildKeys]

VARIABLES
    rows,        \* artifact_index.status of each artifact, or "absent"
    verifiedAt,  \* its verified_at_ns
    mapping,     \* build_key_mapping: the artifact each key names
    conflicts,   \* artifact_build_conflicts
    receipt,     \* artifact_reconciliation_state
    phase,       \* where the controller stands
    indexing     \* what index_committed has verified and not yet written

index == <<rows, verifiedAt, mapping, conflicts>>
session == <<phase, indexing>>
catalogVars == <<storeVars, index, receipt, session>>

-------------------------------------------------------------------------------

\* inventory(): the marked directories with the time of their last change.
Inventory == {tree[d] : d \in {e \in Paths : tree[e].marked}}
Contents(inventory) == {a \in Artifacts : \E entry \in inventory : entry.content = a}

SharesKey(a, b) == a # b /\ BuildKeyOf[a] = BuildKeyOf[b]
Contested(as) == {a \in as : \E b \in as : SharesKey(a, b)}

\* The digest in an UNCLEAN receipt is never read.
Unclean == [clean |-> FALSE, inventory |-> {}]

CatalogTypeOK ==
    /\ StoreTypeOK
    /\ rows \in [Artifacts -> {"absent", "VERIFIED", "QUARANTINED"}]
    /\ verifiedAt \in [Artifacts -> 0..MaxTime]
    /\ mapping \in [BuildKeys -> Artifacts \cup {NoArtifact}]
    /\ conflicts \subseteq Artifacts
    /\ receipt \in [clean : BOOLEAN, inventory : SUBSET Entry]
    /\ phase \in {"down", "begin", "rebuild", "open", "finish", "repair"}
    /\ indexing \in Artifacts \cup {NoArtifact}

CatalogInit ==
    /\ StoreInit
    /\ rows = [a \in Artifacts |-> "absent"]
    /\ verifiedAt = [a \in Artifacts |-> 0]
    /\ mapping = [k \in BuildKeys |-> NoArtifact]
    /\ conflicts = {}
    /\ receipt = Unclean
    /\ phase = "down"
    /\ indexing = NoArtifact

-------------------------------------------------------------------------------
(* The index as a function of what stands: a rebuild writes it, a receipt     *)
(* compares with it.                                                          *)

RowsOf(as) ==
    [a \in Artifacts |->
        IF a \notin as THEN "absent"
        ELSE IF a \in Contested(as) THEN "QUARANTINED"
        ELSE "VERIFIED"]

Least(as) == CHOOSE a \in as : \A b \in as : a <= b
UnderKey(as, k) == {a \in as : BuildKeyOf[a] = k}

MappingOf(as) ==
    [k \in BuildKeys |->
        IF UnderKey(as, k) = {} THEN NoArtifact ELSE Least(UnderKey(as, k))]

\* _inventory_matches_catalog.
InventoryMatches ==
    /\ rows = RowsOf(Contents(Inventory))
    /\ \A entry \in Inventory : entry.at <= verifiedAt[entry.content]
    /\ mapping = MappingOf(Contents(Inventory))
    /\ conflicts = Contested(Contents(Inventory))

-------------------------------------------------------------------------------
(* A controller session. *)

\* The controller holds writer.lock and is not waiting for it.
Admitted == writer = Controller /\ step[Controller] = "ready"

AskWriter == step' = [step EXCEPT ![Controller] = "wantWriter"]

\* A controller, or a command that needs its authority, starts.
StartController ==
    /\ phase = "down"
    /\ AskWriter
    /\ phase' = "begin"
    /\ UNCHANGED <<files, locks, handles, draft, known, now, faults,
                   index, receipt, indexing>>

Reusable ==
    /\ receipt.clean
    /\ receipt.inventory = Inventory
    /\ InventoryMatches

\* The session opens and writer.lock is released.
Open ==
    /\ writer' = Nobody
    /\ phase' = "open"

\* ReuseReceipt, were a clean receipt enough.
TrustingReuseReceipt ==
    /\ phase = "begin"
    /\ Admitted
    /\ receipt.clean
    /\ receipt' = Unclean
    /\ Open
    /\ UNCHANGED <<files, retention, publication, handles, step, draft, known, now, faults,
                   index, indexing>>

\* begin_reconciliation_session finds an exact CLEAN receipt and revokes it; no
\* payload is read.
ReuseReceipt ==
    /\ phase = "begin"
    /\ Admitted
    /\ Reusable
    /\ receipt' = Unclean
    /\ Open
    /\ UNCHANGED <<files, retention, publication, handles, step, draft, known, now, faults,
                   index, indexing>>

\* RevokeReceipt, were the receipt of an inventory that changed left as it is.
LeavingRevokeReceipt ==
    /\ phase = "begin"
    /\ Admitted
    /\ ~ Reusable
    /\ phase' = "rebuild"
    /\ UNCHANGED <<storeVars, index, receipt, indexing>>

\* It does not: the receipt is revoked all the same and the index rebuilt.
RevokeReceipt ==
    /\ phase = "begin"
    /\ Admitted
    /\ ~ Reusable
    /\ receipt' = Unclean
    /\ phase' = "rebuild"
    /\ UNCHANGED <<storeVars, index, indexing>>

\* _full_rebuild_locked: every committed artifact and its inputs are opened, and
\* with that synced, and the tables replaced in one transaction.
Rebuild ==
    /\ Admitted
    /\ \A a \in Contents(Inventory) : \A b \in Inputs[a] : Committed(b)
    /\ disk' = Synced(Contents(Inventory))
    /\ rows' = RowsOf(Contents(Inventory))
    /\ verifiedAt' = [a \in Artifacts |-> IF a \in Contents(Inventory) THEN now ELSE 0]
    /\ mapping' = MappingOf(Contents(Inventory))
    /\ conflicts' = Contested(Contents(Inventory))

RebuildAtStart ==
    /\ phase = "rebuild"
    /\ Rebuild
    /\ Open
    /\ UNCHANGED <<tree, retention, publication, handles, step, draft, known, now, faults,
                   receipt, indexing>>

\* finish_reconciliation_session does not accept the index as it is.
FindStale ==
    /\ phase = "finish"
    /\ Admitted
    /\ ~ InventoryMatches
    /\ phase' = "repair"
    /\ UNCHANGED <<storeVars, index, receipt, indexing>>

\* It is rebuilt under the same lock and compared again; were it to differ once
\* more, the code would raise.
RebuildAtEnd ==
    /\ phase = "repair"
    /\ Rebuild
    /\ phase' = "finish"
    /\ UNCHANGED <<tree, locks, handles, step, draft, known, now, faults,
                   receipt, indexing>>

\* The controller leaves normally: it asks for writer.lock again.
EndSession ==
    /\ phase = "open"
    /\ indexing = NoArtifact
    /\ AskWriter
    /\ phase' = "finish"
    /\ UNCHANGED <<files, locks, handles, draft, known, now, faults,
                   index, receipt, indexing>>

Down ==
    /\ writer' = IF writer = Controller THEN Nobody ELSE writer
    /\ phase' = "down"
    /\ indexing' = NoArtifact

\* finish_reconciliation_session: only an index that matches is vouched for.
PublishReceipt ==
    /\ phase = "finish"
    /\ Admitted
    /\ InventoryMatches
    /\ receipt' = [clean |-> TRUE, inventory |-> Inventory]
    /\ Down
    /\ UNCHANGED <<files, retention, publication, handles, step, draft, known, now, faults,
                   index>>

-------------------------------------------------------------------------------
(* index_committed, for an output that a child reported or a command made.    *)

\* _verify_filesystem opens the artifact and its inputs, which syncs them.
VerifyOutput(a) ==
    /\ phase = "open"
    /\ indexing = NoArtifact
    /\ RetentionShareable
    /\ publication = Nobody
    /\ Committed(a)
    /\ \A b \in Inputs[a] : Committed(b)
    /\ disk' = Synced({a} \cup Inputs[a])
    /\ indexing' = a
    /\ UNCHANGED <<tree, locks, handles, step, draft, known, now, faults,
                   index, receipt, phase>>

\* The key of a names no artifact, or a itself without a conflict.
Uncontested(a) ==
    LET k == BuildKeyOf[a] IN
    \/ mapping[k] = NoArtifact
    \/ mapping[k] = a /\ UnderKey(conflicts, k) = {}

\* A row that is there already keeps its verified_at_ns.
IndexOutput ==
    /\ phase = "open"
    /\ indexing # NoArtifact
    /\ Uncontested(indexing)
    /\ rows' = [rows EXCEPT ![indexing] = IF @ = "absent" THEN "VERIFIED" ELSE @]
    /\ verifiedAt' = [verifiedAt EXCEPT ![indexing] =
                        IF rows[indexing] = "absent" THEN now ELSE @]
    /\ mapping' = [mapping EXCEPT ![BuildKeyOf[indexing]] = indexing]
    /\ indexing' = NoArtifact
    /\ UNCHANGED <<storeVars, conflicts, receipt, phase>>

\* The key names another artifact, or is in conflict: the artifact it names and the
\* new one are quarantined, and index_committed raises.
RecordCollision ==
    /\ phase = "open"
    /\ indexing # NoArtifact
    /\ ~ Uncontested(indexing)
    /\ LET both == {mapping[BuildKeyOf[indexing]], indexing} IN
        /\ rows' = [a \in Artifacts |-> IF a \in both THEN "QUARANTINED" ELSE rows[a]]
        /\ conflicts' = conflicts \cup both
    /\ verifiedAt' = [verifiedAt EXCEPT ![indexing] =
                        IF rows[indexing] = "absent" THEN now ELSE @]
    /\ indexing' = NoArtifact
    /\ UNCHANGED <<storeVars, mapping, receipt, phase>>

-------------------------------------------------------------------------------
(* Faults, and the steps of everybody else. *)

\* The controller is killed, or leaves with an exception: no receipt.
ControllerStops ==
    /\ phase # "down"
    /\ Fault("death")
    /\ Down
    /\ step' = [step EXCEPT ![Controller] = "ready"]
    /\ UNCHANGED <<files, retention, publication, handles, draft, known, now, index, receipt>>

CatalogPowerLoss ==
    /\ PowerLoss
    /\ phase' = "down"
    /\ indexing' = NoArtifact
    /\ UNCHANGED <<index, receipt>>

\* Publishers and readers, the controller's children and those that outlive it; of
\* the steps of a publication the controller itself only takes the writer lock.
StoreStep ==
    /\ \/ \E p \in Procs \ {Controller} : ProcStep(p)
       \/ TakeWriter(Controller)
       \/ Tick
    /\ UNCHANGED <<index, receipt, session>>

SessionStep ==
    \/ StartController \/ ReuseReceipt \/ RevokeReceipt \/ RebuildAtStart
    \/ EndSession \/ FindStale \/ RebuildAtEnd \/ PublishReceipt
    \/ \E a \in Artifacts : VerifyOutput(a)
    \/ IndexOutput \/ RecordCollision
    \/ ControllerStops

CatalogNext == StoreStep \/ SessionStep \/ CatalogPowerLoss

CatalogSpec == CatalogInit /\ [][CatalogNext]_catalogVars

-------------------------------------------------------------------------------
(* Properties. *)

\* A clean receipt tells the truth for as long as it stands, whatever dies and
\* whoever publishes meanwhile: the index holds exactly the artifacts of its
\* inventory, none stamped as verified before its last change, and serves those
\* that share their key with no other.
CleanIsExact ==
    receipt.clean =>
        LET as == Contents(receipt.inventory) IN
        /\ \A a \in Artifacts : rows[a] # "absent" <=> a \in as
        /\ \A a \in Artifacts :
                rows[a] = "VERIFIED" <=> a \in as /\ ~ \E b \in as : SharesKey(a, b)
        /\ \A entry \in receipt.inventory : entry.at <= verifiedAt[entry.content]

\* A session opens with every artifact that stands in its index, by whomever it
\* was published and whether or not the receipt was reused; and no step leaves an
\* artifact served whose build key another artifact of the index has.
CompleteStep ==
    /\ phase # "open" /\ phase' = "open" =>
            \A a \in Artifacts : Committed(a)' => rows'[a] # "absent"
    /\ \A a \in Artifacts : rows'[a] = "VERIFIED" =>
            \A b \in Artifacts : SharesKey(a, b) => rows'[b] = "absent"
SessionIsComplete == [][CompleteStep]_catalogVars
===============================================================================
