---------------------------- MODULE CatalogProofs -----------------------------
(* Theorems about Catalog: the restart receipt tells the truth, a session      *)
(* starts complete and the store keeps its promises beside the controller, for *)
(* any number of processes, artifacts, keys and faults.                        *)
EXTENDS Catalog, ArtifactStoreProofs, WellFoundedInduction

-------------------------------------------------------------------------------
(* The inductive invariants.                                                   *)

\* A clean receipt stands only while no session writes the index.
CleanAtRest == receipt.clean => phase \in {"down", "begin"}

\* The tables agree: a key names an artifact that has it, whatever is in the index
\* or in conflict has a key that names something, only the one the key names is
\* served, and that without a conflict.
IndexInv ==
    /\ rows \in [Artifacts -> {"absent", "VERIFIED", "QUARANTINED"}]
    /\ mapping \in [BuildKeys -> Artifacts \cup {NoArtifact}]
    /\ conflicts \subseteq Artifacts
    /\ indexing \in Artifacts \cup {NoArtifact}
    /\ \A k \in BuildKeys : mapping[k] # NoArtifact => BuildKeyOf[mapping[k]] = k
    /\ \A a \in Artifacts :
           a \in conflicts \/ rows[a] # "absent" => mapping[BuildKeyOf[a]] # NoArtifact
    /\ \A a \in Artifacts : rows[a] = "QUARANTINED" => a \in conflicts
    /\ \A a \in Artifacts : rows[a] = "VERIFIED" =>
           /\ mapping[BuildKeyOf[a]] = a
           /\ \A b \in conflicts : BuildKeyOf[b] # BuildKeyOf[a]

\* No artifact of the index is served while another has its key.
ServesOne ==
    \A a \in Artifacts : rows[a] = "VERIFIED" =>
        \A b \in Artifacts : SharesKey(a, b) => rows[b] = "absent"

-------------------------------------------------------------------------------
(* The receipt.                                                                *)

\* What a receipt of a matching index says of it.
LEMMA MatchIsExact ==
    ASSUME InventoryMatches, NEW as, as = Contents(Inventory)
    PROVE  /\ \A a \in Artifacts : rows[a] # "absent" <=> a \in as
           /\ \A a \in Artifacts :
                rows[a] = "VERIFIED" <=> a \in as /\ ~ \E b \in as : SharesKey(a, b)
           /\ \A entry \in Inventory : entry.at <= verifiedAt[entry.content]
  <1>1. rows = RowsOf(as)
    BY DEF InventoryMatches
  <1>2. \A a \in Artifacts :
            rows[a] = IF a \notin as THEN "absent"
                      ELSE IF a \in Contested(as) THEN "QUARANTINED" ELSE "VERIFIED"
    BY <1>1 DEF RowsOf
  <1>3. \A a \in as : a \in Contested(as) <=> \E b \in as : SharesKey(a, b)
    BY DEF Contested
  <1> QED BY <1>2, <1>3 DEF InventoryMatches

\* Only PublishReceipt makes a receipt clean, and it does so at rest.
LEMMA RestStep ==
    ASSUME CleanAtRest, [CatalogNext]_catalogVars
    PROVE  CleanAtRest'
  <1> USE DEF CleanAtRest
  <1>1. ASSUME StoreStep PROVE CleanAtRest'
    BY <1>1 DEF StoreStep, session
  <1>2. CASE StartController BY <1>2 DEF StartController
  <1>3. CASE ReuseReceipt BY <1>3 DEF ReuseReceipt, Unclean
  <1>4. CASE RevokeReceipt BY <1>4 DEF RevokeReceipt, Unclean
  <1>5. CASE RebuildAtStart BY <1>5 DEF RebuildAtStart
  <1>6. CASE EndSession BY <1>6 DEF EndSession
  <1>7. CASE FindStale BY <1>7 DEF FindStale
  <1>8. CASE RebuildAtEnd BY <1>8 DEF RebuildAtEnd
  <1>9. CASE PublishReceipt BY <1>9 DEF PublishReceipt, Down
  <1>10. ASSUME NEW a \in Artifacts, VerifyOutput(a) PROVE CleanAtRest'
    BY <1>10 DEF VerifyOutput
  <1>11. CASE IndexOutput BY <1>11 DEF IndexOutput
  <1>12. CASE RecordCollision BY <1>12 DEF RecordCollision
  <1>13. CASE ControllerStops BY <1>13 DEF ControllerStops, Down
  <1>14. CASE CatalogPowerLoss BY <1>14 DEF CatalogPowerLoss
  <1>15. CASE UNCHANGED catalogVars BY <1>15 DEF catalogVars, session
  <1> QED BY <1>1, <1>2, <1>3, <1>4, <1>5, <1>6, <1>7, <1>8, <1>9, <1>10, <1>11,
             <1>12, <1>13, <1>14, <1>15 DEF CatalogNext, SessionStep

\* A step that leaves receipt and index alone leaves CleanIsExact alone.
LEMMA ExactUntouched ==
    ASSUME CleanIsExact, UNCHANGED <<index, receipt>>
    PROVE  CleanIsExact'
  BY DEF CleanIsExact, index, Contents, SharesKey

\* Every step keeps a clean receipt exact: the index is written only under an
\* unclean one.
LEMMA ExactStep ==
    ASSUME CleanIsExact, CleanAtRest, [CatalogNext]_catalogVars
    PROVE  CleanIsExact'
  <1>1. ASSUME ~ receipt'.clean PROVE CleanIsExact'
    BY <1>1 DEF CleanIsExact
  <1>2. ASSUME StoreStep PROVE CleanIsExact'
    BY <1>2, ExactUntouched DEF StoreStep
  <1>3. CASE StartController
    BY <1>3, ExactUntouched DEF StartController
  <1>4. CASE ReuseReceipt BY <1>4, <1>1 DEF ReuseReceipt, Unclean
  <1>5. CASE RevokeReceipt BY <1>5, <1>1 DEF RevokeReceipt, Unclean
  <1>6. CASE RebuildAtStart
    BY <1>6, <1>1 DEF RebuildAtStart, CleanAtRest
  <1>7. CASE EndSession BY <1>7, ExactUntouched DEF EndSession
  <1>8. CASE FindStale BY <1>8, ExactUntouched DEF FindStale
  <1>9. CASE RebuildAtEnd
    BY <1>9, <1>1 DEF RebuildAtEnd, CleanAtRest
  <1>10. CASE PublishReceipt
    <2>1. /\ InventoryMatches
          /\ receipt'.inventory = Inventory
          /\ rows' = rows /\ verifiedAt' = verifiedAt
      BY <1>10 DEF PublishReceipt, index
    <2>2. PICK as : as = Contents(Inventory)
      OBVIOUS
    <2>3. Contents(receipt'.inventory) = as
      BY <2>1, <2>2
    <2>4. /\ \A a \in Artifacts : rows'[a] # "absent" <=> a \in as
          /\ \A a \in Artifacts :
                rows'[a] = "VERIFIED" <=> a \in as /\ ~ \E b \in as : SharesKey(a, b)
          /\ \A entry \in receipt'.inventory : entry.at <= verifiedAt'[entry.content]
      BY <2>1, <2>2, MatchIsExact
    <2> QED BY <2>3, <2>4 DEF CleanIsExact, SharesKey
  <1>11. ASSUME NEW a \in Artifacts, VerifyOutput(a) PROVE CleanIsExact'
    BY <1>11, ExactUntouched DEF VerifyOutput
  <1>12. CASE IndexOutput
    BY <1>12, <1>1 DEF IndexOutput, CleanAtRest
  <1>13. CASE RecordCollision
    BY <1>13, <1>1 DEF RecordCollision, CleanAtRest
  <1>14. CASE ControllerStops BY <1>14, ExactUntouched DEF ControllerStops
  <1>15. CASE CatalogPowerLoss BY <1>15, ExactUntouched DEF CatalogPowerLoss
  <1>16. CASE UNCHANGED catalogVars BY <1>16, ExactUntouched DEF catalogVars
  <1> QED BY <1>2, <1>3, <1>4, <1>5, <1>6, <1>7, <1>8, <1>9, <1>10, <1>11, <1>12,
             <1>13, <1>14, <1>15, <1>16 DEF CatalogNext, SessionStep

\* A clean receipt never vouches for more or less than the index holds, nor for a
\* file that changed after it was verified (begin_ and finish_reconciliation_session).
THEOREM ReceiptsTellTruth == CatalogSpec => []CleanIsExact
  <1>1. CatalogInit => CleanIsExact /\ CleanAtRest
    BY DEF CatalogInit, Unclean, CleanIsExact, CleanAtRest
  <1>2. CleanIsExact /\ CleanAtRest /\ [CatalogNext]_catalogVars =>
            (CleanIsExact /\ CleanAtRest)'
    BY ExactStep, RestStep
  <1> QED BY <1>1, <1>2, PTL DEF CatalogSpec
-------------------------------------------------------------------------------
(* The index.                                                                  *)

\* The artifact a build key names after a rebuild is one of those that have it.
LEMMA LeastIsOne ==
    ASSUME NEW as \in SUBSET Nat, as # {} PROVE Least(as) \in as
  <1>1. PICK a \in as : \A b \in as : ~(<<b, a>> \in OpToRel(<, Nat))
    BY NatLessThanWellFounded, WFMin, Zenon
  <1>2. \A b \in as : a <= b
    <2> SUFFICES ASSUME NEW b \in as PROVE a <= b
      OBVIOUS
    <2>1. a \in Nat /\ b \in Nat
      OBVIOUS
    <2>2. ~(b < a)
      BY <1>1, <2>1 DEF OpToRel
    <2> QED BY <2>1, <2>2
  <1> QED BY <1>2, Zenon DEF Least

\* MappingOf gives every key that is in use one of the artifacts that use it.
LEMMA MappingNames ==
    ASSUME NEW as \in SUBSET Artifacts, NEW k \in BuildKeys
    PROVE  IF UnderKey(as, k) = {} THEN MappingOf(as)[k] = NoArtifact
           ELSE MappingOf(as)[k] \in UnderKey(as, k)
  <1>1. MappingOf(as)[k] =
            IF UnderKey(as, k) = {} THEN NoArtifact ELSE Least(UnderKey(as, k))
    BY DEF MappingOf
  <1>2. UnderKey(as, k) \in SUBSET Nat
    BY StoreAssumption DEF UnderKey
  <1> QED BY <1>1, <1>2, LeastIsOne

\* A rebuild leaves tables that agree.
LEMMA RebuildAgrees ==
    ASSUME NEW as \in SUBSET Artifacts,
           rows' = RowsOf(as), mapping' = MappingOf(as), conflicts' = Contested(as),
           indexing' \in Artifacts \cup {NoArtifact}
    PROVE  IndexInv'
  <1>1. \A a \in Artifacts :
            rows'[a] = IF a \notin as THEN "absent"
                       ELSE IF a \in Contested(as) THEN "QUARANTINED" ELSE "VERIFIED"
    BY DEF RowsOf
  <1>2. rows' \in [Artifacts -> {"absent", "VERIFIED", "QUARANTINED"}]
    BY DEF RowsOf
  <1>3. Contested(as) \subseteq as
    BY DEF Contested
  <1>4. \A k \in BuildKeys :
            IF UnderKey(as, k) = {} THEN mapping'[k] = NoArtifact
            ELSE mapping'[k] \in UnderKey(as, k)
    BY MappingNames
  <1>5. mapping' \in [BuildKeys -> Artifacts \cup {NoArtifact}]
    <2>1. mapping' = [k \in BuildKeys |-> mapping'[k]]
      BY DEF MappingOf
    <2>2. \A k \in BuildKeys : mapping'[k] \in Artifacts \cup {NoArtifact}
      BY <1>4 DEF UnderKey
    <2> QED BY <2>1, <2>2, Zenon
  <1>6. \A k \in BuildKeys : mapping'[k] # NoArtifact => BuildKeyOf[mapping'[k]] = k
    BY <1>4 DEF UnderKey
  <1>7. \A a \in as : mapping'[BuildKeyOf[a]] \in as
    BY <1>4, CatalogAssumption DEF UnderKey
  <1>8. NoArtifact \notin as
    <2>1. NoArtifact \notin Nat
      BY DEF NoArtifact
    <2> QED BY <2>1, StoreAssumption
  <1>9. ASSUME NEW a \in Artifacts, rows'[a] = "VERIFIED"
        PROVE  /\ mapping'[BuildKeyOf[a]] = a
               /\ \A b \in conflicts' : BuildKeyOf[b] # BuildKeyOf[a]
    <2>1. a \in as /\ a \notin Contested(as)
      BY <1>1, <1>9
    <2>2. \A b \in as : b # a => BuildKeyOf[b] # BuildKeyOf[a]
      BY <2>1 DEF Contested, SharesKey
    <2>3. mapping'[BuildKeyOf[a]] \in UnderKey(as, BuildKeyOf[a])
      BY <2>1, <1>4, CatalogAssumption DEF UnderKey
    <2> QED BY <2>1, <2>2, <2>3, <1>3 DEF UnderKey
  <1>10. \A a \in Artifacts : rows'[a] = "QUARANTINED" => a \in conflicts'
    BY <1>1
  <1>11. \A a \in Artifacts :
            a \in conflicts' \/ rows'[a] # "absent" => mapping'[BuildKeyOf[a]] # NoArtifact
    BY <1>1, <1>3, <1>7, <1>8
  <1>12. conflicts' \subseteq Artifacts
    BY <1>3
  <1> QED BY <1>2, <1>5, <1>6, <1>9, <1>10, <1>11, <1>12 DEF IndexInv

\* IndexOutput meets no other artifact of its key: the key names none, or names
\* this one without a conflict.
LEMMA OutputAgrees ==
    ASSUME IndexInv, IndexOutput
    PROVE  IndexInv'
  <1> PICK i : i = indexing
    OBVIOUS
  <1> PICK k : k = BuildKeyOf[i]
    OBVIOUS
  <1>1. i \in Artifacts /\ k \in BuildKeys
    BY CatalogAssumption DEF IndexOutput, IndexInv
  <1>2. /\ rows' = [rows EXCEPT ![i] = IF @ = "absent" THEN "VERIFIED" ELSE @]
        /\ mapping' = [mapping EXCEPT ![k] = i]
        /\ conflicts' = conflicts
        /\ indexing' = NoArtifact
    BY DEF IndexOutput
  <1>3. \/ mapping[k] = NoArtifact
        \/ mapping[k] = i /\ \A b \in conflicts : BuildKeyOf[b] # k
    BY DEF IndexOutput, Uncontested, UnderKey
  <1>4. i # NoArtifact
    BY <1>1, StoreAssumption DEF NoArtifact
  <1>5. \A b \in conflicts : BuildKeyOf[b] # k
    BY <1>3 DEF IndexInv
  <1>6. \A a \in Artifacts : a # i /\ BuildKeyOf[a] = k => rows[a] = "absent"
    BY <1>3, <1>5 DEF IndexInv
  <1>7. /\ rows' \in [Artifacts -> {"absent", "VERIFIED", "QUARANTINED"}]
        /\ mapping' \in [BuildKeys -> Artifacts \cup {NoArtifact}]
        /\ \A a \in Artifacts : a # i => rows'[a] = rows[a]
        /\ \A l \in BuildKeys : mapping'[l] = IF l = k THEN i ELSE mapping[l]
        /\ rows'[i] = IF rows[i] = "absent" THEN "VERIFIED" ELSE rows[i]
    BY <1>1, <1>2 DEF IndexInv
  <1>8. \A a \in Artifacts : BuildKeyOf[a] \in BuildKeys
    BY CatalogAssumption
  <1> QED
    <2>1. \A l \in BuildKeys : mapping'[l] # NoArtifact => BuildKeyOf[mapping'[l]] = l
      BY <1>7 DEF IndexInv
    <2>2. \A a \in Artifacts :
              a \in conflicts' \/ rows'[a] # "absent" => mapping'[BuildKeyOf[a]] # NoArtifact
      BY <1>2, <1>4, <1>7, <1>8 DEF IndexInv
    <2>3. \A a \in Artifacts : rows'[a] = "QUARANTINED" => a \in conflicts'
      BY <1>2, <1>7 DEF IndexInv
    <2>4. ASSUME NEW a \in Artifacts, rows'[a] = "VERIFIED"
          PROVE  /\ mapping'[BuildKeyOf[a]] = a
                 /\ \A b \in conflicts' : BuildKeyOf[b] # BuildKeyOf[a]
      <3>1. CASE a = i BY <3>1, <1>1, <1>2, <1>5, <1>7
      <3>2. CASE a # i
        <4>1. rows[a] = "VERIFIED" /\ BuildKeyOf[a] # k
          BY <3>2, <2>4, <1>6, <1>7
        <4> QED BY <4>1, <1>2, <1>7, <1>8 DEF IndexInv
      <3> QED BY <3>1, <3>2
    <2> QED BY <1>2, <1>7, <2>1, <2>2, <2>3, <2>4 DEF IndexInv

\* A collision takes both artifacts of the key out of service, and only those have
\* the key and were served.
LEMMA CollisionAgrees ==
    ASSUME IndexInv, RecordCollision
    PROVE  IndexInv'
  <1> PICK i : i = indexing
    OBVIOUS
  <1> PICK m : m = mapping[BuildKeyOf[i]]
    OBVIOUS
  <1>1. i \in Artifacts /\ BuildKeyOf[i] \in BuildKeys
    BY CatalogAssumption DEF RecordCollision, IndexInv
  <1>2. /\ rows' = [a \in Artifacts |-> IF a \in {m, i} THEN "QUARANTINED" ELSE rows[a]]
        /\ mapping' = mapping
        /\ conflicts' = conflicts \cup {m, i}
        /\ indexing' = NoArtifact
    BY DEF RecordCollision
  <1>3. m # NoArtifact
    BY DEF RecordCollision, Uncontested
  <1>4. m \in Artifacts /\ BuildKeyOf[m] = BuildKeyOf[i]
    BY <1>1, <1>3 DEF IndexInv
  <1>5. /\ rows' \in [Artifacts -> {"absent", "VERIFIED", "QUARANTINED"}]
        /\ \A a \in Artifacts :
               rows'[a] = IF a \in {m, i} THEN "QUARANTINED" ELSE rows[a]
    BY <1>2 DEF IndexInv
  <1>6. \A a \in Artifacts : rows'[a] = "VERIFIED" => BuildKeyOf[a] # BuildKeyOf[i]
    BY <1>5 DEF IndexInv
  <1> QED BY <1>1, <1>2, <1>3, <1>4, <1>5, <1>6 DEF IndexInv

\* Every step keeps the tables in agreement.
LEMMA IndexStep ==
    ASSUME IndexInv, [CatalogNext]_catalogVars
    PROVE  IndexInv'
  <1>1. ASSUME UNCHANGED index, indexing' \in Artifacts \cup {NoArtifact}
        PROVE  IndexInv'
    BY <1>1 DEF IndexInv, index
  <1>2. indexing \in Artifacts \cup {NoArtifact}
    BY DEF IndexInv
  <1>3. \A inventory : Contents(inventory) \in SUBSET Artifacts
    BY DEF Contents
  <1>4. ASSUME StoreStep PROVE IndexInv'
    BY <1>1, <1>2, <1>4 DEF StoreStep, session
  <1>5. CASE StartController BY <1>1, <1>2, <1>5 DEF StartController
  <1>6. CASE ReuseReceipt BY <1>1, <1>2, <1>6 DEF ReuseReceipt
  <1>7. CASE RevokeReceipt BY <1>1, <1>2, <1>7 DEF RevokeReceipt
  <1>8. CASE RebuildAtStart
    BY <1>2, <1>3, <1>8, RebuildAgrees DEF RebuildAtStart, Rebuild
  <1>9. CASE EndSession BY <1>1, <1>2, <1>9 DEF EndSession
  <1>10. CASE FindStale BY <1>1, <1>2, <1>10 DEF FindStale
  <1>11. CASE RebuildAtEnd
    BY <1>2, <1>3, <1>11, RebuildAgrees DEF RebuildAtEnd, Rebuild
  <1>12. CASE PublishReceipt BY <1>1, <1>12 DEF PublishReceipt, Down
  <1>13. ASSUME NEW a \in Artifacts, VerifyOutput(a) PROVE IndexInv'
    BY <1>1, <1>13 DEF VerifyOutput
  <1>14. CASE IndexOutput BY <1>14, OutputAgrees
  <1>15. CASE RecordCollision BY <1>15, CollisionAgrees
  <1>16. CASE ControllerStops BY <1>1, <1>16 DEF ControllerStops, Down
  <1>17. CASE CatalogPowerLoss BY <1>1, <1>17 DEF CatalogPowerLoss
  <1>18. CASE UNCHANGED catalogVars
    BY <1>1, <1>2, <1>18 DEF catalogVars, session
  <1> QED BY <1>4, <1>5, <1>6, <1>7, <1>8, <1>9, <1>10, <1>11, <1>12, <1>13, <1>14,
             <1>15, <1>16, <1>17, <1>18 DEF CatalogNext, SessionStep

\* Tables that agree serve at most one artifact of a key.
LEMMA AgreeingServesOne ==
    ASSUME IndexInv PROVE ServesOne
  <1> SUFFICES ASSUME NEW a \in Artifacts, NEW b \in Artifacts, SharesKey(a, b),
                      rows[a] = "VERIFIED", rows[b] # "absent"
               PROVE  FALSE
    BY DEF ServesOne
  <1>1. CASE rows[b] = "VERIFIED"
    BY <1>1 DEF IndexInv, SharesKey
  <1>2. CASE rows[b] = "QUARANTINED"
    BY <1>2 DEF IndexInv, SharesKey
  <1> QED BY <1>1, <1>2 DEF IndexInv

-------------------------------------------------------------------------------
(* The opening of a session.                                                   *)

\* An index that is what a rebuild would write holds whatever stands.
LEMMA RowsCover ==
    ASSUME NEW a \in Artifacts, Committed(a)
    PROVE  RowsOf(Contents(Inventory))[a] # "absent"
  <1>1. tree[PathOf[a]].marked /\ tree[PathOf[a]].content = a
    BY DEF Committed, Holds
  <1>2. PathOf[a] \in Paths
    BY StoreAssumption
  <1>3. tree[PathOf[a]] \in Inventory
    BY <1>1, <1>2 DEF Inventory
  <1>4. a \in Contents(Inventory)
    BY <1>1, <1>3 DEF Contents
  <1> QED BY <1>4 DEF RowsOf

\* Only ReuseReceipt and RebuildAtStart open a session, both over an index that
\* covers the tree they leave as it is.
LEMMA OpeningIsComplete ==
    ASSUME CatalogNext, phase # "open", phase' = "open", NEW a \in Artifacts, Committed(a)'
    PROVE  rows'[a] # "absent"
  <1>1. CASE ReuseReceipt
    <2>1. /\ rows' = RowsOf(Contents(Inventory))
          /\ tree' = tree
      BY <1>1 DEF ReuseReceipt, Reusable, InventoryMatches, index, files
    <2>2. Committed(a)
      BY <2>1 DEF Committed
    <2> QED BY <2>1, <2>2, RowsCover
  <1>2. CASE RebuildAtStart
    <2>1. /\ rows' = RowsOf(Contents(Inventory))
          /\ tree' = tree
      BY <1>2 DEF RebuildAtStart, Rebuild
    <2>2. Committed(a)
      BY <2>1 DEF Committed
    <2> QED BY <2>1, <2>2, RowsCover
  <1>3. ASSUME ~ ReuseReceipt, ~ RebuildAtStart PROVE FALSE
    <2>1. ~ StoreStep
      BY DEF StoreStep, session
    <2>2. ~ \E b \in Artifacts : VerifyOutput(b)
      BY DEF VerifyOutput
    <2> QED BY <1>3, <2>1, <2>2
         DEF CatalogNext, SessionStep, StartController, RevokeReceipt, EndSession, FindStale,
             RebuildAtEnd, PublishReceipt, IndexOutput, RecordCollision, ControllerStops,
             CatalogPowerLoss, Down
  <1> QED BY <1>1, <1>2, <1>3

\* Every session opens complete, and no step serves two artifacts of one build key
\* (controller_session, index_committed, rebuild_index).
THEOREM SessionsAreComplete == CatalogSpec => SessionIsComplete
  <1>1. CatalogInit => IndexInv
    BY DEF CatalogInit, IndexInv
  <1>2. IndexInv /\ [CatalogNext]_catalogVars => IndexInv'
    BY IndexStep
  <1>3. IndexInv /\ [CatalogNext]_catalogVars => [CompleteStep]_catalogVars
    <2> SUFFICES ASSUME IndexInv, CatalogNext PROVE CompleteStep
      OBVIOUS
    <2>1. ServesOne'
      BY IndexStep, AgreeingServesOne, PTL
    <2> QED BY <2>1, OpeningIsComplete DEF CompleteStep, ServesOne, SharesKey
  <1> QED BY <1>1, <1>2, <1>3, PTL DEF CatalogSpec, SessionIsComplete

-------------------------------------------------------------------------------
(* The store, beside the controller.                                           *)

Others == Procs \ {Controller}

\* The controller asks for writer.lock when a session begins and when it ends, holds
\* it in between only until the session is open, and takes no other lock over a step.
ControllerInv ==
    /\ draft[Controller] = NoArtifact
    /\ retention[Controller] = "none"
    /\ handles[Controller] = {}
    /\ publication # Controller
    /\ step[Controller] \in {"ready", "wantWriter"}
    /\ writer = Controller => step[Controller] = "ready"
    /\ writer = Controller \/ step[Controller] = "wantWriter" => phase \notin {"down", "open"}

CatalogStoreInv == StoreTypeOK /\ LockInv(Others) /\ ControllerInv /\ FileInv

\* What the index is made of.
IndexTypes ==
    /\ verifiedAt \in [Artifacts -> 0..MaxTime]
    /\ receipt \in [clean : BOOLEAN, inventory : SUBSET Entry]
    /\ phase \in {"down", "begin", "rebuild", "open", "finish", "repair"}

LEMMA CatalogCore == LockInv(Others) /\ ControllerInv => CoreLock
  BY DEF LockInv, ControllerInv, CoreLock, Others, Installing

\* What a step of the controller does to the store: it syncs, it asks for writer.lock
\* or gives it back.
ControllerShape ==
    /\ UNCHANGED <<tree, retention, publication, handles, draft, opened, returned, now>>
    /\ faults' \in 0..MaxFaults
    /\ \E as : disk' = Synced(as) \/ disk' = disk
    /\ writer' \in {writer, Nobody}
    /\ writer # Controller => writer' = writer
    /\ \E s \in {"ready", "wantWriter"} : step' = [step EXCEPT ![Controller] = s]
    /\ writer' = Controller => step'[Controller] = "ready"
    /\ writer' = Controller \/ step'[Controller] = "wantWriter" => phase' \notin {"down", "open"}

LEMMA SessionShape ==
    ASSUME StoreTypeOK, ControllerInv, SessionStep PROVE ControllerShape
  <1>0. /\ Controller \in Procs /\ step = [step EXCEPT ![Controller] = step[Controller]]
        /\ faults \in 0..MaxFaults /\ Controller # Nobody
    BY CatalogAssumption, ArtifactIds DEF StoreTypeOK
  <1>1. CASE StartController \/ EndSession
    <2>1. step' = [step EXCEPT ![Controller] = "wantWriter"] /\ step'[Controller] = "wantWriter"
      BY <1>0, <1>1 DEF StartController, EndSession, AskWriter, StoreTypeOK
    <2>2. writer # Controller /\ phase' \in {"begin", "finish"}
      BY <1>1 DEF StartController, EndSession, ControllerInv
    <2> QED BY <1>0, <1>1, <2>1, <2>2
         DEF StartController, EndSession, ControllerShape, files, locks, known
  <1>2. CASE ReuseReceipt \/ RebuildAtStart
    <2>1. writer = Controller /\ step[Controller] = "ready" /\ writer' = Nobody /\ step' = step
      BY <1>2 DEF ReuseReceipt, RebuildAtStart, Rebuild, Admitted, Open
    <2>2. \E as : disk' = Synced(as) \/ disk' = disk
      BY <1>2 DEF ReuseReceipt, RebuildAtStart, Rebuild, files
    <2> QED BY <1>0, <1>2, <2>1, <2>2
         DEF ReuseReceipt, RebuildAtStart, ControllerShape, files, locks, known
  <1>3. CASE RevokeReceipt \/ FindStale \/ RebuildAtEnd
    <2>1. step' = step /\ step[Controller] = "ready" /\ writer' = writer
          /\ phase' \in {"rebuild", "repair", "finish"}
      BY <1>3 DEF RevokeReceipt, FindStale, RebuildAtEnd, Rebuild, Admitted, storeVars, locks
    <2>2. \E as : disk' = Synced(as) \/ disk' = disk
      BY <1>3 DEF RevokeReceipt, FindStale, RebuildAtEnd, Rebuild, storeVars, files
    <2> QED BY <1>0, <1>3, <2>1, <2>2
         DEF RevokeReceipt, FindStale, RebuildAtEnd, ControllerShape, storeVars, files, locks, known
  <1>4. CASE PublishReceipt
    <2>1. writer = Controller /\ step[Controller] = "ready" /\ writer' = Nobody /\ step' = step
      BY <1>4 DEF PublishReceipt, Admitted, Down
    <2> QED BY <1>0, <1>4, <2>1 DEF PublishReceipt, ControllerShape, files, known
  <1>5. CASE (\E a \in Artifacts : VerifyOutput(a)) \/ IndexOutput \/ RecordCollision
    <2>1. step' = step /\ writer' = writer /\ phase' = phase
      BY <1>5 DEF VerifyOutput, IndexOutput, RecordCollision, storeVars, locks
    <2>2. \E as : disk' = Synced(as) \/ disk' = disk
      BY <1>5 DEF VerifyOutput, IndexOutput, RecordCollision, storeVars, files
    <2>3. UNCHANGED <<tree, retention, publication, handles, draft, opened, returned, now, faults>>
      BY <1>5 DEF VerifyOutput, IndexOutput, RecordCollision, storeVars, files, locks, known
    <2> QED BY <1>0, <2>1, <2>2, <2>3 DEF ControllerShape, ControllerInv
  <1>6. CASE ControllerStops
    <2>1. /\ step' = [step EXCEPT ![Controller] = "ready"] /\ step'[Controller] = "ready"
          /\ writer' = IF writer = Controller THEN Nobody ELSE writer
      BY <1>0, <1>6 DEF ControllerStops, Down, StoreTypeOK
    <2>2. faults' \in 0..MaxFaults
      BY <1>0, <1>6, StoreAssumption DEF ControllerStops, Fault
    <2> QED BY <1>0, <1>6, <2>1, <2>2 DEF ControllerStops, ControllerShape, files, known
  <1> QED BY <1>1, <1>2, <1>3, <1>4, <1>5, <1>6 DEF SessionStep

\* Such a step leaves the locks and the files as the others need them.
LEMMA SessionKeeps ==
    ASSUME CatalogStoreInv, ControllerShape PROVE CatalogStoreInv'
  <1>0. StoreTypeOK /\ LockInv(Others) /\ ControllerInv /\ FileInv /\ CoreLock
    BY CatalogCore DEF CatalogStoreInv
  <1>1. Controller \in Procs /\ Controller # Nobody
    BY CatalogAssumption, ArtifactIds
  <1>2. PICK s \in {"ready", "wantWriter"} : step' = [step EXCEPT ![Controller] = s]
    BY DEF ControllerShape
  <1>3. /\ step'[Controller] \in {"ready", "wantWriter"}
        /\ \A q \in Procs : q # Controller => step'[q] = step[q]
    BY <1>0, <1>1, <1>2 DEF StoreTypeOK
  <1>4. disk' \in [Paths -> Entry]
    <2>1. PICK as : disk' = Synced(as) \/ disk' = disk
      BY DEF ControllerShape
    <2>2. Synced(as) \in [Paths -> Entry] /\ disk \in [Paths -> Entry]
      BY <1>0, SyncedRows DEF StoreTypeOK
    <2> QED BY <2>1, <2>2
  <1>5. StoreTypeOK'
    <2>1. step' \in [Procs -> Steps]
      BY <1>0, <1>2 DEF StoreTypeOK, Steps
    <2> QED BY <1>0, <1>4, <2>1 DEF ControllerShape, StoreTypeOK
  <1>6. LockInv(Others)'
    <2>1. \A q \in Others : step'[q] = step[q] /\ (writer' = q <=> writer = q)
      BY <1>3, ArtifactIds DEF ControllerShape, Others
    <2>2. UNCHANGED <<retention, publication, handles, draft>>
      BY DEF ControllerShape
    <2> QED BY <1>0, <2>1, <2>2 DEF LockInv
  <1>7. ControllerInv'
    BY <1>0, <1>3 DEF ControllerShape, ControllerInv
  <1>8. FileInv'
    BY <1>0, <1>1, <1>3, FilesBeside DEF ControllerShape, Installing
  <1> QED BY <1>5, <1>6, <1>7, <1>8 DEF CatalogStoreInv

\* What a process does leaves the controller's part of the locks alone.
LEMMA OthersLeave ==
    ASSUME StoreTypeOK, NEW p \in Procs, NEW q \in Procs, q # p, ProcStep(p)
    PROVE  /\ step'[q] = step[q] /\ draft'[q] = draft[q]
           /\ retention'[q] = retention[q] /\ handles'[q] = handles[q]
           /\ writer' = q => writer = q
           /\ publication' = q => publication = q
  <1>1. q # Nobody
    BY ArtifactIds
  <1>2. ASSUME Leave(p), handles' = handles
        PROVE  /\ step'[q] = step[q] /\ draft'[q] = draft[q]
               /\ retention'[q] = retention[q] /\ handles'[q] = handles[q]
               /\ writer' = q => writer = q
               /\ publication' = q => publication = q
    BY <1>1, <1>2 DEF Leave, StoreTypeOK
  <1>3. CASE Abort(p) \/ RefuseInputs(p) \/ Reuse(p) \/ Conflict(p) \/ SyncRoot(p) \/ PublishFails(p)
    BY <1>2, <1>3 DEF Abort, RefuseInputs, Reuse, Conflict, SyncRoot, PublishFails
  <1>4. ASSUME NEW a \in Artifacts, OpenCommitted(p, a) \/ CloseHandle(p, a) \/ BeginStage(p, a)
        PROVE  /\ step'[q] = step[q] /\ draft'[q] = draft[q]
               /\ retention'[q] = retention[q] /\ handles'[q] = handles[q]
               /\ writer' = writer /\ publication' = publication
    BY <1>4 DEF OpenCommitted, CloseHandle, BeginStage, Goto, locks, StoreTypeOK
  <1>5. CASE TakeWriter(p) \/ BeginCommit(p) \/ PublishTakesRetention(p) \/ NeedExclusive(p)
             \/ TakeExclusive(p)
    BY <1>5 DEF TakeWriter, BeginCommit, PublishTakesRetention, NeedExclusive, TakeExclusive,
                Goto, locks, StoreTypeOK
  <1>6. CASE InstallRename(p) \/ Quarantine(p) \/ SyncParent(p) \/ Mark(p)
    BY <1>6 DEF InstallRename, Quarantine, SyncParent, Mark, Goto, locks, StoreTypeOK
  <1>7. CASE Die(p)
    BY <1>1, <1>7 DEF Die, StoreTypeOK
  <1> QED BY <1>3, <1>4, <1>5, <1>6, <1>7 DEF ProcStep

\* Publishers, readers, time and power losses beside the controller.
LEMMA BesideKeeps ==
    ASSUME CatalogStoreInv, StoreStep \/ CatalogPowerLoss PROVE CatalogStoreInv'
  <1>0. StoreTypeOK /\ LockInv(Others) /\ ControllerInv /\ FileInv /\ CoreLock
    BY CatalogCore DEF CatalogStoreInv
  <1>1. Controller \in Procs /\ Controller # Nobody /\ Others \in SUBSET Procs
    BY CatalogAssumption, ArtifactIds DEF Others
  <1>2. ASSUME NEW p \in Others, ProcStep(p), phase' = phase PROVE CatalogStoreInv'
    <2>1. p \in Procs /\ Controller # p
      BY DEF Others
    <2>2. StoreTypeOK'
      BY <1>0, <1>2, <2>1, TypesProc
    <2>3. LockInv(Others)'
      BY <1>0, <1>1, <1>2, LocksProc
    <2>4. ControllerInv'
      BY <1>0, <1>1, <1>2, <2>1, OthersLeave DEF ControllerInv
    <2>5. FileInv'
      BY <1>0, <1>2, <2>1, FilesQuiet, FilesInstallRename, FilesMark, FilesSync, FilesReplace
         DEF ProcStep
    <2> QED BY <2>2, <2>3, <2>4, <2>5 DEF CatalogStoreInv
  <1>3. CASE TakeWriter(Controller) /\ phase' = phase
    <2>1. /\ step[Controller] = "wantWriter" /\ writer = Nobody /\ writer' = Controller
          /\ step' = [step EXCEPT ![Controller] = "ready"]
          /\ UNCHANGED <<retention, publication, handles, draft, opened, returned, tree, disk>>
      BY <1>3 DEF TakeWriter, Goto, files, known
    <2>2. StoreTypeOK'
      BY <1>0, <1>1, <1>3, TypesProc DEF ProcStep
    <2>3. /\ step'[Controller] = "ready"
          /\ \A q \in Procs : q # Controller => step'[q] = step[q]
      BY <1>0, <1>1, <2>1 DEF StoreTypeOK
    <2>4. LockInv(Others)'
      BY <1>0, <1>1, <2>1, <2>3, ArtifactIds DEF LockInv, Others
    <2>5. ControllerInv'
      BY <1>0, <1>1, <1>3, <2>1, <2>3 DEF ControllerInv
    <2>6. FileInv'
      BY <1>0, <1>1, <1>3, FilesQuiet
    <2> QED BY <2>2, <2>4, <2>5, <2>6 DEF CatalogStoreInv
  <1>4. CASE Tick /\ phase' = phase
    <2>1. UNCHANGED <<tree, disk, writer, retention, publication, handles, step, draft, opened,
                      returned>>
      BY <1>4 DEF Tick, files, locks, known
    <2>2. StoreTypeOK'
      BY <1>0, <1>4, TypesStep DEF StoreNext
    <2>3. FileInv'
      BY <1>0, <2>1 DEF FileInv, LeasedIsWhole, Durable, Committed, Destination
    <2>4. LockInv(Others)'
      BY <1>0, <1>1, <1>4, LocksBeside
    <2>5. ControllerInv'
      BY <1>0, <1>4, <2>1 DEF ControllerInv
    <2> QED BY <2>2, <2>3, <2>4, <2>5 DEF CatalogStoreInv
  <1>5. CASE CatalogPowerLoss
    <2>1. PowerLoss /\ phase' = "down"
      BY <1>5 DEF CatalogPowerLoss
    <2>2. StoreTypeOK'
      BY <1>0, <2>1, TypesStep DEF StoreNext
    <2>3. LockInv(Others)'
      BY <1>0, <1>1, <2>1, LocksBeside
    <2>4. ControllerInv'
      BY <1>1, <2>1 DEF PowerLoss, StopAll, ControllerInv
    <2>5. FileInv'
      BY <1>0, <2>1, FilesPowerLoss
    <2> QED BY <2>2, <2>3, <2>4, <2>5 DEF CatalogStoreInv
  <1> QED BY <1>2, <1>3, <1>4, <1>5 DEF StoreStep, session, Others

LEMMA CatalogStoreStep ==
    ASSUME CatalogStoreInv, [CatalogNext]_catalogVars PROVE CatalogStoreInv'
  <1>1. CASE UNCHANGED catalogVars
    <2>1. UNCHANGED storeVars /\ phase' = phase
      BY <1>1 DEF catalogVars, session
    <2>2. UNCHANGED <<tree, disk, writer, retention, publication, handles, step, draft, opened,
                      returned, now, faults>>
      BY <2>1 DEF storeVars, files, locks, known
    <2>3. StoreTypeOK'
      BY <2>2 DEF CatalogStoreInv, StoreTypeOK
    <2>4. LockInv(Others)'
      BY <2>2 DEF CatalogStoreInv, LockInv
    <2>5. ControllerInv'
      BY <2>1, <2>2 DEF CatalogStoreInv, ControllerInv
    <2>6. FileInv'
      BY <2>2 DEF CatalogStoreInv, FileInv, LeasedIsWhole, Durable, Committed, Destination
    <2> QED BY <2>3, <2>4, <2>5, <2>6 DEF CatalogStoreInv
  <1>2. CASE SessionStep
    BY <1>2, SessionShape, SessionKeeps DEF CatalogStoreInv
  <1> QED BY <1>1, <1>2, BesideKeeps DEF CatalogNext

LEMMA CatalogStoreInit == CatalogInit => CatalogStoreInv
  <1> SUFFICES ASSUME CatalogInit PROVE CatalogStoreInv
    OBVIOUS
  <1>1. StoreInv
    BY StoreInvInit DEF CatalogInit
  <1>2. LockInv(Others)
    BY <1>1 DEF StoreInv, LockInv, Others
  <1>3. ControllerInv
    BY CatalogAssumption, ArtifactIds DEF CatalogInit, StoreInit, ControllerInv
  <1> QED BY <1>1, <1>2, <1>3 DEF StoreInv, CatalogStoreInv

\* The receipt and the rows hold what the inventory of the tree holds.
LEMMA IndexTypesStep ==
    ASSUME StoreTypeOK, IndexInv, IndexTypes, [CatalogNext]_catalogVars
    PROVE  IndexTypes'
  <1> USE DEF IndexTypes
  <1>1. Inventory \in SUBSET Entry /\ now \in 0..MaxTime
    BY DEF Inventory, StoreTypeOK
  <1>2. Unclean \in [clean : BOOLEAN, inventory : SUBSET Entry]
    BY DEF Unclean
  <1>3. ASSUME StoreStep PROVE IndexTypes'
    BY <1>3 DEF StoreStep, index, session
  <1>4. CASE StartController BY <1>4 DEF StartController, index
  <1>5. CASE ReuseReceipt BY <1>2, <1>5 DEF ReuseReceipt, Open, index
  <1>6. CASE RevokeReceipt BY <1>2, <1>6 DEF RevokeReceipt, index
  <1>7. CASE RebuildAtStart \/ RebuildAtEnd
    <2>1. verifiedAt' = [a \in Artifacts |-> IF a \in Contents(Inventory) THEN now ELSE 0]
      BY <1>7 DEF RebuildAtStart, RebuildAtEnd, Rebuild
    <2>2. 0 \in 0..MaxTime
      BY StoreAssumption
    <2>3. verifiedAt' \in [Artifacts -> 0..MaxTime]
      BY <1>1, <2>1, <2>2
    <2> QED BY <1>7, <2>3 DEF RebuildAtStart, RebuildAtEnd, Open
  <1>8. CASE EndSession BY <1>8 DEF EndSession, index
  <1>9. CASE FindStale BY <1>9 DEF FindStale, index
  <1>10. CASE PublishReceipt
    <2>1. receipt' = [clean |-> TRUE, inventory |-> Inventory] /\ phase' = "down"
          /\ verifiedAt' = verifiedAt
      BY <1>10 DEF PublishReceipt, Down, index
    <2> QED BY <1>1, <2>1
  <1>11. ASSUME NEW a \in Artifacts, VerifyOutput(a) PROVE IndexTypes'
    BY <1>11 DEF VerifyOutput, index
  <1>12. CASE IndexOutput \/ RecordCollision
    <2>1. /\ verifiedAt' = [verifiedAt EXCEPT ![indexing] =
                                IF rows[indexing] = "absent" THEN now ELSE @]
          /\ receipt' = receipt /\ phase' = phase
      BY <1>12 DEF IndexOutput, RecordCollision
    <2> QED BY <1>1, <2>1
  <1>13. CASE ControllerStops BY <1>13 DEF ControllerStops, Down, index
  <1>14. CASE CatalogPowerLoss BY <1>14 DEF CatalogPowerLoss, index
  <1>15. CASE UNCHANGED catalogVars BY <1>15 DEF catalogVars, index, session
  <1> QED BY <1>3, <1>4, <1>5, <1>6, <1>7, <1>8, <1>9, <1>10, <1>11, <1>12, <1>13, <1>14,
             <1>15 DEF CatalogNext, SessionStep

\* The invariant of the catalog beside its store.
CatalogInv == CatalogStoreInv /\ IndexInv /\ IndexTypes

LEMMA CatalogInvariant == CatalogSpec => []CatalogInv
  <1>1. CatalogInit => CatalogInv
    <2> SUFFICES ASSUME CatalogInit PROVE IndexInv /\ IndexTypes
      BY CatalogStoreInit DEF CatalogInv
    <2>1. IndexInv
      BY DEF CatalogInit, IndexInv
    <2>2. IndexTypes
      BY StoreAssumption DEF CatalogInit, IndexTypes, Unclean
    <2> QED BY <2>1, <2>2
  <1>2. CatalogInv /\ [CatalogNext]_catalogVars => CatalogInv'
    BY CatalogStoreStep, IndexStep, IndexTypesStep DEF CatalogInv, CatalogStoreInv
  <1> QED BY <1>1, <1>2, PTL DEF CatalogSpec

\* Type correctness of the index, the receipt and the session, over that of the store.
THEOREM CatalogTypes == CatalogSpec => []CatalogTypeOK
  <1>1. CatalogInv => CatalogTypeOK
    BY DEF CatalogInv, CatalogStoreInv, IndexInv, IndexTypes, CatalogTypeOK
  <1> QED BY <1>1, CatalogInvariant, PTL

\* What readers and publishers were told, and what they have open, stays committed
\* while a controller rebuilds and indexes beside them (open_committed, commit).
THEOREM CatalogKeepsKnown == CatalogSpec => [](KnownIsDurable /\ LeasedIsWhole)
  <1>1. CatalogInv => KnownIsDurable /\ LeasedIsWhole
    BY DEF CatalogInv, CatalogStoreInv, FileInv, Durable, KnownIsDurable
  <1> QED BY <1>1, CatalogInvariant, PTL

\* A controller that waits for writer.lock as a session begins or ends waits in no
\* cycle with those that publish, when they keep no handle open over stage() or
\* commit().
THEOREM SessionsNeverCycle == ASSUME KeepsInputs = {} PROVE CatalogSpec => []NoWaitCycle
  <1>1. CatalogInv => NoWaitCycle
    <2> SUFFICES ASSUME StoreTypeOK, LockInv(Others), ControllerInv PROVE LockOrder
      BY OrderNeverCycles DEF CatalogInv, CatalogStoreInv
    <2>1. /\ publication # Nobody => step[publication] \in Installing
          /\ writer # Nobody => step[writer] # "wantWriter"
      BY DEF StoreTypeOK, LockInv, ControllerInv, Others
    <2>2. \A p \in Procs : retention[p] # "none" \/ handles[p] # {} =>
              step[p] \in {"wantPublication", "resolving", "ready"} \cup Installing
      BY DEF StoreTypeOK, LockInv, ControllerInv, Others, Steps, Installing
    <2> QED BY <2>1, <2>2 DEF LockOrder
  <1> QED BY <1>1, CatalogInvariant, PTL

\* A controller syncs what it reads and changes no directory.
LEMMA CatalogLineageStep ==
    ASSUME InputsAddressed, CatalogStoreInv, LineageBut({}), [CatalogNext]_catalogVars
    PROVE  LineageBut({})'
  <1>0. StoreTypeOK /\ CoreLock /\ FileInv /\ ControllerInv
    BY CatalogCore DEF CatalogStoreInv
  <1>1. CASE StoreStep \/ CatalogPowerLoss \/ UNCHANGED catalogVars
    <2>1. [StoreNext]_storeVars
      BY <1>1, CatalogAssumption
         DEF StoreStep, CatalogPowerLoss, catalogVars, StoreNext, ProcStep
    <2> QED BY <1>0, <2>1, LineageStep
  <1>2. CASE SessionStep
    <2>1. ControllerShape
      BY <1>0, <1>2, SessionShape
    <2>2. tree' = tree /\ \E as : disk' = Synced(as) \/ disk' = disk
      BY <2>1 DEF ControllerShape
    <2>3. PICK s \in {"ready", "wantWriter"} : step' = [step EXCEPT ![Controller] = s]
      BY <2>1 DEF ControllerShape
    <2>4. \A q \in Procs : step'[q] \in Installing => step[q] \in Installing /\ draft'[q] = draft[q]
      BY <1>0, <2>1, <2>3 DEF ControllerShape, StoreTypeOK, Installing
    <2> QED BY <1>0, <2>2, <2>4, LineageQuiet
  <1> QED BY <1>1, <1>2 DEF CatalogNext

\* Whatever a power loss leaves committed has its inputs, also when a session was
\* verifying or rebuilding as it came.
THEOREM CatalogKeepsLineage == ASSUME InputsAddressed PROVE CatalogSpec => []LineageSurvives
  <1>1. CatalogInit => LineageBut({})
    BY LineageInit DEF CatalogInit
  <1>2. CatalogInv /\ LineageBut({}) /\ [CatalogNext]_catalogVars => LineageBut({})'
    BY CatalogLineageStep DEF CatalogInv
  <1>3. CatalogInv /\ LineageBut({}) => LineageSurvives
    BY DurableLineage DEF CatalogInv, CatalogStoreInv
  <1> QED BY <1>1, <1>2, <1>3, CatalogInvariant, PTL DEF CatalogSpec
===============================================================================
