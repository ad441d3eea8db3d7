-------------------------- MODULE Inventory_proofs --------------------------
(***************************************************************************)
(* Proofs about Inventory, for all objects, versions and change sets, and  *)
(* any number of edits of the status by others.                            *)
(***************************************************************************)
EXTENDS Inventory, TLAPS

\* Diff removes identifiers, whatever the versions: it is the set difference
\* that LanguageModelReconciler computes.
LEMMA DiffIsSetDifference ==
    ASSUME NEW inv, NEW target
    PROVE  {o.id : o \in Diff(inv, target)} = IdsOf(inv) \ IdsOf(target)
<1> DEFINE D == IdsOf(inv) \ IdsOf(target)
           Object(i) == [id |-> i, version |-> VersionOf(inv, i)]
<1>1. Diff(inv, target) = {Object(i) : i \in D}
  BY DEF Diff
<1>2. \A i : Object(i).id = i
  OBVIOUS
<1> HIDE DEF D, Object
<1>3. {o.id : o \in {Object(i) : i \in D}} = D
  BY <1>2
<1> QED BY <1>1, <1>3 DEF D

\* An identifier with one entry has the version of that entry.
LEMMA VersionIsRecorded ==
    ASSUME NEW inv \in Seq(StoredEntries), OncePerId(inv),
           NEW i \in IdsOf(inv), i # Malformed
    PROVE  VersionOf(inv, i) \in Versions
<1> DEFINE P(n) == inv[n].id = i /\ \A m \in 1..(n - 1) : inv[m].id # i
<1>1. PICK n \in DOMAIN inv : inv[n].id = i
  BY DEF IdsOf
<1>2. n \in 1..Len(inv) /\ DOMAIN inv = 1..Len(inv) /\ Len(inv) \in Nat
  BY <1>1
<1>3. \A m \in 1..(n - 1) : inv[m].id # i
  BY <1>1, <1>2 DEF OncePerId
<1>4. PICK k \in DOMAIN inv : P(k) /\ k = CHOOSE m \in DOMAIN inv : P(m)
  BY <1>1, <1>3
<1>5. VersionOf(inv, i) = inv[k].version
  BY <1>4 DEF VersionOf
<1>6. inv[k] \in StoredEntries
  BY <1>2, <1>4
<1> QED BY <1>5, <1>6 DEF StoredEntries

\* A new inventory holds the identifiers of the change set, and parses.
LEMMA NewInventoryIds ==
    ASSUME NEW set \in ChangeSets
    PROVE  /\ NewInventory(set) = set
           /\ set \in Seq(StoredEntries) /\ OncePerId(set)
           /\ IdsOf(set) \subseteq Ids /\ Parses(set)
<1>1. set \in Seq(Entries) /\ OncePerId(set)
  BY InventoryAssumption
<1>2. NewInventory(set) = set
  BY <1>1 DEF NewInventory, AddChangeSet, New
<1>3. \A n \in DOMAIN set : set[n] \in Entries
  BY <1>1
<1>4. IdsOf(set) \subseteq Ids
  BY <1>3 DEF IdsOf, Entries
<1>5. set \in Seq(StoredEntries)
  <2>1. Entries \subseteq StoredEntries
    BY DEF Entries, StoredEntries
  <2> QED BY <1>1, <2>1
<1> QED BY <1>1, <1>2, <1>4, <1>5, InventoryAssumption DEF Parses

\* DeleteAll reaches exactly the objects that left an inventory that parses.
LEMMA StaleAreDeleted ==
    ASSUME NEW inv \in Seq(StoredEntries), OncePerId(inv), Parses(inv), NEW target
    PROVE  Deleted(Diff(inv, target)) = IdsOf(inv) \ IdsOf(target)
<1>1. \A i \in IdsOf(inv) : VersionOf(inv, i) \in Versions
  BY VersionIsRecorded DEF Parses
<1>2. \A o \in Diff(inv, target) : o.version \in Versions
  BY <1>1 DEF Diff
<1>3. Deleted(Diff(inv, target)) = {o.id : o \in Diff(inv, target)}
  BY <1>2 DEF Deleted
<1> QED BY <1>3, DiffIsSetDifference

\* At finalization it reaches every object of an inventory that parses.
LEMMA ListedAreDeleted ==
    ASSUME NEW inv \in Seq(StoredEntries)
    PROVE  Deleted(List(inv)) = IF Parses(inv) THEN IdsOf(inv) ELSE {}
<1>1. \A n \in DOMAIN inv : inv[n] \in StoredEntries
  OBVIOUS
<1>2. \A n \in DOMAIN inv : inv[n].version \in Versions
  BY <1>1 DEF StoredEntries
<1>3. CASE Parses(inv)
  BY <1>2, <1>3 DEF Deleted, List, IdsOf
<1>4. CASE ~Parses(inv)
  BY <1>4 DEF Deleted, List
<1> QED BY <1>3, <1>4

-----------------------------------------------------------------------------
\* The inductive invariant: the stored inventory is complete and parses until
\* someone else writes the status.
InventoryInv ==
    /\ TypeOK
    /\ RecordedStaysLive
    /\ NothingUntracked
    /\ edits = MaxEdits => Parses(inventory)

\* The identifiers of the empty inventory.
LEMMA NewIds ==
    /\ New \in Seq(StoredEntries) /\ OncePerId(New)
    /\ IdsOf(New) = {} /\ Parses(New)
  BY DEF New, OncePerId, IdsOf, Parses

\* A run keeps the invariant.
LEMMA RunKeepsInv ==
    ASSUME InventoryInv, NEW set \in ChangeSets, NEW prune \in BOOLEAN, Run(set, prune)
    PROVE  InventoryInv'
<1>1. /\ inventory' = set /\ set \in Seq(StoredEntries) /\ OncePerId(set)
      /\ IdsOf(set) \subseteq Ids /\ Parses(set)
  BY NewInventoryIds DEF Run
<1>2. live' \in {live \cup IdsOf(set), (live \cup IdsOf(set)) \ Deleted(Diff(inventory, set))}
  BY NewInventoryIds DEF Run
<1>3. Deleted(Diff(inventory, set)) \cap IdsOf(set) = {}
  BY DEF Deleted, Diff
<1>4. kept' = (IF prune THEN kept ELSE kept \cup live) \ IdsOf(set)
      /\ exists' = exists /\ edits' = edits
  BY DEF Run
<1>5. TypeOK'
  BY <1>1, <1>2, <1>4 DEF TypeOK, InventoryInv
<1>6. RecordedStaysLive'
  BY <1>1, <1>2, <1>3 DEF RecordedStaysLive
<1>7. NothingUntracked'
  <2> SUFFICES ASSUME edits = MaxEdits
               PROVE  live' \subseteq IdsOf(set) \cup kept'
    BY <1>1, <1>4 DEF NothingUntracked
  <2>1. live \subseteq IdsOf(inventory) \cup kept /\ Parses(inventory)
    BY DEF InventoryInv, NothingUntracked
  <2>2. CASE ~prune
    BY <2>1, <2>2, <1>2, <1>4
  <2>3. CASE prune
    <3>1. ~DiffFails(inventory, NewInventory(set))
      BY <2>1, <1>1, NewInventoryIds DEF DiffFails
    <3>2. live' = (live \cup IdsOf(set)) \ Deleted(Diff(inventory, set))
      BY <3>1, <2>3, NewInventoryIds DEF Run
    <3>3. Deleted(Diff(inventory, set)) = IdsOf(inventory) \ IdsOf(set)
      BY <2>1, StaleAreDeleted DEF InventoryInv, TypeOK
    <3> QED BY <2>1, <2>3, <3>2, <3>3, <1>4
  <2> QED BY <2>2, <2>3
<1> QED BY <1>1, <1>4, <1>5, <1>6, <1>7 DEF InventoryInv

\* A finalization keeps it, although it ignores the error of List.
LEMMA FinalizeKeepsInv ==
    ASSUME InventoryInv, NEW prune \in BOOLEAN, Finalize(prune)
    PROVE  InventoryInv'
<1>1. inventory' = New /\ exists' = FALSE /\ edits' = edits
      /\ kept' = (IF prune THEN kept ELSE kept \cup live)
      /\ live' = (IF prune THEN live \ Deleted(List(inventory)) ELSE live)
  BY DEF Finalize
<1>2. TypeOK'
  BY <1>1, NewIds DEF TypeOK, InventoryInv
<1>3. RecordedStaysLive'
  BY <1>1, NewIds DEF RecordedStaysLive
<1>4. edits = MaxEdits => live' \subseteq kept'
  <2>1. inventory \in Seq(StoredEntries)
    BY DEF InventoryInv, TypeOK
  <2>2. Deleted(List(inventory)) = IF Parses(inventory) THEN IdsOf(inventory) ELSE {}
    BY <2>1, ListedAreDeleted
  <2> QED BY <1>1, <2>2 DEF InventoryInv, NothingUntracked
<1> QED BY <1>1, <1>2, <1>3, <1>4, NewIds DEF InventoryInv, NothingUntracked

\* An edit by others only takes identifiers away.
LEMMA EditKeepsInv ==
    ASSUME InventoryInv, EditStatus
    PROVE  InventoryInv'
<1>1. PICK n \in DOMAIN inventory : inventory' = [inventory EXCEPT ![n].id = Malformed]
  BY DEF EditStatus
<1>2. inventory \in Seq(StoredEntries) /\ edits \in 0..MaxEdits /\ MaxEdits \in Nat
  BY InventoryAssumption DEF InventoryInv, TypeOK
<1>3. \A m \in DOMAIN inventory : inventory[m] \in StoredEntries
  BY <1>2
<1>4. [inventory[n] EXCEPT !.id = Malformed] \in StoredEntries
  BY <1>3 DEF StoredEntries
<1>5. inventory' \in Seq(StoredEntries) /\ DOMAIN inventory' = DOMAIN inventory
  BY <1>1, <1>2, <1>4
<1>6. \A m \in DOMAIN inventory : inventory'[m].id \in {inventory[m].id, Malformed}
  BY <1>1, <1>3 DEF StoredEntries
<1>7. OncePerId(inventory')
  BY <1>5, <1>6 DEF OncePerId, InventoryInv, TypeOK
<1>8. IdsOf(inventory') \ {Malformed} \subseteq IdsOf(inventory) \ {Malformed}
  BY <1>5, <1>6 DEF IdsOf
<1>9. edits' # MaxEdits /\ edits' \in 0..MaxEdits
  BY <1>2 DEF EditStatus
<1> QED BY <1>5, <1>7, <1>8, <1>9
        DEF EditStatus, InventoryInv, TypeOK, RecordedStaysLive, NothingUntracked

\* The inductive invariant holds for every number of runs, finalizations and
\* recreations.
THEOREM InventoryInvariant == Spec => []InventoryInv
<1>1. Init => InventoryInv
  BY NewIds, InventoryAssumption
     DEF Init, InventoryInv, TypeOK, RecordedStaysLive, NothingUntracked
<1>2. InventoryInv /\ [Next]_vars => InventoryInv'
  <2> SUFFICES ASSUME InventoryInv, [Next]_vars
               PROVE  InventoryInv'
    OBVIOUS
  <2>1. CASE \E set \in ChangeSets, prune \in BOOLEAN : Run(set, prune)
    BY <2>1, RunKeepsInv
  <2>2. CASE \E prune \in BOOLEAN : Finalize(prune)
    BY <2>2, FinalizeKeepsInv
  <2>3. CASE Create
    BY <2>3 DEF Create, InventoryInv, TypeOK, RecordedStaysLive, NothingUntracked
  <2>4. CASE EditStatus
    BY <2>4, EditKeepsInv
  <2>5. CASE UNCHANGED vars
    BY <2>5 DEF vars, InventoryInv, TypeOK, RecordedStaysLive, NothingUntracked
  <2> QED BY <2>1, <2>2, <2>3, <2>4, <2>5 DEF Next
<1> QED BY <1>1, <1>2, PTL DEF Spec

\* Types, and at most one entry per object in the inventory.
THEOREM InventoryTyped == Spec => []TypeOK
<1>1. InventoryInv => TypeOK
  BY DEF InventoryInv
<1> QED BY <1>1, InventoryInvariant, PTL

\* No run and no later one takes down what it applied and recorded.
THEOREM NothingWantedIsDeleted == Spec => []RecordedStaysLive
<1>1. InventoryInv => RecordedStaysLive
  BY DEF InventoryInv
<1> QED BY <1>1, InventoryInvariant, PTL

\* Garbage collection loses no object while the status is the controller's.
THEOREM NothingIsLost == Spec => []NothingUntracked
<1>1. InventoryInv => NothingUntracked
  BY DEF InventoryInv
<1> QED BY <1>1, InventoryInvariant, PTL

\* Only what has left the inventory is deleted, and only on the word of an
\* inventory that parses.
THEOREM OnlyStaleIsDeleted == Spec => DeletesOnlyStale
<1>1. InventoryInv /\ [Next]_vars
        => [\A i \in live \ live' :
              Parses(inventory) /\ i \in IdsOf(inventory) \ IdsOf(inventory')]_vars
  <2> SUFFICES ASSUME InventoryInv, Next, NEW i \in live \ live'
               PROVE  Parses(inventory) /\ i \in IdsOf(inventory) \ IdsOf(inventory')
    OBVIOUS
  <2>1. ASSUME NEW set \in ChangeSets, NEW prune \in BOOLEAN, Run(set, prune)
        PROVE  Parses(inventory) /\ i \in IdsOf(inventory) \ IdsOf(inventory')
    <3>1. ~DiffFails(inventory, NewInventory(set)) /\ i \in Deleted(Diff(inventory, NewInventory(set)))
      BY <2>1 DEF Run
    <3> QED BY <2>1, <3>1 DEF DiffFails, Deleted, Diff, Run
  <2>2. ASSUME NEW prune \in BOOLEAN, Finalize(prune)
        PROVE  Parses(inventory) /\ i \in IdsOf(inventory) \ IdsOf(inventory')
    <3>1. i \in Deleted(List(inventory)) /\ inventory' = New
      BY <2>2 DEF Finalize
    <3>2. Deleted(List(inventory)) = IF Parses(inventory) THEN IdsOf(inventory) ELSE {}
      BY ListedAreDeleted DEF InventoryInv, TypeOK
    <3> QED BY <3>1, <3>2, NewIds
  <2>3. CASE Create \/ EditStatus
    BY <2>3 DEF Create, EditStatus
  <2> QED BY <2>1, <2>2, <2>3 DEF Next
<1> QED BY <1>1, InventoryInvariant, PTL DEF Spec, DeletesOnlyStale
=============================================================================
