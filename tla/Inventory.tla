----------------------------- MODULE Inventory -----------------------------
(***************************************************************************)
(* internal/inventory/inventory.go, and how successive runs of reconcile   *)
(* and finalize use it: the inventory in the status is a list of object    *)
(* identifiers, each with the API version the object was applied under.    *)
(* LanguageModelReconciler treats the same inventory as a set of objects   *)
(* and lets every call fail; here the calls succeed and the entries count. *)
(***************************************************************************)
EXTENDS Integers, Sequences

CONSTANTS
    Ids,          \* object identifiers that parse
    Versions,     \* API versions objects may be applied under
    ChangeSets,   \* what ApplyAll may return: its entries, in its order
    MaxEdits      \* how often others may edit the stored status

\* An identifier that ParseObjMetadata refuses, and the version of an entry
\* that is not found.
Malformed == "malformed"
NoVersion == ""

Entries == [id : Ids, version : Versions]
StoredEntries == [id : Ids \cup {Malformed}, version : Versions]

OncePerId(s) ==
    \A m, n \in DOMAIN s : s[m].id = s[n].id /\ s[m].id # Malformed => m = n

\* ApplyAll visits an object once.
ASSUME InventoryAssumption ==
    /\ Malformed \notin Ids /\ NoVersion \notin Versions
    /\ \A s \in ChangeSets : s \in Seq(Entries) /\ OncePerId(s)
    /\ MaxEdits \in Nat

-----------------------------------------------------------------------------
(* inventory.go *)

New == <<>>

AddChangeSet(inv, set) == inv \o set

IdsOf(inv) == {inv[n].id : n \in DOMAIN inv}

Parses(inv) == Malformed \notin IdsOf(inv)

\* Mutant: what comes before a malformed entry is returned all the same.
ListSoFar(inv) ==
    {inv[n] : n \in {n \in DOMAIN inv : \A m \in 1..n : inv[m].id # Malformed}}

\* The objects of an inventory, as DeleteAll gets them; their order is that of
\* the library's sort.  With an error comes nothing.
List(inv) == IF Parses(inv) THEN {inv[n] : n \in DOMAIN inv} ELSE {}

\* The first entry with the identifier counts.
VersionOf(inv, id) ==
    IF id \notin IdsOf(inv) THEN NoVersion
    ELSE inv[CHOOSE n \in DOMAIN inv :
                inv[n].id = id /\ \A m \in 1..(n - 1) : inv[m].id # id].version

DiffFails(inv, target) == ~Parses(inv) \/ ~Parses(target)

\* Mutants: entries are compared whole; the version is looked up in the target.
DiffOfEntries(inv, target) == List(inv) \ List(target)
DiffWithTargetVersion(inv, target) ==
    {[id |-> i, version |-> VersionOf(target, i)] : i \in IdsOf(inv) \ IdsOf(target)}

\* What has left the inventory, whatever became of the versions.
Diff(inv, target) ==
    {[id |-> i, version |-> VersionOf(inv, i)] : i \in IdsOf(inv) \ IdsOf(target)}

-----------------------------------------------------------------------------
(* Runs *)

VARIABLES
    exists,     \* the LanguageModel is there
    inventory,  \* in its status
    live,       \* the workload objects in the cluster
    kept,       \* those left there while pruning was off
    edits       \* edits of the status still allowed (bound MaxEdits)

vars == <<exists, inventory, live, kept, edits>>

Init ==
    /\ exists = TRUE
    /\ inventory = New
    /\ live = {} /\ kept = {}
    /\ edits = MaxEdits

\* DeleteAll: a request without a version reaches no object.
Deleted(objects) == {o.id : o \in {o \in objects : o.version \in Versions}}

\* Mutant: the change set is added to the inventory that is there.
NewInventoryOnOld(set) == AddChangeSet(inventory, set)

NewInventory(set) == AddChangeSet(New, set)

\* A run that applies the objects of set, records them, and collects what is
\* stale.  Where the stored inventory does not parse, Diff fails after the new
\* inventory has taken its place.
Run(set, prune) ==
    LET new == NewInventory(set)
        stale == Diff(inventory, new)
        applied == live \cup IdsOf(set)
    IN
    /\ exists
    /\ inventory' = new
    /\ IF DiffFails(inventory, new) \/ ~prune
          THEN live' = applied
          ELSE live' = applied \ Deleted(stale)
    /\ kept' = (IF prune THEN kept ELSE kept \cup live) \ IdsOf(set)
    /\ UNCHANGED <<exists, edits>>

\* finalize asks for the list and ignores its error.
Finalize(prune) ==
    /\ exists
    /\ exists' = FALSE
    /\ inventory' = New
    /\ live' = IF prune THEN live \ Deleted(List(inventory)) ELSE live
    /\ kept' = IF prune THEN kept ELSE kept \cup live
    /\ UNCHANGED edits

Create ==
    /\ ~exists
    /\ exists' = TRUE
    /\ UNCHANGED <<inventory, live, kept, edits>>

\* Someone else writes an identifier into the status that does not parse.
EditStatus ==
    /\ exists
    /\ edits > 0
    /\ edits' = edits - 1
    /\ \E n \in DOMAIN inventory : inventory' = [inventory EXCEPT ![n].id = Malformed]
    /\ UNCHANGED <<exists, live, kept>>

Next ==
    \/ \E set \in ChangeSets, prune \in BOOLEAN : Run(set, prune)
    \/ \E prune \in BOOLEAN : Finalize(prune)
    \/ Create
    \/ EditStatus

Spec == Init /\ [][Next]_vars

-----------------------------------------------------------------------------
(* Properties *)

\* Every variable stays within its type, and the inventory names no object
\* twice.
TypeOK ==
    /\ exists \in BOOLEAN
    /\ inventory \in Seq(StoredEntries) /\ OncePerId(inventory)
    /\ live \subseteq Ids /\ kept \subseteq Ids
    /\ edits \in 0..MaxEdits

\* What a run applied and recorded is never taken down as stale, by that run
\* or by a later one that records it too, even when it comes back under
\* another API version or at another place in the change set.
RecordedStaysLive == IdsOf(inventory) \ {Malformed} \subseteq live

\* Garbage collection loses no object: as long as nobody else writes the
\* status, every object in the cluster is in the inventory, or was left there
\* by a run or a finalization with pruning off and not applied since.
NothingUntracked ==
    edits = MaxEdits => live \subseteq IdsOf(inventory) \cup kept

\* "Diff returns the slice of objects that do not exist in the target
\* inventory": an object leaves the cluster only when it has left the
\* inventory, or with its LanguageModel, and never on the word of an
\* inventory that does not parse.
DeletesOnlyStale ==
    [][\A i \in live \ live' :
          Parses(inventory) /\ i \in IdsOf(inventory) \ IdsOf(inventory')]_vars
=============================================================================
