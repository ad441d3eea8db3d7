---------------------------- MODULE MCInventory ----------------------------
(* Small instances of Inventory for TLC. *)
EXTENDS Inventory

\* Every order of at most MaxObjects objects, under every version.
CONSTANT MaxObjects
AllChangeSets ==
    {s \in UNION {[1..n -> Entries] : n \in 0..MaxObjects} : OncePerId(s)}
=============================================================================
