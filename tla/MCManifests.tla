---------------------------- MODULE MCManifests ----------------------------
(* Small instances of Manifests for TLC. *)
EXTENDS Manifests

\* At and around whole CPUs.
SomeCpus == {1000, 1500, 2000}

\* Less and more than what the artifacts below need.
SomeBlocks == {Gibi, 16 * Gibi}

Quantity(format, blocks) == [format |-> format, blocks |-> blocks]

\* A binary quantity just above ten units of 10^9 (10Gi rounds to 11 of them),
\* a decimal one that is not a whole number of units, and what is refused.
SomeQuantities == {Quantity("BinarySI", 10 * Gibi), Quantity("DecimalSI", 3 * Giga + 1),
                   Quantity("DecimalExponent", Giga), Quantity("malformed", 0)}

ShortInterval == {10}
=============================================================================
