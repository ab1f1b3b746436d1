------------------------------ MODULE MCCatalog ------------------------------
(* Catalog on small instances, in the settings of each run.                 *)
EXTENDS Catalog, TLC

Symmetry == Permutations(Proc) \cup Permutations(Inode)

With(exclusive, faults) == [exclusive |-> exclusive, faults |-> faults]

MCSettings == {With(TRUE, {"kill"}), With(TRUE, {"kill", "io"}),
               With(TRUE, {"kill", "io", "stat"}), With(TRUE, {"kill", "io", "power"}),
               With(FALSE, {})}
MCRaceKill == {With(FALSE, {"kill"})}

=============================================================================
