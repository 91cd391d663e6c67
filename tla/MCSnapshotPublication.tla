----------------------- MODULE MCSnapshotPublication -----------------------
(* Two publishers of two builds and two installers. *)
EXTENDS SnapshotPublication, TLC

MCSymmetry == Permutations(Publisher) \union Permutations(Installer)
=============================================================================
