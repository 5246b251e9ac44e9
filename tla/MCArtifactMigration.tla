------------------------- MODULE MCArtifactMigration -------------------------
(* Symmetry for the runs of ArtifactMigration.                               *)
EXTENDS ArtifactMigration, TLC

Symmetry == Permutations(Tasks) \cup Permutations(Projects) \cup Permutations(Artifacts)
==============================================================================
