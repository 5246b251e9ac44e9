----------------------------- MODULE MCFileIndex -----------------------------
(* Symmetry for the safety runs of FileIndex.                                *)
EXTENDS FileIndex, TLC

Symmetry == Permutations(Tasks) \cup Permutations(Docs) \cup Permutations(Contents)
              \cup Permutations(Files)
==============================================================================
