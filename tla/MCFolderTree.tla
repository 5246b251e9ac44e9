----------------------------- MODULE MCFolderTree -----------------------------
(* Symmetry for the runs of FolderTree.                                       *)
EXTENDS FolderTree, TLC

Symmetry == Permutations(Tasks) \cup Permutations(Projects) \cup Permutations(Folders)
===============================================================================
