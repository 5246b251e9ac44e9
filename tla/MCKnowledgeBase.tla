--------------------------- MODULE MCKnowledgeBase ---------------------------
(* Symmetry for the safety runs of KnowledgeBase: coroutines and KB ids are  *)
(* interchangeable, no action or invariant names one.                        *)
EXTENDS KnowledgeBase, TLC

Symmetry == Permutations(Tasks) \cup Permutations(KbIds)
==============================================================================
