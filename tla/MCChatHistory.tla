---------------------------- MODULE MCChatHistory -----------------------------
(* Symmetry for the runs of ChatHistory.                                      *)
EXTENDS ChatHistory, TLC

Symmetry == Permutations(Tasks) \cup Permutations(Chats) \cup Permutations(Snaps)
===============================================================================
