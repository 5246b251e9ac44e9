----------------------------- MODULE IndexedFile ------------------------------
(***************************************************************************)
(* What a user may assume of the files of a project: a file that is shown  *)
(* as indexed is found by what it contains, only Publish shows it, and a   *)
(* deleted file stays deleted.  A crash, a lost answer or calls that       *)
(* contend for a file lose sight of it until it is deleted.                *)
(***************************************************************************)
CONSTANTS Files, Contents, Missing

VARIABLES
  phase,    \* of each file: "new", "hidden", "shown", "gone", or "lost"
  content,  \* the bytes a row stands for
  found     \* the content by which a query finds the file

files == <<phase, content, found>>

Init ==
  /\ phase = [f \in Files |-> "new"]
  /\ content = [f \in Files |-> Missing]
  /\ found = [f \in Files |-> Missing]

-----------------------------------------------------------------------------

Create(f) ==
  /\ phase[f] = "new"
  /\ phase' = [phase EXCEPT ![f] = "hidden"]
  /\ \E c \in Contents : content' = [content EXCEPT ![f] = c]
  /\ UNCHANGED found

Refuse(f) ==
  /\ phase[f] = "new"
  /\ phase' = [phase EXCEPT ![f] = "gone"]
  /\ UNCHANGED <<content, found>>

\* The bytes change, or are about to: they are not shown as indexed meanwhile.
Edit(f) ==
  /\ phase[f] \in {"hidden", "shown"}
  /\ phase' = [phase EXCEPT ![f] = "hidden"]
  /\ \E c \in Contents \cup {Missing} : content' = [content EXCEPT ![f] = c]
  /\ UNCHANGED found

Unindex(f) ==
  /\ phase[f] \in {"hidden", "shown"}
  /\ phase' = [phase EXCEPT ![f] = "hidden"]
  /\ found' = [found EXCEPT ![f] = Missing]
  /\ UNCHANGED content

Publish(f) ==
  /\ phase[f] = "hidden" /\ content[f] # Missing
  /\ phase' = [phase EXCEPT ![f] = "shown"]
  /\ found' = [found EXCEPT ![f] = content[f]]
  /\ UNCHANGED content

Delete(f) ==
  /\ phase[f] \in {"hidden", "lost"}
  /\ phase' = [phase EXCEPT ![f] = "gone"]
  /\ content' = [content EXCEPT ![f] = Missing]
  /\ found' = [found EXCEPT ![f] = Missing]

\* An upload that is cut short leaves no row.
Lose(fs, cut) ==
  /\ \A f \in fs : phase[f] # "gone"
  /\ \A f \in cut : phase[f] = "new"
  /\ phase' = [f \in Files |-> IF f \in cut THEN "gone" ELSE IF f \in fs THEN "lost" ELSE phase[f]]
  /\ content' = [f \in Files |-> IF f \in fs THEN Missing ELSE content[f]]
  /\ found' = [f \in Files |-> IF f \in fs THEN Missing ELSE found[f]]

Next ==
  \/ \E f \in Files : Create(f) \/ Refuse(f) \/ Edit(f) \/ Unindex(f) \/ Publish(f) \/ Delete(f)
  \/ \E fs \in SUBSET Files, cut \in SUBSET Files : Lose(fs, cut)

Spec == Init /\ [][Next]_files

\* What is shown is found by what it contains.
ShownIsFound == \A f \in Files : phase[f] = "shown" => found[f] = content[f] /\ content[f] # Missing
==============================================================================
