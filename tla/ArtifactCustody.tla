--------------------------- MODULE ArtifactCustody ---------------------------
(***************************************************************************)
(* What the rest of the service may assume of an artifact: where it is,    *)
(* told from the engine's flag and the service's reference together, and   *)
(* the only ways it goes from there.  A fault, or calls that contend for   *)
(* the artifact, lose sight of it for good.                                *)
(***************************************************************************)
CONSTANTS Artifacts, Projects, NoProject

VARIABLES
  stage,   \* of each artifact: "moving" is flagged and not yet referred to,
           \* "leaving" referred to and no longer flagged, "left" flagged by a former project
  holder,  \* the project that refers to it
  closing  \* projects whose references a deletion has listed

custody == <<stage, holder, closing>>

Init ==
  /\ stage = [a \in Artifacts |-> "out"]
  /\ holder = [a \in Artifacts |-> NoProject]
  /\ closing = {}

-----------------------------------------------------------------------------

\* The flag is set before the reference is written, and taken back without one.
Move(a) ==
  /\ stage[a] \in {"out", "left"}
  /\ stage' = [stage EXCEPT ![a] = "moving"]
  /\ UNCHANGED <<holder, closing>>

MoveBack(a) ==
  /\ stage[a] \in {"moving", "left"}
  /\ stage' = [stage EXCEPT ![a] = "out"]
  /\ UNCHANGED <<holder, closing>>

Keep(a, p) ==
  /\ stage[a] = "moving"
  /\ stage' = [stage EXCEPT ![a] = "kept"]
  /\ holder' = [holder EXCEPT ![a] = p]
  /\ UNCHANGED closing

\* remove_artifact leaves the flag as it is.
Remove(a) ==
  /\ stage[a] \in {"kept", "leaving"}
  /\ stage' = [stage EXCEPT ![a] = IF stage[a] = "kept" THEN "left" ELSE "out"]
  /\ holder' = [holder EXCEPT ![a] = NoProject]
  /\ UNCHANGED closing

\* A flag is taken from under a reference only by the deletion of the project.
Clear(a) ==
  /\ stage[a] = "kept" /\ holder[a] \in closing
  /\ stage' = [stage EXCEPT ![a] = "leaving"]
  /\ UNCHANGED <<holder, closing>>

\* The deletion drops the references once it has cleared them all.
EndProject(p) ==
  /\ p \in closing
  /\ \A a \in Artifacts : holder[a] = p => stage[a] = "leaving"
  /\ stage' = [a \in Artifacts |-> IF holder[a] = p THEN "out" ELSE stage[a]]
  /\ holder' = [a \in Artifacts |-> IF holder[a] = p THEN NoProject ELSE holder[a]]
  /\ closing' \in {closing, closing \ {p}}

Lose(as) ==
  /\ stage' = [a \in Artifacts |-> IF a \in as THEN "unknown" ELSE stage[a]]
  /\ holder' = [a \in Artifacts |-> IF a \in as THEN NoProject ELSE holder[a]]

\* A crash ends every call; whatever was on its way is lost sight of.
Abort(as) ==
  /\ \A a \in Artifacts : stage[a] \in {"moving", "leaving"} => a \in as
  /\ Lose(as)
  /\ closing' = {}

Next ==
  \/ \E as \in SUBSET Artifacts :
       \/ Lose(as) /\ UNCHANGED closing
       \/ Abort(as)
       \/ \E p \in Projects : Lose(as) /\ closing' = closing \cup {p}
  \/ \E a \in Artifacts :
       Move(a) \/ MoveBack(a) \/ Remove(a) \/ Clear(a) \/ \E p \in Projects : Keep(a, p)
  \/ \E p \in Projects : EndProject(p)

Spec == Init /\ [][Next]_custody
==============================================================================
