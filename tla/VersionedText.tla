---------------------------- MODULE VersionedText ----------------------------
(***************************************************************************)
(* A text that is only overwritten once its content is among the versions  *)
(* kept of it: what README promises of a project's instructions.  Versions *)
(* are kept before the overwrite, and may be dropped by request.           *)
(* InstructionHistory implements this specification for a single client.   *)
(***************************************************************************)
CONSTANTS Texts, Empty

VARIABLES
  current,  \* the text, Empty when there is none
  kept      \* the versions kept

textVars == <<current, kept>>

TextInit == current = Empty /\ kept = {}

Keep ==
  /\ kept' = kept \cup {current}
  /\ UNCHANGED current

Overwrite(x) ==
  /\ current \in kept \cup {Empty}
  /\ current' = x
  /\ UNCHANGED kept

Erase ==
  /\ current' = Empty
  /\ UNCHANGED kept

Forget(x) ==
  /\ kept' = kept \ {x}
  /\ UNCHANGED current

TextNext == Keep \/ Erase \/ \E x \in Texts : Overwrite(x) \/ Forget(x)

TextSpec == TextInit /\ [][TextNext]_textVars
==============================================================================
