------------------------------ MODULE ChatFlow --------------------------------
(***************************************************************************)
(* Where messages may get to: a chat shows what was said in it, and what   *)
(* the fork that made it copied from its source, and nothing else comes    *)
(* into it by snapshots, restores, exchanges or deletions.  What it holds  *)
(* besides, in snapshots and calls, may only come back to itself.          *)
(***************************************************************************)
CONSTANTS Chats, Messages

VARIABLES
  phase,   \* of each chat: "unused", "promised" to a fork, "open" or "gone"
  shows,   \* the messages that are listed
  holds,   \* those, and what its snapshots and calls know
  sources  \* the chats a fork copies from, while it does

flow == <<phase, shows, holds, sources>>

Init ==
  /\ phase = [c \in Chats |-> "unused"]
  /\ shows = [c \in Chats |-> {}]
  /\ holds = [c \in Chats |-> {}]
  /\ sources = [c \in Chats |-> {}]

-----------------------------------------------------------------------------

\* Chat c goes from one phase to another.
Becomes(c, from, to) == phase[c] = from /\ phase' = [phase EXCEPT ![c] = to]

\* Chat c comes to know nothing but ms.
Learns(c, ms) ==
  holds'[c] \subseteq holds[c] \cup ms /\ holds' = [holds EXCEPT ![c] = holds'[c]]

Open(c) == Becomes(c, "unused", "open") /\ UNCHANGED <<shows, holds, sources>>

\* A message is said once: nobody knew it before.
Say(c, m) ==
  /\ phase[c] = "open" /\ \A d \in Chats : m \notin holds[d]
  /\ shows' = [shows EXCEPT ![c] = @ \cup {m}]
  /\ Learns(c, {m})
  /\ UNCHANGED <<phase, sources>>

\* Snapshots, calls and messages go, or a snapshot is restored.
Turn(c) ==
  /\ UNCHANGED <<phase, sources>>
  /\ \/ UNCHANGED shows
     \/ phase[c] = "open" /\ shows'[c] \subseteq holds[c] /\ shows' = [shows EXCEPT ![c] = shows'[c]]
  /\ Learns(c, {})

Close(c) ==
  /\ Becomes(c, "open", "gone")
  /\ shows' = [shows EXCEPT ![c] = {}]
  /\ Learns(c, {})
  /\ UNCHANGED sources

Promise(d, c) ==
  /\ Becomes(d, "unused", "promised")
  /\ phase[c] = "open"
  /\ sources' = [sources EXCEPT ![d] = {c}]
  /\ UNCHANGED <<shows, holds>>

Begin(d) == Becomes(d, "promised", "open") /\ UNCHANGED <<shows, holds, sources>>

Copy(d, c) ==
  /\ phase[d] = "open" /\ c \in sources[d]
  /\ UNCHANGED <<phase, sources>>
  /\ \E ms \in SUBSET shows[c] :
       /\ shows' = [shows EXCEPT ![d] = @ \cup ms]
       /\ holds' = [holds EXCEPT ![d] = @ \cup ms]

\* A fork ends, before or after it made the chat; its source forgets what it knew.
EndFork(d, c) ==
  /\ c \in sources[d] /\ sources' = [sources EXCEPT ![d] = {}]
  /\ phase' = phase \/ Becomes(d, "promised", "gone")
  /\ Learns(c, {})
  /\ UNCHANGED shows

Next ==
  \E c \in Chats :
    \/ Open(c) \/ Turn(c) \/ Close(c) \/ Begin(c) \/ \E m \in Messages : Say(c, m)
    \/ \E d \in Chats : Promise(d, c) \/ Copy(d, c) \/ EndFork(d, c)

Spec == Init /\ [][Next]_flow
===============================================================================
