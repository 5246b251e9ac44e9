----------------------------- MODULE AgentBinding -----------------------------
(***************************************************************************)
(* AgentBinder's set_binding and remove_binding on the bindings of one     *)
(* chat and of its project, with the lookups of get_binding.  The table    *)
(* has no unique key, and each of a call's reads and writes is a           *)
(* transaction of its own.  merge_mode is a second field set like agent.   *)
(***************************************************************************)
EXTENDS Naturals

CONSTANTS
  Calls,    \* calls that may overlap
  Agents,
  NoAgent,  \* agent_id None
  MaxRows   \* bound: rowids

VARIABLES
  rows,      \* chat_agent_bindings: the scope and agent of each row, by rowid
  chatRow,   \* the chat exists
  call,      \* per call: its step, what was asked, the row it found, its answer,
             \* and that no other call on its scope overlapped it
  contested  \* scopes on which two set_binding calls overlapped once

vars == <<rows, chatRow, call, contested>>

Scopes == {"chat", "project"}
Ids == 1..MaxRows
NoId == 0
Idle == [pc |-> "idle", kind |-> "set", scope |-> "project", agent |-> NoAgent, row |-> NoId,
         told |-> NoAgent, alone |-> TRUE]

TypeOK ==
  /\ DOMAIN rows \subseteq Ids
  /\ \A r \in DOMAIN rows : rows[r] \in [scope: Scopes, agent: Agents \cup {NoAgent}]
  /\ chatRow \in BOOLEAN
  /\ call \in [Calls -> [
       pc: {"idle", "find", "update", "create", "delete", "getChat", "getProject",
            "done"},
       kind: {"set", "remove"}, scope: Scopes, agent: Agents \cup {NoAgent},
       row: Ids \cup {NoId}, told: Agents \cup {NoAgent}, alone: BOOLEAN]]
  /\ contested \subseteq Scopes

Init ==
  /\ rows = [r \in {} |-> {}] /\ chatRow = TRUE
  /\ call = [c \in Calls |-> Idle]
  /\ contested = {}

-----------------------------------------------------------------------------

At(c, step) == call[c].pc = step
Ended(c) == call[c].pc \in {"idle", "done"}
Goto(c, step) == call' = [call EXCEPT ![c].pc = step]
Answer(c, agent) ==
  call' = [call EXCEPT ![c] = IF ~@.alone THEN Idle
                              ELSE [@ EXCEPT !.pc = "done", !.told = agent, !.row = NoId]]

OfScope(scope) == {r \in DOMAIN rows : rows[r].scope = scope}
FirstOf(ids) == {r \in ids : \A s \in ids : r <= s}

\* Mutant of Lookup: by project alone.
LookupAny(scope) == FirstOf(DOMAIN rows)

\* The row SELECT ... WHERE chat_id=?, or project_id=? AND chat_id IS NULL, returns, if any.
Lookup(scope) == FirstOf(OfScope(scope))

\* An agent that Agent Studio does not return, for whatever reason, is refused before
\* anything is read.  The answers of earlier calls on the scope are of no interest now.
Begin(c, kind, scope, agent) ==
  /\ Ended(c)
  /\ LET same == {d \in Calls \ {c} : call[d].scope = scope}
         running == {d \in same : ~Ended(d)}
         asked == [Idle EXCEPT !.pc = "find", !.kind = kind, !.scope = scope, !.agent = agent,
                              !.alone = running = {}] IN
       /\ call' = [d \in Calls |-> CASE d = c -> asked
                                     [] d \in running -> [call[d] EXCEPT !.alone = FALSE]
                                     [] d \in same \ running -> Idle
                                     [] OTHER -> call[d]]
       /\ contested' = IF kind = "set" /\ \E d \in running : call[d].kind = "set"
                         THEN contested \cup {scope} ELSE contested
  /\ UNCHANGED <<rows, chatRow>>

Find(c) ==
  /\ At(c, "find")
  /\ LET found == Lookup(call[c].scope)
         next == IF call[c].kind = "remove" THEN "delete"
                 ELSE IF call[c].agent = NoAgent THEN "getChat" ELSE "update" IN
       \/ found = {} /\ call[c].kind = "set" /\ Goto(c, "create")
       \/ found = {} /\ call[c].kind = "remove" /\ Answer(c, NoAgent)
       \/ \E r \in found : call' = [call EXCEPT ![c].pc = next, ![c].row = IF next = "getChat" THEN NoId ELSE r]
  /\ UNCHANGED <<rows, chatRow, contested>>

\* Nothing happens when the row is gone.
Update(c) ==
  /\ At(c, "update")
  /\ rows' = [r \in DOMAIN rows |->
                IF r = call[c].row THEN [rows[r] EXCEPT !.agent = call[c].agent] ELSE rows[r]]
  /\ call' = [call EXCEPT ![c].pc = "getChat", ![c].row = NoId]
  /\ UNCHANGED <<chatRow, contested>>

\* A rowid is above those in the table.  One that a call still holds is not taken again:
\* the id a row is updated and deleted by is never used twice.
Free == {id \in Ids : (\A r \in DOMAIN rows : r < id) /\ \A d \in Calls : call[d].row # id}

\* A row for a chat that was deleted violates its foreign key.
Create(c) ==
  /\ At(c, "create")
  /\ IF call[c].scope = "chat" /\ ~chatRow
       THEN call' = [call EXCEPT ![c] = Idle] /\ UNCHANGED rows
       ELSE /\ \E id \in FirstOf(Free) :
                 rows' = [r \in DOMAIN rows \cup {id} |->
                            IF r = id THEN [scope |-> call[c].scope, agent |-> call[c].agent] ELSE rows[r]]
            /\ Goto(c, "getChat")
  /\ UNCHANGED <<chatRow, contested>>

\* get_binding: the row of the chat, else of the project, else the project's default.
GetChat(c) ==
  /\ At(c, "getChat")
  /\ IF call[c].scope = "chat" /\ Lookup("chat") # {}
       THEN \E r \in Lookup("chat") : Answer(c, rows[r].agent)
       ELSE Goto(c, "getProject")
  /\ UNCHANGED <<rows, chatRow, contested>>

GetProject(c) ==
  /\ At(c, "getProject")
  /\ \/ Lookup("project") = {} /\ Answer(c, NoAgent)
     \/ \E r \in Lookup("project") : Answer(c, rows[r].agent)
  /\ UNCHANGED <<rows, chatRow, contested>>

Delete(c) ==
  /\ At(c, "delete")
  /\ rows' = [r \in DOMAIN rows \ {call[c].row} |-> rows[r]]
  /\ Answer(c, NoAgent)
  /\ UNCHANGED <<chatRow, contested>>

\* The bindings of a chat are deleted with it.
DeleteChat ==
  /\ chatRow
  /\ chatRow' = FALSE
  /\ rows' = [r \in OfScope("project") |-> rows[r]]
  /\ call' = [c \in Calls |-> IF call[c].scope = "project" THEN call[c]
                              ELSE IF Ended(c) THEN Idle ELSE [call[c] EXCEPT !.alone = FALSE]]
  /\ UNCHANGED contested

Next ==
  \/ \E c \in Calls :
       \/ \E scope \in Scopes :
            \/ \E agent \in Agents \cup {NoAgent} : Begin(c, "set", scope, agent)
            \/ Begin(c, "remove", scope, NoAgent)
       \/ Find(c) \/ Update(c) \/ Create(c) \/ GetChat(c) \/ GetProject(c) \/ Delete(c)
  \/ DeleteChat

-----------------------------------------------------------------------------

\* Whatever calls on the other scope run meanwhile, a set_binding that no call on its
\* scope overlapped answers with the agent it was asked for; after such a
\* remove_binding no row of its scope is left, unless two set_binding calls that each
\* found none have created two (the removal deletes one of them).
AskedIsDone ==
  \A c \in Calls :
    /\ At(c, "done") /\ call[c].kind = "set" /\ call[c].agent # NoAgent => call[c].told = call[c].agent
    /\ At(c, "done") /\ call[c].kind = "remove" /\ call[c].scope \notin contested =>
         OfScope(call[c].scope) = {}
==============================================================================
