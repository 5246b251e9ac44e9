----------------------------- MODULE Attachments ------------------------------
(***************************************************************************)
(* The temporary attachments of chats: a row, which goes with its chat,    *)
(* and bytes in the directory of the project the chat was in when they     *)
(* were added.  A chat may be moved to another project, or detached, and   *)
(* its attachments stay where they are.  Everything wants one file name.   *)
(***************************************************************************)
EXTENDS Naturals

CONSTANTS
  Calls,      \* coroutines
  Projects, Chats,
  Detached,   \* the home of a chat without a project
  None,
  MaxAdds     \* bound: attachments ever added

VARIABLES
  home,     \* per chat: its project, Detached, or None when the chat is deleted
  gone,     \* the projects whose rows are deleted
  rows,     \* per attachment: its path, or None
  disk,     \* the paths with bytes
  adds,     \* attachments begun so far
  call,     \* per coroutine: the step it is at and what it has read
  strayed,  \* history: the chats moved, or deleted while one was adding to them
  twice     \* history: the paths that two deletions of one attachment read

vars == <<home, gone, rows, disk, adds, call, strayed, twice>>

Atts == 1..MaxAdds

\* dir is a project or Detached; name is 0, or an attachment for a name made unique.
Paths == [dir : Projects \cup {Detached}, chat : Chats, name : 0..MaxAdds]

\* What an instance assumes of the constants.
Bounds ==
  /\ Detached \notin Projects /\ None \notin Projects \cup {Detached} \cup Paths
  /\ Chats # {} /\ MaxAdds \in Nat

Idle == [pc |-> "idle", att |-> 0, path |-> None]
Steps == {"idle", "copy", "insert", "check", "unlink", "drop", "dropChat", "removeDir", "removeTree"}

TypeOK ==
  /\ home \in [Chats -> Projects \cup {Detached, None}]
  /\ gone \subseteq Projects
  /\ rows \in [Atts -> Paths \cup {None}]
  /\ disk \subseteq Paths
  /\ adds \in 0..MaxAdds
  /\ call \in [Calls -> [pc : Steps, att : 0..MaxAdds, path : Paths \cup {None}]]
  /\ strayed \subseteq Chats /\ twice \subseteq Paths

Init ==
  /\ home \in [Chats -> Projects]
  /\ gone = {} /\ disk = {} /\ strayed = {} /\ twice = {}
  /\ rows = [a \in Atts |-> None]
  /\ adds = 0
  /\ call = [t \in Calls |-> Idle]

At(t, pc) == call[t].pc = pc
Goto(t, pc) == call' = [call EXCEPT ![t].pc = pc]
Return(t) == call' = [call EXCEPT ![t] = Idle]
Plain(dir, c) == [dir |-> dir, chat |-> c, name |-> 0]

\* Chats are deleted, and their attachments' rows with them.
DropChats(C) ==
  /\ home' = [c \in Chats |-> IF c \in C THEN None ELSE home[c]]
  /\ rows' = [a \in Atts |-> IF rows[a] # None /\ rows[a].chat \in C THEN None ELSE rows[a]]
  /\ strayed' = strayed \cup {c \in C : \E t \in Calls : call[t].pc \in {"copy", "insert"} /\ call[t].path.chat = c}

-----------------------------------------------------------------------------
(* add_temp_attachment *)

AddBegin(t, c) ==
  /\ At(t, "idle") /\ home[c] # None /\ adds < MaxAdds
  /\ adds' = adds + 1
  /\ call' = [call EXCEPT ![t] = [pc |-> "copy", att |-> adds', path |-> Plain(home[c], c)]]
  /\ UNCHANGED <<home, gone, rows, disk, strayed, twice>>

\* Mutant of AddCopy: an existing file of the name is overwritten.
AddCopyOver(t) ==
  /\ At(t, "copy")
  /\ disk' = disk \cup {call[t].path}
  /\ Goto(t, "insert")
  /\ UNCHANGED <<home, gone, rows, adds, strayed, twice>>

\* The directory is made again if it is not there, the name is made unique if it is taken.
AddCopy(t) ==
  /\ At(t, "copy")
  /\ LET path == [call[t].path EXCEPT !.name = IF call[t].path \in disk THEN call[t].att ELSE 0] IN
       /\ disk' = disk \cup {path}
       /\ call' = [call EXCEPT ![t] = [@ EXCEPT !.pc = "insert", !.path = path]]
  /\ UNCHANGED <<home, gone, rows, adds, strayed, twice>>

\* The foreign key refuses a row of a chat that is gone.
AddInsert(t) ==
  /\ At(t, "insert")
  /\ rows' = IF home[call[t].path.chat] = None THEN rows ELSE [rows EXCEPT ![call[t].att] = call[t].path]
  /\ Return(t)
  /\ UNCHANGED <<home, gone, disk, adds, strayed, twice>>

-----------------------------------------------------------------------------
(* delete_temp_attachment *)

DeleteRead(t, a) ==
  /\ At(t, "idle") /\ rows[a] # None
  /\ call' = [call EXCEPT ![t] = [pc |-> "check", att |-> a, path |-> rows[a]]]
  /\ twice' = IF \E u \in Calls : ~At(u, "idle") /\ call[u].att = a THEN twice \cup {rows[a]} ELSE twice
  /\ UNCHANGED <<home, gone, rows, disk, adds, strayed>>

DeleteCheck(t) ==
  /\ At(t, "check")
  /\ IF home[call[t].path.chat] = None THEN Return(t) ELSE Goto(t, "unlink")
  /\ UNCHANGED <<home, gone, rows, disk, adds, strayed, twice>>

DeleteUnlink(t) ==
  /\ At(t, "unlink")
  /\ disk' = disk \ {call[t].path}
  /\ Goto(t, "drop")
  /\ UNCHANGED <<home, gone, rows, adds, strayed, twice>>

DeleteDrop(t) ==
  /\ At(t, "drop")
  /\ rows' = [rows EXCEPT ![call[t].att] = None]
  /\ Return(t)
  /\ UNCHANGED <<home, gone, disk, adds, strayed, twice>>

-----------------------------------------------------------------------------
(* Chats and projects *)

\* move_chat and detach_chat: what they check first only refuses, the update decides.
MoveChat(c, p) ==
  /\ home[c] # None /\ p \in (Projects \ gone) \cup {Detached}
  /\ home' = [home EXCEPT ![c] = p]
  /\ strayed' = strayed \cup {c}
  /\ UNCHANGED <<gone, rows, disk, adds, call, twice>>

DeleteChatRead(t, c) ==
  /\ At(t, "idle") /\ home[c] # None
  /\ call' = [call EXCEPT ![t] = [pc |-> "dropChat", att |-> 0, path |-> Plain(home[c], c)]]
  /\ UNCHANGED <<home, gone, rows, disk, adds, strayed, twice>>

DeleteChatRow(t) ==
  /\ At(t, "dropChat")
  /\ LET c == call[t].path.chat IN
       /\ DropChats({c})
       /\ IF home[c] # None /\ call[t].path.dir # Detached THEN Goto(t, "removeDir") ELSE Return(t)
  /\ UNCHANGED <<gone, disk, adds, twice>>

\* The chat's directory under the project it was read in.
RemoveDir(t) ==
  /\ At(t, "removeDir")
  /\ disk' = {p \in disk : ~(p.dir = call[t].path.dir /\ p.chat = call[t].path.chat)}
  /\ Return(t)
  /\ UNCHANGED <<home, gone, rows, adds, strayed, twice>>

\* The row of a project is deleted, its chats with it, and then its directory.
DeleteProjectRow(t, p) ==
  /\ At(t, "idle") /\ p \notin gone
  /\ gone' = gone \cup {p}
  /\ DropChats({c \in Chats : home[c] = p})
  /\ call' = [call EXCEPT ![t] = [pc |-> "removeTree", att |-> 0, path |-> Plain(p, CHOOSE c \in Chats : TRUE)]]
  /\ UNCHANGED <<disk, adds, twice>>

RemoveTree(t) ==
  /\ At(t, "removeTree")
  /\ disk' = {p \in disk : p.dir # call[t].path.dir}
  /\ Return(t)
  /\ UNCHANGED <<home, gone, rows, adds, strayed, twice>>

Next ==
  \/ \E t \in Calls :
       \/ \E c \in Chats : AddBegin(t, c) \/ DeleteChatRead(t, c)
       \/ \E a \in Atts : DeleteRead(t, a)
       \/ \E p \in Projects : DeleteProjectRow(t, p)
       \/ AddCopy(t) \/ AddInsert(t)
       \/ DeleteCheck(t) \/ DeleteUnlink(t) \/ DeleteDrop(t)
       \/ DeleteChatRow(t) \/ RemoveDir(t) \/ RemoveTree(t)
  \/ \E c \in Chats, p \in Projects \cup {Detached} : MoveChat(c, p)

Spec == Init /\ [][Next]_vars

-----------------------------------------------------------------------------
(* Properties *)

Going(path) == \E t \in Calls : call[t].path = path
BeingRemoved(path) == \E t \in Calls :
  /\ call[t].pc \in {"removeDir", "removeTree"} /\ call[t].path.dir = path.dir
  /\ call[t].pc = "removeDir" => call[t].path.chat = path.chat

\* What a chat's row names is there, also after moves, as long as the project that
\* keeps the bytes is, unless two deletions of one attachment met on that path.
AttachmentKept == \A a \in Atts : rows[a] # None =>
  rows[a] \in disk \/ Going(rows[a]) \/ rows[a] \in twice \/ rows[a].dir \in gone

\* No bytes stay behind without a row, except those of chats that were moved, or deleted
\* while one was adding to them.
NothingLeft == \A path \in disk :
  (\E a \in Atts : rows[a] = path) \/ Going(path) \/ BeingRemoved(path) \/ path.chat \in strayed

\* Rows and bytes of attachments match, whatever moves and deletions overlap.
RowsMatchBytes == AttachmentKept /\ NothingLeft
==============================================================================
