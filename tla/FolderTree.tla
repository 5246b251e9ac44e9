------------------------------ MODULE FolderTree ------------------------------
(***************************************************************************)
(* The folders of the knowledge bases: ProjectStore.create_folder,         *)
(* update_folder and delete_folder, called in worker threads.  The store's *)
(* lock is held for one transaction at a time, so that the checks of       *)
(* _validate_folder_parent and the write that relies on them are separate  *)
(* steps.  Names and sort_order are left out.                              *)
(***************************************************************************)
EXTENDS FiniteSets

CONSTANTS
  Tasks,    \* worker threads that may run at the same time
  Projects,
  Folders,  \* ids of knowledge_folders rows, each used at most once
  NoFolder  \* parent_id is NULL

ASSUME NoFolderAssumption == NoFolder \notin Folders

VARIABLES
  rows,     \* folders that have a row
  used,     \* ids handed out
  projOf,   \* the project of each folder, fixed when it is created
  parent,   \* the parent_id column
  call,     \* per thread: next step, the folder it works on, the parent it wants
  raced     \* a move was written between another's walk and its write

vars == <<rows, used, projOf, parent, call, raced>>

Calls == [pc: {"idle", "insert", "walk", "update"}, folder: Folders \cup {NoFolder},
          target: Folders \cup {NoFolder}]
Idle == [pc |-> "idle", folder |-> NoFolder, target |-> NoFolder]

TypeOK ==
  /\ rows \subseteq Folders
  /\ used \subseteq Folders
  /\ rows \subseteq used
  /\ projOf \in [Folders -> Projects]
  /\ parent \in [Folders -> Folders \cup {NoFolder}]
  /\ call \in [Tasks -> Calls]
  /\ raced \in BOOLEAN

Init ==
  /\ rows = {}
  /\ used = {}
  /\ projOf \in [Folders -> Projects]
  /\ parent = [f \in Folders |-> NoFolder]
  /\ call = [t \in Tasks |-> Idle]
  /\ raced = FALSE

-----------------------------------------------------------------------------
(* Helpers *)

At(t, step) == call[t].pc = step
Folder(t) == call[t].folder
Target(t) == call[t].target
Goto(t, step) == call' = [call EXCEPT ![t].pc = step]
End(t) == call' = [call EXCEPT ![t] = Idle]

Start(t, f, q, step) ==
  /\ call[t] = Idle
  /\ call' = [call EXCEPT ![t] = [pc |-> step, folder |-> f, target |-> q]]

\* A set of folders that contains the parent of each of its members.
Upward(S) == \A f \in S : parent[f] # NoFolder => parent[f] \in S

\* Folder f is met on the walk up from q.
OnChain(f, q) == \A S \in SUBSET Folders : q \in S /\ Upward(S) => f \in S

\* The walk up from q ends at a root, not in a cycle.
ReachesRoot(q) == \E g \in Folders : OnChain(g, q) /\ parent[g] = NoFolder

\* Mutant of ParentAllowed: a parent in any project.
ParentExists(f, q) == q \in rows

\* The first part of _validate_folder_parent.
ParentAllowed(f, q) == q \in rows /\ projOf[q] = projOf[f]

-----------------------------------------------------------------------------
(* create_folder *)

\* At the root, or under a parent that was checked; a new folder is nobody's
\* ancestor, so there is no walk.
CreateBegin(t, f, q) ==
  /\ f \notin used
  /\ q = NoFolder \/ ParentAllowed(f, q)
  /\ used' = used \cup {f}
  /\ Start(t, f, q, "insert")
  /\ UNCHANGED <<rows, projOf, parent, raced>>

\* The foreign key rejects a parent that is gone by now.
CreateInsert(t) ==
  /\ At(t, "insert")
  /\ IF Target(t) \in rows \cup {NoFolder}
       THEN /\ rows' = rows \cup {Folder(t)}
            /\ parent' = [parent EXCEPT ![Folder(t)] = Target(t)]
       ELSE UNCHANGED <<rows, parent>>
  /\ End(t)
  /\ UNCHANGED <<used, projOf, raced>>

-----------------------------------------------------------------------------
(* update_folder with a parent_id; a parent_id of None is dropped and moves *)
(* nothing                                                                  *)

MoveBegin(t, f, q) ==
  /\ f \in rows
  /\ ParentAllowed(f, q)
  /\ Start(t, f, q, "walk")
  /\ UNCHANGED <<rows, used, projOf, parent, raced>>

\* Mutant of MoveWalk: only an older cycle is noticed.
MoveWalkVisited(t) ==
  /\ At(t, "walk")
  /\ IF ReachesRoot(Target(t)) THEN Goto(t, "update") ELSE End(t)
  /\ UNCHANGED <<rows, used, projOf, parent, raced>>

\* The walk up from the new parent, in one transaction: FolderError if it meets
\* the folder itself, or a folder it has visited.
MoveWalk(t) ==
  /\ At(t, "walk")
  /\ IF ~OnChain(Folder(t), Target(t)) /\ ReachesRoot(Target(t))
       THEN Goto(t, "update") ELSE End(t)
  /\ UNCHANGED <<rows, used, projOf, parent, raced>>

\* Nothing happens to a folder that is gone; the foreign key rejects a parent
\* that is.
MoveUpdate(t) ==
  /\ At(t, "update")
  /\ parent' = IF Folder(t) \in rows /\ Target(t) \in rows
                 THEN [parent EXCEPT ![Folder(t)] = Target(t)] ELSE parent
  /\ raced' = (raced \/ \E u \in Tasks \ {t} : At(u, "update"))
  /\ End(t)
  /\ UNCHANGED <<rows, used, projOf>>

-----------------------------------------------------------------------------

\* ON DELETE SET NULL: the folders below become roots.
Delete(t, f) ==
  /\ call[t] = Idle
  /\ f \in rows
  /\ rows' = rows \ {f}
  /\ parent' = [g \in Folders |-> IF f \in {g, parent[g]} THEN NoFolder ELSE parent[g]]
  /\ UNCHANGED <<used, projOf, call, raced>>

Next ==
  \E t \in Tasks :
    \/ \E f \in Folders, q \in Folders \cup {NoFolder} : CreateBegin(t, f, q)
    \/ \E f, q \in Folders : MoveBegin(t, f, q)
    \/ CreateInsert(t) \/ MoveWalk(t) \/ MoveUpdate(t)
    \/ \E f \in Folders : Delete(t, f)

Spec == Init /\ [][Next]_vars

-----------------------------------------------------------------------------
(* Properties *)

\* A folder's parent exists and belongs to the folder's project, whatever calls
\* overlap.
ParentInProject ==
  \A f \in rows : parent[f] # NoFolder => parent[f] \in rows /\ projOf[parent[f]] = projOf[f]

\* README: "folder moves reject cycles": every set of folders has a member whose
\* parent is outside it.
Acyclic == \A S \in SUBSET Folders : S # {} => \E f \in S : parent[f] \notin S

\* The walk and the write are two transactions, and yet creations, deletions and
\* any number of moves make no cycle until one move is written between the walk
\* and the write of another.
ForestUnlessRaced == raced \/ Acyclic

\* Until then, a move about to be written still has its folder off the chain
\* above its new parent, whatever was created or deleted since its walk.
WalkHolds == raced \/ \A t \in Tasks : At(t, "update") => ~OnChain(Folder(t), Target(t))

-----------------------------------------------------------------------------
(* The inductive invariants behind them *)

\* A folder without a row has no parent and is no parent.
RowsOnly == \A f \in Folders : f \notin rows => parent[f] = NoFolder

\* What a call in progress has found out, and nothing makes untrue.
CallChecked ==
  \A t \in Tasks :
    /\ call[t] = Idle \/ Folder(t) \in used
    /\ Target(t) \in used \cup {NoFolder}
    /\ At(t, "insert") => Folder(t) \notin rows /\ \A u \in Tasks : Folder(t) # Target(u)
    /\ At(t, "insert") /\ Target(t) # NoFolder => projOf[Target(t)] = projOf[Folder(t)]
    /\ call[t].pc \in {"walk", "update"} =>
         Target(t) \in Folders /\ projOf[Target(t)] = projOf[Folder(t)]
    /\ \A u \in Tasks \ {t} : At(t, "insert") => Folder(t) # Folder(u)

IInv == TypeOK /\ ParentInProject /\ RowsOnly /\ CallChecked
===============================================================================
