--------------------------- MODULE FolderTreeProofs ---------------------------
(***************************************************************************)
(* Proofs about FolderTree, for every number of threads: parents stay      *)
(* within their project, and the tree has no cycle until a move is written *)
(* between the walk and the write of another.                              *)
(***************************************************************************)
EXTENDS FolderTree, TLAPS

-----------------------------------------------------------------------------
(* Any number of threads *)

LEMMA InitIInv == Init => IInv
<1> SUFFICES ASSUME Init PROVE IInv
  OBVIOUS
<1> USE NoFolderAssumption DEF Init
<1>1. TypeOK
  BY DEF TypeOK, Calls, Idle
<1>2. ParentInProject
  BY DEF ParentInProject
<1>3. RowsOnly
  BY DEF RowsOnly
<1>4. CallChecked
  BY DEF CallChecked, At, Folder, Target, Idle
<1> QED
  BY <1>1, <1>2, <1>3, <1>4 DEF IInv

LEMMA CreateBeginIInv ==
  ASSUME IInv, NEW t \in Tasks, NEW f \in Folders, NEW q \in Folders \cup {NoFolder},
         CreateBegin(t, f, q)
  PROVE  IInv'
<1> USE NoFolderAssumption DEF IInv, CreateBegin, Start
<1>1. TypeOK'
  BY DEF TypeOK, Calls, Idle
<1>2. ParentInProject' /\ RowsOnly'
  BY DEF ParentInProject, RowsOnly
<1>3. CallChecked'
  <2> SUFFICES ASSUME NEW u \in Tasks
               PROVE  /\ call'[u] = Idle \/ Folder(u)' \in used'
                      /\ Target(u)' \in used' \cup {NoFolder}
                      /\ At(u, "insert")' => /\ Folder(u)' \notin rows'
                                             /\ \A v \in Tasks : Folder(u)' # Target(v)'
                      /\ At(u, "insert")' /\ Target(u)' # NoFolder =>
                           projOf'[Target(u)'] = projOf'[Folder(u)']
                      /\ call'[u].pc \in {"walk", "update"} =>
                           Target(u)' \in Folders /\ projOf'[Target(u)'] = projOf'[Folder(u)']
                      /\ \A v \in Tasks \ {u} : At(u, "insert")' => Folder(u)' # Folder(v)'
    BY DEF CallChecked
  <2>0. /\ f \notin rows
        /\ call' = [call EXCEPT ![t] = [pc |-> "insert", folder |-> f, target |-> q]]
        /\ \A v \in Tasks : call[v].folder # f /\ call[v].target # f
        /\ q # f
    BY DEF TypeOK, CallChecked, Folder, Target, Idle, ParentAllowed
  <2>1. CASE u = t
    BY <2>0, <2>1 DEF CallChecked, At, Folder, Target, TypeOK, Calls, Idle, ParentAllowed
  <2>2. CASE u # t
    BY <2>0, <2>2 DEF CallChecked, At, Folder, Target, TypeOK, Calls, Idle, ParentAllowed
  <2> QED
    BY <2>1, <2>2
<1> QED
  BY <1>1, <1>2, <1>3

LEMMA CreateInsertIInv ==
  ASSUME IInv, NEW t \in Tasks, CreateInsert(t)
  PROVE  IInv'
<1> USE NoFolderAssumption DEF IInv, CreateInsert, End, At, Folder, Target
<1>0. call[t] \in Calls /\ call[t].pc = "insert" /\ call[t].folder \in used \ rows
  BY DEF TypeOK, CallChecked, Idle
<1>1. TypeOK'
  BY <1>0 DEF TypeOK, Calls, Idle
<1>2. ParentInProject'
  BY <1>0 DEF ParentInProject, RowsOnly, CallChecked, TypeOK, Calls
<1>3. RowsOnly'
  BY <1>0 DEF RowsOnly, TypeOK, Calls
<1>4. CallChecked'
  BY <1>0 DEF CallChecked, TypeOK, Calls, Idle
<1> QED
  BY <1>1, <1>2, <1>3, <1>4

LEMMA MoveBeginIInv ==
  ASSUME IInv, NEW t \in Tasks, NEW f \in Folders, NEW q \in Folders, MoveBegin(t, f, q)
  PROVE  IInv'
<1> USE NoFolderAssumption DEF IInv, MoveBegin, Start
<1>1. TypeOK'
  BY DEF TypeOK, Calls, Idle
<1>2. ParentInProject' /\ RowsOnly'
  BY DEF ParentInProject, RowsOnly
<1>3. CallChecked'
  BY DEF CallChecked, At, Folder, Target, TypeOK, Calls, Idle, ParentAllowed
<1> QED
  BY <1>1, <1>2, <1>3

LEMMA MoveWalkIInv ==
  ASSUME IInv, NEW t \in Tasks, MoveWalk(t)
  PROVE  IInv'
<1> USE NoFolderAssumption DEF IInv, MoveWalk, Goto, End, At
<1>0. call[t] \in Calls
  BY DEF TypeOK
<1>1. TypeOK'
  BY <1>0 DEF TypeOK, Calls, Idle
<1>2. ParentInProject' /\ RowsOnly'
  BY DEF ParentInProject, RowsOnly
<1>3. CallChecked'
  BY <1>0 DEF CallChecked, Folder, Target, TypeOK, Calls, Idle
<1> QED
  BY <1>1, <1>2, <1>3

LEMMA MoveUpdateIInv ==
  ASSUME IInv, NEW t \in Tasks, MoveUpdate(t)
  PROVE  IInv'
<1> USE NoFolderAssumption DEF IInv, MoveUpdate, End, At, Folder, Target
<1>0. call[t] \in Calls
  BY DEF TypeOK
<1>1. TypeOK'
  BY <1>0 DEF TypeOK, Calls, Idle
<1>2. ParentInProject'
  BY <1>0 DEF ParentInProject, CallChecked, TypeOK, Calls
<1>3. RowsOnly'
  BY <1>0 DEF RowsOnly, TypeOK, Calls
<1>4. CallChecked'
  BY <1>0 DEF CallChecked, TypeOK, Calls, Idle
<1> QED
  BY <1>1, <1>2, <1>3, <1>4

LEMMA DeleteIInv ==
  ASSUME IInv, NEW t \in Tasks, NEW f \in Folders, Delete(t, f)
  PROVE  IInv'
<1> USE NoFolderAssumption DEF IInv, Delete
<1>1. TypeOK'
  BY DEF TypeOK
<1>2. ParentInProject'
  BY DEF ParentInProject, TypeOK
<1>3. RowsOnly'
  BY DEF RowsOnly, TypeOK
<1>4. CallChecked'
  BY DEF CallChecked, At, Folder, Target, TypeOK
<1> QED
  BY <1>1, <1>2, <1>3, <1>4

LEMMA StepIInv == IInv /\ [Next]_vars => IInv'
<1> SUFFICES ASSUME IInv, [Next]_vars PROVE IInv'
  OBVIOUS
<1>1. CASE UNCHANGED vars
  BY <1>1 DEF vars, IInv, TypeOK, ParentInProject, RowsOnly, CallChecked, At, Folder, Target
<1>2. ASSUME NEW t \in Tasks, NEW f \in Folders, NEW q \in Folders \cup {NoFolder},
             CreateBegin(t, f, q)
      PROVE  IInv'
  BY <1>2, CreateBeginIInv
<1>3. ASSUME NEW t \in Tasks, NEW f \in Folders, NEW q \in Folders, MoveBegin(t, f, q)
      PROVE  IInv'
  BY <1>3, MoveBeginIInv
<1>4. ASSUME NEW t \in Tasks, CreateInsert(t) PROVE IInv'
  BY <1>4, CreateInsertIInv
<1>5. ASSUME NEW t \in Tasks, MoveWalk(t) PROVE IInv'
  BY <1>5, MoveWalkIInv
<1>6. ASSUME NEW t \in Tasks, MoveUpdate(t) PROVE IInv'
  BY <1>6, MoveUpdateIInv
<1>7. ASSUME NEW t \in Tasks, NEW f \in Folders, Delete(t, f) PROVE IInv'
  BY <1>7, DeleteIInv
<1> QED
  BY <1>1, <1>2, <1>3, <1>4, <1>5, <1>6, <1>7 DEF Next

\* The inductive invariant holds in every reachable state, whatever threads
\* create, move and delete folders at the same time.
THEOREM FolderInvariant == Spec => []IInv
  BY InitIInv, StepIInv, PTL DEF Spec

\* _validate_folder_parent and the foreign keys keep every folder's parent in
\* the folder's own project, whatever calls overlap.
THEOREM ParentsStayInProject == Spec => []ParentInProject
<1>1. IInv => ParentInProject
  BY DEF IInv
<1> QED
  BY <1>1, FolderInvariant, PTL

-----------------------------------------------------------------------------
(* No cycles until two moves race *)

TreeInv == IInv /\ ForestUnlessRaced /\ WalkHolds

\* A folder that the walk from its new parent did not meet may be moved there.
LEMMA MoveKeepsAcyclic ==
  ASSUME TypeOK, Acyclic, NEW f \in Folders, NEW q \in Folders, ~OnChain(f, q),
         parent' = [parent EXCEPT ![f] = q]
  PROVE  Acyclic'
<1> USE NoFolderAssumption
<1>1. PICK C \in SUBSET Folders : q \in C /\ Upward(C) /\ f \notin C
  BY DEF OnChain
<1> SUFFICES ASSUME NEW S \in SUBSET Folders, S # {}, \A g \in S : parent'[g] \in S
             PROVE  FALSE
  BY DEF Acyclic
<1>2. CASE f \notin S
  <2>1. \A g \in S : parent[g] \in S
    BY <1>2 DEF TypeOK
  <2> QED
    BY <2>1 DEF Acyclic
<1>3. CASE f \in S
  <2> DEFINE D == S \cap C
  <2>1. q \in D
    BY <1>1, <1>3 DEF TypeOK
  <2>2. ASSUME NEW g \in D PROVE parent[g] \in D
    <3>1. g # f
      BY <1>1
    <3>2. parent[g] \in S
      BY <3>1 DEF TypeOK
    <3>3. parent[g] \in C
      BY <1>1, <3>2 DEF Upward
    <3> QED
      BY <3>2, <3>3
  <2> QED
    BY <2>1, <2>2 DEF Acyclic
<1> QED
  BY <1>2, <1>3

\* A folder that is nobody's parent may be put anywhere else.
LEMMA LeafKeepsAcyclic ==
  ASSUME TypeOK, Acyclic, NEW f \in Folders, NEW q \in Folders \cup {NoFolder}, q # f,
         \A g \in Folders : parent[g] # f,
         parent' = [parent EXCEPT ![f] = q]
  PROVE  Acyclic'
<1> USE NoFolderAssumption
<1> SUFFICES ASSUME NEW S \in SUBSET Folders, S # {}, \A g \in S : parent'[g] \in S
             PROVE  FALSE
  BY DEF Acyclic
<1> DEFINE D == S \ {f}
<1>1. \A g \in D : parent[g] \in D
  BY DEF TypeOK
<1>2. D # {}
  <2>1. CASE f \in S
    BY <2>1 DEF TypeOK
  <2>2. CASE f \notin S
    BY <2>2
  <2> QED
    BY <2>1, <2>2
<1> QED
  BY <1>1, <1>2 DEF Acyclic

\* Cutting folders off from their parents makes no cycle.
LEMMA CutKeepsAcyclic ==
  ASSUME Acyclic, NoFolder \notin Folders,
         \A g \in Folders : parent'[g] \in {parent[g], NoFolder}
  PROVE  Acyclic'
<1> SUFFICES ASSUME NEW S \in SUBSET Folders, S # {}, \A g \in S : parent'[g] \in S
             PROVE  FALSE
  BY DEF Acyclic
<1>1. \A g \in S : parent[g] \in S
  OBVIOUS
<1> QED
  BY <1>1 DEF Acyclic

-----------------------------------------------------------------------------
(* One lemma per action *)

LEMMA InitTree == Init => TreeInv
<1> SUFFICES ASSUME Init PROVE TreeInv
  OBVIOUS
<1>1. ForestUnlessRaced
  BY NoFolderAssumption DEF Init, ForestUnlessRaced, Acyclic
<1>2. WalkHolds
  BY DEF Init, WalkHolds, At, Idle
<1> QED
  BY <1>1, <1>2, InitIInv DEF TreeInv

\* What a call about to write its move works on.
LEMMA UpdateOperands ==
  ASSUME IInv, NEW t \in Tasks, At(t, "update")
  PROVE  Folder(t) \in Folders /\ Target(t) \in Folders
BY DEF IInv, TypeOK, CallChecked, At, Folder, Target, Idle

\* The actions that leave the tree as it is, CreateBegin and MoveBegin.
LEMMA BeginTree ==
  ASSUME TreeInv, NEW t \in Tasks, NEW f \in Folders, NEW q \in Folders \cup {NoFolder},
         NEW step \in {"insert", "walk"}, Start(t, f, q, step), UNCHANGED <<parent, raced>>
  PROVE  ForestUnlessRaced' /\ WalkHolds'
<1>1. ForestUnlessRaced'
  BY DEF TreeInv, ForestUnlessRaced, Acyclic
<1>2. \A u \in Tasks : At(u, "update")' => call'[u] = call[u]
  BY DEF TreeInv, IInv, TypeOK, Start, At
<1>3. WalkHolds'
  BY <1>2 DEF TreeInv, WalkHolds, At, Folder, Target, OnChain, Upward
<1> QED
  BY <1>1, <1>3

LEMMA CreateInsertTree ==
  ASSUME TreeInv, NEW t \in Tasks, CreateInsert(t)
  PROVE  ForestUnlessRaced' /\ WalkHolds'
<1> USE NoFolderAssumption
<1>0. IInv /\ TypeOK /\ raced' = raced
  BY DEF TreeInv, IInv, CreateInsert
<1>1. \A u \in Tasks : At(u, "update")' => At(u, "update") /\ call'[u] = call[u]
  BY <1>0 DEF TypeOK, CreateInsert, End, At, Idle
<1>2. CASE parent' = parent
  BY <1>0, <1>1, <1>2 DEF TreeInv, ForestUnlessRaced, Acyclic, WalkHolds, Folder, Target,
     OnChain, Upward
<1>3. CASE /\ Target(t) \in rows \cup {NoFolder}
           /\ parent' = [parent EXCEPT ![Folder(t)] = Target(t)]
  <2>1. /\ Folder(t) \in Folders \ rows
        /\ \A u \in Tasks : Target(u) # Folder(t)
    BY <1>0 DEF CreateInsert, IInv, CallChecked, At, TypeOK, Idle
  <2>2. \A g \in Folders : parent[g] # Folder(t)
    BY <2>1, <1>0 DEF IInv, ParentInProject, RowsOnly, TypeOK
  <2>3. Target(t) \in Folders \cup {NoFolder}
    BY <1>3, <1>0 DEF TypeOK
  <2>4. ForestUnlessRaced'
    BY <1>0, <1>3, <2>1, <2>2, <2>3, LeafKeepsAcyclic DEF TreeInv, ForestUnlessRaced
  <2>5. ASSUME NEW u \in Tasks, At(u, "update")', ~raced
        PROVE  ~OnChain(Folder(u), Target(u))'
    <3>1. ~OnChain(Folder(u), Target(u)) /\ Folder(u) \in Folders /\ Target(u) \in Folders
      BY <1>0, <1>1, <2>5, UpdateOperands DEF TreeInv, WalkHolds
    <3>2. PICK C \in SUBSET Folders : Target(u) \in C /\ Upward(C) /\ Folder(u) \notin C
      BY <3>1 DEF OnChain
    <3>3. PICK leaf \in Folders : leaf = Folder(t)
      BY <2>1
    <3> DEFINE D == C \ {leaf}
    <3>4. \A g \in Folders : g # leaf => parent'[g] = parent[g]
      BY <1>0, <1>3, <3>3 DEF TypeOK
    <3>5. Upward(D)'
      BY <2>2, <3>2, <3>3, <3>4 DEF Upward
    <3>6. Target(u)' \in D /\ Folder(u)' \notin D
      BY <1>1, <2>1, <2>5, <3>2, <3>3 DEF Folder, Target
    <3> QED
      BY <3>5, <3>6 DEF OnChain
  <2> QED
    BY <1>0, <2>4, <2>5 DEF WalkHolds
<1> QED
  BY <1>2, <1>3 DEF CreateInsert

LEMMA MoveWalkTree ==
  ASSUME TreeInv, NEW t \in Tasks, MoveWalk(t)
  PROVE  ForestUnlessRaced' /\ WalkHolds'
<1>1. ForestUnlessRaced'
  BY DEF MoveWalk, TreeInv, ForestUnlessRaced, Acyclic
<1>2. WalkHolds'
  BY DEF MoveWalk, Goto, End, TreeInv, IInv, TypeOK, WalkHolds, At, Folder, Target, Calls, Idle,
     OnChain, Upward
<1> QED
  BY <1>1, <1>2

LEMMA MoveUpdateTree ==
  ASSUME TreeInv, NEW t \in Tasks, MoveUpdate(t)
  PROVE  ForestUnlessRaced' /\ WalkHolds'
<1>0. TypeOK /\ Folder(t) \in Folders /\ Target(t) \in Folders
  BY UpdateOperands DEF TreeInv, IInv, MoveUpdate
<1>1. WalkHolds'
  <2>1. \A u \in Tasks : At(u, "update")' => u # t /\ At(u, "update")
    BY <1>0 DEF MoveUpdate, End, At, TypeOK, Idle
  <2> QED
    BY <2>1 DEF MoveUpdate, WalkHolds
<1>2. ASSUME ~raced PROVE Acyclic'
  <2>1. Acyclic /\ ~OnChain(Folder(t), Target(t))
    BY <1>2 DEF MoveUpdate, TreeInv, ForestUnlessRaced, WalkHolds
  <2>2. CASE parent' = parent
    BY <2>1, <2>2 DEF Acyclic
  <2>3. CASE parent' = [parent EXCEPT ![Folder(t)] = Target(t)]
    BY <2>1, <2>3, <1>0, MoveKeepsAcyclic
  <2> QED
    BY <2>2, <2>3 DEF MoveUpdate
<1> QED
  BY <1>1, <1>2 DEF ForestUnlessRaced, MoveUpdate

LEMMA DeleteTree ==
  ASSUME TreeInv, NEW t \in Tasks, NEW f \in Folders, Delete(t, f)
  PROVE  ForestUnlessRaced' /\ WalkHolds'
<1>1. /\ \A g \in Folders : parent'[g] \in {parent[g], NoFolder}
      /\ UNCHANGED <<call, raced>>
  BY DEF Delete
<1>2. ForestUnlessRaced'
  BY <1>1, NoFolderAssumption, CutKeepsAcyclic DEF TreeInv, ForestUnlessRaced
<1>3. ASSUME NEW u \in Tasks, At(u, "update"), ~raced
      PROVE  ~OnChain(Folder(u), Target(u))'
  <2>1. ~OnChain(Folder(u), Target(u)) /\ Folder(u) \in Folders /\ Target(u) \in Folders
    BY <1>3, UpdateOperands DEF TreeInv, WalkHolds
  <2>2. PICK C \in SUBSET Folders : Target(u) \in C /\ Upward(C) /\ Folder(u) \notin C
    BY <2>1 DEF OnChain
  <2>3. Upward(C)'
    BY <1>1, <2>2 DEF Upward
  <2> QED
    BY <1>1, <2>2, <2>3 DEF OnChain, Folder, Target
<1> QED
  BY <1>1, <1>2, <1>3 DEF WalkHolds, At

LEMMA StepTree == TreeInv /\ [Next]_vars => TreeInv'
<1> SUFFICES ASSUME TreeInv, [Next]_vars PROVE TreeInv'
  OBVIOUS
<1>0. IInv'
  BY StepIInv DEF TreeInv
<1> SUFFICES ForestUnlessRaced' /\ WalkHolds'
  BY <1>0 DEF TreeInv
<1>1. CASE UNCHANGED vars
  BY <1>1 DEF vars, TreeInv, ForestUnlessRaced, Acyclic, WalkHolds, At, Folder, Target, OnChain,
     Upward
<1>2. ASSUME NEW t \in Tasks, NEW f \in Folders, NEW q \in Folders \cup {NoFolder},
             CreateBegin(t, f, q) \/ MoveBegin(t, f, q)
      PROVE  ForestUnlessRaced' /\ WalkHolds'
  BY <1>2, BeginTree DEF CreateBegin, MoveBegin
<1>3. ASSUME NEW t \in Tasks, CreateInsert(t) PROVE ForestUnlessRaced' /\ WalkHolds'
  BY <1>3, CreateInsertTree
<1>4. ASSUME NEW t \in Tasks, MoveWalk(t) PROVE ForestUnlessRaced' /\ WalkHolds'
  BY <1>4, MoveWalkTree
<1>5. ASSUME NEW t \in Tasks, MoveUpdate(t) PROVE ForestUnlessRaced' /\ WalkHolds'
  BY <1>5, MoveUpdateTree
<1>6. ASSUME NEW t \in Tasks, NEW f \in Folders, Delete(t, f)
      PROVE  ForestUnlessRaced' /\ WalkHolds'
  BY <1>6, DeleteTree
<1> QED
  BY <1>1, <1>2, <1>3, <1>4, <1>5, <1>6 DEF Next

\* README: "folder moves reject cycles": with any number of folders and threads
\* they do, until a move is written between another's walk and its write.
THEOREM MovesRejectCycles == Spec => []ForestUnlessRaced
<1>1. TreeInv => ForestUnlessRaced
  BY DEF TreeInv
<1> QED
  BY <1>1, InitTree, StepTree, PTL DEF Spec

\* Creations and deletions between a move's walk and its write leave its check
\* valid.
THEOREM ChecksOutliveOtherCalls == Spec => []WalkHolds
<1>1. TreeInv => WalkHolds
  BY DEF TreeInv
<1> QED
  BY <1>1, InitTree, StepTree, PTL DEF Spec
===============================================================================
