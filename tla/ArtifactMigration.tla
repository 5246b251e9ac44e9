-------------------------- MODULE ArtifactMigration --------------------------
(***************************************************************************)
(* Projects and the artifacts migrated into them: the saga of              *)
(* ProjectManager.migrate_artifact (move upstream, insert the reference,   *)
(* move back when the insert fails), remove_artifact, archive, unarchive   *)
(* and delete, run by concurrent coroutines.  One action is one stretch of *)
(* code between two awaits.  The artifacts engine appears by what these    *)
(* calls ask of it: it keeps a flag per artifact.                          *)
(***************************************************************************)
EXTENDS Naturals, FiniteSets

CONSTANTS
  Tasks,      \* coroutines that may run at the same time
  Projects,
  Artifacts,
  NoProject,  \* no reference to this artifact / no project
  NoArtifact,
  PageSize,   \* MAX_PAGE_SIZE: the most references one listing returns
  MaxFaults   \* bound: crashes, lost answers, refused upstream calls

ASSUME Distinct == NoProject \notin Projects /\ NoArtifact \notin Artifacts
ASSUME Bounds == PageSize \in Nat \ {0} /\ MaxFaults \in Nat

VARIABLES
  rows,       \* projects that have a row
  archived,   \* rows with is_archived = 1
  ref,        \* project_artifacts: the project each artifact_id refers to
  inKb,       \* artifacts the engine holds in a project's knowledge base
  call,       \* per coroutine: next step, operation, project, artifact, listing
  disturbed,  \* artifacts hit by a fault, by overlapping calls or by a cut or stale listing
  removed,    \* artifacts whose reference remove_artifact dropped
  faults

vars == <<rows, archived, ref, inKb, call, disturbed, removed, faults>>

Steps == {"idle", "check", "move", "insert", "rollback", "unref", "list", "clear"}
Calls == [pc: Steps, op: {"none", "migrate", "remove", "delete"},
          proj: Projects \cup {NoProject}, art: Artifacts \cup {NoArtifact},
          todo: SUBSET Artifacts]
Idle == [pc |-> "idle", op |-> "none", proj |-> NoProject, art |-> NoArtifact, todo |-> {}]

TypeOK ==
  /\ rows \subseteq Projects
  /\ archived \subseteq rows
  /\ ref \in [Artifacts -> Projects \cup {NoProject}]
  /\ inKb \subseteq Artifacts
  /\ call \in [Tasks -> Calls]
  /\ disturbed \subseteq Artifacts
  /\ removed \subseteq Artifacts
  /\ faults \in 0..MaxFaults

Init ==
  /\ rows = Projects
  /\ archived = {}
  /\ ref = [a \in Artifacts |-> NoProject]
  /\ inKb = {}
  /\ call = [t \in Tasks |-> Idle]
  /\ disturbed = {}
  /\ removed = {}
  /\ faults = 0

-----------------------------------------------------------------------------
(* Helpers *)

At(t, step) == call[t].pc = step
Proj(t) == call[t].proj
Art(t) == call[t].art
Goto(t, step) == call' = [call EXCEPT ![t].pc = step]
End(t) == call' = [call EXCEPT ![t] = Idle]
Tracked(a) == ref[a] # NoProject
RefsOf(p) == {a \in Artifacts : ref[a] = p}

Start(t, op, p, a, step) ==
  /\ call[t] = Idle
  /\ call' = [call EXCEPT ![t] = [Idle EXCEPT !.pc = step, !.op = op, !.proj = p, !.art = a]]

\* Whether a call on artifact a meets another one, or a deletion that listed it.
Meets(a) == IF \E u \in Tasks : Art(u) = a \/ a \in call[u].todo THEN {a} ELSE {}

\* The artifact whose reference is written after a deletion listed those of its
\* project, and before the deletion takes them all.
Unlisted(t) ==
  IF \E u \in Tasks : At(u, "clear") /\ Proj(u) = Proj(t) THEN {Art(t)} ELSE {}

\* The references that a deletion lists while another deletion of the same project is
\* already clearing them: the later one goes by a listing that the first makes stale.
Contended(t) ==
  IF \E u \in Tasks \ {t} : At(u, "clear") /\ Proj(u) = Proj(t) THEN RefsOf(Proj(t)) ELSE {}

Fault(as) ==
  /\ faults < MaxFaults
  /\ faults' = faults + 1
  /\ disturbed' = disturbed \cup as

-----------------------------------------------------------------------------
(* migrate_artifact *)

MigrateBegin(t, p, a) ==
  /\ p \in rows
  /\ Start(t, "migrate", p, a, "check")
  /\ disturbed' = disturbed \cup Meets(a)
  /\ UNCHANGED <<rows, archived, ref, inKb, removed, faults>>

\* ArtifactAlreadyMigrated is raised for an artifact that has a reference.
MigrateCheck(t) ==
  /\ At(t, "check")
  /\ IF Tracked(Art(t)) THEN End(t) ELSE Goto(t, "move")
  /\ UNCHANGED <<rows, archived, ref, inKb, disturbed, removed, faults>>

\* Mutant of MigrateMove: the error is logged and the insert tried.
MigrateMoveIgnored(t) ==
  /\ At(t, "move")
  /\ inKb' \in {inKb, inKb \cup {Art(t)}}
  /\ Goto(t, "insert")
  /\ UNCHANGED <<rows, archived, ref, disturbed, removed, faults>>

\* artifact.get and artifact.move_to_project_kb; an error of either ends the call.
MigrateMove(t) ==
  /\ At(t, "move")
  /\ \/ /\ inKb' = inKb \cup {Art(t)}
        /\ Goto(t, "insert")
     \/ End(t) /\ UNCHANGED inKb
  /\ UNCHANGED <<rows, archived, ref, disturbed, removed, faults>>

\* The move took effect but its answer was lost: the call raises, untracked.
MigrateMoveLost(t) ==
  /\ At(t, "move")
  /\ Fault({Art(t)})
  /\ inKb' = inKb \cup {Art(t)}
  /\ End(t)
  /\ UNCHANGED <<rows, archived, ref, removed>>

\* Mutant of MigrateInsert: no compensation.
MigrateInsertOnly(t) ==
  /\ At(t, "insert")
  /\ IF Proj(t) \in rows /\ ~Tracked(Art(t))
       THEN /\ ref' = [ref EXCEPT ![Art(t)] = Proj(t)]
            /\ removed' = removed \ {Art(t)}
            /\ disturbed' = disturbed \cup Unlisted(t)
       ELSE UNCHANGED <<ref, removed, disturbed>>
  /\ End(t)
  /\ UNCHANGED <<rows, archived, inKb, faults>>

\* The insert fails on UNIQUE(artifact_id) or on the project's foreign key.
MigrateInsert(t) ==
  /\ At(t, "insert")
  /\ IF Proj(t) \in rows /\ ~Tracked(Art(t))
       THEN /\ ref' = [ref EXCEPT ![Art(t)] = Proj(t)]
            /\ removed' = removed \ {Art(t)}
            /\ disturbed' = disturbed \cup Unlisted(t)
            /\ End(t)
       ELSE Goto(t, "rollback") /\ UNCHANGED <<ref, removed, disturbed>>
  /\ UNCHANGED <<rows, archived, inKb, faults>>

MigrateRollback(t) ==
  /\ At(t, "rollback")
  /\ inKb' = inKb \ {Art(t)}
  /\ End(t)
  /\ UNCHANGED <<rows, archived, ref, disturbed, removed, faults>>

\* The rollback fails: logged, and the insert's error is raised all the same.
MigrateRollbackFail(t) ==
  /\ At(t, "rollback")
  /\ Fault({Art(t)})
  /\ End(t)
  /\ UNCHANGED <<rows, archived, ref, inKb, removed>>

-----------------------------------------------------------------------------
(* remove_artifact: the local reference only *)

RemoveBegin(t, a) ==
  /\ Tracked(a)
  /\ Start(t, "remove", ref[a], a, "unref")
  /\ disturbed' = disturbed \cup Meets(a)
  /\ UNCHANGED <<rows, archived, ref, inKb, removed, faults>>

RemoveRef(t) ==
  /\ At(t, "unref")
  /\ ref' = [ref EXCEPT ![Art(t)] = NoProject]
  /\ removed' = removed \cup {Art(t)}
  /\ End(t)
  /\ UNCHANGED <<rows, archived, inKb, disturbed, faults>>

-----------------------------------------------------------------------------
(* archive, unarchive and delete *)

Archive(p) ==
  /\ p \in rows
  /\ archived' = archived \cup {p}
  /\ UNCHANGED <<rows, ref, inKb, call, disturbed, removed, faults>>

Unarchive(p) ==
  /\ p \in archived
  /\ archived' = archived \ {p}
  /\ UNCHANGED <<rows, ref, inKb, call, disturbed, removed, faults>>

\* ProjectNotArchived is raised unless the row that was read is archived.
DeleteBegin(t, p) ==
  /\ p \in archived
  /\ Start(t, "delete", p, NoArtifact, "list")
  /\ UNCHANGED <<rows, archived, ref, inKb, disturbed, removed, faults>>

\* list_artifact_refs without a limit: one page.
DeleteList(t) ==
  /\ At(t, "list")
  /\ \E page \in SUBSET RefsOf(Proj(t)) :
       /\ Cardinality(page) <= PageSize
       /\ page = RefsOf(Proj(t)) \/ Cardinality(page) = PageSize
       /\ call' = [call EXCEPT ![t].pc = "clear", ![t].todo = page]
       /\ disturbed' = disturbed \cup (RefsOf(Proj(t)) \ page) \cup Contended(t)
  /\ UNCHANGED <<rows, archived, ref, inKb, removed, faults>>

\* artifact.update in_project_kb = False, one artifact after the other.
DeleteClear(t) ==
  /\ At(t, "clear")
  /\ \E a \in call[t].todo :
       /\ inKb' = inKb \ {a}
       /\ call' = [call EXCEPT ![t].todo = @ \ {a}]
  /\ UNCHANGED <<rows, archived, ref, disturbed, removed, faults>>

\* A failed update is logged and swallowed.
DeleteClearFail(t) ==
  /\ At(t, "clear")
  /\ \E a \in call[t].todo :
       /\ Fault({a})
       /\ call' = [call EXCEPT ![t].todo = @ \ {a}]
  /\ UNCHANGED <<rows, archived, ref, inKb, removed>>

\* Mutant of DeleteDrop: the archived flag outlives the row.
DeleteDropKeepsFlag(t) ==
  /\ At(t, "clear")
  /\ call[t].todo = {}
  /\ rows' = rows \ {Proj(t)}
  /\ ref' = [a \in Artifacts |-> IF ref[a] = Proj(t) THEN NoProject ELSE ref[a]]
  /\ End(t)
  /\ UNCHANGED <<archived, inKb, disturbed, removed, faults>>

\* The row goes, and its references with it (ON DELETE CASCADE).
DeleteDrop(t) ==
  /\ At(t, "clear")
  /\ call[t].todo = {}
  /\ rows' = rows \ {Proj(t)}
  /\ archived' = archived \ {Proj(t)}
  /\ ref' = [a \in Artifacts |-> IF ref[a] = Proj(t) THEN NoProject ELSE ref[a]]
  /\ End(t)
  /\ UNCHANGED <<inKb, disturbed, removed, faults>>

-----------------------------------------------------------------------------

\* The daemon dies and restarts; every call under way is cut short.
Crash ==
  /\ Fault({a \in Artifacts :
              \E t \in Tasks : Art(t) = a \/ (call[t].op = "delete" /\ ref[a] = Proj(t))})
  /\ call' = [t \in Tasks |-> Idle]
  /\ UNCHANGED <<rows, archived, ref, inKb, removed>>

MigrateStep(t) ==
  \/ MigrateCheck(t)
  \/ MigrateMove(t)
  \/ MigrateMoveLost(t)
  \/ MigrateInsert(t)
  \/ MigrateRollback(t)
  \/ MigrateRollbackFail(t)

DeleteStep(t) ==
  \/ DeleteList(t)
  \/ DeleteClear(t)
  \/ DeleteClearFail(t)
  \/ DeleteDrop(t)

Next ==
  \/ \E t \in Tasks, p \in Projects :
       \/ \E a \in Artifacts : MigrateBegin(t, p, a)
       \/ DeleteBegin(t, p)
  \/ \E t \in Tasks, a \in Artifacts : RemoveBegin(t, a)
  \/ \E t \in Tasks : MigrateStep(t) \/ RemoveRef(t) \/ DeleteStep(t)
  \/ \E p \in Projects : Archive(p) \/ Unarchive(p)
  \/ Crash

Spec == Init /\ [][Next]_vars

-----------------------------------------------------------------------------
(* Properties *)

\* A reference never outlives the move it stands for: the engine holds every
\* tracked artifact in a project's knowledge base, until the deletion of its
\* project takes it out.
TrackedInKb ==
  \A a \in Artifacts \ disturbed :
    Tracked(a) => a \in inKb \/ \E t \in Tasks : call[t].op = "delete" /\ Proj(t) = ref[a]

\* The saga leaves nothing moved but untracked, in particular when the project
\* is deleted before the insert or with artifacts in it; only remove_artifact
\* does, which never moves an artifact back.
NothingUntracked ==
  \A a \in inKb \ (disturbed \cup removed) :
    Tracked(a) \/ \E t \in Tasks : Art(t) = a /\ call[t].pc \in {"insert", "rollback"}

\* "upstream already moved the artifact to this project's KB; the local ref
\* insert failed, leaving the artifact orphaned (moved but untracked)": what
\* the compensation moves back has no reference.
RollbackOnlyUntracked ==
  \A t \in Tasks : At(t, "rollback") => ~Tracked(Art(t))
-----------------------------------------------------------------------------
(* The custody of an artifact, as ArtifactCustody states it *)

OnWay(t, a) == Art(t) = a /\ call[t].pc \in {"insert", "rollback"}

Stage(a) ==
  IF a \in disturbed THEN "unknown"
  ELSE CASE Tracked(a) /\ a \in inKb -> "kept"
         [] Tracked(a) /\ a \notin inKb -> "leaving"
         [] ~Tracked(a) /\ a \notin inKb -> "out"
         [] ~Tracked(a) /\ a \in inKb -> IF \E t \in Tasks : OnWay(t, a) THEN "moving" ELSE "left"
Keeper(a) == IF a \in disturbed THEN NoProject ELSE ref[a]

Stages == [a \in Artifacts |-> Stage(a)]
Keepers == [a \in Artifacts |-> Keeper(a)]
Closing == {p \in Projects : \E t \in Tasks : At(t, "clear") /\ Proj(t) = p}

Custody == INSTANCE ArtifactCustody WITH stage <- Stages, holder <- Keepers, closing <- Closing

\* An artifact goes into a project and out again only by way of all stages, whatever
\* migrations, removals and deletions overlap: it is flagged before it is referred to and
\* for one project at a time, and a deletion drops the reference after the flag.
CustodySpec == Custody!Spec
==============================================================================
