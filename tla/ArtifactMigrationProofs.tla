----------------------- MODULE ArtifactMigrationProofs ------------------------
(***************************************************************************)
(* The migration saga keeps references and knowledge bases together, for   *)
(* any number of calls, projects, artifacts and faults.  Of an artifact    *)
(* that nothing disturbed, the invariant says which call may work on it,   *)
(* what a migration finds at each step, and what a deletion's listing      *)
(* still stands for.                                                       *)
(***************************************************************************)
EXTENDS ArtifactMigration, TLAPS

-----------------------------------------------------------------------------
(* The inductive invariant *)

\* What the record of a call holds at each step.
Shaped ==
  \A t \in Tasks :
    \/ call[t] = Idle
    \/ /\ call[t].pc \in {"check", "move", "insert", "rollback"} /\ call[t].op = "migrate"
       /\ Art(t) \in Artifacts /\ Proj(t) \in Projects /\ call[t].todo = {}
    \/ /\ At(t, "unref") /\ call[t].op = "remove"
       /\ Art(t) \in Artifacts /\ Proj(t) \in Projects /\ call[t].todo = {}
    \/ /\ call[t].pc \in {"list", "clear"} /\ call[t].op = "delete"
       /\ Art(t) = NoArtifact /\ Proj(t) \in Projects
       /\ At(t, "list") => call[t].todo = {}

\* One call works on an artifact; once it has looked, the artifact stays without a
\* reference, and once it has moved it, in the knowledge base.
MigratedAlone(a) ==
  /\ \A t, u \in Tasks : Art(t) = a /\ Art(u) = a => t = u
  /\ \A t \in Tasks : Art(t) = a =>
       /\ call[t].pc \in {"move", "insert", "rollback"} => ~Tracked(a)
       /\ At(t, "insert") => a \in inKb

\* A deletion still has to clear what its project refers to, or has done it; what it
\* listed and no longer refers to its project is left alone; and it is the only deletion
\* of the project.
ListedOnce(a) ==
  /\ \A u \in Tasks :
       /\ At(u, "clear") /\ ref[a] = Proj(u) => a \in call[u].todo \/ a \notin inKb
       /\ a \in call[u].todo =>
            ref[a] = Proj(u) \/ (~Tracked(a) /\ \A t \in Tasks : Art(t) # a)
  /\ \A u, v \in Tasks :
       At(u, "clear") /\ At(v, "clear") /\ Proj(u) = Proj(v) /\ ref[a] = Proj(u) => u = v

KeptInKb(a) ==
  Tracked(a) => a \in inKb \/ \E t \in Tasks : call[t].op = "delete" /\ Proj(t) = ref[a]
KeptTracked(a) ==
  a \in inKb \ removed =>
    Tracked(a) \/ \E t \in Tasks : Art(t) = a /\ call[t].pc \in {"insert", "rollback"}

ArtifactOk(a) == MigratedAlone(a) /\ ListedOnce(a) /\ KeptInKb(a) /\ KeptTracked(a)

SagaInv == TypeOK /\ Shaped /\ \A a \in Artifacts \ disturbed : ArtifactOk(a)

-----------------------------------------------------------------------------
(* What one step of a call does to the calls *)

Others(t) == \A u \in Tasks \ {t} : call'[u] = call[u]
Kept == call' \in [Tasks -> Calls]
Ended(t) == call'[t] = Idle /\ Others(t)
Moved(t, step) ==
  /\ call'[t].pc = step /\ call'[t].op = call[t].op /\ call'[t].todo = call[t].todo
  /\ call'[t].proj = call[t].proj /\ call'[t].art = call[t].art
  /\ Others(t)

LEMMA GotoMoves ==
  ASSUME TypeOK, NEW t \in Tasks, NEW step \in Steps, Goto(t, step) PROVE Kept /\ Moved(t, step)
  BY DEF TypeOK, Calls, Goto, Kept, Moved, Others

LEMMA IdleIsCall == Idle \in Calls
  BY DEF Idle, Calls, Steps

LEMMA EndEnds == ASSUME TypeOK, NEW t \in Tasks, End(t) PROVE Kept /\ Ended(t)
  BY IdleIsCall DEF TypeOK, End, Kept, Ended, Others

Started(t, op, p, a, step) ==
  /\ call'[t].pc = step /\ call'[t].op = op /\ call'[t].todo = {}
  /\ call'[t].proj = p /\ call'[t].art = a
  /\ call[t] = Idle /\ Others(t)

LEMMA StartStarts ==
  ASSUME TypeOK, NEW t \in Tasks, NEW p \in Projects, NEW a \in Artifacts \cup {NoArtifact},
         NEW op \in {"migrate", "remove", "delete"}, NEW step \in Steps, Start(t, op, p, a, step)
  PROVE Kept /\ Started(t, op, p, a, step)
  <1> DEFINE r == [Idle EXCEPT !.pc = step, !.op = op, !.proj = p, !.art = a]
  <1>1. r \in Calls
    BY IdleIsCall DEF Calls
  <1>2. r.pc = step /\ r.op = op /\ r.proj = p /\ r.art = a /\ r.todo = {}
    BY DEF Idle
  <1>3. call[t] = Idle /\ call' = [call EXCEPT ![t] = r]
    BY DEF Start
  <1> HIDE DEF r
  <1> QED BY <1>1, <1>2, <1>3 DEF TypeOK, Kept, Started, Others

\* A fault leaves its count within bounds and marks the artifacts it touches.
LEMMA FaultMarks ==
  ASSUME TypeOK, NEW as, Fault(as)
  PROVE faults' \in 0..MaxFaults /\ disturbed' = disturbed \cup as
  BY Bounds DEF TypeOK, Fault

\* What a call at a step of migrate_artifact, remove_artifact or delete works on.
LEMMA CallShape ==
  ASSUME SagaInv, NEW t \in Tasks
  PROVE /\ call[t].pc \in {"check", "move", "insert", "rollback", "unref"} =>
             Art(t) \in Artifacts /\ Proj(t) \in Projects /\ call[t].todo = {}
        /\ call[t].pc \in {"check", "move", "insert", "rollback"} => call[t].op = "migrate"
        /\ call[t].pc = "unref" => call[t].op = "remove"
        /\ call[t].pc \in {"list", "clear"} =>
             call[t].op = "delete" /\ Art(t) = NoArtifact /\ Proj(t) \in Projects
        /\ call[t].todo # {} => call[t].pc = "clear"
        /\ call[t].todo \subseteq Artifacts
        /\ NoArtifact \notin Artifacts /\ NoProject \notin Projects
  BY Distinct DEF SagaInv, TypeOK, Calls, Shaped, Idle, At

-----------------------------------------------------------------------------
(* migrate_artifact *)

LEMMA MigrateBeginStep ==
  ASSUME SagaInv, NEW t \in Tasks, NEW p \in Projects, NEW b \in Artifacts, MigrateBegin(t, p, b)
  PROVE SagaInv'
  <1>1. Kept /\ Started(t, "migrate", p, b, "check")
    BY StartStarts DEF MigrateBegin, SagaInv, Steps
  <1>2. /\ UNCHANGED <<rows, archived, ref, inKb, removed, faults>>
        /\ disturbed' = disturbed \cup Meets(b) /\ Meets(b) \subseteq Artifacts
    BY DEF MigrateBegin, Meets
  <1>3. TypeOK'
    BY <1>1, <1>2 DEF SagaInv, TypeOK, Kept
  <1>4. Shaped'
    BY <1>1 DEF SagaInv, Shaped, Started, Others, Idle, At, Art, Proj
  <1>5. ASSUME NEW a \in Artifacts \ disturbed' PROVE ArtifactOk(a)'
    <2>1. ArtifactOk(a) /\ \A u \in Tasks : a = b => Art(u) # a /\ a \notin call[u].todo
      BY <1>2, <1>5 DEF SagaInv, Meets
    <2>2. MigratedAlone(a)'
      BY <1>1, <1>2, <2>1 DEF ArtifactOk, MigratedAlone, Started, Others, Art, At, Tracked
    <2>3. ListedOnce(a)'
      BY <1>1, <1>2, <2>1 DEF ArtifactOk, ListedOnce, Started, Others, Art, At, Proj, Tracked
    <2>4. KeptInKb(a)' /\ KeptTracked(a)'
      BY <1>1, <1>2, <2>1
         DEF ArtifactOk, KeptInKb, KeptTracked, Started, Others, Idle, Art, Proj, Tracked
    <2> QED BY <2>2, <2>3, <2>4 DEF ArtifactOk
  <1> QED BY <1>3, <1>4, <1>5 DEF SagaInv

LEMMA MigrateCheckStep == ASSUME SagaInv, NEW t \in Tasks, MigrateCheck(t) PROVE SagaInv'
  <1>1. /\ call[t].pc = "check" /\ call[t].op = "migrate" /\ call[t].todo = {}
        /\ Art(t) \in Artifacts /\ Proj(t) \in Projects /\ NoProject \notin Projects
    BY CallShape DEF MigrateCheck, At
  <1>2. /\ Kept
        /\ \/ Tracked(Art(t)) /\ Ended(t)
           \/ ~Tracked(Art(t)) /\ Moved(t, "move")
    BY <1>1, GotoMoves, EndEnds DEF MigrateCheck, SagaInv, Steps
  <1>3. /\ UNCHANGED <<rows, archived, ref, inKb, disturbed, removed, faults>>
    BY <1>1 DEF MigrateCheck, SagaInv
  <1>4. TypeOK'
    BY <1>1, <1>2, <1>3 DEF SagaInv, TypeOK, Kept
  <1>5. Shaped'
    BY <1>1, <1>2 DEF SagaInv, Shaped, Ended, Moved, Others, Idle, At, Art, Proj
  <1>6. ASSUME NEW a \in Artifacts \ disturbed' PROVE ArtifactOk(a)'
    <2>1. ArtifactOk(a)
      BY <1>2, <1>3, <1>6 DEF SagaInv
    <2>2. MigratedAlone(a)'
      BY <1>1, <1>2, <1>3, <1>6, <2>1, CallShape
         DEF ArtifactOk, MigratedAlone, Ended, Moved, Others, Idle, Art, At, Proj, Tracked
    <2>3. ListedOnce(a)'
      BY <1>1, <1>2, <1>3, <1>6, <2>1, CallShape
         DEF ArtifactOk, ListedOnce, MigratedAlone, Ended, Moved, Others, Idle, Art, At, Proj,
             Tracked
    <2>4. KeptInKb(a)' /\ KeptTracked(a)'
      BY <1>1, <1>2, <1>3, <1>6, <2>1, CallShape
         DEF ArtifactOk, KeptInKb, KeptTracked, ListedOnce, MigratedAlone, Ended, Moved,
             Others, Idle, Art, At, Proj, Tracked
    <2> QED BY <2>2, <2>3, <2>4 DEF ArtifactOk
  <1> QED BY <1>4, <1>5, <1>6 DEF SagaInv

LEMMA MigrateMoveStep == ASSUME SagaInv, NEW t \in Tasks, MigrateMove(t) PROVE SagaInv'
  <1>1. /\ call[t].pc = "move" /\ call[t].op = "migrate" /\ call[t].todo = {}
        /\ Art(t) \in Artifacts /\ Proj(t) \in Projects /\ NoProject \notin Projects
    BY CallShape DEF MigrateMove, At
  <1>2. /\ Kept
        /\ \/ inKb' = inKb \cup {Art(t)} /\ Moved(t, "insert")
           \/ inKb' = inKb /\ Ended(t)
    BY <1>1, GotoMoves, EndEnds DEF MigrateMove, SagaInv, Steps
  <1>3. /\ UNCHANGED <<rows, archived, ref, disturbed, removed, faults>>
    BY <1>1 DEF MigrateMove, SagaInv
  <1>4. TypeOK'
    BY <1>1, <1>2, <1>3 DEF SagaInv, TypeOK, Kept
  <1>5. Shaped'
    BY <1>1, <1>2 DEF SagaInv, Shaped, Ended, Moved, Others, Idle, At, Art, Proj
  <1>6. ASSUME NEW a \in Artifacts \ disturbed' PROVE ArtifactOk(a)'
    <2>1. ArtifactOk(a)
      BY <1>2, <1>3, <1>6 DEF SagaInv
    <2>2. MigratedAlone(a)'
      BY <1>1, <1>2, <1>3, <1>6, <2>1, CallShape
         DEF ArtifactOk, MigratedAlone, Ended, Moved, Others, Idle, Art, At, Proj, Tracked
    <2>3. ListedOnce(a)'
      BY <1>1, <1>2, <1>3, <1>6, <2>1, CallShape
         DEF ArtifactOk, ListedOnce, MigratedAlone, Ended, Moved, Others, Idle, Art, At, Proj,
             Tracked
    <2>4. KeptInKb(a)' /\ KeptTracked(a)'
      BY <1>1, <1>2, <1>3, <1>6, <2>1, CallShape
         DEF ArtifactOk, KeptInKb, KeptTracked, ListedOnce, MigratedAlone, Ended, Moved,
             Others, Idle, Art, At, Proj, Tracked
    <2> QED BY <2>2, <2>3, <2>4 DEF ArtifactOk
  <1> QED BY <1>4, <1>5, <1>6 DEF SagaInv

LEMMA MigrateMoveLostStep == ASSUME SagaInv, NEW t \in Tasks, MigrateMoveLost(t) PROVE SagaInv'
  <1>1. /\ call[t].pc = "move" /\ call[t].op = "migrate" /\ call[t].todo = {}
        /\ Art(t) \in Artifacts /\ Proj(t) \in Projects /\ NoProject \notin Projects
    BY CallShape DEF MigrateMoveLost, At
  <1>2. Kept /\ Ended(t)
    BY <1>1, EndEnds DEF MigrateMoveLost, SagaInv, Steps
  <1>3. /\ inKb' = inKb \cup {Art(t)}
        /\ faults' \in 0..MaxFaults /\ disturbed' = disturbed \cup {Art(t)}
        /\ UNCHANGED <<rows, archived, ref, removed>>
    BY FaultMarks, <1>1 DEF MigrateMoveLost, SagaInv
  <1>4. TypeOK'
    BY <1>1, <1>2, <1>3 DEF SagaInv, TypeOK, Kept
  <1>5. Shaped'
    BY <1>1, <1>2 DEF SagaInv, Shaped, Ended, Others, Idle, At, Art, Proj
  <1>6. ASSUME NEW a \in Artifacts \ disturbed' PROVE ArtifactOk(a)'
    <2>1. ArtifactOk(a)
      BY <1>2, <1>3, <1>6 DEF SagaInv
    <2>2. MigratedAlone(a)'
      BY <1>1, <1>2, <1>3, <1>6, <2>1, CallShape
         DEF ArtifactOk, MigratedAlone, Ended, Others, Idle, Art, At, Proj, Tracked
    <2>3. ListedOnce(a)'
      BY <1>1, <1>2, <1>3, <1>6, <2>1, CallShape
         DEF ArtifactOk, ListedOnce, MigratedAlone, Ended, Others, Idle, Art, At, Proj, Tracked
    <2>4. KeptInKb(a)' /\ KeptTracked(a)'
      BY <1>1, <1>2, <1>3, <1>6, <2>1, CallShape
         DEF ArtifactOk, KeptInKb, KeptTracked, ListedOnce, MigratedAlone, Ended, Others, Idle,
             Art, At, Proj, Tracked
    <2> QED BY <2>2, <2>3, <2>4 DEF ArtifactOk
  <1> QED BY <1>4, <1>5, <1>6 DEF SagaInv

\* The insert makes the reference of an artifact that is in the knowledge base, unless a
\* deletion of its project has already listed what it clears.
LEMMA MigrateInsertStep == ASSUME SagaInv, NEW t \in Tasks, MigrateInsert(t) PROVE SagaInv'
  <1>1. /\ call[t].pc = "insert" /\ call[t].op = "migrate" /\ call[t].todo = {}
        /\ Art(t) \in Artifacts /\ Proj(t) \in Projects
    BY CallShape DEF MigrateInsert, At
  <1>2. /\ Kept /\ (Ended(t) \/ Moved(t, "rollback"))
        /\ UNCHANGED <<rows, archived, inKb, faults>>
    BY <1>1, GotoMoves, EndEnds DEF MigrateInsert, SagaInv, Steps
  <1>3. Shaped'
    BY <1>1, <1>2 DEF SagaInv, Shaped, Ended, Moved, Others, Idle, At, Art, Proj
  <1>4. CASE ~(Proj(t) \in rows /\ ~Tracked(Art(t)))
    <2>1. Moved(t, "rollback") /\ UNCHANGED <<ref, removed, disturbed>>
      BY <1>1, <1>4, GotoMoves DEF MigrateInsert, SagaInv, Steps
    <2>2. TypeOK'
      BY <1>2, <2>1 DEF SagaInv, TypeOK, Kept
    <2>3. ASSUME NEW a \in Artifacts \ disturbed' PROVE ArtifactOk(a)'
      <3>1. ArtifactOk(a)
        BY <2>1, <2>3 DEF SagaInv
      <3> QED BY <1>1, <1>2, <2>1, <3>1
          DEF ArtifactOk, MigratedAlone, ListedOnce, KeptInKb, KeptTracked, Moved, Others, Art,
              At,
              Proj, Tracked
    <2> QED BY <1>3, <2>2, <2>3 DEF SagaInv
  <1>5. CASE Proj(t) \in rows /\ ~Tracked(Art(t))
    <2>1. /\ Ended(t) /\ ref' = [ref EXCEPT ![Art(t)] = Proj(t)]
          /\ removed' = removed \ {Art(t)} /\ disturbed' = disturbed \cup Unlisted(t)
      BY <1>5, EndEnds DEF MigrateInsert, SagaInv
    <2>2. /\ ref'[Art(t)] = Proj(t) /\ Proj(t) # NoProject
          /\ \A a \in Artifacts \ {Art(t)} : ref'[a] = ref[a]
      BY <1>1, <2>1, Distinct DEF SagaInv, TypeOK
    <2>3. TypeOK'
      BY <1>1, <1>2, <2>1 DEF SagaInv, TypeOK, Kept, Unlisted
    <2>4. ASSUME NEW a \in Artifacts \ disturbed', a # Art(t) PROVE ArtifactOk(a)'
      <3>1. ArtifactOk(a)
        BY <2>1, <2>4 DEF SagaInv
      <3> QED BY <1>1, <1>2, <2>1, <2>2, <2>4, <3>1, Distinct
          DEF ArtifactOk, MigratedAlone, ListedOnce, KeptInKb, KeptTracked, Ended, Others,
              Idle, Art,
              At, Proj, Tracked
    <2>5. ASSUME NEW a \in Artifacts \ disturbed', a = Art(t) PROVE ArtifactOk(a)'
      <3>1. ArtifactOk(a)
        BY <2>1, <2>5 DEF SagaInv
      <3>2. a \in inKb /\ \A u \in Tasks : a \notin call[u].todo
        <4>1. \A u \in Tasks : a \in call[u].todo => Proj(u) # NoProject
          BY CallShape
        <4> QED BY <1>1, <1>5, <2>5, <3>1, <4>1
            DEF ArtifactOk, MigratedAlone, ListedOnce, At, Tracked
      <3>3. \A u \in Tasks : ~(At(u, "clear") /\ Proj(u) = Proj(t))
        BY <2>1, <2>5 DEF Unlisted
      <3> QED BY <1>1, <1>2, <2>1, <2>2, <2>5, <3>1, <3>2, <3>3, Distinct
          DEF ArtifactOk, MigratedAlone, ListedOnce, KeptInKb, KeptTracked, Ended, Others,
              Idle, Art,
              At, Proj, Tracked
    <2> QED BY <1>3, <2>3, <2>4, <2>5 DEF SagaInv
  <1> QED BY <1>4, <1>5

LEMMA MigrateRollbackStep == ASSUME SagaInv, NEW t \in Tasks, MigrateRollback(t) PROVE SagaInv'
  <1>1. /\ call[t].pc = "rollback" /\ call[t].op = "migrate" /\ call[t].todo = {}
        /\ Art(t) \in Artifacts /\ Proj(t) \in Projects /\ NoProject \notin Projects
    BY CallShape DEF MigrateRollback, At
  <1>2. Kept /\ Ended(t)
    BY <1>1, EndEnds DEF MigrateRollback, SagaInv, Steps
  <1>3. /\ inKb' = inKb \ {Art(t)}
        /\ UNCHANGED <<rows, archived, ref, disturbed, removed, faults>>
    BY <1>1 DEF MigrateRollback, SagaInv
  <1>4. TypeOK'
    BY <1>1, <1>2, <1>3 DEF SagaInv, TypeOK, Kept
  <1>5. Shaped'
    BY <1>1, <1>2 DEF SagaInv, Shaped, Ended, Others, Idle, At, Art, Proj
  <1>6. ASSUME NEW a \in Artifacts \ disturbed' PROVE ArtifactOk(a)'
    <2>1. ArtifactOk(a)
      BY <1>2, <1>3, <1>6 DEF SagaInv
    <2>2. MigratedAlone(a)'
      BY <1>1, <1>2, <1>3, <1>6, <2>1, CallShape
         DEF ArtifactOk, MigratedAlone, Ended, Others, Idle, Art, At, Proj, Tracked
    <2>3. ListedOnce(a)'
      BY <1>1, <1>2, <1>3, <1>6, <2>1, CallShape
         DEF ArtifactOk, ListedOnce, MigratedAlone, Ended, Others, Idle, Art, At, Proj, Tracked
    <2>4. KeptInKb(a)' /\ KeptTracked(a)'
      BY <1>1, <1>2, <1>3, <1>6, <2>1, CallShape
         DEF ArtifactOk, KeptInKb, KeptTracked, ListedOnce, MigratedAlone, Ended, Others, Idle,
             Art, At, Proj, Tracked
    <2> QED BY <2>2, <2>3, <2>4 DEF ArtifactOk
  <1> QED BY <1>4, <1>5, <1>6 DEF SagaInv

LEMMA MigrateRollbackFailStep == ASSUME SagaInv, NEW t \in Tasks, MigrateRollbackFail(t) PROVE SagaInv'
  <1>1. /\ call[t].pc = "rollback" /\ call[t].op = "migrate" /\ call[t].todo = {}
        /\ Art(t) \in Artifacts /\ Proj(t) \in Projects /\ NoProject \notin Projects
    BY CallShape DEF MigrateRollbackFail, At
  <1>2. Kept /\ Ended(t)
    BY <1>1, EndEnds DEF MigrateRollbackFail, SagaInv, Steps
  <1>3. /\ faults' \in 0..MaxFaults /\ disturbed' = disturbed \cup {Art(t)}
        /\ UNCHANGED <<rows, archived, ref, inKb, removed>>
    BY FaultMarks, <1>1 DEF MigrateRollbackFail, SagaInv
  <1>4. TypeOK'
    BY <1>1, <1>2, <1>3 DEF SagaInv, TypeOK, Kept
  <1>5. Shaped'
    BY <1>1, <1>2 DEF SagaInv, Shaped, Ended, Others, Idle, At, Art, Proj
  <1>6. ASSUME NEW a \in Artifacts \ disturbed' PROVE ArtifactOk(a)'
    <2>1. ArtifactOk(a)
      BY <1>2, <1>3, <1>6 DEF SagaInv
    <2>2. MigratedAlone(a)'
      BY <1>1, <1>2, <1>3, <1>6, <2>1, CallShape
         DEF ArtifactOk, MigratedAlone, Ended, Others, Idle, Art, At, Proj, Tracked
    <2>3. ListedOnce(a)'
      BY <1>1, <1>2, <1>3, <1>6, <2>1, CallShape
         DEF ArtifactOk, ListedOnce, MigratedAlone, Ended, Others, Idle, Art, At, Proj, Tracked
    <2>4. KeptInKb(a)' /\ KeptTracked(a)'
      BY <1>1, <1>2, <1>3, <1>6, <2>1, CallShape
         DEF ArtifactOk, KeptInKb, KeptTracked, ListedOnce, MigratedAlone, Ended, Others, Idle,
             Art, At, Proj, Tracked
    <2> QED BY <2>2, <2>3, <2>4 DEF ArtifactOk
  <1> QED BY <1>4, <1>5, <1>6 DEF SagaInv

LEMMA RemoveRefStep == ASSUME SagaInv, NEW t \in Tasks, RemoveRef(t) PROVE SagaInv'
  <1>1. /\ call[t].pc = "unref" /\ call[t].op = "remove" /\ call[t].todo = {}
        /\ Art(t) \in Artifacts /\ Proj(t) \in Projects /\ NoProject \notin Projects
    BY CallShape DEF RemoveRef, At
  <1>2. Kept /\ Ended(t)
    BY <1>1, EndEnds DEF RemoveRef, SagaInv, Steps
  <1>3. /\ ref' = [ref EXCEPT ![Art(t)] = NoProject] /\ removed' = removed \cup {Art(t)}
        /\ UNCHANGED <<rows, archived, inKb, disturbed, faults>>
    BY <1>1 DEF RemoveRef, SagaInv
  <1>4. TypeOK'
    BY <1>1, <1>2, <1>3 DEF SagaInv, TypeOK, Kept
  <1>5. Shaped'
    BY <1>1, <1>2 DEF SagaInv, Shaped, Ended, Others, Idle, At, Art, Proj
  <1>6. ASSUME NEW a \in Artifacts \ disturbed' PROVE ArtifactOk(a)'
    <2>1. ArtifactOk(a)
      BY <1>2, <1>3, <1>6 DEF SagaInv
    <2>2. MigratedAlone(a)'
      BY <1>1, <1>2, <1>3, <1>6, <2>1, CallShape
         DEF ArtifactOk, MigratedAlone, Ended, Others, Idle, Art, At, Proj, Tracked
    <2>3. ListedOnce(a)'
      BY <1>1, <1>2, <1>3, <1>6, <2>1, CallShape
         DEF ArtifactOk, ListedOnce, MigratedAlone, Ended, Others, Idle, Art, At, Proj, Tracked
    <2>4. KeptInKb(a)' /\ KeptTracked(a)'
      BY <1>1, <1>2, <1>3, <1>6, <2>1, CallShape
         DEF ArtifactOk, KeptInKb, KeptTracked, ListedOnce, MigratedAlone, Ended, Others, Idle,
             Art, At, Proj, Tracked
    <2> QED BY <2>2, <2>3, <2>4 DEF ArtifactOk
  <1> QED BY <1>4, <1>5, <1>6 DEF SagaInv

-----------------------------------------------------------------------------
(* remove_artifact's start, archive, unarchive and delete *)

LEMMA RemoveBeginStep ==
  ASSUME SagaInv, NEW t \in Tasks, NEW b \in Artifacts, RemoveBegin(t, b) PROVE SagaInv'
  <1>1. Kept /\ Started(t, "remove", ref[b], b, "unref") /\ ref[b] \in Projects
    BY StartStarts DEF RemoveBegin, SagaInv, TypeOK, Tracked, Steps
  <1>2. /\ UNCHANGED <<rows, archived, ref, inKb, removed, faults>>
        /\ disturbed' = disturbed \cup Meets(b) /\ Meets(b) \subseteq Artifacts
    BY DEF RemoveBegin, Meets
  <1>3. TypeOK'
    BY <1>1, <1>2 DEF SagaInv, TypeOK, Kept
  <1>4. Shaped'
    BY <1>1 DEF SagaInv, Shaped, Started, Others, Idle, At, Art, Proj
  <1>5. ASSUME NEW a \in Artifacts \ disturbed' PROVE ArtifactOk(a)'
    <2>1. ArtifactOk(a) /\ \A u \in Tasks : a = b => Art(u) # a /\ a \notin call[u].todo
      BY <1>2, <1>5 DEF SagaInv, Meets
    <2>2. MigratedAlone(a)'
      BY <1>1, <1>2, <2>1 DEF ArtifactOk, MigratedAlone, Started, Others, Art, At, Tracked
    <2>3. ListedOnce(a)'
      BY <1>1, <1>2, <2>1 DEF ArtifactOk, ListedOnce, Started, Others, Art, At, Proj, Tracked
    <2>4. KeptInKb(a)' /\ KeptTracked(a)'
      BY <1>1, <1>2, <2>1
         DEF ArtifactOk, KeptInKb, KeptTracked, Started, Others, Idle, Art, Proj, Tracked
    <2> QED BY <2>2, <2>3, <2>4 DEF ArtifactOk
  <1> QED BY <1>3, <1>4, <1>5 DEF SagaInv

LEMMA ArchiveStep ==
  ASSUME SagaInv, NEW p \in Projects, Archive(p) \/ Unarchive(p) PROVE SagaInv'
  <1>1. UNCHANGED <<rows, ref, inKb, call, disturbed, removed, faults>> /\ archived' \subseteq rows
    BY DEF Archive, Unarchive, SagaInv, TypeOK
  <1> QED BY <1>1
      DEF SagaInv, TypeOK, Shaped, ArtifactOk, MigratedAlone, ListedOnce, KeptInKb,
          KeptTracked, Art,
          At, Proj, Tracked

LEMMA DeleteBeginStep ==
  ASSUME SagaInv, NEW t \in Tasks, NEW p \in Projects, DeleteBegin(t, p) PROVE SagaInv'
  <1>1. Kept /\ Started(t, "delete", p, NoArtifact, "list")
    BY StartStarts DEF DeleteBegin, SagaInv, Steps
  <1>2. UNCHANGED <<rows, archived, ref, inKb, disturbed, removed, faults>>
    BY DEF DeleteBegin
  <1>3. TypeOK'
    BY <1>1, <1>2 DEF SagaInv, TypeOK, Kept
  <1>4. Shaped'
    BY <1>1 DEF SagaInv, Shaped, Started, Others, Idle, At, Art, Proj
  <1>5. ASSUME NEW a \in Artifacts \ disturbed' PROVE ArtifactOk(a)'
    <2>1. ArtifactOk(a)
      BY <1>2, <1>5 DEF SagaInv
    <2>2. MigratedAlone(a)'
      BY <1>1, <1>2, <2>1, Distinct
         DEF ArtifactOk, MigratedAlone, Started, Others, Art, At, Tracked
    <2>3. ListedOnce(a)'
      BY <1>1, <1>2, <2>1, Distinct
         DEF ArtifactOk, ListedOnce, Started, Others, Art, At, Proj, Tracked
    <2>4. KeptInKb(a)' /\ KeptTracked(a)'
      BY <1>1, <1>2, <2>1
         DEF ArtifactOk, KeptInKb, KeptTracked, Started, Others, Idle, Art, Proj, Tracked
    <2> QED BY <2>2, <2>3, <2>4 DEF ArtifactOk
  <1> QED BY <1>3, <1>4, <1>5 DEF SagaInv

\* The listing holds every reference of the project that stays undisturbed, and the
\* deletion is then the only one that clears them.
LEMMA DeleteListStep == ASSUME SagaInv, NEW t \in Tasks, DeleteList(t) PROVE SagaInv'
  <1>1. /\ call[t].pc = "list" /\ call[t].op = "delete" /\ Art(t) = NoArtifact
        /\ Proj(t) \in Projects /\ NoArtifact \notin Artifacts
    BY CallShape DEF DeleteList, At
  <1>2. PICK page \in SUBSET RefsOf(Proj(t)) :
          /\ call' = [call EXCEPT ![t].pc = "clear", ![t].todo = page]
          /\ disturbed' = disturbed \cup (RefsOf(Proj(t)) \ page) \cup Contended(t)
    BY DEF DeleteList
  <1>3. page \subseteq Artifacts /\ RefsOf(Proj(t)) \subseteq Artifacts /\ Contended(t) \subseteq Artifacts
    BY DEF RefsOf, Contended
  <1>4. /\ Kept /\ Others(t)
        /\ call'[t].pc = "clear" /\ call'[t].todo = page /\ call'[t].op = "delete"
        /\ call'[t].art = NoArtifact /\ call'[t].proj = Proj(t)
    BY <1>1, <1>2, <1>3 DEF SagaInv, TypeOK, Calls, Steps, Kept, Others, Art, Proj
  <1>5. UNCHANGED <<rows, archived, ref, inKb, removed, faults>>
    BY DEF DeleteList
  <1>6. TypeOK'
    BY <1>2, <1>3, <1>4, <1>5 DEF SagaInv, TypeOK, Kept
  <1>7. Shaped'
    BY <1>1, <1>4 DEF SagaInv, Shaped, Others, Idle, At, Art, Proj
  <1>8. ASSUME NEW a \in Artifacts \ disturbed' PROVE ArtifactOk(a)'
    <2>1. ArtifactOk(a) /\ (ref[a] = Proj(t) <=> a \in page)
      BY <1>2, <1>8 DEF SagaInv, RefsOf
    <2>2. ref[a] = Proj(t) => \A u \in Tasks \ {t} : ~(At(u, "clear") /\ Proj(u) = Proj(t))
      BY <1>2, <1>8 DEF Contended, RefsOf
    <2>3. MigratedAlone(a)'
      BY <1>1, <1>4, <1>5, <2>1 DEF ArtifactOk, MigratedAlone, Others, Art, At, Tracked
    <2>4. ListedOnce(a)'
      BY <1>1, <1>4, <1>5, <2>1, <2>2
         DEF ArtifactOk, ListedOnce, Others, Art, At, Proj, Tracked
    <2>5. KeptInKb(a)' /\ KeptTracked(a)'
      BY <1>1, <1>4, <1>5, <2>1
         DEF ArtifactOk, KeptInKb, KeptTracked, Others, Art, Proj, Tracked
    <2> QED BY <2>3, <2>4, <2>5 DEF ArtifactOk
  <1> QED BY <1>6, <1>7, <1>8 DEF SagaInv

\* What a deletion takes out of the knowledge base refers to its project or to none.
LEMMA DeleteClearStep ==
  ASSUME SagaInv, NEW t \in Tasks, DeleteClear(t) \/ DeleteClearFail(t) PROVE SagaInv'
  <1>1. /\ call[t].pc = "clear" /\ call[t].op = "delete" /\ Art(t) = NoArtifact
        /\ Proj(t) \in Projects /\ NoArtifact \notin Artifacts
    BY CallShape DEF DeleteClear, DeleteClearFail, At
  <1>2. PICK b \in call[t].todo :
          /\ call' = [call EXCEPT ![t].todo = @ \ {b}]
          /\ \/ inKb' = inKb \ {b} /\ UNCHANGED <<disturbed, faults>>
             \/ UNCHANGED inKb /\ Fault({b})
    BY DEF DeleteClear, DeleteClearFail
  <1>3. b \in Artifacts
    BY CallShape
  <1>4. /\ Kept /\ Others(t)
        /\ call'[t].pc = "clear" /\ call'[t].todo = call[t].todo \ {b} /\ call'[t].op = "delete"
        /\ call'[t].art = NoArtifact /\ call'[t].proj = Proj(t)
    BY <1>1, <1>2 DEF SagaInv, TypeOK, Calls, Kept, Others, Art, Proj
  <1>5. /\ faults' \in 0..MaxFaults /\ disturbed \subseteq disturbed' /\ disturbed' \subseteq Artifacts
        /\ inKb' = inKb \ {b} \/ (inKb' = inKb /\ b \in disturbed')
    BY <1>2, <1>3, FaultMarks DEF SagaInv, TypeOK
  <1>6. UNCHANGED <<rows, archived, ref, removed>>
    BY DEF DeleteClear, DeleteClearFail
  <1>7. TypeOK'
    BY <1>3, <1>4, <1>5, <1>6 DEF SagaInv, TypeOK, Kept
  <1>8. Shaped'
    BY <1>1, <1>4 DEF SagaInv, Shaped, Others, Idle, At, Art, Proj
  <1>9. ASSUME NEW a \in Artifacts \ disturbed' PROVE ArtifactOk(a)'
    <2>1. /\ ArtifactOk(a)
          /\ a # b => (a \in inKb' <=> a \in inKb)
          /\ a = b => a \notin inKb'
      BY <1>5, <1>9 DEF SagaInv
    <2>2. a = b => ref[a] = Proj(t) \/ (~Tracked(a) /\ \A u \in Tasks : Art(u) # a)
      BY <1>2, <2>1 DEF ArtifactOk, ListedOnce
    <2>3. MigratedAlone(a)'
      BY <1>1, <1>4, <1>6, <2>1, <2>2, CallShape
         DEF ArtifactOk, MigratedAlone, Others, Art, At, Tracked
    <2>4. ListedOnce(a)'
      BY <1>1, <1>4, <1>6, <2>1, <2>2 DEF ArtifactOk, ListedOnce, Others, Art, At, Proj, Tracked
    <2>5. KeptInKb(a)' /\ KeptTracked(a)'
      BY <1>1, <1>4, <1>6, <2>1, <2>2
         DEF ArtifactOk, KeptInKb, KeptTracked, Others, Art, Proj, Tracked
    <2> QED BY <2>3, <2>4, <2>5 DEF ArtifactOk
  <1> QED BY <1>7, <1>8, <1>9 DEF SagaInv

LEMMA DeleteDropStep == ASSUME SagaInv, NEW t \in Tasks, DeleteDrop(t) PROVE SagaInv'
  <1>1. /\ call[t].pc = "clear" /\ call[t].op = "delete" /\ Art(t) = NoArtifact
        /\ Proj(t) \in Projects /\ NoArtifact \notin Artifacts /\ call[t].todo = {}
    BY CallShape DEF DeleteDrop, At
  <1>2. Kept /\ Ended(t)
    BY EndEnds DEF DeleteDrop, SagaInv
  <1>3. /\ rows' = rows \ {Proj(t)} /\ archived' = archived \ {Proj(t)}
        /\ \A a \in Artifacts : ref'[a] = IF ref[a] = Proj(t) THEN NoProject ELSE ref[a]
        /\ UNCHANGED <<inKb, disturbed, removed, faults>>
    BY DEF DeleteDrop
  <1>4. TypeOK'
    BY <1>2, <1>3 DEF DeleteDrop, SagaInv, TypeOK, Kept
  <1>5. Shaped'
    BY <1>1, <1>2 DEF SagaInv, Shaped, Ended, Others, Idle, At, Art, Proj
  <1>6. ASSUME NEW a \in Artifacts \ disturbed' PROVE ArtifactOk(a)'
    <2>1. ArtifactOk(a)
      BY <1>3, <1>6 DEF SagaInv
    <2>2. ref[a] = Proj(t) => a \notin inKb /\ \A u \in Tasks : a \notin call[u].todo
      <3>1. \A u \in Tasks : a \in call[u].todo => At(u, "clear") /\ Proj(u) \in Projects
        BY CallShape DEF At
      <3> QED BY <1>1, <2>1, <3>1, Distinct DEF ArtifactOk, ListedOnce, At, Tracked
    <2>3. MigratedAlone(a)'
      BY <1>1, <1>2, <1>3, <2>1, Distinct
         DEF ArtifactOk, MigratedAlone, Ended, Others, Idle, Art, At, Tracked
    <2>4. ListedOnce(a)'
      BY <1>1, <1>2, <1>3, <2>1, <2>2, CallShape
         DEF ArtifactOk, ListedOnce, Ended, Others, Idle, Art, At, Proj, Tracked
    <2>5. KeptInKb(a)' /\ KeptTracked(a)'
      BY <1>1, <1>2, <1>3, <2>1, <2>2
         DEF ArtifactOk, KeptInKb, KeptTracked, Ended, Others, Idle, Art, Proj, Tracked
    <2> QED BY <2>3, <2>4, <2>5 DEF ArtifactOk
  <1> QED BY <1>4, <1>5, <1>6 DEF SagaInv

\* A crash cuts calls short on the artifacts they work on or have to clear.
LEMMA CrashStep == ASSUME SagaInv, Crash PROVE SagaInv'
  <1> DEFINE as == {a \in Artifacts :
                      \E t \in Tasks : Art(t) = a \/ (call[t].op = "delete" /\ ref[a] = Proj(t))}
  <1>1. /\ Fault(as) /\ call' = [t \in Tasks |-> Idle]
        /\ UNCHANGED <<rows, archived, ref, inKb, removed>>
    BY DEF Crash
  <1>2. faults' \in 0..MaxFaults /\ disturbed' = disturbed \cup as
    BY <1>1, FaultMarks DEF SagaInv
  <1>3. TypeOK' /\ Shaped'
    BY <1>1, <1>2, IdleIsCall DEF SagaInv, TypeOK, Shaped
  <1>4. ASSUME NEW a \in Artifacts \ disturbed' PROVE ArtifactOk(a)'
    <2>1. ArtifactOk(a) /\ \A t \in Tasks : Art(t) # a /\ (call[t].op = "delete" => ref[a] # Proj(t))
      BY <1>2, <1>4 DEF SagaInv
    <2>2. \A t \in Tasks : call'[t] = Idle
      BY <1>1
    <2> QED BY <1>1, <2>1, <2>2, Distinct
        DEF ArtifactOk, MigratedAlone, ListedOnce, KeptInKb, KeptTracked, Idle, Art, At, Proj,
            Tracked
  <1> QED BY <1>3, <1>4 DEF SagaInv

-----------------------------------------------------------------------------

LEMMA SagaInit == Init => SagaInv
  <1> SUFFICES ASSUME Init PROVE SagaInv
    OBVIOUS
  <1>1. TypeOK
    <2>1. call \in [Tasks -> Calls] /\ ref \in [Artifacts -> Projects \cup {NoProject}]
      BY IdleIsCall DEF Init
    <2> QED BY <2>1, Bounds DEF Init, TypeOK
  <1>2. Shaped
    BY DEF Init, Shaped
  <1>3. ASSUME NEW a \in Artifacts PROVE ArtifactOk(a)
    BY Distinct
       DEF Init, ArtifactOk, MigratedAlone, ListedOnce, KeptInKb, KeptTracked, Idle, Art, At,
           Tracked
  <1> QED BY <1>1, <1>2, <1>3 DEF SagaInv

LEMMA SagaStep == ASSUME SagaInv, [Next]_vars PROVE SagaInv'
  <1>1. CASE UNCHANGED vars
    BY <1>1
       DEF vars, SagaInv, TypeOK, Shaped, ArtifactOk, MigratedAlone, ListedOnce, KeptInKb,
           KeptTracked,
           Art, At, Proj, Tracked
  <1>2. ASSUME NEW t \in Tasks, MigrateStep(t) \/ RemoveRef(t) \/ DeleteStep(t) PROVE SagaInv'
    BY <1>2, MigrateCheckStep, MigrateMoveStep, MigrateMoveLostStep, MigrateInsertStep,
       MigrateRollbackStep, MigrateRollbackFailStep, RemoveRefStep, DeleteListStep, DeleteClearStep,
       DeleteDropStep
       DEF MigrateStep, DeleteStep
  <1> QED BY <1>1, <1>2, MigrateBeginStep, RemoveBeginStep, DeleteBeginStep, ArchiveStep, CrashStep
      DEF Next

LEMMA SpecSaga == Spec => []SagaInv
  BY SagaInit, SagaStep, PTL DEF Spec

\* Rows, references and calls stay what their types say.
THEOREM SagaTyped == Spec => []TypeOK
  BY SpecSaga, PTL DEF SagaInv

\* A reference stands for an artifact that was moved: migrate_artifact inserts it after the
\* move and nobody but the deletion of its project takes the artifact out while it stands,
\* whatever migrations, removals and deletions overlap on other artifacts.
THEOREM ReferencesInKb == Spec => []TrackedInKb
  <1>1. SagaInv => TrackedInKb
    BY DEF SagaInv, ArtifactOk, KeptInKb, TrackedInKb
  <1> QED BY <1>1, SpecSaga, PTL

\* Whatever was moved has a reference, or the call that moved it still has to insert one or
\* to move the artifact back; only remove_artifact leaves one behind.
THEOREM MovesTracked == Spec => []NothingUntracked
  <1>1. SagaInv => NothingUntracked
    BY DEF SagaInv, TypeOK, ArtifactOk, KeptTracked, NothingUntracked
  <1> QED BY <1>1, SpecSaga, PTL

-----------------------------------------------------------------------------
(* The custody of artifacts: what stays as it is *)

\* The abstract state of an artifact that is not lost sight of.
Unmoved(a) == Stage(a)' = Stage(a) /\ Keeper(a)' = Keeper(a)

\* It stays if flag, reference and the calls on their way with the artifact do.
LEMMA SameStage ==
  ASSUME NEW a, a \notin disturbed', disturbed \subseteq disturbed', ref'[a] = ref[a],
         a \in inKb' <=> a \in inKb, \A u \in Tasks : OnWay(u, a)' <=> OnWay(u, a)
  PROVE Unmoved(a)
  <1>1. a \notin disturbed /\ (Tracked(a)' <=> Tracked(a))
    BY DEF Tracked
  <1> QED BY <1>1 DEF Unmoved, Stage, Keeper

\* A step of call t moves only its own artifact, and closes only its own project.
LEMMA SameWay ==
  ASSUME NEW t \in Tasks, Others(t), NEW a, OnWay(t, a)' <=> OnWay(t, a)
  PROVE \A u \in Tasks : OnWay(u, a)' <=> OnWay(u, a)
  BY DEF Others, OnWay, Art

Closes(t) == At(t, "clear") /\ Proj(t) \in Projects

LEMMA SameClosing ==
  ASSUME NEW t \in Tasks, Others(t),
         Closes(t)' <=> Closes(t), Closes(t) => Proj(t)' = Proj(t)
  PROVE UNCHANGED Closing
  BY DEF Others, Closing, Closes, At, Proj

\* A step that leaves all artifacts but those it loses sight of is one of the custody.
LEMMA LosesOnly ==
  ASSUME \A a \in Artifacts \ disturbed' : Unmoved(a), disturbed \subseteq disturbed'
  PROVE Custody!Lose(Artifacts \cap disturbed')
  <1> DEFINE as == Artifacts \cap disturbed'
  <1>1. Stages' = [a \in Artifacts |-> IF a \in as THEN "unknown" ELSE Stages[a]]
    BY DEF Stages, Stage, Unmoved
  <1>2. Keepers' = [a \in Artifacts |-> IF a \in as THEN NoProject ELSE Keepers[a]]
    BY DEF Keepers, Keeper, Unmoved
  <1> QED BY <1>1, <1>2 DEF Custody!Lose

LEMMA Quiet ==
  ASSUME \A a \in Artifacts \ disturbed' : Unmoved(a), disturbed \subseteq disturbed', UNCHANGED Closing
  PROVE Custody!Next
  BY LosesOnly DEF Custody!Next

\* What one artifact does while the others stay.
LEMMA OneMoves ==
  ASSUME NEW b \in Artifacts, UNCHANGED disturbed,
         \A a \in Artifacts \ disturbed' : a # b => Unmoved(a)
  PROVE /\ Stages' = [Stages EXCEPT ![b] = Stage(b)']
        /\ Keepers' = [Keepers EXCEPT ![b] = Keeper(b)']
        /\ Stages[b] = Stage(b) /\ Keepers[b] = Keeper(b)
        /\ Keeper(b)' = Keeper(b) => UNCHANGED Keepers
  <1>1. \A a \in Artifacts : a # b => Stage(a)' = Stage(a) /\ Keeper(a)' = Keeper(a)
    BY DEF Unmoved, Stage, Keeper
  <1> QED BY <1>1 DEF Stages, Keepers

\* The custody of an artifact on which a call works: the call alone has it on its way.
LEMMA WayIsAlone ==
  ASSUME SagaInv, NEW t \in Tasks, Art(t) \in Artifacts \ disturbed
  PROVE (\E u \in Tasks : OnWay(u, Art(t))) <=> OnWay(t, Art(t))
  BY DEF SagaInv, ArtifactOk, MigratedAlone, OnWay

-----------------------------------------------------------------------------
(* Every step of the saga is a step of the custody or none *)

\* What a step of call t that leaves flags and references alone is to the artifacts: it
\* has none on its way before, nor after, or the same one.
LEMMA QuietStep ==
  ASSUME NEW t \in Tasks, Others(t), UNCHANGED <<ref, inKb>>, disturbed \subseteq disturbed',
         \A a \in Artifacts \ disturbed' : OnWay(t, a)' <=> OnWay(t, a),
         Closes(t)' <=> Closes(t), Closes(t) => Proj(t)' = Proj(t)
  PROVE Custody!Next
  <1>1. \A a \in Artifacts \ disturbed' : Unmoved(a)
    BY SameStage, SameWay
  <1>2. UNCHANGED Closing
    BY SameClosing
  <1> QED BY <1>1, <1>2, Quiet

LEMMA BeginCustody ==
  ASSUME SagaInv, NEW t \in Tasks,
         \/ \E p \in Projects, a \in Artifacts : MigrateBegin(t, p, a)
         \/ \E p \in Projects : DeleteBegin(t, p)
         \/ \E a \in Artifacts : RemoveBegin(t, a)
  PROVE Custody!Next
  <1>1. \E p \in Projects, a \in Artifacts \cup {NoArtifact}, op \in {"migrate", "remove", "delete"},
           step \in {"check", "list", "unref"} : Start(t, op, p, a, step)
    <2>1. ASSUME NEW a \in Artifacts, RemoveBegin(t, a) PROVE ref[a] \in Projects
      BY <2>1 DEF RemoveBegin, Tracked, SagaInv, TypeOK
    <2> QED BY <2>1 DEF MigrateBegin, DeleteBegin, RemoveBegin
  <1>2. PICK p \in Projects, a \in Artifacts \cup {NoArtifact}, op \in {"migrate", "remove", "delete"},
             step \in {"check", "list", "unref"} : Started(t, op, p, a, step)
    BY <1>1, StartStarts DEF SagaInv, Steps
  <1>3. UNCHANGED <<ref, inKb>> /\ disturbed \subseteq disturbed'
    BY DEF MigrateBegin, DeleteBegin, RemoveBegin
  <1>4. ~Closes(t) /\ ~Closes(t)' /\ \A b : ~OnWay(t, b) /\ ~OnWay(t, b)'
    BY <1>2 DEF Started, Idle, Closes, At, OnWay
  <1> QED BY <1>2, <1>3, <1>4, QuietStep DEF Started

LEMMA CheckCustody == ASSUME SagaInv, NEW t \in Tasks, MigrateCheck(t) PROVE Custody!Next
  <1>1. /\ Ended(t) \/ Moved(t, "move")
        /\ call[t].pc = "check" /\ UNCHANGED <<ref, inKb, disturbed>>
    BY EndEnds, GotoMoves DEF MigrateCheck, At, SagaInv, Steps
  <1>2. ~Closes(t) /\ ~Closes(t)' /\ \A b : ~OnWay(t, b) /\ ~OnWay(t, b)'
    BY <1>1 DEF Ended, Moved, Idle, Closes, At, OnWay
  <1> QED BY <1>1, <1>2, QuietStep DEF Ended, Moved

LEMMA MoveCustody ==
  ASSUME SagaInv, NEW t \in Tasks, MigrateMove(t) \/ MigrateMoveLost(t) PROVE Custody!Next
  <1>0. PICK b : b = Art(t)
    OBVIOUS
  <1>1. /\ call[t].pc = "move" /\ b \in Artifacts /\ UNCHANGED ref /\ disturbed \subseteq disturbed'
        /\ \/ Ended(t) /\ UNCHANGED inKb
           \/ Ended(t) /\ inKb' = inKb \cup {b} /\ b \in disturbed'
           \/ Moved(t, "insert") /\ inKb' = inKb \cup {b} /\ UNCHANGED disturbed
    BY <1>0, CallShape, EndEnds, GotoMoves DEF MigrateMove, MigrateMoveLost, Fault, At, SagaInv, Steps
  <1>2. Others(t) /\ ~Closes(t) /\ ~Closes(t)'
    BY <1>0, <1>1 DEF Ended, Moved, Idle, Closes, At
  <1>3. \A a : a # b => (OnWay(t, a)' <=> OnWay(t, a))
    BY <1>0, <1>1, Distinct DEF Ended, Moved, Idle, OnWay, Art
  <1>4. \A a \in Artifacts \ disturbed' : a # b => Unmoved(a)
    BY <1>1, <1>2, <1>3, SameWay, SameStage
  <1>5. UNCHANGED Closing
    BY <1>2, SameClosing
  <1>6. CASE b \in disturbed'
    BY <1>4, <1>5, <1>6, <1>1, Quiet
  <1>7. CASE Ended(t) /\ UNCHANGED inKb
    <2>1. \A a : ~OnWay(t, a) /\ ~OnWay(t, a)'
      BY <1>0, <1>1, <1>7 DEF Ended, Idle, OnWay
    <2> QED BY <1>1, <1>2, <1>7, <2>1, QuietStep
  <1>8. CASE b \notin disturbed' /\ Moved(t, "insert") /\ inKb' = inKb \cup {b} /\ UNCHANGED disturbed
    <2>1. ~Tracked(b) /\ ~Tracked(b)'
      BY <1>0, <1>1, <1>8 DEF SagaInv, ArtifactOk, MigratedAlone, Tracked
    <2>2. ~(\E u \in Tasks : OnWay(u, b))
      BY <1>0, <1>1, <1>8, WayIsAlone DEF OnWay
    <2>3. OnWay(t, b)'
      BY <1>0, <1>8 DEF Moved, OnWay, Art
    <2>4. Stage(b) \in {"out", "left"} /\ Stage(b)' = "moving" /\ Keeper(b)' = Keeper(b)
      BY <1>0, <1>1, <1>8, <2>1, <2>2, <2>3 DEF Stage, Keeper
    <2> QED BY <1>1, <1>4, <1>5, <1>8, <2>4, OneMoves DEF Custody!Next, Custody!Move
  <1> QED BY <1>1, <1>6, <1>7, <1>8

LEMMA InsertCustody == ASSUME SagaInv, NEW t \in Tasks, MigrateInsert(t) PROVE Custody!Next
  <1>0. PICK b : b = Art(t)
    OBVIOUS
  <1>1. /\ call[t].pc = "insert" /\ b \in Artifacts /\ Proj(t) \in Projects
        /\ UNCHANGED inKb /\ disturbed \subseteq disturbed'
        /\ \/ /\ Ended(t) /\ ref' = [ref EXCEPT ![b] = Proj(t)] /\ ~Tracked(b)
              /\ disturbed' \subseteq disturbed \cup {b}
           \/ Moved(t, "rollback") /\ UNCHANGED <<ref, disturbed>>
    BY <1>0, CallShape, EndEnds, GotoMoves DEF MigrateInsert, Unlisted, At, SagaInv, Steps
  <1>2. Others(t) /\ ~Closes(t) /\ ~Closes(t)'
    BY <1>0, <1>1 DEF Ended, Moved, Idle, Closes, At
  <1>3. CASE Moved(t, "rollback") /\ UNCHANGED <<ref, disturbed>>
    <2>1. \A a : OnWay(t, a)' <=> OnWay(t, a)
      BY <1>0, <1>1, <1>3 DEF Moved, OnWay, Art
    <2> QED BY <1>1, <1>2, <1>3, <2>1, QuietStep
  <1>4. CASE Ended(t) /\ ref' = [ref EXCEPT ![b] = Proj(t)] /\ ~Tracked(b) /\ disturbed' \subseteq disturbed \cup {b}
    <2>1. \A a : a # b => (OnWay(t, a)' <=> OnWay(t, a))
      BY <1>0, <1>1, <1>4, Distinct DEF Ended, Idle, OnWay, Art
    <2>2. \A a \in Artifacts \ disturbed' : a # b => Unmoved(a)
      BY <1>1, <1>2, <1>4, <2>1, SameWay, SameStage DEF SagaInv, TypeOK
    <2>3. UNCHANGED Closing
      BY <1>2, SameClosing
    <2>4. CASE b \in disturbed'
      BY <1>1, <2>2, <2>3, <2>4, Quiet
    <2>5. CASE b \notin disturbed'
      <3>1. b \in inKb /\ OnWay(t, b) /\ UNCHANGED disturbed
        BY <1>0, <1>1, <1>4, <2>5 DEF SagaInv, ArtifactOk, MigratedAlone, At, OnWay
      <3>2. ref'[b] = Proj(t) /\ Tracked(b)'
        BY <1>1, <1>4, Distinct DEF SagaInv, TypeOK, Tracked
      <3>3. Stage(b) = "moving" /\ Stage(b)' = "kept" /\ Keeper(b)' = Proj(t)
        BY <1>0, <1>1, <1>4, <2>5, <3>1, <3>2 DEF Stage, Keeper
      <3> QED BY <1>1, <2>2, <2>3, <3>1, <3>3, OneMoves DEF Custody!Next, Custody!Keep
    <2> QED BY <2>4, <2>5
  <1> QED BY <1>1, <1>3, <1>4

LEMMA RollbackCustody ==
  ASSUME SagaInv, NEW t \in Tasks, MigrateRollback(t) \/ MigrateRollbackFail(t) PROVE Custody!Next
  <1>0. PICK b : b = Art(t)
    OBVIOUS
  <1>1. /\ call[t].pc = "rollback" /\ b \in Artifacts /\ Ended(t)
        /\ UNCHANGED ref /\ disturbed \subseteq disturbed'
        /\ \/ inKb' = inKb \ {b} /\ UNCHANGED disturbed
           \/ UNCHANGED inKb /\ b \in disturbed'
    BY <1>0, CallShape, EndEnds DEF MigrateRollback, MigrateRollbackFail, Fault, At, SagaInv
  <1>2. Others(t) /\ ~Closes(t) /\ ~Closes(t)'
    BY <1>0, <1>1 DEF Ended, Idle, Closes, At
  <1>3. \A a : a # b => (OnWay(t, a)' <=> OnWay(t, a))
    BY <1>0, <1>1, Distinct DEF Ended, Idle, OnWay, Art
  <1>4. \A a \in Artifacts \ disturbed' : a # b => Unmoved(a)
    BY <1>1, <1>2, <1>3, SameWay, SameStage
  <1>5. UNCHANGED Closing
    BY <1>2, SameClosing
  <1>6. CASE b \in disturbed'
    BY <1>1, <1>4, <1>5, <1>6, Quiet
  <1>7. CASE b \notin disturbed'
    <2>1. ~Tracked(b) /\ ~Tracked(b)' /\ b \notin disturbed /\ UNCHANGED disturbed /\ inKb' = inKb \ {b}
      BY <1>0, <1>1, <1>7 DEF SagaInv, ArtifactOk, MigratedAlone, Tracked
    <2>2. \E u \in Tasks : OnWay(u, b)
      BY <1>0, <1>1 DEF OnWay
    <2>3. /\ Stage(b) = IF b \in inKb THEN "moving" ELSE "out"
          /\ Stage(b)' = "out" /\ Keeper(b)' = Keeper(b)
      BY <1>0, <1>1, <2>1, <2>2 DEF Stage, Keeper
    <2>4. CASE b \in inKb
      BY <1>1, <1>4, <1>5, <2>1, <2>3, <2>4, OneMoves DEF Custody!Next, Custody!MoveBack
    <2>5. CASE b \notin inKb
      BY <1>1, <1>4, <1>5, <2>1, <2>3, <2>5, Quiet DEF Unmoved
    <2> QED BY <2>4, <2>5
  <1> QED BY <1>6, <1>7

LEMMA RemoveCustody == ASSUME SagaInv, NEW t \in Tasks, RemoveRef(t) PROVE Custody!Next
  <1>0. PICK b : b = Art(t)
    OBVIOUS
  <1>1. /\ call[t].pc = "unref" /\ b \in Artifacts /\ Ended(t)
        /\ ref' = [ref EXCEPT ![b] = NoProject] /\ UNCHANGED <<inKb, disturbed>>
    BY <1>0, CallShape, EndEnds DEF RemoveRef, At, SagaInv
  <1>2. Others(t) /\ ~Closes(t) /\ ~Closes(t)'
    BY <1>1 DEF Ended, Idle, Closes, At
  <1>3. \A a : ~OnWay(t, a) /\ ~OnWay(t, a)'
    BY <1>1 DEF Ended, Idle, OnWay
  <1>4. \A a \in Artifacts \ disturbed' : a # b => Unmoved(a)
    BY <1>1, <1>2, <1>3, SameWay, SameStage DEF SagaInv, TypeOK
  <1>5. UNCHANGED Closing
    BY <1>2, SameClosing
  <1>6. CASE b \in disturbed
    BY <1>1, <1>4, <1>5, <1>6, Quiet
  <1>7. CASE b \notin disturbed
    <2>1. ~Tracked(b)' /\ ref'[b] = NoProject
      BY <1>1 DEF SagaInv, TypeOK, Tracked
    <2>2. ~(\E u \in Tasks : OnWay(u, b)) /\ ~(\E u \in Tasks : OnWay(u, b))'
      BY <1>0, <1>1, <1>2, <1>3, <1>7, WayIsAlone, SameWay
    <2>3. CASE Tracked(b)
      <3>1. /\ Stage(b) = IF b \in inKb THEN "kept" ELSE "leaving"
            /\ Stage(b)' = IF b \in inKb THEN "left" ELSE "out"
            /\ Keeper(b)' = NoProject
        BY <1>1, <1>7, <2>1, <2>2, <2>3 DEF Stage, Keeper
      <3> QED BY <1>1, <1>4, <1>5, <3>1, OneMoves DEF Custody!Next, Custody!Remove
    <2>4. CASE ~Tracked(b)
      <3>1. Unmoved(b)
        BY <1>1, <1>7, <2>1, <2>2, <2>4 DEF Unmoved, Stage, Keeper, Tracked
      <3> QED BY <1>1, <1>4, <1>5, <3>1, Quiet
    <2> QED BY <2>3, <2>4
  <1> QED BY <1>6, <1>7

LEMMA ListCustody == ASSUME SagaInv, NEW t \in Tasks, DeleteList(t) PROVE Custody!Next
  <1>1. /\ call[t].pc = "list" /\ Art(t) = NoArtifact /\ Proj(t) \in Projects
        /\ UNCHANGED <<ref, inKb>> /\ disturbed \subseteq disturbed'
    BY CallShape DEF DeleteList, At
  <1>2. /\ call'[t].pc = "clear" /\ call'[t].proj = Proj(t) /\ call'[t].art = Art(t)
        /\ Others(t)
    BY DEF DeleteList, Others, SagaInv, TypeOK, Calls, Art, Proj
  <1>3. \A a \in Artifacts \ disturbed' : Unmoved(a)
    <2>1. \A a : ~OnWay(t, a) /\ ~OnWay(t, a)'
      BY <1>1, <1>2 DEF OnWay
    <2> QED BY <1>1, <1>2, <2>1, SameWay, SameStage
  <1>4. Closing' = Closing \cup {Proj(t)}
    BY <1>1, <1>2 DEF Closing, Others, At, Proj
  <1> QED BY <1>1, <1>3, <1>4, LosesOnly DEF Custody!Next

LEMMA ClearCustody ==
  ASSUME SagaInv, NEW t \in Tasks, DeleteClear(t) \/ DeleteClearFail(t) PROVE Custody!Next
  <1>1. call[t].pc = "clear" /\ Art(t) = NoArtifact /\ Proj(t) \in Projects
    BY CallShape DEF DeleteClear, DeleteClearFail, At
  <1>2. PICK b \in call[t].todo :
          /\ call' = [call EXCEPT ![t].todo = @ \ {b}]
          /\ UNCHANGED ref /\ disturbed \subseteq disturbed'
          /\ \/ inKb' = inKb \ {b} /\ UNCHANGED disturbed
             \/ UNCHANGED inKb
    BY DEF DeleteClear, DeleteClearFail, Fault
  <1>3. b \in Artifacts
    BY <1>2, CallShape
  <1>4. /\ call'[t].pc = "clear" /\ call'[t].proj = Proj(t) /\ call'[t].art = Art(t)
        /\ Others(t)
    BY <1>1, <1>2 DEF Others, SagaInv, TypeOK, Calls, Art, Proj
  <1>5. \A a : ~OnWay(t, a) /\ ~OnWay(t, a)'
    BY <1>1, <1>4 DEF OnWay
  <1>6. \A a \in Artifacts \ disturbed' : a # b \/ UNCHANGED inKb => Unmoved(a)
    BY <1>2, <1>4, <1>5, SameWay, SameStage
  <1>7. UNCHANGED Closing /\ Proj(t) \in Closing
    BY <1>1, <1>4, SameClosing DEF Closes, Closing, At, Proj
  <1>8. CASE b \in disturbed' \/ UNCHANGED inKb
    BY <1>2, <1>6, <1>7, <1>8, Quiet
  <1>9. CASE b \notin disturbed' /\ inKb' = inKb \ {b} /\ UNCHANGED disturbed
    <2>1. /\ ref[b] = Proj(t) \/ (~Tracked(b) /\ \A u \in Tasks : Art(u) # b)
          /\ Proj(t) # NoProject
      BY <1>1, <1>2, <1>3, <1>9, Distinct DEF SagaInv, ArtifactOk, ListedOnce
    <2>2. CASE b \notin inKb
      <3>1. inKb' = inKb
        BY <1>9, <2>2
      <3> QED BY <1>8, <3>1
    <2>3. CASE b \in inKb /\ ref[b] = Proj(t)
      <3>1. /\ Stage(b) = "kept" /\ Stage(b)' = "leaving"
            /\ Keeper(b) = Proj(t) /\ Keeper(b)' = Keeper(b)
        BY <1>2, <1>9, <2>1, <2>3 DEF Stage, Keeper, Tracked
      <3> QED BY <1>3, <1>6, <1>7, <1>9, <3>1, OneMoves DEF Custody!Next, Custody!Clear
    <2>4. CASE b \in inKb /\ ~Tracked(b) /\ \A u \in Tasks : Art(u) # b
      <3>1. ~(\E u \in Tasks : OnWay(u, b)) /\ ~Tracked(b)'
        BY <1>2, <2>4 DEF OnWay, Tracked
      <3>2. Stage(b) = "left" /\ Stage(b)' = "out" /\ Keeper(b)' = Keeper(b)
        BY <1>2, <1>9, <2>4, <3>1 DEF Stage, Keeper
      <3> QED BY <1>3, <1>6, <1>7, <1>9, <3>2, OneMoves DEF Custody!Next, Custody!MoveBack
    <2> QED BY <2>1, <2>2, <2>3, <2>4
  <1> QED BY <1>2, <1>8, <1>9

\* The references that go with the project are those whose artifacts were cleared.
LEMMA DropCustody == ASSUME SagaInv, NEW t \in Tasks, DeleteDrop(t) PROVE Custody!Next
  <1>0. PICK p : p = Proj(t)
    OBVIOUS
  <1>1. /\ call[t].pc = "clear" /\ Art(t) = NoArtifact /\ p \in Projects /\ p # NoProject
        /\ call[t].todo = {} /\ Ended(t) /\ UNCHANGED <<inKb, disturbed>>
        /\ ref' = [a \in Artifacts |-> IF ref[a] = p THEN NoProject ELSE ref[a]]
    BY <1>0, CallShape, EndEnds, Distinct DEF DeleteDrop, At, SagaInv
  <1>2. \A a : ~OnWay(t, a) /\ ~OnWay(t, a)'
    BY <1>1 DEF Ended, Idle, OnWay
  <1>3. \A a : (\E u \in Tasks : OnWay(u, a))' <=> (\E u \in Tasks : OnWay(u, a))
    BY <1>1, <1>2, SameWay DEF Ended
  <1>4. ASSUME NEW a \in Artifacts, Keeper(a) = p
        PROVE Stage(a) = "leaving" /\ Stage(a)' = "out" /\ Keeper(a)' = NoProject
    <2>1. a \notin disturbed /\ ref[a] = p /\ Tracked(a)
      BY <1>1, <1>4 DEF Keeper, Tracked
    <2>2. a \notin inKb
      BY <1>0, <1>1, <2>1 DEF SagaInv, ArtifactOk, ListedOnce, At
    <2>3. ref'[a] = NoProject /\ ~Tracked(a)'
      BY <1>1, <2>1 DEF Tracked
    <2> QED BY <1>1, <2>1, <2>2, <2>3 DEF Stage, Keeper
  <1>5. ASSUME NEW a \in Artifacts, Keeper(a) # p PROVE Unmoved(a)
    <2>1. a \in disturbed \/ (ref'[a] = ref[a] /\ (Tracked(a)' <=> Tracked(a)))
      BY <1>1, <1>5 DEF Keeper, Tracked
    <2> QED BY <1>1, <1>3, <2>1 DEF Unmoved, Stage, Keeper
  <1>6. /\ Stages' = [a \in Artifacts |-> IF Keepers[a] = p THEN "out" ELSE Stages[a]]
        /\ Keepers' = [a \in Artifacts |-> IF Keepers[a] = p THEN NoProject ELSE Keepers[a]]
        /\ \A a \in Artifacts : Keepers[a] = p => Stages[a] = "leaving"
    BY <1>4, <1>5 DEF Stages, Keepers, Unmoved
  <1>7. p \in Closing /\ Closing' \in {Closing, Closing \ {p}}
    <2>1. ~At(t, "clear")'
      BY <1>1 DEF Ended, Idle, At
    <2>2. \A u \in Tasks \ {t} : (At(u, "clear")' <=> At(u, "clear")) /\ Proj(u)' = Proj(u)
      BY <1>1 DEF Ended, Others, At, Proj
    <2> QED BY <1>0, <1>1, <2>1, <2>2 DEF Closing, At
  <1> QED BY <1>1, <1>6, <1>7 DEF Custody!Next, Custody!EndProject

\* What a crash finds on its way it loses sight of.
LEMMA CrashCustody == ASSUME SagaInv, Crash PROVE Custody!Next
  <1>1. /\ \A u \in Tasks : call'[u] = Idle
        /\ UNCHANGED <<ref, inKb>> /\ disturbed \subseteq disturbed'
        /\ \A a \in Artifacts, u \in Tasks :
             Art(u) = a \/ (call[u].op = "delete" /\ ref[a] = Proj(u)) => a \in disturbed'
    BY DEF Crash, Fault
  <1>2. \A a \in Artifacts \ disturbed' : Unmoved(a)
    <2>1. ASSUME NEW a \in Artifacts \ disturbed' PROVE \A u \in Tasks : OnWay(u, a)' <=> OnWay(u, a)
      BY <1>1, <2>1 DEF OnWay, Idle
    <2> QED BY <1>1, <2>1, SameStage
  <1>3. ASSUME NEW a \in Artifacts, Stage(a) \in {"moving", "leaving"} PROVE a \in disturbed'
    <2>1. CASE \E u \in Tasks : OnWay(u, a)
      BY <1>1, <2>1 DEF OnWay
    <2>2. CASE a \notin disturbed /\ Tracked(a) /\ a \notin inKb
      BY <1>1, <2>2 DEF SagaInv, ArtifactOk, KeptInKb
    <2>3. a \notin disturbed
      BY <1>3 DEF Stage
    <2>4. (Tracked(a) /\ a \notin inKb) \/ \E u \in Tasks : OnWay(u, a)
      BY <1>3, <2>3 DEF Stage
    <2> QED BY <2>1, <2>2, <2>3, <2>4
  <1>4. \A a \in Artifacts : Stages[a] \in {"moving", "leaving"} => a \in Artifacts \cap disturbed'
    BY <1>3 DEF Stages
  <1>5. Closing' = {}
    BY <1>1 DEF Closing, At, Idle
  <1> QED BY <1>1, <1>2, <1>4, <1>5, LosesOnly DEF Custody!Next, Custody!Abort

LEMMA CustodyInit == Init => Custody!Init
  <1> SUFFICES ASSUME Init PROVE Custody!Init
    OBVIOUS
  <1>1. \A a \in Artifacts : Stage(a) = "out" /\ Keeper(a) = NoProject
    BY DEF Init, Stage, Keeper, Tracked
  <1>2. Closing = {}
    BY DEF Init, Closing, At, Idle
  <1> QED BY <1>1, <1>2 DEF Custody!Init, Stages, Keepers

LEMMA CustodyStep == ASSUME SagaInv, [Next]_vars PROVE [Custody!Next]_(Custody!custody)
  <1>1. CASE UNCHANGED vars
    BY <1>1 DEF vars, Custody!custody, Stages, Keepers, Closing, Stage, Keeper, Tracked, OnWay, Art,
                At, Proj
  <1>2. ASSUME NEW p \in Projects, Archive(p) \/ Unarchive(p) PROVE UNCHANGED Custody!custody
    BY <1>2 DEF Archive, Unarchive, Custody!custody, Stages, Keepers, Closing, Stage, Keeper,
                Tracked, OnWay, Art, At, Proj
  <1>3. ASSUME NEW t \in Tasks, MigrateStep(t) \/ RemoveRef(t) \/ DeleteStep(t) PROVE Custody!Next
    BY <1>3, CheckCustody, MoveCustody, InsertCustody, RollbackCustody, RemoveCustody, ListCustody,
       ClearCustody, DropCustody
       DEF MigrateStep, DeleteStep
  <1> QED BY <1>1, <1>2, <1>3, BeginCustody, CrashCustody DEF Next

\* The saga implements the custody of ArtifactCustody: whatever migrations, removals and
\* deletions overlap, an artifact nothing disturbed goes into a project by flag and then
\* reference, and out of it by the deletion of that project or remove_artifact, each in
\* this order.
THEOREM ImplementsCustody == Spec => CustodySpec
  BY CustodyInit, CustodyStep, SpecSaga, PTL DEF Spec, CustodySpec, Custody!Spec

===============================================================================
