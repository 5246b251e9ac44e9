------------------------- MODULE SchemaMigrationProofs -------------------------
(***************************************************************************)
(* Opening the database: no kill and no failing statement loses a chat, a  *)
(* process that came up serves the whole schema, and residues of a rebuild *)
(* block one start at most, for any number of processes, faults and        *)
(* rollbacks.                                                              *)
(***************************************************************************)
EXTENDS SchemaMigration, TLAPS

-----------------------------------------------------------------------------
(* The rebuild of chats *)

\* From its first INSERT to its end a rebuild runs in the one write transaction.
Held == \A p \in Procs : pc[p] \in {"drop", "rename", "commit"} => tx = p

\* What the transaction sees: the old rows until they are dropped, the copied ones in
\* chats_new until it takes the name; it changes nothing but the table chats.
Rebuilding ==
  tx # NoProc =>
    /\ work.cols = db.cols /\ work.idx = db.idx /\ work.version = db.version
    /\ pc[tx] \in {"drop", "rename"} => work.chats_new = "full"
    /\ pc[tx] = "commit" => work.rows /\ work.chats = "loose"

\* Steps at which chats has its current shape: all that follow the rebuild.
HasAlways == {"idx_always", "version", "stamp", "up"}
HasTenant == {"idx_tenant", "always?", "always"} \cup HasAlways
HasMessages == {"instr", "tenant?", "tenant"} \cup HasTenant
Rebuilt == {"snapshots?", "messages"} \cup HasMessages \cup Rolling

ChatsThere ==
  /\ \A p \in Procs : pc[p] # "off" => db.chats # "none"
  /\ \A p \in Procs : pc[p] \in Rebuilt => db.chats = "loose"

\* A database of a newer release is left alone, and a rollback goes down.
VersionsDown ==
  \A p \in Procs :
    /\ pc[p] \in {"stamp", "up"} \cup Rolling => db.version <= SchemaVersion
    /\ pc[p] \in Rolling => roll[p].target < roll[p].from /\ roll[p].from <= SchemaVersion

RebuildInv == TypeOK /\ Held /\ Rebuilding /\ ChatsThere /\ VersionsDown /\ ChatsKept

-----------------------------------------------------------------------------
(* The columns *)

\* A start that no rollback undercut has the columns it looked for.
ColumnsSure ==
  \A p \in Procs \ undercut :
    /\ pc[p] \in HasMessages => "messages" \in db.cols
    /\ pc[p] \in HasTenant => "tenant" \in db.cols
    /\ pc[p] \in HasAlways => "always" \in db.cols

\* Half of the first migration: someone is between its two statements, or was killed there.
HalfMigrated ==
  "messages" \in db.cols /\ "instr" \notin db.cols =>
    faults > 0 \/ \E q \in Procs : pc[q] \in {"instr", "messages-"}

\* A rollback that is half way through that migration undercut everyone.
HalfUndone ==
  (\E q \in Procs : pc[q] = "messages-") => \A p \in Procs : pc[p] # "off" => p \in undercut

ColumnsInv == ColumnsSure /\ HalfMigrated /\ HalfUndone

-----------------------------------------------------------------------------
(* Starts that fail *)

\* A start that nothing disturbed is the only one, and no rollback runs.
Calm(p) == IsStarting(p) /\ p \notin disturbed
CalmAlone ==
  \A p \in Procs : Calm(p) => \A q \in Procs \ {p} : pc[q] \notin Starting \cup Rolling

\* What lets a start come up: no residue of a rebuild that is still to be done, and not
\* the second column of the first migration without the first.
Paired == "instr" \in db.cols => "messages" \in db.cols
Ready == Paired /\ (db.chats = "strict" => db.chats_new = "none")

\* What a calm start found, and what it relies on after one that was blocked.
CalmOk(p) ==
  /\ pc[p] \in {"chats", "create"} => (blocked > 0 => Ready)
  /\ pc[p] \in {"create", "copy", "drop", "rename", "commit", "undo"} => db.chats = "strict"
  /\ pc[p] = "copy" => db.chats_new = "empty"
  /\ pc[p] = "undo" => blocked = 0 /\ tx # p
  /\ pc[p] \notin {"undo", "instr"} => (blocked > 0 => Paired)
  /\ pc[p] = "messages" => "messages" \notin db.cols
  /\ pc[p] = "instr" => "messages" \in db.cols /\ (blocked > 0 => "instr" \notin db.cols)
  /\ pc[p] = "tenant" => "tenant" \notin db.cols
  /\ pc[p] = "idx_tenant" => "tenant" \in db.cols
  /\ pc[p] = "always" => "always" \notin db.cols
  /\ pc[p] = "idx_always" => "always" \in db.cols

StrictPaired == db.chats = "strict" => Paired

\* Between starts: after one that was blocked the next is ready, also when a rollback
\* under way is done.
IdleReady ==
  blocked > 0 /\ (\A p \in Procs : ~IsStarting(p)) =>
    Ready /\ ((\E q \in Procs : pc[q] = "messages-") => "instr" \notin db.cols)

BlockedInv ==
  /\ CalmAlone /\ StrictPaired
  /\ db.version <= SchemaVersion =>
       blocked <= 1 /\ IdleReady /\ \A p \in Procs : Calm(p) => CalmOk(p)

SchemaInv == RebuildInv /\ ColumnsInv /\ BlockedInv

-----------------------------------------------------------------------------
(* How statements act on what is invariant *)

Steps == {"off", "up", "failed"} \cup Starting \cup Rolling

LEMMA TypedStep ==
  ASSUME Bounds, TypeOK, NEW p \in Procs, NEW step \in Steps, pc' = [pc EXCEPT ![p] = step],
         db' \in Database, work' \in Database, tx' \in {tx, p, NoProc},
         tx' = p => step \in {"drop", "rename", "commit", "undo"},
         roll' = roll \/ \E from, target \in 0..SchemaVersion + 1 :
                            roll' = [roll EXCEPT ![p] = [from |-> from, target |-> target]],
         faults' \in 0..MaxFaults, rolls' \in 0..MaxRolls,
         undercut' \subseteq Procs, disturbed' \subseteq Procs, blocked' \in 0..2
  PROVE TypeOK'
  <1>1. pc' \in [Procs -> Steps] /\ roll' \in [Procs -> [from: 0..SchemaVersion + 1, target: 0..SchemaVersion + 1]]
    BY DEF TypeOK, Steps
  <1>2. tx' # NoProc => pc'[tx'] \in {"drop", "rename", "commit", "undo"}
    BY DEF Bounds, TypeOK
  <1>3. tx' \in Procs \cup {NoProc}
    BY DEF TypeOK
  <1> QED BY <1>1, <1>2, <1>3 DEF TypeOK, Steps

\* A start ends with what it leaves in the histories.
LEMMA EndTyped ==
  ASSUME TypeOK, NEW p \in Procs, NEW end, EndStart(p, end)
  PROVE undercut' \subseteq Procs /\ disturbed' \subseteq Procs /\ blocked' \in 0..2
  BY DEF EndStart, TypeOK

\* Outside a transaction a process that may write changes the database itself.
LEMMA WriteAlone ==
  ASSUME Bounds, TypeOK, NEW p \in Procs, pc[p] \notin {"drop", "rename", "commit", "undo"},
         NEW new, Write(p, new)
  PROVE tx = NoProc /\ tx' = NoProc /\ db' = new /\ work' = new /\ UNCHANGED <<roll, faults, rolls>>
  BY DEF Bounds, TypeOK, MayWrite, Write

\* The steps of a process that neither opens, holds nor ends a transaction.
LEMMA WriteSteps ==
  ASSUME Bounds, RebuildInv, NEW p \in Procs, NEW step \in Steps, NEW new \in Database,
         pc[p] \notin {"drop", "rename", "commit"}, step \notin {"drop", "rename", "commit"},
         tx = NoProc, tx' = NoProc, db' = new, work' = new, pc' = [pc EXCEPT ![p] = step],
         new.rows, new.chats # "none",
         db.chats # "none" => new.chats = db.chats,
         step \in Rebuilt => new.chats = "loose"
  PROVE Held' /\ Rebuilding' /\ ChatsThere' /\ ChatsKept'
  <1>1. pc'[p] = step /\ \A q \in Procs : q # p => pc'[q] = pc[q]
    BY DEF RebuildInv, TypeOK
  <1>2. Held' /\ Rebuilding' /\ ChatsKept'
    BY <1>1 DEF RebuildInv, Held, Rebuilding, ChatsKept
  <1>3. \A q \in Procs : q # p =>
          (pc[q] # "off" => db.chats # "none") /\ (pc[q] \in Rebuilt => db.chats = "loose")
    BY DEF RebuildInv, ChatsThere
  <1>4. ChatsThere'
    BY <1>1, <1>3 DEF ChatsThere
  <1> QED BY <1>2, <1>4

\* The steps of a process that leave the database and the transaction as they are.
LEMMA PcSteps ==
  ASSUME Bounds, RebuildInv, NEW p \in Procs, NEW step \in Steps,
         step \notin {"drop", "rename", "commit"},
         UNCHANGED <<db, tx, work>>, pc' = [pc EXCEPT ![p] = step],
         step # "off" => db.chats # "none",
         step \in Rebuilt => db.chats = "loose"
  PROVE Held' /\ Rebuilding' /\ ChatsThere' /\ ChatsKept'
  <1>1. pc'[p] = step /\ \A q \in Procs : q # p => pc'[q] = pc[q]
    BY DEF RebuildInv, TypeOK
  <1>2. Held' /\ ChatsThere' /\ ChatsKept'
    BY <1>1 DEF RebuildInv, Held, ChatsThere, ChatsKept
  <1>3. Rebuilding'
    BY <1>1 DEF Bounds, RebuildInv, TypeOK, Rebuilding
  <1> QED BY <1>2, <1>3

LEMMA VersionSteps ==
  ASSUME Bounds, RebuildInv, NEW p \in Procs, NEW step \in Steps, pc' = [pc EXCEPT ![p] = step],
         db'.version = db.version \/ db'.version <= SchemaVersion,
         step \in {"stamp", "up"} \cup Rolling => db'.version <= SchemaVersion,
         \A q \in Procs : q # p => roll'[q] = roll[q],
         step \in Rolling => roll'[p].target < roll'[p].from /\ roll'[p].from <= SchemaVersion
  PROVE VersionsDown'
  <1>1. pc'[p] = step /\ \A q \in Procs : q # p => pc'[q] = pc[q]
    BY DEF RebuildInv, TypeOK
  <1>2. \A q \in Procs : q # p =>
          /\ pc[q] \in {"stamp", "up"} \cup Rolling => db.version <= SchemaVersion
          /\ pc[q] \in Rolling => roll[q].target < roll[q].from /\ roll[q].from <= SchemaVersion
    BY DEF RebuildInv, VersionsDown
  <1> QED BY <1>1, <1>2 DEF VersionsDown

\* A statement outside the rebuild.
LEMMA PlainWrite ==
  ASSUME Bounds, RebuildInv, NEW p \in Procs, NEW step \in Steps, NEW new \in Database,
         pc[p] \notin {"drop", "rename", "commit", "undo"}, step \notin {"drop", "rename", "commit"},
         Write(p, new), pc' = [pc EXCEPT ![p] = step],
         new.rows = db.rows, new.chats # "none",
         db.chats # "none" => new.chats = db.chats,
         step \in Rebuilt => new.chats = "loose",
         new.version = db.version \/ new.version <= SchemaVersion,
         step \in {"stamp", "up"} \cup Rolling => new.version <= SchemaVersion,
         step \in Rolling => pc[p] \in Rolling,
         undercut' \subseteq Procs, disturbed' \subseteq Procs, blocked' \in 0..2
  PROVE RebuildInv'
  <1>1. tx = NoProc /\ tx' = NoProc /\ db' = new /\ work' = new /\ UNCHANGED <<roll, faults, rolls>>
    BY WriteAlone DEF RebuildInv
  <1>2. TypeOK'
    <2>1. TypeOK /\ p # NoProc
      BY DEF Bounds, RebuildInv
    <2>2. faults' \in 0..MaxFaults /\ rolls' \in 0..MaxRolls
      BY <1>1, <2>1 DEF TypeOK
    <2> QED BY <1>1, <2>1, <2>2, TypedStep
  <1>3. new.rows
    BY DEF RebuildInv, ChatsKept
  <1>4. Held' /\ Rebuilding' /\ ChatsThere' /\ ChatsKept'
    BY <1>1, <1>3, WriteSteps
  <1>5. VersionsDown'
    <2>1. step \in Rolling => roll'[p].target < roll'[p].from /\ roll'[p].from <= SchemaVersion
      BY <1>1 DEF RebuildInv, VersionsDown
    <2> QED BY <1>1, <2>1, VersionSteps
  <1> QED BY <1>2, <1>4, <1>5 DEF RebuildInv

\* A step that looks at the database.
LEMMA PlainRead ==
  ASSUME Bounds, RebuildInv, NEW p \in Procs, NEW step \in Steps,
         pc[p] \notin {"off", "drop", "rename", "commit", "undo"},
         step \notin {"drop", "rename", "commit"},
         UNCHANGED <<db, tx, work, faults>>, pc' = [pc EXCEPT ![p] = step],
         step \in Rebuilt => db.chats = "loose",
         step \in {"stamp", "up"} \cup Rolling => db.version <= SchemaVersion,
         UNCHANGED roll \/ \E from, target \in 0..SchemaVersion :
             target < from /\ roll' = [roll EXCEPT ![p] = [from |-> from, target |-> target]],
         step \in Rolling => ~UNCHANGED roll \/ pc[p] \in Rolling,
         rolls' \in 0..MaxRolls, undercut' \subseteq Procs, disturbed' \subseteq Procs, blocked' \in 0..2
  PROVE RebuildInv'
  <1>0. tx # p
    BY DEF Bounds, RebuildInv, TypeOK
  <1>1. TypeOK'
    <2>1. TypeOK /\ db' \in Database /\ work' \in Database /\ tx' \in {tx, p, NoProc} /\ tx' # p /\ faults' \in 0..MaxFaults
      BY <1>0 DEF RebuildInv, TypeOK
    <2>2. roll' = roll \/ \E from, target \in 0..SchemaVersion + 1 :
                            roll' = [roll EXCEPT ![p] = [from |-> from, target |-> target]]
      BY DEF SchemaVersion
    <2> QED BY <2>1, <2>2, TypedStep
  <1>2. db.chats # "none"
    BY DEF RebuildInv, ChatsThere
  <1>3. Held' /\ Rebuilding' /\ ChatsThere' /\ ChatsKept'
    BY <1>2, PcSteps
  <1>4. VersionsDown'
    <2>1. \A q \in Procs : q # p => roll'[q] = roll[q]
      BY DEF RebuildInv, TypeOK
    <2>2. CASE UNCHANGED roll
      <3>1. step \in Rolling => roll'[p].target < roll'[p].from /\ roll'[p].from <= SchemaVersion
        BY <2>2 DEF RebuildInv, VersionsDown
      <3> QED BY <2>1, <3>1, VersionSteps
    <2>3. CASE ~UNCHANGED roll
      <3>1. PICK from, target \in 0..SchemaVersion :
              target < from /\ roll' = [roll EXCEPT ![p] = [from |-> from, target |-> target]]
        BY <2>3
      <3>2. roll'[p].target < roll'[p].from /\ roll'[p].from <= SchemaVersion
        BY <3>1 DEF RebuildInv, TypeOK, SchemaVersion
      <3> QED BY <2>1, <3>2, VersionSteps
    <2> QED BY <2>2, <2>3
  <1> QED BY <1>1, <1>3, <1>4 DEF RebuildInv

LEMMA RebuildInit == ASSUME Bounds, Init PROVE RebuildInv
  <1>1. db \in Database /\ db.rows
    <2>1. CASE db \in Legacy
      <3>1. PICK c \in {"strict", "loose"}, k \in {{}, {"messages", "instr"}, Columns \ {"always"}} :
              db = [chats |-> c, rows |-> TRUE, chats_new |-> "none", cols |-> k, idx |-> {}, version |-> 0]
        BY <2>1 DEF Legacy
      <3> QED BY <3>1 DEF Database, Columns, Indexed, SchemaVersion
    <2>2. CASE db = NewFile
      BY <2>2 DEF NewFile, Database, SchemaVersion
    <2>3. CASE db = Newer
      BY <2>3 DEF Newer, Database, SchemaVersion
    <2> QED BY <2>1, <2>2, <2>3 DEF Init
  <1>2. TypeOK
    BY <1>1 DEF Bounds, Init, TypeOK, SchemaVersion
  <1>3. Held /\ Rebuilding /\ ChatsThere /\ VersionsDown
    BY DEF Init, Held, Rebuilding, ChatsThere, VersionsDown, Rebuilt, HasMessages, HasTenant, HasAlways, Rolling
  <1> QED BY <1>1, <1>2, <1>3 DEF RebuildInv, ChatsKept

-----------------------------------------------------------------------------
(* _ensure_schema *)

LEMMA StepSets ==
  /\ Steps = {"off", "up", "failed", "create", "copy", "drop", "rename", "commit", "undo", "stamp",
              "messages", "instr", "tenant", "idx_tenant", "always", "idx_always", "chats",
              "snapshots?", "tenant?", "always?", "version", "idx_always-", "always-", "tenant-",
              "instr-", "messages-", "version-"}
  /\ Rebuilt = {"snapshots?", "messages", "instr", "tenant?", "tenant", "idx_tenant", "always?",
                "always", "idx_always", "version", "stamp", "up"} \cup Rolling
  BY DEF Steps, Starting, Statements, Checks, After, Rolling, Rebuilt, HasMessages, HasTenant, HasAlways

LEMMA OpenRebuild == ASSUME Bounds, RebuildInv, NEW p \in Procs, Open(p) PROVE RebuildInv'
  <1> DEFINE new == IF db.chats = "none" THEN [db EXCEPT !.chats = "loose", !.cols = Columns] ELSE db
  <1>1. pc[p] = "off" /\ Write(p, new) /\ pc' = [pc EXCEPT ![p] = "chats"]
    BY DEF Open, At, Goto
  <1>2. undercut' \subseteq Procs /\ disturbed' \subseteq Procs /\ blocked' \in 0..2
    BY DEF Open, RebuildInv, TypeOK
  <1>3. db \in Database
    BY DEF RebuildInv, TypeOK
  <1>4. new \in Database /\ new.rows = db.rows /\ new.chats # "none" /\ new.version = db.version
        /\ (db.chats # "none" => new.chats = db.chats)
    BY <1>3 DEF Database
  <1>5. "chats" \in Steps \ (Rebuilt \cup Rolling)
    BY StepSets DEF Rolling
  <1> HIDE DEF new
  <1> QED BY <1>1, <1>2, <1>4, <1>5, PlainWrite

LEMMA CheckRebuild ==
  ASSUME Bounds, RebuildInv, NEW p \in Procs, CheckChats(p) \/ CheckColumn(p) \/ CheckVersion(p)
  PROVE RebuildInv'
  <1>1. TypeOK /\ (db.chats # "none" \/ pc[p] = "off")
    BY DEF RebuildInv, ChatsThere
  <1>2. CASE CheckChats(p)
    <2> DEFINE step == IF db.chats = "strict" THEN "create" ELSE "snapshots?"
    <2>1. pc[p] = "chats" /\ pc' = [pc EXCEPT ![p] = step] /\ UNCHANGED <<db, tx, work, roll, faults, rolls, ghosts>>
      BY <1>2 DEF CheckChats, Read, At, Goto
    <2>2. db.chats = "strict" \/ db.chats = "loose"
      BY <1>1, <2>1 DEF RebuildInv, TypeOK, Database
    <2>3. step \in Steps \ {"drop", "rename", "commit", "stamp", "up"} /\ step \notin Rolling
          /\ (step \in Rebuilt => db.chats = "loose")
      BY <2>2, StepSets DEF Rolling
    <2>4. rolls' \in 0..MaxRolls /\ undercut' \subseteq Procs /\ disturbed' \subseteq Procs /\ blocked' \in 0..2
      BY <2>1 DEF RebuildInv, TypeOK, ghosts
    <2> HIDE DEF step
    <2> QED BY <2>1, <2>3, <2>4, PlainRead
  <1>3. CASE CheckColumn(p)
    <2>1. PICK step \in {"messages", "tenant?", "tenant", "always?", "always", "version"} :
            pc[p] \in {"snapshots?", "tenant?", "always?"} /\ pc' = [pc EXCEPT ![p] = step]
            /\ UNCHANGED <<db, tx, work, roll, faults, rolls, ghosts>>
      BY <1>3 DEF CheckColumn, Read, At, Goto
    <2>2. db.chats = "loose"
      BY <2>1, StepSets DEF RebuildInv, ChatsThere
    <2>3. step \in Steps \ {"drop", "rename", "commit", "stamp", "up"} /\ step \notin Rolling
      BY StepSets DEF Rolling
    <2>4. rolls' \in 0..MaxRolls /\ undercut' \subseteq Procs /\ disturbed' \subseteq Procs /\ blocked' \in 0..2
      BY <2>1 DEF RebuildInv, TypeOK, ghosts
    <2> QED BY <2>1, <2>2, <2>3, <2>4, PlainRead
  <1>4. CASE CheckVersion(p)
    <2>1. PICK step \in {"stamp", "up", "failed"} :
            /\ pc[p] = "version" /\ pc' = [pc EXCEPT ![p] = step]
            /\ UNCHANGED <<db, tx, work, roll, faults, rolls>>
            /\ step \in {"stamp", "up"} => db.version <= SchemaVersion
      BY <1>4 DEF CheckVersion, EndStart, At, Goto, RebuildInv, TypeOK, Database, SchemaVersion
    <2>2. db.chats = "loose"
      BY <2>1, StepSets DEF RebuildInv, ChatsThere
    <2>3. step \in Steps /\ step \notin Rolling
      BY StepSets DEF Rolling
    <2>4. rolls' \in 0..MaxRolls /\ undercut' \subseteq Procs /\ disturbed' \subseteq Procs /\ blocked' \in 0..2
      BY <1>4, <2>1, EndTyped DEF CheckVersion, RebuildInv, TypeOK, ghosts
    <2> QED BY <2>1, <2>2, <2>3, <2>4, PlainRead
  <1> QED BY <1>2, <1>3, <1>4

LEMMA CreateRebuild == ASSUME Bounds, RebuildInv, NEW p \in Procs, CreateNew(p) PROVE RebuildInv'
  <1>1. PICK step \in {"copy", "undo"}, new \in {db, [db EXCEPT !.chats_new = "empty"]} :
          pc[p] = "create" /\ Write(p, new) /\ pc' = [pc EXCEPT ![p] = step] /\ UNCHANGED ghosts
    BY DEF CreateNew, At, Goto
  <1>2. db \in Database /\ db.chats # "none"
    BY <1>1 DEF RebuildInv, TypeOK, ChatsThere
  <1>3. new \in Database /\ new.rows = db.rows /\ new.chats = db.chats /\ new.version = db.version
    BY <1>2 DEF Database
  <1>4. step \in Steps \ (Rebuilt \cup Rolling) /\ step \notin {"stamp", "up"}
    BY StepSets DEF Rolling
  <1>5. undercut' \subseteq Procs /\ disturbed' \subseteq Procs /\ blocked' \in 0..2
    BY <1>1 DEF RebuildInv, TypeOK, ghosts
  <1> QED BY <1>1, <1>2, <1>3, <1>4, <1>5, PlainWrite

\* The column and index statements and the version stamp: the table chats is not theirs.
LEMMA ColumnRebuild ==
  ASSUME Bounds, RebuildInv, NEW p \in Procs,
         \/ \E c \in Columns : AddColumn(p, c)
         \/ \E c \in Indexed : CreateIndex(p, c)
         \/ StampVersion(p)
  PROVE RebuildInv'
  <1>1. db \in Database /\ work \in Database
    BY DEF RebuildInv, TypeOK
  <1>2. PICK step \in {"failed", "up", "instr", "tenant?", "idx_tenant", "always?", "idx_always", "version"},
              cols \in SUBSET Columns, idx \in SUBSET Indexed, version \in {db.version, SchemaVersion} :
          /\ pc[p] \in {"messages", "instr", "tenant", "idx_tenant", "always", "idx_always", "stamp"}
          /\ Write(p, [db EXCEPT !.cols = cols, !.idx = idx, !.version = version])
          /\ pc' = [pc EXCEPT ![p] = step]
          /\ undercut' \subseteq Procs /\ disturbed' \subseteq Procs /\ blocked' \in 0..2
          /\ step = "up" => version <= SchemaVersion
    <2> DEFINE Goal(step, cols, idx, version) ==
          /\ pc[p] \in {"messages", "instr", "tenant", "idx_tenant", "always", "idx_always", "stamp"}
          /\ Write(p, [db EXCEPT !.cols = cols, !.idx = idx, !.version = version])
          /\ pc' = [pc EXCEPT ![p] = step]
          /\ undercut' \subseteq Procs /\ disturbed' \subseteq Procs /\ blocked' \in 0..2
          /\ step = "up" => version <= SchemaVersion
    <2>0. db = [db EXCEPT !.cols = db.cols, !.idx = db.idx, !.version = db.version]
          /\ db.cols \in SUBSET Columns /\ db.idx \in SUBSET Indexed
      BY <1>1 DEF Database
    <2>1. ASSUME NEW c \in Columns, AddColumn(p, c), c \in db.cols
          PROVE Goal("failed", db.cols, db.idx, db.version)
      BY <2>0, <2>1, EndTyped DEF AddColumn, At, Columns, EndStart, Goto, RebuildInv
    <2>2. ASSUME NEW c \in Columns, AddColumn(p, c), c \notin db.cols
          PROVE Goal(Following(c), db.cols \cup {c}, db.idx, db.version)
                /\ Following(c) \in {"instr", "tenant?", "idx_tenant", "idx_always"}
      <3>1. [db EXCEPT !.cols = @ \cup {c}]
              = [db EXCEPT !.cols = db.cols \cup {c}, !.idx = db.idx, !.version = db.version]
        BY <1>1 DEF Database
      <3>2. Following(c) \in {"instr", "tenant?", "idx_tenant", "idx_always"}
        BY <2>2 DEF Following, After, Columns
      <3> QED BY <2>2, <3>1, <3>2 DEF AddColumn, At, Columns, Goto, RebuildInv, TypeOK, ghosts
    <2>3. ASSUME NEW c \in Indexed, CreateIndex(p, c), c \notin db.cols
          PROVE Goal("failed", db.cols, db.idx, db.version)
      BY <2>0, <2>3, EndTyped DEF CreateIndex, At, Indexed, IndexStep, EndStart, Goto, RebuildInv
    <2>4. ASSUME NEW c \in Indexed, CreateIndex(p, c), c \in db.cols
          PROVE Goal(Following(IndexStep[c]), db.cols, db.idx \cup {c}, db.version)
                /\ Following(IndexStep[c]) \in {"always?", "version"}
      <3>1. [db EXCEPT !.idx = @ \cup {c}]
              = [db EXCEPT !.cols = db.cols, !.idx = db.idx \cup {c}, !.version = db.version]
        BY <1>1 DEF Database
      <3>2. Following(IndexStep[c]) \in {"always?", "version"}
        BY <2>4 DEF Following, After, Indexed, IndexStep
      <3> QED BY <2>4, <3>1, <3>2 DEF CreateIndex, At, Indexed, IndexStep, Goto, RebuildInv, TypeOK, ghosts
    <2>5. ASSUME StampVersion(p)
          PROVE Goal("up", db.cols, db.idx, SchemaVersion)
      <3>1. [db EXCEPT !.version = SchemaVersion]
              = [db EXCEPT !.cols = db.cols, !.idx = db.idx, !.version = SchemaVersion]
        BY <1>1 DEF Database
      <3>2. SchemaVersion <= SchemaVersion
        BY DEF SchemaVersion
      <3>3. undercut' \subseteq Procs /\ disturbed' \subseteq Procs /\ blocked' \in 0..2
        BY <2>5, EndTyped DEF StampVersion, RebuildInv
      <3> QED BY <2>5, <3>1, <3>2, <3>3 DEF StampVersion, At, EndStart, Goto
    <2>6. \A c \in Columns : db.cols \cup {c} \in SUBSET Columns
      BY <2>0
    <2>7. \A c \in Indexed : db.idx \cup {c} \in SUBSET Indexed
      BY <2>0
    <2> HIDE DEF Goal
    <2>8. \E step \in {"failed", "up", "instr", "tenant?", "idx_tenant", "always?", "idx_always", "version"},
             cols \in SUBSET Columns, idx \in SUBSET Indexed, version \in {db.version, SchemaVersion} :
            Goal(step, cols, idx, version)
      <3>1. CASE \E c \in Columns : AddColumn(p, c)
        <4>1. PICK c \in Columns : AddColumn(p, c)
          BY <3>1
        <4>2. CASE c \in db.cols
          BY <2>0, <2>1, <4>1, <4>2
        <4>3. CASE c \notin db.cols
          <5>1. Goal(Following(c), db.cols \cup {c}, db.idx, db.version)
            BY <2>2, <4>1, <4>3
          <5>2. Following(c) \in {"instr", "tenant?", "idx_tenant", "idx_always"}
            BY <2>2, <4>1, <4>3
          <5> QED BY <2>0, <2>6, <5>1, <5>2
        <4> QED BY <4>2, <4>3
      <3>2. CASE \E c \in Indexed : CreateIndex(p, c)
        <4>1. PICK c \in Indexed : CreateIndex(p, c)
          BY <3>2
        <4>2. CASE c \notin db.cols
          BY <2>0, <2>3, <4>1, <4>2
        <4>3. CASE c \in db.cols
          <5>1. Goal(Following(IndexStep[c]), db.cols, db.idx \cup {c}, db.version)
            BY <2>4, <4>1, <4>3
          <5>2. Following(IndexStep[c]) \in {"always?", "version"}
            BY <2>4, <4>1, <4>3
          <5> QED BY <2>0, <2>7, <5>1, <5>2
        <4> QED BY <4>2, <4>3
      <3>3. CASE StampVersion(p)
        BY <2>0, <2>5, <3>3
      <3> QED BY <3>1, <3>2, <3>3
    <2> QED BY <2>8 DEF Goal
  <1> DEFINE new == [db EXCEPT !.cols = cols, !.idx = idx, !.version = version]
  <1>3. db.chats = "loose"
    BY <1>2, StepSets DEF RebuildInv, ChatsThere
  <1>4. new \in Database /\ new.rows = db.rows /\ new.chats = db.chats /\ new.version = version
    <2>1. version \in 0..SchemaVersion + 1
      BY <1>1 DEF Database, SchemaVersion
    <2> QED BY <1>1, <2>1 DEF Database
  <1>5. step \in Steps /\ step \notin Rolling /\ step \notin {"stamp", "drop", "rename", "commit"}
    BY StepSets DEF Rolling
  <1>6. new.version = db.version \/ new.version <= SchemaVersion
    BY <1>4 DEF SchemaVersion
  <1>7. Write(p, new)
    BY <1>2
  <1> HIDE DEF new
  <1> QED BY <1>2, <1>3, <1>4, <1>5, <1>6, <1>7, PlainWrite

-----------------------------------------------------------------------------
(* The rebuild itself *)

\* INSERT begins the transaction, or fails without the new table.
LEMMA CopyRebuild == ASSUME Bounds, RebuildInv, NEW p \in Procs, CopyRows(p) PROVE RebuildInv'
  <1>0. TypeOK /\ db \in Database /\ pc[p] = "copy" /\ tx = NoProc /\ p # NoProc
    BY DEF CopyRows, At, MayWrite, Bounds, RebuildInv, TypeOK
  <1>1. CASE db.chats_new = "none"
    <2>1. /\ UNCHANGED <<db, tx, work, roll, faults, rolls, ghosts>>
          /\ pc' = [pc EXCEPT ![p] = "undo"]
      BY <1>1 DEF CopyRows, Goto
    <2>2. rolls' \in 0..MaxRolls /\ undercut' \subseteq Procs /\ disturbed' \subseteq Procs /\ blocked' \in 0..2
      BY <2>1 DEF RebuildInv, TypeOK, ghosts
    <2>3. "undo" \in Steps \ (Rebuilt \cup Rolling)
      BY StepSets DEF Rolling
    <2> QED BY <1>0, <2>1, <2>2, <2>3, PlainRead
  <1>2. CASE db.chats_new # "none"
    <2>1. /\ tx' = p /\ work' = [db EXCEPT !.chats_new = "full"] /\ db' = db
          /\ pc' = [pc EXCEPT ![p] = "drop"] /\ UNCHANGED <<roll, faults, rolls, ghosts>>
      BY <1>2 DEF CopyRows, Goto
    <2>2. pc'[p] = "drop" /\ \A q \in Procs : q # p => pc'[q] = pc[q]
      BY <1>0, <2>1 DEF TypeOK
    <2>3. "drop" \in Steps \ (Rebuilt \cup Rolling)
      BY StepSets DEF Rolling
    <2>4. TypeOK'
      <3>1. work' \in Database
        BY <1>0, <2>1 DEF Database
      <3>2. faults' \in 0..MaxFaults /\ rolls' \in 0..MaxRolls /\ undercut' \subseteq Procs
            /\ disturbed' \subseteq Procs /\ blocked' \in 0..2 /\ roll' = roll
        BY <1>0, <2>1 DEF TypeOK, ghosts
      <3> QED BY <1>0, <2>1, <2>3, <3>1, <3>2, TypedStep
    <2>5. Held' /\ ChatsKept'
      BY <1>0, <2>1, <2>2 DEF Bounds, RebuildInv, Held, ChatsKept
    <2>6. Rebuilding'
      BY <1>0, <2>1, <2>2 DEF Rebuilding, Database
    <2>7. ChatsThere'
      BY <1>0, <2>1, <2>2, <2>3 DEF RebuildInv, ChatsThere
    <2>8. VersionsDown'
      BY <1>0, <2>1, <2>2, <2>3, VersionSteps
    <2> QED BY <2>4, <2>5, <2>6, <2>7, <2>8 DEF RebuildInv
  <1> QED BY <1>1, <1>2

\* The statements of the transaction change what it sees alone.
LEMMA InsideRebuild ==
  ASSUME Bounds, RebuildInv, NEW p \in Procs, DropOld(p) \/ Rename(p)
  PROVE RebuildInv'
  <1>1. TypeOK /\ tx = p /\ p # NoProc
    BY DEF RebuildInv, Held, Bounds, DropOld, Rename, At
  <1>2. work \in Database /\ work.chats_new = "full" /\ work.cols = db.cols /\ work.idx = db.idx
        /\ work.version = db.version
    BY <1>1 DEF RebuildInv, TypeOK, Rebuilding, DropOld, Rename, At
  <1>3. PICK step \in {"rename", "commit"} :
          /\ pc' = [pc EXCEPT ![p] = step] /\ db' = db
          /\ UNCHANGED <<tx, roll, faults, rolls, ghosts>>
          /\ step = "rename" => work' = [work EXCEPT !.chats = "none", !.rows = FALSE]
          /\ step = "commit" => work' = [work EXCEPT !.chats = "loose", !.rows = TRUE, !.chats_new = "none"]
    BY <1>1, <1>2 DEF DropOld, Rename, Write, Seen, Goto
  <1>4. pc'[p] = step /\ \A q \in Procs : q # p => pc'[q] = pc[q]
    BY <1>1, <1>3 DEF TypeOK
  <1>5. step \in Steps \ (Rebuilt \cup Rolling) /\ pc[p] # "off"
    BY StepSets DEF Rolling, DropOld, Rename, At
  <1>6. work' \in Database /\ work'.cols = db.cols /\ work'.idx = db.idx /\ work'.version = db.version
        /\ (step = "rename" => work'.chats_new = "full")
        /\ (step = "commit" => work'.rows /\ work'.chats = "loose")
    BY <1>2, <1>3 DEF Database
  <1>7. TypeOK'
    <2>1. faults' \in 0..MaxFaults /\ rolls' \in 0..MaxRolls /\ undercut' \subseteq Procs
          /\ disturbed' \subseteq Procs /\ blocked' \in 0..2 /\ roll' = roll /\ db' \in Database
      BY <1>1, <1>3 DEF TypeOK, ghosts
    <2> QED BY <1>1, <1>3, <1>5, <1>6, <2>1, TypedStep
  <1>8. Held' /\ Rebuilding' /\ ChatsKept'
    BY <1>1, <1>3, <1>4, <1>6 DEF RebuildInv, Held, Rebuilding, ChatsKept
  <1>9. ChatsThere'
    BY <1>3, <1>4, <1>5 DEF RebuildInv, ChatsThere
  <1>10. VersionsDown'
    BY <1>3, <1>5, VersionSteps
  <1> QED BY <1>7, <1>8, <1>9, <1>10 DEF RebuildInv

\* COMMIT makes it the database; a failed rebuild leaves the old table, with every row.
LEMMA OutOfRebuild ==
  ASSUME Bounds, RebuildInv, NEW p \in Procs, Commit(p) \/ Undo(p)
  PROVE RebuildInv'
  <1>1. TypeOK /\ p # NoProc /\ tx \in {p, NoProc}
    BY DEF RebuildInv, Held, Bounds, Commit, Undo, MayWrite, At
  <1>2. PICK step \in {"snapshots?", "failed"} :
          /\ pc' = [pc EXCEPT ![p] = step] /\ tx' = NoProc /\ work' = db'
          /\ UNCHANGED <<roll, faults, rolls>>
          /\ undercut' \subseteq Procs /\ disturbed' \subseteq Procs /\ blocked' \in 0..2
          /\ step = "snapshots?" => db'.chats = "loose"
          /\ db' \in Database /\ db'.rows /\ db'.version = db.version
          /\ db'.chats = db.chats \/ db'.chats = "loose"
    <2>1. CASE Commit(p)
      <3>1. tx = p /\ pc[p] = "commit"
        BY <2>1 DEF Commit, At, RebuildInv, Held
      <3>2. db' = work
        BY <2>1, <3>1 DEF Commit, Seen
      <3>3. db' \in Database /\ db'.rows /\ db'.version = db.version /\ db'.chats = "loose"
        BY <1>1, <3>1, <3>2 DEF RebuildInv, TypeOK, Rebuilding
      <3>4. undercut' \subseteq Procs /\ disturbed' \subseteq Procs /\ blocked' \in 0..2
        BY <1>1, <2>1 DEF TypeOK, Commit, ghosts
      <3> QED BY <2>1, <3>3, <3>4 DEF Commit, Goto
    <2>2. CASE Undo(p)
      <3>1. db' \in {db, [db EXCEPT !.chats_new = "none"]} /\ db \in Database
        BY <1>1, <2>2 DEF Undo, TypeOK
      <3>2. db' \in Database /\ db'.rows /\ db'.version = db.version /\ db'.chats = db.chats
        BY <3>1 DEF RebuildInv, ChatsKept, Database
      <3>3. undercut' \subseteq Procs /\ disturbed' \subseteq Procs /\ blocked' \in 0..2
        BY <1>1, <2>2, EndTyped DEF Undo
      <3> QED BY <2>2, <3>2, <3>3 DEF Undo, EndStart, Goto
    <2> QED BY <2>1, <2>2
  <1>3. pc'[p] = step /\ \A q \in Procs : q # p => pc'[q] = pc[q]
    BY <1>1, <1>2 DEF TypeOK
  <1>4. step \in Steps /\ step \notin Rolling /\ "failed" \notin Rebuilt /\ pc[p] # "off"
    BY StepSets DEF Rolling, Commit, Undo, At
  <1>5. TypeOK'
    <2>1. faults' \in 0..MaxFaults /\ rolls' \in 0..MaxRolls /\ tx' # p
      BY <1>1, <1>2 DEF TypeOK
    <2> QED BY <1>1, <1>2, <1>4, <2>1, TypedStep
  <1>6. Held'
    BY <1>1, <1>2, <1>3 DEF RebuildInv, Held
  <1>7. Rebuilding' /\ ChatsKept'
    BY <1>2 DEF Rebuilding, ChatsKept
  <1>8. ChatsThere'
    <2>1. \A q \in Procs : pc[q] \in Rebuilt => db.chats = "loose"
      BY DEF RebuildInv, ChatsThere
    <2>2. db.chats # "none"
      BY <1>4 DEF RebuildInv, ChatsThere
    <2> QED BY <1>2, <1>3, <1>4, <2>1, <2>2 DEF ChatsThere
  <1>9. VersionsDown'
    BY <1>2, <1>4, VersionSteps
  <1> QED BY <1>5, <1>6, <1>7, <1>8, <1>9 DEF RebuildInv

LEMMA FailsRebuild == ASSUME Bounds, RebuildInv, NEW p \in Procs, StatementFails(p) PROVE RebuildInv'
  <1>1. /\ pc[p] \in {"copy", "drop", "rename"} /\ pc' = [pc EXCEPT ![p] = "undo"]
        /\ UNCHANGED <<db, tx, work, roll, rolls>>
        /\ faults' \in 0..MaxFaults /\ undercut' \subseteq Procs /\ disturbed' \subseteq Procs /\ blocked' \in 0..2
    BY DEF StatementFails, Goto, RebuildInv, TypeOK, Bounds
  <1>2. "undo" \in Steps \ (Rebuilt \cup Rolling)
    BY StepSets DEF Rolling
  <1>3. TypeOK'
    <2>1. TypeOK /\ db' \in Database /\ work' \in Database /\ rolls' \in 0..MaxRolls
      BY <1>1 DEF RebuildInv, TypeOK
    <2> QED BY <1>1, <1>2, <2>1, TypedStep
  <1>4. db.chats # "none"
    BY <1>1 DEF RebuildInv, ChatsThere
  <1>5. Held' /\ Rebuilding' /\ ChatsThere' /\ ChatsKept'
    BY <1>1, <1>2, <1>4, PcSteps
  <1>6. VersionsDown'
    BY <1>1, <1>2, VersionSteps
  <1> QED BY <1>3, <1>5, <1>6 DEF RebuildInv

\* SQLite rolls the transaction of a process that ends back.
LEMMA EndRebuild == ASSUME Bounds, RebuildInv, NEW p \in Procs, Kill(p) \/ Stop(p) PROVE RebuildInv'
  <1>0. TypeOK /\ p # NoProc
    BY DEF RebuildInv, Bounds
  <1>1. /\ pc' = [pc EXCEPT ![p] = "off"] /\ db' = db
        /\ tx' = (IF tx = p THEN NoProc ELSE tx) /\ work' = (IF tx = p THEN db ELSE work)
        /\ UNCHANGED <<roll, rolls, undercut, disturbed>>
    BY <1>0 DEF Kill, Stop, End, TypeOK
  <1>2. faults' \in 0..MaxFaults /\ blocked' \in 0..2
    BY <1>0 DEF Kill, Stop, TypeOK, Bounds
  <1>3. "off" \in Steps \ (Rebuilt \cup Rolling) /\ pc'[p] = "off" /\ \A q \in Procs : q # p => pc'[q] = pc[q]
    BY <1>0, <1>1, StepSets DEF Rolling, TypeOK
  <1>4. TypeOK'
    <2>1. db' \in Database /\ work' \in Database /\ tx' \in {tx, p, NoProc} /\ tx' # p /\ rolls' \in 0..MaxRolls
          /\ undercut' \subseteq Procs /\ disturbed' \subseteq Procs /\ roll' = roll
      BY <1>0, <1>1 DEF TypeOK
    <2> QED BY <1>0, <1>1, <1>2, <1>3, <2>1, TypedStep
  <1>5. Held' /\ ChatsThere' /\ ChatsKept'
    BY <1>1, <1>3 DEF RebuildInv, Held, ChatsThere, ChatsKept
  <1>6. Rebuilding'
    BY <1>0, <1>1, <1>3 DEF RebuildInv, TypeOK, Rebuilding
  <1>7. VersionsDown'
    BY <1>1, <1>3, VersionSteps
  <1> QED BY <1>4, <1>5, <1>6, <1>7 DEF RebuildInv

-----------------------------------------------------------------------------
(* migrate_down *)

LEMMA RollBeginRebuild ==
  ASSUME Bounds, RebuildInv, NEW p \in Procs, NEW target \in 0..SchemaVersion, RollBegin(p, target)
  PROVE RebuildInv'
  <1>0. TypeOK /\ pc[p] = "up" /\ db.version \in 0..SchemaVersion /\ db.chats = "loose"
    <2>1. TypeOK /\ pc[p] = "up" /\ db \in Database
      BY DEF RollBegin, At, RebuildInv, TypeOK
    <2>2. db.version <= SchemaVersion /\ db.chats = "loose"
      BY <2>1, StepSets DEF RebuildInv, VersionsDown, ChatsThere
    <2> QED BY <2>1, <2>2 DEF Database, SchemaVersion
  <1> DEFINE step == FirstOf(db.version)
  <1>1. /\ UNCHANGED <<db, tx, work, faults>> /\ pc' = [pc EXCEPT ![p] = step]
        /\ target < db.version /\ roll' = [roll EXCEPT ![p] = [from |-> db.version, target |-> target]]
        /\ rolls' \in 0..MaxRolls /\ undercut' \subseteq Procs /\ disturbed' \subseteq Procs /\ blocked' \in 0..2
    BY <1>0 DEF RollBegin, Goto, TypeOK, Bounds
  <1>2. step \in Rolling /\ step \in Steps /\ step \notin {"drop", "rename", "commit"}
    BY StepSets DEF FirstOf, Rolling
  <1>4. db.version <= SchemaVersion
    BY <1>0 DEF SchemaVersion
  <1> HIDE DEF step
  <1>5. TypeOK'
    <2>1. db' \in Database /\ work' \in Database /\ tx' = tx /\ tx # p /\ faults' \in 0..MaxFaults
      BY <1>0, <1>1 DEF TypeOK, Bounds
    <2>2. db.version \in 0..SchemaVersion + 1 /\ target \in 0..SchemaVersion + 1
      BY <1>0 DEF SchemaVersion
    <2>3. \E from, to \in 0..SchemaVersion + 1 : roll' = [roll EXCEPT ![p] = [from |-> from, target |-> to]]
      BY <1>1, <2>2
    <2> QED BY <1>0, <1>1, <1>2, <2>1, <2>3, TypedStep
  <1>6. Held' /\ Rebuilding' /\ ChatsThere' /\ ChatsKept'
    BY <1>0, <1>1, <1>2, PcSteps
  <1>7. VersionsDown'
    <2>1. roll'[p].target < roll'[p].from /\ roll'[p].from <= SchemaVersion /\ \A q \in Procs : q # p => roll'[q] = roll[q]
      BY <1>0, <1>1, <1>4 DEF TypeOK
    <2> QED BY <1>1, <1>2, <1>4, <2>1, VersionSteps
  <1> QED BY <1>5, <1>6, <1>7 DEF RebuildInv

LEMMA RollColumnRebuild ==
  ASSUME Bounds, RebuildInv, NEW p \in Procs, RollIndex(p) \/ \E c \in Columns : RollColumn(p, c)
  PROVE RebuildInv'
  <1>1. PICK step \in {"up", "messages-", "version-", "always-"}, cols \in SUBSET Columns, idx \in SUBSET Indexed :
          /\ pc[p] \in Rolling /\ Undercut
          /\ Write(p, [db EXCEPT !.cols = cols, !.idx = idx]) /\ pc' = [pc EXCEPT ![p] = step]
    <2>0. db \in Database
      BY DEF RebuildInv, TypeOK
    <2>1. CASE RollIndex(p)
      <3>1. [db EXCEPT !.idx = @ \ {"always"}] = [db EXCEPT !.cols = db.cols, !.idx = db.idx \ {"always"}]
            /\ db.cols \in SUBSET Columns /\ db.idx \ {"always"} \in SUBSET Indexed
        BY <2>0 DEF Database
      <3> QED BY <2>1, <3>1 DEF RollIndex, At, Goto, Rolling
    <2>2. CASE \E c \in Columns : RollColumn(p, c)
      <3>1. PICK c \in Columns : RollColumn(p, c)
        BY <2>2
      <3>2. pc[p] \in Rolling /\ Undercut
        BY <3>1 DEF RollColumn, At, DropStep, Columns, Rolling
      <3>3. PICK step \in {"up", "messages-", "version-"}, new \in {db, [db EXCEPT !.cols = @ \ {c}]} :
              Write(p, new) /\ pc' = [pc EXCEPT ![p] = step]
        BY <3>1 DEF RollColumn, Goto
      <3>4. /\ db = [db EXCEPT !.cols = db.cols, !.idx = db.idx]
            /\ [db EXCEPT !.cols = @ \ {c}] = [db EXCEPT !.cols = db.cols \ {c}, !.idx = db.idx]
            /\ db.cols \in SUBSET Columns /\ db.cols \ {c} \in SUBSET Columns /\ db.idx \in SUBSET Indexed
        BY <2>0 DEF Database
      <3>5. CASE new = db
        <4>1. Write(p, [db EXCEPT !.cols = db.cols, !.idx = db.idx])
          BY <3>3, <3>4, <3>5
        <4> QED BY <3>2, <3>3, <3>4, <4>1
      <3>6. CASE new = [db EXCEPT !.cols = @ \ {c}]
        <4>1. Write(p, [db EXCEPT !.cols = db.cols \ {c}, !.idx = db.idx])
          BY <3>3, <3>4, <3>6
        <4> QED BY <3>2, <3>3, <3>4, <4>1
      <3> QED BY <3>3, <3>5, <3>6
    <2> QED BY <2>1, <2>2
  <1> DEFINE new == [db EXCEPT !.cols = cols, !.idx = idx]
  <1>2. db \in Database /\ db.chats = "loose" /\ db.version <= SchemaVersion
    BY <1>1, StepSets DEF RebuildInv, TypeOK, ChatsThere, VersionsDown
  <1>3. new \in Database /\ new.rows = db.rows /\ new.chats = db.chats /\ new.version = db.version
    BY <1>2 DEF Database
  <1>4. step \in Steps \ {"drop", "rename", "commit"} /\ pc[p] \notin {"drop", "rename", "commit", "undo"}
    BY <1>1, StepSets DEF Rolling
  <1>5. undercut' \subseteq Procs /\ disturbed' \subseteq Procs /\ blocked' \in 0..2
    BY <1>1 DEF Undercut, RebuildInv, TypeOK
  <1>6. Write(p, new)
    BY <1>1
  <1> HIDE DEF new
  <1> QED BY <1>1, <1>2, <1>3, <1>4, <1>5, <1>6, PlainWrite

LEMMA RollVersionRebuild == ASSUME Bounds, RebuildInv, NEW p \in Procs, RollVersion(p) PROVE RebuildInv'
  <1> DEFINE v == roll[p].from - 1
             step == IF v = roll[p].target THEN "up" ELSE FirstOf(v)
  <1>1. TypeOK /\ pc[p] = "version-" /\ tx = NoProc /\ p # NoProc
    BY DEF RollVersion, At, MayWrite, RebuildInv, TypeOK, Bounds
  <1>2. /\ roll[p] \in [from: 0..SchemaVersion + 1, target: 0..SchemaVersion + 1]
        /\ roll[p].target < roll[p].from /\ roll[p].from <= SchemaVersion
        /\ db.chats = "loose" /\ db \in Database
    BY <1>1, StepSets DEF RebuildInv, VersionsDown, TypeOK, ChatsThere, Rolling
  <1>3. v \in 0..SchemaVersion /\ v <= SchemaVersion /\ (v # roll[p].target => roll[p].target < v)
    BY <1>2 DEF SchemaVersion
  <1>4. (step = "up" /\ v = roll[p].target) \/ (step \in Rolling /\ v # roll[p].target)
    <2>1. \A n : FirstOf(n) \in Rolling
      BY DEF FirstOf, Rolling
    <2> QED BY <2>1
  <1>5. step \in Steps /\ step \notin {"drop", "rename", "commit"}
    BY <1>4, StepSets DEF Rolling
  <1>6. /\ db' = [db EXCEPT !.version = v] /\ work' = db' /\ tx' = tx
        /\ roll' = [roll EXCEPT ![p] = [from |-> v, target |-> roll[p].target]]
        /\ pc' = [pc EXCEPT ![p] = step] /\ Undercut /\ UNCHANGED <<faults, rolls>>
    <2>1. /\ db' = [db EXCEPT !.version = v] /\ work' = db' /\ tx' = tx
          /\ roll' = [roll EXCEPT ![p].from = v]
          /\ pc' = [pc EXCEPT ![p] = step] /\ Undercut /\ UNCHANGED <<faults, rolls>>
      BY DEF RollVersion, Goto
    <2>2. [roll[p] EXCEPT !.from = v] = [from |-> v, target |-> roll[p].target]
      BY <1>2
    <2> QED BY <2>1, <2>2
  <1> HIDE DEF step, v
  <1>7. db' \in Database /\ db'.rows /\ db'.chats = "loose" /\ db'.version = v
    BY <1>2, <1>3, <1>6 DEF Database, SchemaVersion, RebuildInv, ChatsKept
  <1>8. TypeOK'
    <2>1. undercut' \subseteq Procs /\ disturbed' \subseteq Procs /\ blocked' \in 0..2
          /\ faults' \in 0..MaxFaults /\ rolls' \in 0..MaxRolls
      BY <1>1, <1>6 DEF Undercut, TypeOK
    <2>2. v \in 0..SchemaVersion + 1 /\ roll[p].target \in 0..SchemaVersion + 1
      BY <1>2, <1>3 DEF SchemaVersion
    <2>3. \E from, target \in 0..SchemaVersion + 1 : roll' = [roll EXCEPT ![p] = [from |-> from, target |-> target]]
      BY <1>6, <2>2
    <2> QED BY <1>1, <1>5, <1>6, <1>7, <2>1, <2>3, TypedStep
  <1>9. Held' /\ Rebuilding' /\ ChatsThere' /\ ChatsKept'
    BY <1>1, <1>2, <1>5, <1>6, <1>7, WriteSteps
  <1>10. VersionsDown'
    <2>1. \A q \in Procs : q # p => roll'[q] = roll[q]
      BY <1>1, <1>6 DEF TypeOK
    <2>2. roll'[p] = [from |-> v, target |-> roll[p].target]
      BY <1>1, <1>6 DEF TypeOK
    <2>3. step \in Rolling => roll'[p].target < roll'[p].from
      BY <1>3, <1>4, <2>2 DEF Rolling
    <2>4. roll'[p].from <= SchemaVersion /\ db'.version <= SchemaVersion
      BY <1>3, <1>7, <2>2
    <2> QED BY <1>5, <1>6, <2>1, <2>3, <2>4, VersionSteps
  <1> QED BY <1>8, <1>9, <1>10 DEF RebuildInv

LEMMA RebuildStep == ASSUME Bounds, RebuildInv, [Next]_vars PROVE RebuildInv'
  <1>1. CASE UNCHANGED vars
    BY <1>1 DEF vars, RebuildInv, TypeOK, Held, Rebuilding, ChatsThere, VersionsDown, ChatsKept
  <1>2. ASSUME NEW p \in Procs, EnsureSchema(p) PROVE RebuildInv'
    BY <1>2, CheckRebuild, CreateRebuild, ColumnRebuild, CopyRebuild, InsideRebuild, OutOfRebuild
       DEF EnsureSchema
  <1>3. ASSUME NEW p \in Procs, MigrateDown(p) PROVE RebuildInv'
    BY <1>3, RollBeginRebuild, RollColumnRebuild, RollVersionRebuild DEF MigrateDown
  <1>4. CASE Next
    BY <1>2, <1>3, <1>4, OpenRebuild, FailsRebuild, EndRebuild DEF Next
  <1> QED BY <1>1, <1>4

-----------------------------------------------------------------------------
(* The columns: what a start has seen stays, unless a rollback undercuts it *)

LEMMA HasSets ==
  /\ HasMessages = {"instr", "tenant?", "tenant", "idx_tenant", "always?", "always", "idx_always",
                    "version", "stamp", "up"}
  /\ HasTenant = {"idx_tenant", "always?", "always", "idx_always", "version", "stamp", "up"}
  /\ HasAlways = {"idx_always", "version", "stamp", "up"}
  /\ "off" \notin HasMessages /\ HasTenant \subseteq HasMessages /\ HasAlways \subseteq HasTenant
  BY DEF HasMessages, HasTenant, HasAlways

\* A step that takes no column away.
LEMMA ColumnsGrow ==
  ASSUME TypeOK, ColumnsInv, NEW p \in Procs, NEW step \in Steps, pc' = [pc EXCEPT ![p] = step],
         undercut' = undercut, db.cols \subseteq db'.cols, faults' \in Nat, faults' >= faults,
         pc[p] # "off" \/ step = "off", step # "messages-",
         p \notin undercut =>
           /\ step \in HasMessages => "messages" \in db'.cols
           /\ step \in HasTenant => "tenant" \in db'.cols
           /\ step \in HasAlways => "always" \in db'.cols,
         "messages" \in db'.cols /\ "instr" \notin db'.cols =>
           \/ faults' > 0 \/ step = "instr"
           \/ "messages" \in db.cols /\ pc[p] \notin {"instr", "messages-"}
  PROVE ColumnsInv'
  <1>1. pc'[p] = step /\ \A q \in Procs : q # p => pc'[q] = pc[q]
    BY DEF TypeOK
  <1>2. ColumnsSure'
    <2> SUFFICES ASSUME NEW q \in Procs, q \notin undercut
                 PROVE /\ pc'[q] \in HasMessages => "messages" \in db'.cols
                       /\ pc'[q] \in HasTenant => "tenant" \in db'.cols
                       /\ pc'[q] \in HasAlways => "always" \in db'.cols
      BY DEF ColumnsSure
    <2> QED BY <1>1 DEF ColumnsInv, ColumnsSure
  <1>3. HalfMigrated'
    <2> SUFFICES ASSUME "messages" \in db'.cols, "instr" \notin db'.cols, ~(faults' > 0), step # "instr"
                 PROVE \E q \in Procs : pc'[q] \in {"instr", "messages-"}
      BY <1>1 DEF HalfMigrated
    <2>1. "messages" \in db.cols /\ "instr" \notin db.cols /\ pc[p] \notin {"instr", "messages-"} /\ ~(faults > 0)
      BY DEF TypeOK
    <2>2. PICK q \in Procs : pc[q] \in {"instr", "messages-"}
      BY <2>1 DEF ColumnsInv, HalfMigrated
    <2> QED BY <1>1, <2>1, <2>2
  <1>4. HalfUndone'
    BY <1>1 DEF ColumnsInv, HalfUndone
  <1> QED BY <1>2, <1>3, <1>4 DEF ColumnsInv

\* A statement of a rollback.
LEMMA ColumnsCut ==
  ASSUME TypeOK, ColumnsInv, NEW p \in Procs, NEW step \in Steps, pc' = [pc EXCEPT ![p] = step],
         Undercut, pc[p] \in Rolling, faults' = faults,
         "messages" \in db'.cols /\ "instr" \notin db'.cols =>
           \/ step = "messages-"
           \/ "messages" \in db.cols /\ "instr" \notin db.cols /\ pc[p] # "messages-"
  PROVE ColumnsInv'
  <1>1. pc'[p] = step /\ (\A q \in Procs : q # p => pc'[q] = pc[q]) /\ pc[p] \notin {"off", "instr"}
    BY DEF TypeOK, Rolling
  <1>2. \A q \in Procs : pc'[q] # "off" => q \in undercut'
    BY <1>1 DEF Undercut
  <1>3. ColumnsSure' /\ HalfUndone'
    BY <1>2, HasSets DEF ColumnsSure, HalfUndone
  <1>4. HalfMigrated'
    <2> SUFFICES ASSUME "messages" \in db'.cols, "instr" \notin db'.cols, ~(faults' > 0), step # "messages-"
                 PROVE \E q \in Procs : pc'[q] \in {"instr", "messages-"}
      BY <1>1 DEF HalfMigrated
    <2>1. PICK q \in Procs : pc[q] \in {"instr", "messages-"}
      BY DEF ColumnsInv, HalfMigrated
    <2> QED BY <1>1, <2>1
  <1> QED BY <1>3, <1>4 DEF ColumnsInv

LEMMA ColumnsInit == ASSUME Bounds, Init PROVE ColumnsInv
  <1>1. ColumnsSure /\ HalfUndone
    BY HasSets DEF Init, ColumnsSure, HalfUndone
  <1>2. "messages" \in db.cols => "instr" \in db.cols
    <2>1. CASE db \in Legacy
      <3>1. PICK c \in {"strict", "loose"}, k \in {{}, {"messages", "instr"}, Columns \ {"always"}} :
              db = [chats |-> c, rows |-> TRUE, chats_new |-> "none", cols |-> k, idx |-> {}, version |-> 0]
        BY <2>1 DEF Legacy
      <3> QED BY <3>1 DEF Columns
    <2>2. CASE db = NewFile \/ db = Newer
      BY <2>2 DEF NewFile, Newer, Columns
    <2> QED BY <2>1, <2>2 DEF Init
  <1> QED BY <1>1, <1>2 DEF ColumnsInv, HalfMigrated

\* A start that meets a rollback is undercut from its beginning.
LEMMA OpenColumns == ASSUME Bounds, RebuildInv, ColumnsInv, NEW p \in Procs, Open(p) PROVE ColumnsInv'
  <1>1. /\ pc[p] = "off" /\ pc' = [pc EXCEPT ![p] = "chats"]
        /\ db'.cols = db.cols \/ db'.cols = Columns
        /\ faults' = faults
        /\ undercut' = IF \E q \in Procs : pc[q] \in Rolling THEN undercut \cup {p} ELSE undercut \ {p}
    <2>1. TypeOK /\ pc[p] = "off" /\ db \in Database
      BY DEF RebuildInv, TypeOK, Open, At
    <2>2. PICK new : Write(p, new) /\ new = IF db.chats = "none" THEN [db EXCEPT !.chats = "loose", !.cols = Columns] ELSE db
      BY DEF Open
    <2>3. db' = new /\ faults' = faults
      BY <2>1, <2>2, WriteAlone
    <2>4. new.cols \in {db.cols, Columns}
      BY <2>1, <2>2 DEF Database
    <2> QED BY <2>1, <2>3, <2>4 DEF Open, Goto
  <1>2. pc'[p] = "chats" /\ \A q \in Procs : q # p => pc'[q] = pc[q]
    BY <1>1 DEF RebuildInv, TypeOK
  <1>3. db.cols \subseteq db'.cols
    BY <1>1 DEF RebuildInv, TypeOK, Database
  <1>4. ColumnsSure'
    BY <1>1, <1>2, <1>3, HasSets DEF ColumnsInv, ColumnsSure
  <1>5. HalfMigrated'
    <2> SUFFICES ASSUME "messages" \in db'.cols, "instr" \notin db'.cols, ~(faults' > 0)
                 PROVE \E q \in Procs : pc'[q] \in {"instr", "messages-"}
      BY DEF HalfMigrated
    <2>1. db'.cols = db.cols
      BY <1>1 DEF Columns
    <2>2. PICK q \in Procs : pc[q] \in {"instr", "messages-"}
      BY <1>1, <2>1 DEF ColumnsInv, HalfMigrated
    <2> QED BY <1>1, <1>2, <2>2
  <1>6. HalfUndone'
    <2> SUFFICES ASSUME NEW q \in Procs, pc'[q] = "messages-", NEW r \in Procs, pc'[r] # "off"
                 PROVE r \in undercut'
      BY DEF HalfUndone
    <2>1. pc[q] = "messages-" /\ undercut' = undercut \cup {p}
      BY <1>1, <1>2 DEF Rolling
    <2> QED BY <1>2, <2>1 DEF ColumnsInv, HalfUndone
  <1> QED BY <1>4, <1>5, <1>6 DEF ColumnsInv

\* The steps that neither look at the columns nor change them.
LEMMA OtherColumns ==
  ASSUME Bounds, RebuildInv, ColumnsInv, NEW p \in Procs,
         \/ CheckChats(p) \/ CreateNew(p) \/ CopyRows(p) \/ DropOld(p) \/ Rename(p) \/ Commit(p)
         \/ Undo(p) \/ StatementFails(p) \/ Kill(p) \/ Stop(p)
         \/ \E target \in 0..SchemaVersion : RollBegin(p, target)
  PROVE ColumnsInv'
  <1>0. TypeOK /\ db \in Database
    BY DEF RebuildInv, TypeOK
  <1>1. PICK step \in {"create", "snapshots?", "copy", "undo", "drop", "rename", "commit", "failed", "off",
                       "idx_always-", "tenant-", "instr-", "version-"} :
          /\ pc' = [pc EXCEPT ![p] = step] /\ pc[p] # "off"
          /\ pc[p] \in {"instr", "messages-"} => faults' > 0
    <2>1. CASE CheckChats(p) \/ CreateNew(p) \/ CopyRows(p) \/ DropOld(p) \/ Rename(p) \/ Commit(p)
      BY <2>1 DEF CheckChats, Read, CreateNew, CopyRows, DropOld, Rename, Commit, At, Goto
    <2>2. CASE Undo(p) \/ StatementFails(p)
      BY <2>2 DEF Undo, EndStart, StatementFails, At, Goto
    <2>3. CASE Kill(p) \/ Stop(p)
      <3>1. pc' = [pc EXCEPT ![p] = "off"]
        BY <1>0, <2>3 DEF Kill, Stop, End, TypeOK
      <3>2. Kill(p) => faults' > 0
        BY <1>0 DEF Kill, TypeOK, Bounds
      <3>3. pc[p] # "off" /\ (Stop(p) => pc[p] \notin {"instr", "messages-"})
        BY <2>3, StepSets DEF Kill, Stop, Steps, Starting, Statements, Checks, After, Rolling
      <3> QED BY <2>3, <3>1, <3>2, <3>3
    <2>4. CASE \E target \in 0..SchemaVersion : RollBegin(p, target)
      BY <2>4 DEF RollBegin, FirstOf, At, Goto
    <2> QED BY <2>1, <2>2, <2>3, <2>4
  <1>2. db'.cols = db.cols
    <2>1. CASE Commit(p)
      <3>1. tx = p /\ p # NoProc
        BY <2>1 DEF Commit, At, RebuildInv, Held, Bounds
      <3> QED BY <2>1, <3>1 DEF Commit, Seen, RebuildInv, Rebuilding
    <2>2. CASE CreateNew(p)
      <3>1. PICK new \in {db, [db EXCEPT !.chats_new = "empty"]} : Write(p, new) /\ pc[p] = "create"
        BY <2>2 DEF CreateNew, At
      <3>2. db' = new
        BY <1>0, <3>1, WriteAlone
      <3> QED BY <1>0, <3>1, <3>2 DEF Database
    <2>3. CASE DropOld(p) \/ Rename(p)
      BY <2>3 DEF DropOld, Rename, Write, At, RebuildInv, Held
    <2>4. CASE Undo(p)
      <3>1. db' \in {db, [db EXCEPT !.chats_new = "none"]}
        BY <2>4 DEF Undo
      <3> QED BY <1>0, <3>1 DEF Database
    <2> QED BY <2>1, <2>2, <2>3, <2>4 DEF CheckChats, Read, CopyRows, StatementFails, Kill, Stop, End, RollBegin
  <1>3. undercut' = undercut /\ faults' \in Nat /\ faults' >= faults
    <2>1. undercut' = undercut
      BY DEF CheckChats, Read, CreateNew, CopyRows, DropOld, Rename, Commit, Undo, EndStart, StatementFails,
             Kill, Stop, End, RollBegin, ghosts
    <2>2. faults' = faults \/ faults' = faults + 1
      BY DEF CheckChats, Read, CreateNew, CopyRows, DropOld, Rename, Write, Commit, Undo, StatementFails,
             Kill, Stop, RollBegin
    <2> QED BY <1>0, <2>1, <2>2 DEF TypeOK, Bounds
  <1>4. step \in Steps /\ step \notin HasMessages /\ step \notin HasTenant /\ step \notin HasAlways
        /\ step # "messages-"
    BY StepSets, HasSets
  <1>5. "messages" \in db'.cols => "messages" \in db.cols
    BY <1>2
  <1> QED BY <1>0, <1>1, <1>2, <1>3, <1>4, <1>5, ColumnsGrow

LEMMA CheckColumns ==
  ASSUME Bounds, RebuildInv, ColumnsInv, NEW p \in Procs, CheckColumn(p) \/ CheckVersion(p)
  PROVE ColumnsInv'
  <1>0. TypeOK /\ faults \in Nat
    BY DEF RebuildInv, TypeOK, Bounds
  <1>1. PICK step \in {"messages", "tenant?", "tenant", "always?", "always", "version", "stamp", "up", "failed"} :
          /\ pc' = [pc EXCEPT ![p] = step] /\ pc[p] \in {"snapshots?", "tenant?", "always?", "version"}
          /\ db' = db /\ faults' = faults /\ undercut' = undercut
          /\ step \in HasMessages => pc[p] \in HasMessages \/ "messages" \in db.cols
          /\ step \in HasTenant => pc[p] \in HasTenant \/ "tenant" \in db.cols
          /\ step \in HasAlways => pc[p] \in HasAlways \/ "always" \in db.cols
    <2>1. CASE CheckColumn(p)
      <3> USE DEF CheckColumn, Read, At, Goto, ghosts, Absent
      <3>1. CASE pc[p] = "snapshots?"
        BY <2>1, <3>1, HasSets
      <3>2. CASE pc[p] = "tenant?"
        BY <2>1, <3>2, HasSets
      <3>3. CASE pc[p] = "always?"
        BY <2>1, <3>3, HasSets
      <3> QED BY <2>1, <3>1, <3>2, <3>3
    <2>2. CASE CheckVersion(p)
      BY <2>2, HasSets DEF CheckVersion, EndStart, At, Goto, ghosts
    <2> QED BY <2>1, <2>2
  <1>2. step \in Steps /\ step # "messages-" /\ step # "off"
    BY StepSets
  <1>3. p \notin undercut =>
          /\ step \in HasMessages => "messages" \in db'.cols
          /\ step \in HasTenant => "tenant" \in db'.cols
          /\ step \in HasAlways => "always" \in db'.cols
    BY <1>1 DEF ColumnsInv, ColumnsSure
  <1>4. pc[p] \notin {"off", "instr", "messages-"} /\ faults' \in Nat /\ faults' >= faults
        /\ db.cols \subseteq db'.cols
    BY <1>0, <1>1
  <1> QED BY <1>0, <1>1, <1>2, <1>3, <1>4, ColumnsGrow

LEMMA AddColumns ==
  ASSUME Bounds, RebuildInv, ColumnsInv, NEW p \in Procs, NEW c \in Columns, AddColumn(p, c)
  PROVE ColumnsInv'
  <1>0. TypeOK /\ faults \in Nat /\ db \in Database /\ pc[p] = c
    BY DEF RebuildInv, TypeOK, Bounds, AddColumn, At
  <1>1. c \in {"messages", "instr", "tenant", "always"}
    BY DEF Columns
  <1>2. CASE c \in db.cols
    <2>1. Write(p, db) /\ EndStart(p, "failed")
      BY <1>2 DEF AddColumn
    <2>2. db' = db /\ faults' = faults
      BY <1>0, <1>1, <2>1, WriteAlone
    <2>3. pc' = [pc EXCEPT ![p] = "failed"] /\ undercut' = undercut
      BY <2>1 DEF EndStart, Goto
    <2>4. "failed" \in Steps \ HasMessages
      BY StepSets, HasSets
    <2>5. faults' \in Nat /\ faults' >= faults /\ db.cols \subseteq db'.cols /\ pc[p] # "off"
      BY <1>0, <1>1, <2>2
    <2>6. "messages" \in db'.cols /\ "instr" \notin db'.cols =>
            "messages" \in db.cols /\ pc[p] \notin {"instr", "messages-"}
      BY <1>0, <1>1, <1>2, <2>2
    <2> QED BY <1>0, <2>2, <2>3, <2>4, <2>5, <2>6, HasSets, ColumnsGrow
  <1>3. CASE c \notin db.cols
    <2>1. Write(p, [db EXCEPT !.cols = @ \cup {c}]) /\ Goto(p, Following(c)) /\ UNCHANGED ghosts
      BY <1>3 DEF AddColumn
    <2>2. db' = [db EXCEPT !.cols = @ \cup {c}] /\ faults' = faults
      BY <1>0, <1>1, <2>1, WriteAlone
    <2>3. db'.cols = db.cols \cup {c}
      BY <1>0, <2>2 DEF Database
    <2>4. pc' = [pc EXCEPT ![p] = Following(c)] /\ undercut' = undercut
      BY <2>1 DEF Goto, ghosts
    <2>5. /\ Following(c) \in Steps \ {"messages-", "off"}
          /\ c = "messages" => Following(c) = "instr"
          /\ c = "instr" => Following(c) = "tenant?"
          /\ c = "tenant" => Following(c) = "idx_tenant"
          /\ c = "always" => Following(c) = "idx_always"
      BY <1>1, StepSets DEF Following, After
    <2>6. p \notin undercut =>
            /\ Following(c) \in HasMessages => "messages" \in db'.cols
            /\ Following(c) \in HasTenant => "tenant" \in db'.cols
            /\ Following(c) \in HasAlways => "always" \in db'.cols
      BY <1>0, <1>1, <2>3, <2>5, HasSets DEF ColumnsInv, ColumnsSure
    <2>7. "messages" \in db'.cols /\ "instr" \notin db'.cols =>
            Following(c) = "instr" \/ ("messages" \in db.cols /\ pc[p] \notin {"instr", "messages-"})
      BY <1>0, <1>1, <2>3, <2>5
    <2>8. faults' \in Nat /\ faults' >= faults /\ db.cols \subseteq db'.cols /\ pc[p] # "off"
      BY <1>0, <1>1, <2>2, <2>3
    <2> QED BY <1>0, <2>4, <2>5, <2>6, <2>7, <2>8, ColumnsGrow
  <1> QED BY <1>2, <1>3

LEMMA IndexColumns ==
  ASSUME Bounds, RebuildInv, ColumnsInv, NEW p \in Procs,
         StampVersion(p) \/ \E c \in Indexed : CreateIndex(p, c)
  PROVE ColumnsInv'
  <1>0. TypeOK /\ faults \in Nat /\ db \in Database
    BY DEF RebuildInv, TypeOK, Bounds
  <1>1. PICK step \in {"up", "failed", "always?", "version"} :
          /\ pc' = [pc EXCEPT ![p] = step] /\ pc[p] \in {"stamp", "idx_tenant", "idx_always"}
          /\ db'.cols = db.cols /\ faults' = faults /\ undercut' = undercut
          /\ step \in HasTenant => pc[p] \in HasTenant
          /\ step \in HasAlways => pc[p] \in HasAlways
    <2>1. CASE StampVersion(p)
      <3>1. db' = [db EXCEPT !.version = SchemaVersion] /\ faults' = faults
        BY <1>0, <2>1, WriteAlone DEF StampVersion, At
      <3>2. db'.cols = db.cols
        BY <1>0, <3>1 DEF Database
      <3> QED BY <2>1, <3>1, <3>2, HasSets DEF StampVersion, EndStart, At, Goto
    <2>2. ASSUME NEW c \in Indexed, CreateIndex(p, c), c \in db.cols
          PROVE \E step \in {"always?", "version"} :
                  /\ pc' = [pc EXCEPT ![p] = step] /\ pc[p] \in {"idx_tenant", "idx_always"}
                  /\ db'.cols = db.cols /\ faults' = faults /\ undercut' = undercut
                  /\ step = "version" => pc[p] = "idx_always"
      <3>1. pc[p] \in {"idx_tenant", "idx_always"} /\ Following(pc[p]) \in {"always?", "version"}
            /\ (Following(pc[p]) = "version" => pc[p] = "idx_always") /\ pc[p] = IndexStep[c]
        BY <2>2 DEF CreateIndex, At, IndexStep, Indexed, Following, After
      <3>2. db' = [db EXCEPT !.idx = @ \cup {c}] /\ faults' = faults
        BY <1>0, <2>2, <3>1, WriteAlone DEF CreateIndex
      <3>3. db'.cols = db.cols
        BY <1>0, <3>2 DEF Database
      <3> QED BY <2>2, <3>1, <3>2, <3>3 DEF CreateIndex, Goto, ghosts
    <2>3. ASSUME NEW c \in Indexed, CreateIndex(p, c), c \notin db.cols
          PROVE /\ pc' = [pc EXCEPT ![p] = "failed"] /\ pc[p] \in {"idx_tenant", "idx_always"}
                /\ db'.cols = db.cols /\ faults' = faults /\ undercut' = undercut
      <3>1. pc[p] \in {"idx_tenant", "idx_always"}
        BY <2>3 DEF CreateIndex, At, IndexStep, Indexed
      <3>2. db' = db /\ faults' = faults
        BY <1>0, <2>3, <3>1, WriteAlone DEF CreateIndex
      <3> QED BY <2>3, <3>1, <3>2 DEF CreateIndex, EndStart, Goto
    <2> QED BY <2>1, <2>2, <2>3, HasSets
  <1>2. step \in Steps /\ step # "messages-" /\ pc[p] \in HasMessages
        /\ pc[p] \notin {"off", "instr", "messages-"}
    BY <1>1, StepSets, HasSets
  <1>3. p \notin undercut =>
          /\ step \in HasMessages => "messages" \in db'.cols
          /\ step \in HasTenant => "tenant" \in db'.cols
          /\ step \in HasAlways => "always" \in db'.cols
    BY <1>1, <1>2 DEF ColumnsInv, ColumnsSure
  <1>4. faults' \in Nat /\ faults' >= faults /\ db.cols \subseteq db'.cols
        /\ ("messages" \in db'.cols => "messages" \in db.cols)
    BY <1>0, <1>1
  <1> QED BY <1>0, <1>1, <1>2, <1>3, <1>4, ColumnsGrow

\* A rollback drops the second column of the first migration before the first.
LEMMA RollColumns ==
  ASSUME Bounds, RebuildInv, ColumnsInv, NEW p \in Procs,
         RollIndex(p) \/ RollVersion(p) \/ \E c \in Columns : RollColumn(p, c)
  PROVE ColumnsInv'
  <1>0. TypeOK /\ faults \in Nat /\ db \in Database
    BY DEF RebuildInv, TypeOK, Bounds
  <1>1. CASE RollIndex(p)
    <2>1. pc[p] = "idx_always-" /\ pc' = [pc EXCEPT ![p] = "always-"] /\ Undercut
      BY <1>1 DEF RollIndex, At, Goto
    <2>2. db' = [db EXCEPT !.idx = @ \ {"always"}] /\ faults' = faults
      BY <1>0, <1>1, <2>1, WriteAlone DEF RollIndex
    <2>3. db'.cols = db.cols /\ "always-" \in Steps /\ pc[p] \in Rolling
      BY <1>0, <2>1, <2>2, StepSets DEF Database, Rolling
    <2> QED BY <1>0, <2>1, <2>2, <2>3, ColumnsCut
  <1>2. CASE RollVersion(p)
    <2>1. PICK step \in Steps : pc[p] = "version-" /\ pc' = [pc EXCEPT ![p] = step] /\ Undercut /\ faults' = faults
      <3>1. "up" \in Steps /\ \A n : FirstOf(n) \in Steps
        BY StepSets DEF FirstOf
      <3> QED BY <1>2, <3>1 DEF RollVersion, At, Goto
    <2>2. PICK v : db' = [db EXCEPT !.version = v]
      BY <1>2 DEF RollVersion
    <2>3. db'.cols = db.cols /\ pc[p] \in Rolling
      BY <1>0, <2>1, <2>2 DEF Database, Rolling
    <2> QED BY <1>0, <2>1, <2>3, ColumnsCut
  <1>3. ASSUME NEW c \in Columns, RollColumn(p, c) PROVE ColumnsInv'
    <2>1. pc[p] = DropStep[c] /\ Undercut /\ pc[p] \in Rolling /\ pc[p] \in {"always-", "tenant-", "instr-", "messages-"}
          /\ (pc[p] = "messages-" <=> c = "messages")
      BY <1>3 DEF RollColumn, At, DropStep, Columns, Rolling
    <2>2. CASE c \in db.cols \ db.idx
      <3>1. PICK step \in {"messages-", "version-"} :
              /\ pc' = [pc EXCEPT ![p] = step] /\ Write(p, [db EXCEPT !.cols = @ \ {c}])
              /\ c = "instr" => step = "messages-"
        BY <1>3, <2>2 DEF RollColumn, Goto
      <3>2. db' = [db EXCEPT !.cols = @ \ {c}] /\ faults' = faults
        BY <1>0, <2>1, <3>1, WriteAlone
      <3>3. db'.cols = db.cols \ {c} /\ step \in Steps
        BY <1>0, <3>2, StepSets DEF Database
      <3> QED BY <1>0, <2>1, <3>1, <3>2, <3>3, ColumnsCut
    <2>3. CASE c \notin db.cols \ db.idx
      <3>1. pc' = [pc EXCEPT ![p] = "up"] /\ Write(p, db)
        BY <1>3, <2>3 DEF RollColumn, Goto
      <3>2. db' = db /\ faults' = faults
        BY <1>0, <2>1, <3>1, WriteAlone
      <3>3. pc[p] = "messages-" => "messages" \notin db.cols
        BY <1>0, <2>1, <2>3 DEF Database, Indexed
      <3>4. "up" \in Steps
        BY StepSets
      <3> QED BY <1>0, <2>1, <3>1, <3>2, <3>3, <3>4, ColumnsCut
    <2> QED BY <2>2, <2>3
  <1> QED BY <1>1, <1>2, <1>3

LEMMA ColumnsStep == ASSUME Bounds, RebuildInv, ColumnsInv, [Next]_vars PROVE ColumnsInv'
  <1>1. CASE UNCHANGED vars
    BY <1>1 DEF vars, ColumnsInv, ColumnsSure, HalfMigrated, HalfUndone
  <1>2. ASSUME NEW p \in Procs, EnsureSchema(p) PROVE ColumnsInv'
    BY <1>2, OtherColumns, CheckColumns, AddColumns, IndexColumns DEF EnsureSchema
  <1>3. ASSUME NEW p \in Procs, MigrateDown(p) PROVE ColumnsInv'
    BY <1>3, OtherColumns, RollColumns DEF MigrateDown
  <1>4. CASE Next
    BY <1>2, <1>3, <1>4, OpenColumns, OtherColumns DEF Next
  <1> QED BY <1>1, <1>4

LEMMA ColumnsServe == RebuildInv /\ ColumnsInv => ServesFullSchema
  <1> SUFFICES ASSUME RebuildInv, ColumnsInv, NEW p \in Procs, pc[p] = "up", p \notin undercut
               PROVE /\ db.chats = "loose"
                     /\ Columns \ {"instr"} \subseteq db.cols
                     /\ "instr" \in db.cols \/ faults > 0 \/ \E q \in Procs : At(q, "instr")
    BY DEF ServesFullSchema, At
  <1>1. db.chats = "loose"
    BY StepSets DEF RebuildInv, ChatsThere
  <1>2. {"messages", "tenant", "always"} \subseteq db.cols
    BY HasSets DEF ColumnsInv, ColumnsSure
  <1>3. \A q \in Procs : pc[q] # "messages-"
    BY DEF ColumnsInv, HalfUndone
  <1> QED BY <1>1, <1>2, <1>3 DEF ColumnsInv, HalfMigrated, Columns, At

-----------------------------------------------------------------------------
(* Starts that fail: who moves where *)

LEMMA StepKinds ==
  /\ Starting = {"create", "copy", "drop", "rename", "commit", "undo", "stamp", "messages", "instr",
                 "tenant", "idx_tenant", "always", "idx_always", "chats", "snapshots?", "tenant?",
                 "always?", "version"}
  /\ \A c \in Columns : c \in Starting /\ Following(c) \in Starting
  BY DEF Starting, Statements, Checks, After, Columns, Following

LEMMA Moves ==
  ASSUME Bounds, RebuildInv, NEW p \in Procs,
         EnsureSchema(p) \/ MigrateDown(p) \/ StatementFails(p) \/ Kill(p) \/ Stop(p)
  PROVE /\ \A q \in Procs : q # p => pc'[q] = pc[q]
        /\ disturbed \subseteq disturbed'
        /\ EnsureSchema(p) => pc[p] \in Starting /\ pc'[p] \in Starting \cup {"up", "failed"}
        /\ MigrateDown(p) => pc[p] \in Rolling \cup {"up"} /\ pc'[p] \in Rolling \cup {"up"}
        /\ StatementFails(p) => pc[p] \in Starting /\ pc'[p] \in Starting /\ p \in disturbed'
        /\ Kill(p) => pc[p] \in Starting \cup Rolling /\ pc'[p] = "off"
        /\ Stop(p) => pc[p] \in {"up", "failed"} /\ pc'[p] = "off"
  <1>0. TypeOK
    BY DEF RebuildInv
  <1>1. ASSUME EnsureSchema(p)
        PROVE \E step \in Starting \cup {"up", "failed"} :
                pc[p] \in Starting /\ pc' = [pc EXCEPT ![p] = step] /\ disturbed' = disturbed
    <2>1. CASE CheckChats(p) \/ CreateNew(p) \/ CopyRows(p) \/ DropOld(p) \/ Rename(p) \/ Commit(p) \/ Undo(p)
      BY <2>1, StepKinds
         DEF CheckChats, Read, CreateNew, CopyRows, DropOld, Rename, Commit, Undo, EndStart, At, Goto, ghosts
    <2>2. CASE CheckColumn(p)
      BY <2>2, StepKinds DEF CheckColumn, Read, At, Goto, ghosts
    <2>3. CASE CheckVersion(p) \/ StampVersion(p)
      BY <2>3, StepKinds DEF CheckVersion, StampVersion, EndStart, At, Goto, ghosts
    <2>4. CASE \E c \in Columns : AddColumn(p, c)
      BY <2>4, StepKinds DEF AddColumn, EndStart, At, Goto, ghosts
    <2>5. CASE \E c \in Indexed : CreateIndex(p, c)
      <3>1. \A c \in Indexed : IndexStep[c] \in Starting /\ Following(IndexStep[c]) \in Starting
        BY StepKinds DEF Indexed, IndexStep, Following, After
      <3> QED BY <2>5, <3>1 DEF CreateIndex, EndStart, At, Goto, ghosts
    <2> QED BY <1>1, <2>1, <2>2, <2>3, <2>4, <2>5 DEF EnsureSchema
  <1>2. ASSUME MigrateDown(p)
        PROVE \E step \in Rolling \cup {"up"} :
                pc[p] \in Rolling \cup {"up"} /\ pc' = [pc EXCEPT ![p] = step] /\ disturbed \subseteq disturbed'
    <2>0. \A n : FirstOf(n) \in Rolling
      BY DEF FirstOf, Rolling
    <2>1. CASE \E target \in 0..SchemaVersion : RollBegin(p, target)
      BY <2>0, <2>1 DEF RollBegin, At, Goto
    <2>2. CASE \E c \in Columns : RollColumn(p, c)
      <3>1. \A c \in Columns : DropStep[c] \in Rolling
        BY DEF Columns, DropStep, Rolling
      <3> QED BY <2>2, <3>1 DEF RollColumn, Undercut, At, Goto, Rolling
    <2>3. CASE RollIndex(p)
      BY <2>3 DEF RollIndex, Undercut, At, Goto, Rolling
    <2>4. CASE RollVersion(p)
      BY <2>0, <2>4 DEF RollVersion, Undercut, At, Goto, Rolling
    <2> QED BY <1>2, <2>1, <2>2, <2>3, <2>4 DEF MigrateDown
  <1>3. ASSUME StatementFails(p)
        PROVE /\ pc[p] \in Starting /\ pc' = [pc EXCEPT ![p] = "undo"] /\ "undo" \in Starting
              /\ disturbed \subseteq disturbed' /\ p \in disturbed'
    BY <1>3, StepKinds DEF StatementFails, Goto
  <1>4. ASSUME Kill(p) \/ Stop(p)
        PROVE pc' = [pc EXCEPT ![p] = "off"] /\ disturbed' = disturbed
    BY <1>0, <1>4 DEF Kill, Stop, End, TypeOK
  <1>5. \A step : pc' = [pc EXCEPT ![p] = step] =>
          pc'[p] = step /\ \A q \in Procs : q # p => pc'[q] = pc[q]
    BY <1>0 DEF TypeOK
  <1>6. /\ EnsureSchema(p) => pc[p] \in Starting /\ pc'[p] \in Starting \cup {"up", "failed"}
        /\ MigrateDown(p) => pc[p] \in Rolling \cup {"up"} /\ pc'[p] \in Rolling \cup {"up"}
    BY <1>1, <1>2, <1>5
  <1>7. /\ StatementFails(p) => pc[p] \in Starting /\ pc'[p] \in Starting /\ p \in disturbed'
        /\ Kill(p) => pc[p] \in Starting \cup Rolling /\ pc'[p] = "off"
        /\ Stop(p) => pc[p] \in {"up", "failed"} /\ pc'[p] = "off"
    BY <1>3, <1>4, <1>5 DEF Kill, Stop
  <1>8. disturbed \subseteq disturbed' /\ \A q \in Procs : q # p => pc'[q] = pc[q]
    BY <1>1, <1>2, <1>3, <1>4, <1>5
  <1> QED BY <1>6, <1>7, <1>8

LEMMA KindsApart ==
  /\ "off" \notin Starting \cup Rolling /\ "up" \notin Starting \cup Rolling
  /\ "failed" \notin Starting \cup Rolling /\ Starting \cap Rolling = {}
  BY StepKinds DEF Rolling

\* No step of another process leaves a calm start calm, but that one stops serving.
LEMMA OthersStop ==
  ASSUME Bounds, RebuildInv, CalmAlone, NEW p \in Procs, NEW q \in Procs, p # q, Calm(q)',
         Open(p) \/ EnsureSchema(p) \/ MigrateDown(p) \/ StatementFails(p) \/ Kill(p) \/ Stop(p)
  PROVE Calm(q) /\ Stop(p)
  <1>1. CASE Open(p)
    <2>1. pc'[q] = pc[q]
      BY <1>1 DEF Open, Goto, RebuildInv, TypeOK
    <2>2. IsStarting(q)
      BY <2>1 DEF Calm, IsStarting
    <2>3. q \in disturbed'
      BY <1>1, <2>2 DEF Open
    <2> QED BY <2>3 DEF Calm
  <1>2. CASE EnsureSchema(p) \/ MigrateDown(p) \/ StatementFails(p) \/ Kill(p) \/ Stop(p)
    <2>1. pc'[q] = pc[q] /\ disturbed \subseteq disturbed'
      BY <1>2, Moves
    <2>2. Calm(q)
      BY <2>1 DEF Calm, IsStarting
    <2>3. pc[p] \notin Starting \cup Rolling
      BY <2>2 DEF CalmAlone
    <2>4. CASE MigrateDown(p)
      <3>1. pc[p] = "up"
        BY <2>3, <2>4, Moves
      <3>2. \E target \in 0..SchemaVersion : RollBegin(p, target)
        BY <2>4, <3>1 DEF MigrateDown, RollColumn, RollIndex, RollVersion, At, DropStep, Columns
      <3>3. q \in disturbed'
        BY <2>2, <3>2 DEF RollBegin, Calm
      <3> QED BY <3>3 DEF Calm
    <2> QED BY <1>2, <2>2, <2>3, <2>4, Moves
  <1> QED BY <1>1, <1>2

LEMMA AloneStep ==
  ASSUME Bounds, RebuildInv, CalmAlone, NEW p \in Procs,
         Open(p) \/ EnsureSchema(p) \/ MigrateDown(p) \/ StatementFails(p) \/ Kill(p) \/ Stop(p)
  PROVE CalmAlone'
  <1> SUFFICES ASSUME NEW q \in Procs, Calm(q)', NEW r \in Procs, r # q
               PROVE pc'[r] \notin Starting \cup Rolling
    BY DEF CalmAlone
  <1>1. CASE q # p
    <2>1. Calm(q) /\ Stop(p)
      BY <1>1, OthersStop
    <2>2. pc'[p] = "off" /\ \A s \in Procs : s # p => pc'[s] = pc[s]
      BY <2>1, Moves
    <2> QED BY <2>1, <2>2, KindsApart DEF CalmAlone
  <1>2. CASE q = p /\ Open(p)
    <2>1. pc'[r] = pc[r]
      BY <1>2 DEF Open, Goto, RebuildInv, TypeOK
    <2>2. {s \in Procs \ {p} : IsStarting(s) \/ pc[s] \in Rolling} = {}
      BY <1>2 DEF Open, Calm
    <2> QED BY <1>2, <2>1, <2>2 DEF IsStarting
  <1>3. CASE q = p /\ ~Open(p)
    <2>1. pc'[r] = pc[r] /\ disturbed \subseteq disturbed'
      BY <1>3, Moves
    <2>2. pc[p] \in Starting
      BY <1>3, Moves, KindsApart DEF Calm, IsStarting
    <2> QED BY <1>3, <2>1, <2>2 DEF CalmAlone, Calm, IsStarting
  <1> QED BY <1>1, <1>2, <1>3

-----------------------------------------------------------------------------
(* What a calm start finds *)

CalmEnd(p) ==
  /\ blocked' <= 1
  /\ \/ IsStarting(p)' /\ CalmOk(p)'
     \/ ~IsStarting(p)' /\ (blocked' = 0 \/ Ready')

LEMMA FailedOnce ==
  ASSUME TypeOK, NEW p \in Procs, Calm(p), EndStart(p, "failed"), blocked = 0, Ready'
  PROVE CalmEnd(p)
  <1>1. pc'[p] = "failed" /\ blocked' <= 1
    BY DEF EndStart, Goto, TypeOK, Calm
  <1> QED BY <1>1, KindsApart DEF CalmEnd, IsStarting

LEMMA CalmRebuild ==
  ASSUME Bounds, RebuildInv, StrictPaired, NEW p \in Procs, Calm(p), CalmOk(p), blocked <= 1,
         CheckChats(p) \/ CreateNew(p) \/ CopyRows(p) \/ DropOld(p) \/ Rename(p) \/ Commit(p) \/ Undo(p)
  PROVE CalmEnd(p)
  <1>0. TypeOK /\ db \in Database /\ blocked \in 0..2
    BY DEF RebuildInv, TypeOK
  <1>1. CASE CheckChats(p)
    <2> DEFINE step == IF db.chats = "strict" THEN "create" ELSE "snapshots?"
    <2>1. pc[p] = "chats" /\ pc' = [pc EXCEPT ![p] = step] /\ UNCHANGED <<db, tx, blocked>>
      BY <1>1 DEF CheckChats, Read, At, Goto, ghosts
    <2>2. pc'[p] = step
      BY <1>0, <2>1 DEF TypeOK
    <2>3. step \in Starting
      BY StepKinds
    <2>4. CalmOk(p)'
      BY <2>1, <2>2 DEF CalmOk, Ready, Paired
    <2> QED BY <2>1, <2>2, <2>3, <2>4 DEF CalmEnd, IsStarting
  <1>2. CASE CreateNew(p)
    <2>1. pc[p] = "create" /\ UNCHANGED blocked /\ db.chats = "strict"
      BY <1>2 DEF CreateNew, At, ghosts, CalmOk
    <2>2. CASE db.chats_new = "none"
      <3>1. db' = [db EXCEPT !.chats_new = "empty"] /\ pc' = [pc EXCEPT ![p] = "copy"]
        BY <1>0, <1>2, <2>1, <2>2, WriteAlone DEF CreateNew, Goto
      <3>2. pc'[p] = "copy" /\ db'.chats_new = "empty" /\ db'.chats = "strict" /\ db'.cols = db.cols
        BY <1>0, <2>1, <3>1 DEF TypeOK, Database
      <3>3. CalmOk(p)'
        BY <2>1, <3>2 DEF CalmOk, Paired
      <3> QED BY <2>1, <3>2, <3>3, StepKinds DEF CalmEnd, IsStarting
    <2>3. CASE db.chats_new # "none"
      <3>1. db' = db /\ tx' = NoProc /\ pc' = [pc EXCEPT ![p] = "undo"]
        BY <1>0, <1>2, <2>1, <2>3, WriteAlone DEF CreateNew, Goto
      <3>2. pc'[p] = "undo" /\ p # NoProc /\ blocked = 0
        BY <1>0, <2>1, <2>3, <3>1 DEF TypeOK, Bounds, CalmOk, Ready
      <3>3. CalmOk(p)'
        BY <2>1, <3>1, <3>2 DEF CalmOk
      <3> QED BY <2>1, <3>2, <3>3, StepKinds DEF CalmEnd, IsStarting
    <2> QED BY <2>2, <2>3
  <1>3. CASE CopyRows(p) \/ DropOld(p) \/ Rename(p)
    <2>1. PICK step \in {"drop", "rename", "commit"} :
            /\ pc[p] \in {"copy", "drop", "rename"} /\ pc' = [pc EXCEPT ![p] = step]
            /\ db' = db /\ blocked' = blocked
      <3>1. CASE CopyRows(p)
        BY <3>1 DEF CopyRows, At, Goto, ghosts, CalmOk
      <3>2. CASE DropOld(p) \/ Rename(p)
        <4>1. tx = p
          BY <3>2 DEF DropOld, Rename, At, RebuildInv, Held
        <4> QED BY <3>2, <4>1 DEF DropOld, Rename, Write, At, Goto, ghosts
      <3> QED BY <1>3, <3>1, <3>2
    <2>2. pc'[p] = step
      BY <1>0, <2>1 DEF TypeOK
    <2>3. CalmOk(p)'
      BY <2>1, <2>2 DEF CalmOk, Paired
    <2> QED BY <2>1, <2>2, <2>3, StepKinds DEF CalmEnd, IsStarting
  <1>4. CASE Commit(p)
    <2>1. pc[p] = "commit" /\ tx = p /\ p # NoProc /\ pc' = [pc EXCEPT ![p] = "snapshots?"] /\ blocked' = blocked
      BY <1>4 DEF Commit, At, Goto, ghosts, RebuildInv, Held, Bounds
    <2>2. db'.cols = db.cols
      BY <1>4, <2>1 DEF Commit, Seen, RebuildInv, Rebuilding
    <2>3. pc'[p] = "snapshots?"
      BY <1>0, <2>1 DEF TypeOK
    <2>4. CalmOk(p)'
      BY <2>1, <2>2, <2>3 DEF CalmOk, Paired
    <2> QED BY <2>1, <2>3, <2>4, StepKinds DEF CalmEnd, IsStarting
  <1>5. CASE Undo(p)
    <2>1. pc[p] = "undo" /\ blocked = 0 /\ db.chats = "strict" /\ tx # p
      BY <1>5 DEF Undo, At, CalmOk
    <2>2. db' = [db EXCEPT !.chats_new = "none"] /\ EndStart(p, "failed")
      BY <1>5, <2>1 DEF Undo
    <2>3. db'.chats_new = "none" /\ db'.cols = db.cols
      BY <1>0, <2>2 DEF Database
    <2>4. Ready'
      BY <2>1, <2>3 DEF Ready, Paired, StrictPaired
    <2> QED BY <1>0, <2>1, <2>2, <2>4, FailedOnce
  <1> QED BY <1>1, <1>2, <1>3, <1>4, <1>5

LEMMA CalmColumns ==
  ASSUME Bounds, RebuildInv, NEW p \in Procs, Calm(p), CalmOk(p), blocked <= 1,
         db.version <= SchemaVersion,
         \/ CheckColumn(p) \/ CheckVersion(p) \/ StampVersion(p)
         \/ \E c \in Columns : AddColumn(p, c)
         \/ \E c \in Indexed : CreateIndex(p, c)
  PROVE CalmEnd(p)
  <1>0. TypeOK /\ db \in Database /\ blocked \in 0..2
    BY DEF RebuildInv, TypeOK
  <1>1. CASE CheckColumn(p)
    <2>1. PICK step \in {"messages", "tenant?", "tenant", "always?", "always", "version"} :
            /\ pc[p] \in {"snapshots?", "tenant?", "always?"} /\ pc' = [pc EXCEPT ![p] = step]
            /\ UNCHANGED <<db, blocked>>
            /\ step \in {"messages", "tenant", "always"} => step \notin db.cols
      BY <1>1 DEF CheckColumn, Read, At, Goto, ghosts, Absent
    <2>2. pc'[p] = step
      BY <1>0, <2>1 DEF TypeOK
    <2>3. CalmOk(p)'
      BY <2>1, <2>2 DEF CalmOk, Paired
    <2> QED BY <2>1, <2>2, <2>3, StepKinds DEF CalmEnd, IsStarting
  <1>2. CASE CheckVersion(p) \/ StampVersion(p)
    <2>1. \/ pc' = [pc EXCEPT ![p] = "stamp"] /\ pc[p] = "version" /\ UNCHANGED <<db, blocked>>
          \/ EndStart(p, "up")
      BY <1>0, <1>2 DEF CheckVersion, StampVersion, At, Goto, ghosts, Database, SchemaVersion
    <2>2. CASE EndStart(p, "up")
      <3>1. pc'[p] = "up" /\ blocked' = 0
        BY <1>0, <2>2 DEF EndStart, Goto, TypeOK
      <3> QED BY <3>1, KindsApart DEF CalmEnd, IsStarting
    <2>3. CASE pc' = [pc EXCEPT ![p] = "stamp"] /\ pc[p] = "version" /\ UNCHANGED <<db, blocked>>
      <3>1. pc'[p] = "stamp"
        BY <1>0, <2>3 DEF TypeOK
      <3>2. CalmOk(p)'
        BY <2>3, <3>1 DEF CalmOk, Paired
      <3> QED BY <2>3, <3>1, <3>2, StepKinds DEF CalmEnd, IsStarting
    <2> QED BY <2>1, <2>2, <2>3
  <1>3. ASSUME NEW c \in Columns, AddColumn(p, c) PROVE CalmEnd(p)
    <2>1. pc[p] = c /\ c \in {"messages", "instr", "tenant", "always"}
      BY <1>3 DEF AddColumn, At, Columns
    <2>2. CASE c \in db.cols
      <3>1. c = "instr" /\ blocked = 0 /\ "messages" \in db.cols
        BY <1>0, <2>1, <2>2 DEF CalmOk
      <3>2. db' = db /\ EndStart(p, "failed")
        BY <1>0, <1>3, <2>1, <2>2, WriteAlone DEF AddColumn
      <3>3. db.chats = "loose"
        BY <2>1, StepSets DEF RebuildInv, ChatsThere
      <3>4. Ready'
        BY <3>1, <3>2, <3>3 DEF Ready, Paired
      <3> QED BY <1>0, <3>1, <3>2, <3>4, FailedOnce
    <2>3. CASE c \notin db.cols
      <3>1. db' = [db EXCEPT !.cols = @ \cup {c}] /\ pc' = [pc EXCEPT ![p] = Following(c)] /\ blocked' = blocked
        BY <1>0, <1>3, <2>1, <2>3, WriteAlone DEF AddColumn, Goto, ghosts
      <3>2. db'.cols = db.cols \cup {c} /\ pc'[p] = Following(c)
        BY <1>0, <3>1 DEF Database, TypeOK
      <3>3. /\ c = "messages" => Following(c) = "instr"
            /\ c = "instr" => Following(c) = "tenant?"
            /\ c = "tenant" => Following(c) = "idx_tenant"
            /\ c = "always" => Following(c) = "idx_always"
        BY <2>1 DEF Following, After
      <3>4. CalmOk(p)'
        BY <2>1, <3>1, <3>2, <3>3 DEF CalmOk, Paired
      <3> QED BY <2>1, <3>1, <3>2, <3>3, <3>4, StepKinds DEF CalmEnd, IsStarting
    <2> QED BY <2>2, <2>3
  <1>4. ASSUME NEW c \in Indexed, CreateIndex(p, c) PROVE CalmEnd(p)
    <2>1. pc[p] = IndexStep[c] /\ pc[p] \in {"idx_tenant", "idx_always"} /\ c \in db.cols
          /\ Following(IndexStep[c]) \in {"always?", "version"}
      BY <1>4 DEF CreateIndex, At, IndexStep, Indexed, CalmOk, Following, After
    <2>2. db' = [db EXCEPT !.idx = @ \cup {c}] /\ pc' = [pc EXCEPT ![p] = Following(IndexStep[c])] /\ blocked' = blocked
      BY <1>0, <1>4, <2>1, WriteAlone DEF CreateIndex, Goto, ghosts
    <2>3. db'.cols = db.cols /\ pc'[p] \in {"always?", "version"}
      BY <1>0, <2>1, <2>2 DEF Database, TypeOK
    <2>4. CalmOk(p)'
      BY <2>1, <2>2, <2>3 DEF CalmOk, Paired
    <2> QED BY <2>2, <2>3, <2>4, StepKinds DEF CalmEnd, IsStarting
  <1> QED BY <1>1, <1>2, <1>3, <1>4

LEMMA CalmStep ==
  ASSUME Bounds, RebuildInv, StrictPaired, NEW p \in Procs, Calm(p), CalmOk(p), blocked <= 1,
         db.version <= SchemaVersion, EnsureSchema(p)
  PROVE CalmEnd(p)
  BY CalmRebuild, CalmColumns DEF EnsureSchema

\* A start that was disturbed does not count as blocked when it ends.
LEMMA DisturbedStep ==
  ASSUME TypeOK, NEW p \in Procs, p \in disturbed, EnsureSchema(p)
  PROVE (IsStarting(p)' /\ blocked' = blocked) \/ blocked' = 0
  <1>1. ASSUME NEW step \in Starting, Goto(p, step) PROVE IsStarting(p)'
    BY <1>1 DEF Goto, TypeOK, IsStarting
  <1>2. CASE CheckChats(p) \/ CreateNew(p) \/ CopyRows(p) \/ DropOld(p) \/ Rename(p) \/ Commit(p) \/ Undo(p)
    BY <1>1, <1>2, StepKinds
       DEF CheckChats, Read, CreateNew, CopyRows, DropOld, Rename, Commit, Undo, EndStart, ghosts
  <1>3. CASE CheckColumn(p)
    BY <1>1, <1>3, StepKinds DEF CheckColumn, Read, ghosts
  <1>4. CASE CheckVersion(p) \/ StampVersion(p)
    BY <1>1, <1>4, StepKinds DEF CheckVersion, StampVersion, EndStart, ghosts
  <1>5. CASE \E c \in Columns : AddColumn(p, c)
    BY <1>1, <1>5, StepKinds DEF AddColumn, EndStart, ghosts
  <1>6. CASE \E c \in Indexed : CreateIndex(p, c)
    <2>1. \A c \in Indexed : Following(IndexStep[c]) \in Starting
      BY StepKinds DEF Indexed, IndexStep, Following, After
    <2> QED BY <1>1, <1>6, <2>1 DEF CreateIndex, EndStart, ghosts
  <1> QED BY <1>2, <1>3, <1>4, <1>5, <1>6 DEF EnsureSchema

\* Until it is rebuilt, chats has its old shape and the columns are those of old; and a
\* database of a newer release stays one.
LEMMA OldStays ==
  ASSUME Bounds, RebuildInv, NEW p \in Procs,
         Open(p) \/ EnsureSchema(p) \/ MigrateDown(p) \/ StatementFails(p) \/ Kill(p) \/ Stop(p)
  PROVE /\ db'.chats = "strict" => db.chats = "strict" /\ db'.cols = db.cols
        /\ db'.version <= SchemaVersion => db.version <= SchemaVersion
  <1>0. TypeOK /\ db \in Database
    BY DEF RebuildInv, TypeOK
  <1>1. CASE db' = db
    BY <1>1
  <1>2. CASE Open(p)
    <2>1. PICK new : /\ Write(p, new) /\ pc[p] = "off"
                     /\ new = IF db.chats = "none" THEN [db EXCEPT !.chats = "loose", !.cols = Columns] ELSE db
      BY <1>2 DEF Open, At
    <2>2. db' = new
      BY <1>0, <2>1, WriteAlone
    <2> QED BY <1>0, <2>1, <2>2 DEF Database
  <1>3. CASE CreateNew(p)
    <2>1. PICK new \in {db, [db EXCEPT !.chats_new = "empty"]} : Write(p, new) /\ pc[p] = "create"
      BY <1>3 DEF CreateNew, At
    <2>2. db' = new
      BY <1>0, <2>1, WriteAlone
    <2> QED BY <1>0, <2>1, <2>2 DEF Database
  <1>4. CASE Commit(p)
    <2>1. tx = p /\ p # NoProc /\ pc[p] = "commit"
      BY <1>4 DEF Commit, At, RebuildInv, Held, Bounds
    <2> QED BY <1>4, <2>1 DEF Commit, Seen, RebuildInv, Rebuilding
  <1>5. CASE Undo(p)
    <2>1. db' \in {db, [db EXCEPT !.chats_new = "none"]}
      BY <1>5 DEF Undo
    <2> QED BY <1>0, <2>1 DEF Database
  <1>6. ASSUME pc[p] \in Rebuilt, db'.chats = db.chats,
               db'.version = db.version \/ pc[p] \in {"stamp"} \cup Rolling
        PROVE /\ db'.chats # "strict"
              /\ db'.version <= SchemaVersion => db.version <= SchemaVersion
    BY <1>6 DEF RebuildInv, ChatsThere, VersionsDown
  <1>7. CASE StampVersion(p)
    <2>1. pc[p] = "stamp" /\ db' = [db EXCEPT !.version = SchemaVersion]
      BY <1>0, <1>7, WriteAlone DEF StampVersion, At
    <2>2. db'.chats = db.chats
      BY <1>0, <2>1 DEF Database
    <2> QED BY <1>6, <2>1, <2>2, StepSets
  <1>8. CASE \E c \in Columns : AddColumn(p, c) \/ RollColumn(p, c)
    <2>1. PICK c \in Columns : AddColumn(p, c) \/ RollColumn(p, c)
      BY <1>8
    <2>2. pc[p] \in {"messages", "instr", "tenant", "always", "always-", "tenant-", "instr-", "messages-"}
      BY <2>1 DEF AddColumn, RollColumn, At, Columns, DropStep
    <2>3. pc[p] \in Rebuilt
      BY <2>2, StepSets DEF Rolling
    <2>4. PICK new \in {db, [db EXCEPT !.cols = @ \cup {c}], [db EXCEPT !.cols = @ \ {c}]} : Write(p, new)
      BY <2>1 DEF AddColumn, RollColumn
    <2>5. db' = new
      BY <1>0, <2>2, <2>4, WriteAlone
    <2>6. db'.chats = db.chats /\ db'.version = db.version
      BY <1>0, <2>4, <2>5 DEF Database
    <2> QED BY <1>6, <2>3, <2>6
  <1>9. CASE RollIndex(p) \/ \E c \in Indexed : CreateIndex(p, c)
    <2>1. pc[p] \in {"idx_always-", "idx_tenant", "idx_always"}
      BY <1>9 DEF RollIndex, CreateIndex, At, Indexed, IndexStep
    <2>2. pc[p] \in Rebuilt
      BY <2>1, StepSets DEF Rolling
    <2>3. CASE RollIndex(p)
      <3>1. db' = [db EXCEPT !.idx = @ \ {"always"}]
        BY <1>0, <2>1, <2>3, WriteAlone DEF RollIndex
      <3>2. db'.chats = db.chats /\ db'.version = db.version
        BY <1>0, <3>1 DEF Database
      <3> QED BY <1>6, <2>2, <3>2
    <2>4. CASE \E c \in Indexed : CreateIndex(p, c)
      <3>1. PICK c \in Indexed : Write(p, [db EXCEPT !.idx = @ \cup {c}]) \/ Write(p, db)
        BY <2>4 DEF CreateIndex
      <3>2. db' = [db EXCEPT !.idx = @ \cup {c}] \/ db' = db
        BY <1>0, <2>1, <3>1, WriteAlone
      <3>3. db'.chats = db.chats /\ db'.version = db.version
        BY <1>0, <3>2 DEF Database
      <3> QED BY <1>6, <2>2, <3>3
    <2> QED BY <1>9, <2>3, <2>4
  <1>10. CASE RollVersion(p)
    <2>1. pc[p] = "version-" /\ db' = [db EXCEPT !.version = roll[p].from - 1]
      BY <1>10 DEF RollVersion, At
    <2>2. db'.chats = db.chats
      BY <1>0, <2>1 DEF Database
    <2>3. pc[p] \in Rebuilt /\ pc[p] \in Rolling
      BY <2>1, StepSets DEF Rolling
    <2> QED BY <1>6, <2>2, <2>3
  <1>11. CASE DropOld(p) \/ Rename(p)
    BY <1>1, <1>11 DEF DropOld, Rename, Write, At, RebuildInv, Held
  <1> QED
    BY <1>1, <1>2, <1>3, <1>4, <1>5, <1>7, <1>8, <1>9, <1>10, <1>11
    DEF EnsureSchema, MigrateDown, CheckChats, Read, CopyRows, CheckColumn, CheckVersion, RollBegin,
        StatementFails, Kill, Stop, End

-----------------------------------------------------------------------------
(* Two starts in a row *)

LEMMA BlockedInit == ASSUME Bounds, Init PROVE BlockedInv
  <1>1. \A p \in Procs : pc[p] = "off" /\ ~Calm(p)
    BY KindsApart DEF Init, Calm, IsStarting
  <1>2. Paired
    <2>1. CASE db \in Legacy
      <3>1. PICK c \in {"strict", "loose"}, k \in {{}, {"messages", "instr"}, Columns \ {"always"}} :
              db = [chats |-> c, rows |-> TRUE, chats_new |-> "none", cols |-> k, idx |-> {}, version |-> 0]
        BY <2>1 DEF Legacy
      <3> QED BY <3>1 DEF Columns, Paired
    <2>2. CASE db = NewFile \/ db = Newer
      BY <2>2 DEF NewFile, Newer, Columns, Paired
    <2> QED BY <2>1, <2>2 DEF Init
  <1>3. blocked = 0
    BY DEF Init
  <1> QED BY <1>1, <1>2, <1>3 DEF BlockedInv, CalmAlone, StrictPaired, IdleReady

LEMMA OpenBlocked ==
  ASSUME Bounds, RebuildInv, BlockedInv, NEW p \in Procs, Open(p)
  PROVE BlockedInv'
  <1>0. TypeOK /\ db \in Database /\ pc[p] = "off" /\ blocked' = blocked
    BY DEF RebuildInv, TypeOK, Open, At
  <1>1. /\ pc'[p] = "chats" /\ \A q \in Procs : q # p => pc'[q] = pc[q]
        /\ "chats" \in Starting
    BY <1>0, StepKinds DEF Open, Goto, TypeOK
  <1>2. CalmAlone'
    BY AloneStep DEF BlockedInv
  <1>3. StrictPaired'
    BY OldStays DEF BlockedInv, StrictPaired, Paired
  <1>4. db'.version <= SchemaVersion => db.version <= SchemaVersion
    BY OldStays
  <1>5. IdleReady'
    BY <1>1 DEF IdleReady, IsStarting
  <1>6. ASSUME db'.version <= SchemaVersion, NEW q \in Procs, Calm(q)' PROVE CalmOk(q)'
    <2>1. q = p
      <3>1. q # p => Stop(p)
        BY <1>6, OthersStop DEF BlockedInv
      <3> QED BY <1>0, <3>1 DEF Stop
    <2>2. \A r \in Procs : pc[r] \notin Starting \cup Rolling
      <3>1. {r \in Procs \ {p} : IsStarting(r) \/ pc[r] \in Rolling} = {}
        BY <1>6, <2>1 DEF Open, Calm
      <3> QED BY <1>0, <3>1, KindsApart DEF IsStarting
    <2>3. blocked > 0 => Ready
      BY <1>4, <1>6, <2>2 DEF BlockedInv, IdleReady, IsStarting
    <2>4. PICK new : /\ Write(p, new)
                     /\ new = IF db.chats = "none" THEN [db EXCEPT !.chats = "loose", !.cols = Columns] ELSE db
      BY DEF Open
    <2>5. db' = new
      BY <1>0, <2>4, WriteAlone
    <2>6. db' = db \/ (db'.chats = "loose" /\ db'.cols = Columns)
      BY <1>0, <2>4, <2>5 DEF Database
    <2>7. blocked' > 0 => Ready'
      BY <1>0, <2>3, <2>6 DEF Ready, Paired, Columns
    <2> QED BY <1>1, <2>1, <2>7 DEF CalmOk, Ready
  <1> QED BY <1>0, <1>2, <1>3, <1>4, <1>5, <1>6 DEF BlockedInv

\* A rollback drops the second column of the first migration first.
LEMMA RollPaired ==
  ASSUME Bounds, RebuildInv, NEW p \in Procs, MigrateDown(p), Paired,
         (\E q \in Procs : pc[q] = "messages-") => "instr" \notin db.cols
  PROVE /\ Ready'
        /\ (\E q \in Procs : pc'[q] = "messages-") => "instr" \notin db'.cols
  <1>0. TypeOK /\ db \in Database /\ p # NoProc
    BY DEF RebuildInv, TypeOK, Bounds
  <1>1. db'.chats # "strict"
    <2>1. db.chats = "loose"
      BY Moves, StepSets DEF RebuildInv, ChatsThere
    <2> QED BY <2>1, OldStays
  <1>2. \A q \in Procs : q # p => pc'[q] = pc[q]
    BY Moves
  <1>3. CASE db'.cols = db.cols /\ pc'[p] # "messages-"
    BY <1>1, <1>2, <1>3 DEF Ready, Paired
  <1>4. CASE \E target \in 0..SchemaVersion : RollBegin(p, target)
    <2>1. PICK step \in {"idx_always-", "tenant-", "instr-", "version-"} : pc' = [pc EXCEPT ![p] = step] /\ db' = db
      BY <1>4 DEF RollBegin, FirstOf, Goto
    <2>2. pc'[p] = step
      BY <1>0, <2>1 DEF TypeOK
    <2> QED BY <1>3, <2>1, <2>2
  <1>5. CASE RollIndex(p)
    <2>1. db' = [db EXCEPT !.idx = @ \ {"always"}] /\ pc' = [pc EXCEPT ![p] = "always-"]
      BY <1>0, <1>5, WriteAlone DEF RollIndex, At, Goto
    <2>2. db'.cols = db.cols /\ pc'[p] = "always-"
      BY <1>0, <2>1 DEF Database, TypeOK
    <2> QED BY <1>3, <2>2
  <1>6. CASE RollVersion(p)
    <2>1. PICK step \in {"up", "idx_always-", "tenant-", "instr-", "version-"} :
            pc' = [pc EXCEPT ![p] = step] /\ db' = [db EXCEPT !.version = roll[p].from - 1]
      <3>1. \A n : FirstOf(n) \in {"idx_always-", "tenant-", "instr-", "version-"}
        BY DEF FirstOf
      <3> QED BY <1>6, <3>1 DEF RollVersion, Goto
    <2>2. db'.cols = db.cols /\ pc'[p] = step
      BY <1>0, <2>1 DEF Database, TypeOK
    <2> QED BY <1>3, <2>1, <2>2
  <1>7. ASSUME NEW c \in Columns, RollColumn(p, c)
        PROVE /\ Ready'
              /\ (\E q \in Procs : pc'[q] = "messages-") => "instr" \notin db'.cols
    <2>1. pc[p] \in {"always-", "tenant-", "instr-", "messages-"} /\ (pc[p] = "messages-" <=> c = "messages")
      BY <1>7 DEF RollColumn, At, DropStep, Columns
    <2>2. CASE c \in db.cols \ db.idx
      <3>1. PICK step \in {"messages-", "version-"} :
              /\ pc' = [pc EXCEPT ![p] = step] /\ Write(p, [db EXCEPT !.cols = @ \ {c}])
              /\ step = "messages-" <=> c = "instr"
        BY <1>7, <2>2 DEF RollColumn, Goto
      <3>2. db' = [db EXCEPT !.cols = @ \ {c}]
        BY <1>0, <2>1, <3>1, WriteAlone
      <3>3. db'.cols = db.cols \ {c} /\ pc'[p] = step
        BY <1>0, <3>1, <3>2 DEF Database, TypeOK
      <3>4. c = "messages" => "instr" \notin db.cols
        BY <2>1
      <3>5. Paired'
        BY <3>3, <3>4 DEF Paired
      <3> QED BY <1>1, <1>2, <3>1, <3>3, <3>5 DEF Ready
    <2>3. CASE c \notin db.cols \ db.idx
      <3>1. pc' = [pc EXCEPT ![p] = "up"] /\ Write(p, db)
        BY <1>7, <2>3 DEF RollColumn, Goto
      <3>2. db' = db /\ pc'[p] = "up"
        BY <1>0, <2>1, <3>1, WriteAlone DEF TypeOK
      <3> QED BY <1>3, <3>2
    <2> QED BY <2>2, <2>3
  <1> QED BY <1>4, <1>5, <1>6, <1>7 DEF MigrateDown

LEMMA OthersBlocked ==
  ASSUME Bounds, RebuildInv, BlockedInv, NEW p \in Procs,
         EnsureSchema(p) \/ MigrateDown(p) \/ StatementFails(p) \/ Kill(p) \/ Stop(p)
  PROVE BlockedInv'
  <1>0. TypeOK /\ p # NoProc /\ blocked \in 0..2
    BY DEF RebuildInv, TypeOK, Bounds
  <1>1. CalmAlone'
    BY AloneStep DEF BlockedInv
  <1>2. StrictPaired'
    BY OldStays DEF BlockedInv, StrictPaired, Paired
  <1> SUFFICES ASSUME db'.version <= SchemaVersion
               PROVE blocked' <= 1 /\ IdleReady' /\ \A q \in Procs : Calm(q)' => CalmOk(q)'
    BY <1>1, <1>2 DEF BlockedInv
  <1>3. /\ db.version <= SchemaVersion /\ blocked <= 1 /\ IdleReady /\ CalmAlone /\ StrictPaired
        /\ \A q \in Procs : Calm(q) => CalmOk(q)
    BY OldStays DEF BlockedInv
  <1>4. \A q \in Procs : q # p => pc'[q] = pc[q]
    BY Moves
  <1>5. EnsureSchema(p) /\ Calm(p) => CalmEnd(p)
    BY <1>3, CalmStep
  <1>6. MigrateDown(p) \/ StatementFails(p) \/ Stop(p) => blocked' = blocked
    BY DEF MigrateDown, RollBegin, RollColumn, RollIndex, RollVersion, Undercut, StatementFails, Stop
  <1>7. Kill(p) => blocked' = 0
    BY DEF Kill
  <1>8. EnsureSchema(p) /\ ~Calm(p) => (IsStarting(p)' /\ blocked' = blocked) \/ blocked' = 0
    <2>1. EnsureSchema(p) /\ ~Calm(p) => p \in disturbed
      BY Moves DEF Calm, IsStarting
    <2> QED BY <1>0, <2>1, DisturbedStep
  <1>9. blocked' <= 1
    BY <1>3, <1>5, <1>6, <1>7, <1>8 DEF CalmEnd
  <1>10. ASSUME NEW q \in Procs, Calm(q)' PROVE CalmOk(q)'
    <2>1. CASE q # p
      <3>1. Calm(q) /\ Stop(p)
        BY <1>3, <1>10, <2>1, OthersStop
      <3>2. tx # p
        BY <1>0, <3>1 DEF TypeOK, Stop
      <3>3. UNCHANGED <<db, tx, blocked>> /\ pc'[q] = pc[q]
        BY <1>4, <2>1, <3>1, <3>2 DEF Stop, End
      <3> QED BY <1>3, <3>1, <3>3 DEF CalmOk, Ready, Paired
    <2>2. CASE q = p
      <3>1. pc'[p] \in Starting /\ p \notin disturbed'
        BY <1>10, <2>2 DEF Calm, IsStarting
      <3>2. EnsureSchema(p)
        BY <3>1, Moves, KindsApart
      <3>3. Calm(p)
        BY <3>1, <3>2, Moves DEF Calm, IsStarting
      <3> QED BY <1>5, <2>2, <3>1, <3>2, <3>3 DEF CalmEnd, IsStarting
    <2> QED BY <2>1, <2>2
  <1>11. IdleReady'
    <2> SUFFICES ASSUME blocked' > 0, \A q \in Procs : pc'[q] \notin Starting
                 PROVE Ready' /\ ((\E q \in Procs : pc'[q] = "messages-") => "instr" \notin db'.cols)
      BY DEF IdleReady, IsStarting
    <2>1. CASE EnsureSchema(p)
      <3>1. Calm(p)
        BY <1>8, <2>1 DEF IsStarting
      <3>2. Ready'
        BY <1>5, <2>1, <3>1 DEF CalmEnd, IsStarting
      <3>3. \A q \in Procs : pc'[q] # "messages-"
        <4>1. "messages-" \in Rolling /\ pc'[p] \in Starting \cup {"up", "failed"}
          BY <2>1, Moves DEF Rolling
        <4>2. pc'[p] # "messages-"
          BY <4>1, KindsApart
        <4> QED BY <1>3, <1>4, <3>1, <4>1, <4>2 DEF CalmAlone
      <3> QED BY <3>2, <3>3
    <2>2. CASE MigrateDown(p) \/ Stop(p)
      <3>1. \A q \in Procs : ~IsStarting(q)
        <4>1. pc[p] \notin Starting
          BY <2>2, Moves, KindsApart
        <4> QED BY <1>4, <4>1 DEF IsStarting
      <3>2. Ready /\ ((\E q \in Procs : pc[q] = "messages-") => "instr" \notin db.cols)
        BY <1>3, <1>6, <2>2, <3>1 DEF IdleReady
      <3>3. CASE MigrateDown(p)
        BY <3>2, <3>3, RollPaired DEF Ready
      <3>4. CASE Stop(p)
        <4>1. db' = db /\ pc'[p] = "off"
          BY <3>4, Moves DEF Stop, End
        <4> QED BY <1>4, <3>2, <4>1 DEF Ready, Paired
      <3> QED BY <2>2, <3>3, <3>4
    <2>3. CASE StatementFails(p)
      BY <2>3, Moves
    <2>4. CASE Kill(p)
      BY <1>7, <2>4
    <2> QED BY <2>1, <2>2, <2>3, <2>4
  <1> QED BY <1>9, <1>10, <1>11

LEMMA BlockedStep == ASSUME Bounds, RebuildInv, BlockedInv, [Next]_vars PROVE BlockedInv'
  <1>1. CASE UNCHANGED vars
    BY <1>1 DEF vars, BlockedInv, CalmAlone, StrictPaired, IdleReady, Ready, Paired, CalmOk, Calm, IsStarting
  <1>2. CASE Next
    BY <1>2, OpenBlocked, OthersBlocked DEF Next
  <1> QED BY <1>1, <1>2

-----------------------------------------------------------------------------
(* Together *)

LEMMA SchemaInit == ASSUME Bounds, Init PROVE SchemaInv
  BY RebuildInit, ColumnsInit, BlockedInit DEF SchemaInv

LEMMA SchemaStep == ASSUME Bounds, SchemaInv, [Next]_vars PROVE SchemaInv'
  BY RebuildStep, ColumnsStep, BlockedStep DEF SchemaInv

LEMMA SchemaShows == SchemaInv => TypeOK /\ ChatsKept /\ ServesFullSchema /\ BlockedOnce
  BY ColumnsServe DEF SchemaInv, RebuildInv, BlockedInv, BlockedOnce

\* No kill, no failing statement and no other process makes the committed database lose
\* a chat while _ensure_schema rebuilds the table, for any number of processes, faults
\* and rollbacks; a process that came up after the last rollback serves the whole
\* schema; and residues block one undisturbed start at most.
THEOREM SchemaHolds == ASSUME Bounds PROVE Spec => [](ChatsKept /\ ServesFullSchema /\ BlockedOnce)
  <1>1. Init => SchemaInv
    BY SchemaInit
  <1>2. SchemaInv /\ [Next]_vars => SchemaInv'
    BY SchemaStep
  <1>3. SchemaInv => ChatsKept /\ ServesFullSchema /\ BlockedOnce
    BY SchemaShows
  <1> QED BY <1>1, <1>2, <1>3, PTL DEF Spec
===============================================================================
