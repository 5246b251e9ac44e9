--------------------------- MODULE SchemaMigration ---------------------------
(***************************************************************************)
(* ProjectStore._ensure_schema and migrate_down over one SQLite file that  *)
(* several processes open (daemon and REST server).  One action is one SQL *)
(* statement.  sqlite3 opens a transaction before INSERT, UPDATE and       *)
(* DELETE only: ALTER, CREATE, DROP and PRAGMA outside one take effect at  *)
(* once.  A writer waits for the transaction of another process.           *)
(***************************************************************************)
EXTENDS Naturals, FiniteSets

CONSTANTS
  Procs,      \* processes that open the database
  NoProc,
  MaxFaults,  \* bound: processes killed, statements that fail
  MaxRolls    \* bound: calls of migrate_down

\* What an instance assumes of them.
Bounds == NoProc \notin Procs /\ MaxFaults \in Nat /\ MaxRolls \in Nat

VARIABLES
  db,       \* the committed database
  tx,       \* the process that holds the write transaction
  work,     \* the database as that process sees it
  pc,       \* per process: the next statement of _ensure_schema or migrate_down
  roll,     \* per process in migrate_down: the version it undoes and its target
  faults,
  rolls,
  undercut, \* processes whose start or service overlapped a statement of migrate_down
  disturbed,\* processes whose start met a fault or a start of another
  blocked   \* undisturbed starts that failed in a row

vars == <<db, tx, work, pc, roll, faults, rolls, undercut, disturbed, blocked>>

SchemaVersion == 4
Columns == {"messages", "instr", "tenant", "always"}
Indexed == {"tenant", "always"}
\* The columns in the order of the migrations, each with the step that follows.
After == [messages |-> "instr", instr |-> "tenant", tenant |-> "idx_tenant",
          idx_tenant |-> "always", always |-> "idx_always", idx_always |-> "version"]
Statements == {"create", "copy", "drop", "rename", "commit", "undo", "stamp"} \cup DOMAIN After
Checks == {"chats", "snapshots?", "tenant?", "always?", "version"}
Starting == Statements \cup Checks
Rolling == {"idx_always-", "always-", "tenant-", "instr-", "messages-", "version-"}

Database == [
  chats: {"none", "strict", "loose"},  \* no table, project_id NOT NULL, nullable
  rows: BOOLEAN,                       \* the chats written so far are in it
  chats_new: {"none", "empty", "full"},
  cols: SUBSET Columns, idx: SUBSET Indexed, version: 0..SchemaVersion + 1]

TypeOK ==
  /\ db \in Database /\ work \in Database
  /\ tx \in Procs \cup {NoProc}
  /\ pc \in [Procs -> {"off", "up", "failed"} \cup Starting \cup Rolling]
  /\ roll \in [Procs -> [from: 0..SchemaVersion + 1, target: 0..SchemaVersion + 1]]
  /\ faults \in 0..MaxFaults /\ rolls \in 0..MaxRolls
  /\ undercut \subseteq Procs /\ disturbed \subseteq Procs
  /\ blocked \in 0..2
  /\ tx # NoProc => pc[tx] \in {"drop", "rename", "commit", "undo"}

\* What older releases left: a new file, or the columns up to some migration.
Legacy == {[chats |-> c, rows |-> TRUE, chats_new |-> "none", cols |-> k, idx |-> {}, version |-> 0] :
             c \in {"strict", "loose"}, k \in {{}, {"messages", "instr"}, Columns \ {"always"}}}
NewFile == [chats |-> "none", rows |-> TRUE, chats_new |-> "none", cols |-> {}, idx |-> {}, version |-> 0]
Newer == [chats |-> "loose", rows |-> TRUE, chats_new |-> "none", cols |-> Columns, idx |-> {},
          version |-> SchemaVersion + 1]

Init ==
  /\ db \in Legacy \cup {NewFile, Newer}
  /\ tx = NoProc /\ work = db
  /\ pc = [p \in Procs |-> "off"]
  /\ roll = [p \in Procs |-> [from |-> 0, target |-> 0]]
  /\ faults = 0 /\ rolls = 0 /\ undercut = {} /\ disturbed = {} /\ blocked = 0

-----------------------------------------------------------------------------
(* Helpers *)

IndexStep == [tenant |-> "idx_tenant", always |-> "idx_always"]
DropStep == [always |-> "always-", tenant |-> "tenant-", instr |-> "instr-", messages |-> "messages-"]

ghosts == <<undercut, disturbed, blocked>>
At(p, step) == pc[p] = step
Goto(p, step) == pc' = [pc EXCEPT ![p] = step]
IsStarting(p) == pc[p] \in Starting

\* Statements of p run in its transaction if it has one, and alone otherwise.
Seen(p) == IF tx = p THEN work ELSE db
MayWrite(p) == tx \in {p, NoProc}
Write(p, new) ==
  /\ MayWrite(p)
  /\ IF tx = p THEN work' = new /\ UNCHANGED db ELSE db' = new /\ work' = new
  /\ UNCHANGED <<tx, roll, faults, rolls>>
Read(p, step) == Goto(p, step) /\ UNCHANGED <<db, tx, work, roll, faults, rolls, ghosts>>

\* A start ends; only starts that nothing disturbed are counted as blocked.
EndStart(p, end) ==
  /\ Goto(p, end)
  /\ blocked' = IF end = "up" \/ p \in disturbed THEN 0
                ELSE IF blocked < 2 THEN blocked + 1 ELSE blocked
  /\ UNCHANGED <<undercut, disturbed>>

-----------------------------------------------------------------------------
(* _ensure_schema *)

\* executescript(SCHEMA_SQL): tables that are missing get the current shape.
Open(p) ==
  /\ At(p, "off")
  /\ Write(p, IF db.chats = "none" THEN [db EXCEPT !.chats = "loose", !.cols = Columns] ELSE db)
  /\ Goto(p, "chats")
  /\ undercut' = IF \E q \in Procs : pc[q] \in Rolling THEN undercut \cup {p} ELSE undercut \ {p}
  /\ LET others == {q \in Procs \ {p} : IsStarting(q) \/ pc[q] \in Rolling} IN
       disturbed' = IF others = {} THEN disturbed \ {p} ELSE disturbed \cup others \cup {p}
  /\ UNCHANGED blocked

CheckChats(p) ==
  /\ At(p, "chats")
  /\ Read(p, IF db.chats = "strict" THEN "create" ELSE "snapshots?")

CreateNew(p) ==
  /\ At(p, "create")
  /\ IF db.chats_new = "none"
       THEN Write(p, [db EXCEPT !.chats_new = "empty"]) /\ Goto(p, "copy")
       ELSE Write(p, db) /\ Goto(p, "undo")
  /\ UNCHANGED ghosts

\* Mutant of CopyRows: each statement commits, as with isolation_level=None.
CopyRowsAutocommit(p) ==
  /\ At(p, "copy")
  /\ IF db.chats_new = "none"
       THEN Write(p, db) /\ Goto(p, "undo")
       ELSE Write(p, [db EXCEPT !.chats_new = "full"]) /\ Goto(p, "drop")
  /\ UNCHANGED ghosts

\* INSERT INTO chats_new opens the transaction.
CopyRows(p) ==
  /\ At(p, "copy")
  /\ MayWrite(p)
  /\ IF db.chats_new = "none"
       THEN Goto(p, "undo") /\ UNCHANGED <<tx, work>>
       ELSE /\ tx' = p
            /\ work' = [db EXCEPT !.chats_new = "full"]
            /\ Goto(p, "drop")
  /\ UNCHANGED <<db, roll, faults, rolls, ghosts>>

DropOld(p) ==
  /\ At(p, "drop")
  /\ Write(p, [Seen(p) EXCEPT !.chats = "none", !.rows = FALSE])
  /\ Goto(p, "rename")
  /\ UNCHANGED ghosts

Rename(p) ==
  /\ At(p, "rename")
  /\ Write(p, [Seen(p) EXCEPT !.chats = "loose", !.rows = Seen(p).chats_new = "full",
                              !.chats_new = "none"])
  /\ Goto(p, "commit")
  /\ UNCHANGED ghosts

Commit(p) ==
  /\ At(p, "commit")
  /\ db' = Seen(p)
  /\ tx' = NoProc /\ work' = db'
  /\ Goto(p, "snapshots?")
  /\ UNCHANGED <<roll, faults, rolls, ghosts>>

\* Mutant of Undo: the error is logged and the start goes on.
UndoGoesOn(p) ==
  /\ At(p, "undo")
  /\ db' = IF tx = p THEN db ELSE [db EXCEPT !.chats_new = "none"]
  /\ tx' = NoProc /\ work' = db'
  /\ Goto(p, "snapshots?")
  /\ UNCHANGED <<roll, faults, rolls, ghosts>>

\* Mutant of Undo: the rollback alone.
UndoRollsBack(p) ==
  /\ At(p, "undo")
  /\ MayWrite(p)
  /\ tx' = NoProc /\ work' = db
  /\ EndStart(p, "failed")
  /\ UNCHANGED <<db, roll, faults, rolls>>

\* DROP TABLE IF EXISTS chats_new, then rollback: in a transaction the rollback
\* takes the drop back as well, and the empty chats_new stays.
Undo(p) ==
  /\ At(p, "undo")
  /\ MayWrite(p)
  /\ db' = IF tx = p THEN db ELSE [db EXCEPT !.chats_new = "none"]
  /\ tx' = NoProc /\ work' = db'
  /\ EndStart(p, "failed")
  /\ UNCHANGED <<roll, faults, rolls>>

\* PRAGMA table_info decides on the first column of a migration only.
Absent(p, c) == c \notin db.cols
CheckColumn(p) ==
  \/ At(p, "snapshots?") /\ Read(p, IF Absent(p, "messages") THEN "messages" ELSE "tenant?")
  \/ At(p, "tenant?") /\ Read(p, IF Absent(p, "tenant") THEN "tenant" ELSE "always?")
  \/ At(p, "always?") /\ Read(p, IF Absent(p, "always") THEN "always" ELSE "version")

Following(c) ==
  CASE c = "instr" -> "tenant?" [] c = "idx_tenant" -> "always?" [] OTHER -> After[c]

\* ALTER TABLE ... ADD COLUMN fails for a column that another process added meanwhile.
AddColumn(p, c) ==
  /\ At(p, c)
  /\ IF c \in db.cols
       THEN Write(p, db) /\ EndStart(p, "failed")
       ELSE /\ Write(p, [db EXCEPT !.cols = @ \cup {c}])
            /\ Goto(p, Following(c))
            /\ UNCHANGED ghosts

\* CREATE INDEX IF NOT EXISTS; it fails without the column.
CreateIndex(p, c) ==
  /\ At(p, IndexStep[c])
  /\ IF c \in db.cols
       THEN /\ Write(p, [db EXCEPT !.idx = @ \cup {c}])
            /\ Goto(p, Following(IndexStep[c]))
            /\ UNCHANGED ghosts
       ELSE Write(p, db) /\ EndStart(p, "failed")

CheckVersion(p) ==
  /\ At(p, "version")
  /\ \/ db.version < SchemaVersion /\ Goto(p, "stamp") /\ UNCHANGED ghosts
     \/ db.version = SchemaVersion /\ EndStart(p, "up")
     \/ db.version > SchemaVersion /\ EndStart(p, "failed")
  /\ UNCHANGED <<db, tx, work, roll, faults, rolls>>

StampVersion(p) ==
  /\ At(p, "stamp")
  /\ Write(p, [db EXCEPT !.version = SchemaVersion])
  /\ EndStart(p, "up")

-----------------------------------------------------------------------------
(* migrate_down, called by RPC in a process that serves *)

FirstOf(v) ==
  CASE v = 4 -> "idx_always-" [] v = 3 -> "tenant-" [] v = 2 -> "instr-" [] OTHER -> "version-"

RollBegin(p, target) ==
  /\ At(p, "up")
  /\ rolls < MaxRolls
  /\ target < db.version
  /\ rolls' = rolls + 1
  /\ roll' = [roll EXCEPT ![p] = [from |-> db.version, target |-> target]]
  /\ Goto(p, FirstOf(db.version))
  /\ disturbed' = disturbed \cup {q \in Procs : IsStarting(q)}
  /\ UNCHANGED <<db, tx, work, faults, undercut, blocked>>

Undercut == undercut' = {q \in Procs : pc[q] # "off"} /\ UNCHANGED <<disturbed, blocked>>

\* ALTER TABLE ... DROP COLUMN fails for a column that is absent or indexed; what was
\* undone before stays undone.
RollColumn(p, c) ==
  /\ At(p, DropStep[c])
  /\ LET next == IF c = "instr" THEN "messages-" ELSE "version-" IN
     IF c \in db.cols \ db.idx
       THEN Write(p, [db EXCEPT !.cols = @ \ {c}]) /\ Goto(p, next)
       ELSE Write(p, db) /\ Goto(p, "up")
  /\ Undercut

RollIndex(p) ==
  /\ At(p, "idx_always-")
  /\ Write(p, [db EXCEPT !.idx = @ \ {"always"}])
  /\ Goto(p, "always-")
  /\ Undercut

\* user_version is lowered also for a version that has no SQL.
RollVersion(p) ==
  /\ At(p, "version-")
  /\ MayWrite(p)
  /\ LET v == roll[p].from - 1 IN
       /\ db' = [db EXCEPT !.version = v] /\ work' = db'
       /\ roll' = [roll EXCEPT ![p].from = v]
       /\ Goto(p, IF v = roll[p].target THEN "up" ELSE FirstOf(v))
  /\ Undercut
  /\ UNCHANGED <<tx, faults, rolls>>

-----------------------------------------------------------------------------
(* Faults *)

\* The disk is full, or the busy timeout is over, in the middle of the rebuild.
StatementFails(p) ==
  /\ pc[p] \in {"copy", "drop", "rename"}
  /\ faults < MaxFaults
  /\ faults' = faults + 1
  /\ Goto(p, "undo")
  /\ disturbed' = disturbed \cup {p}
  /\ UNCHANGED <<db, tx, work, roll, rolls, undercut, blocked>>

\* Processes end; SQLite rolls an open transaction back.
End(ps) ==
  /\ pc' = [p \in Procs |-> IF p \in ps THEN "off" ELSE pc[p]]
  /\ tx' = IF tx \in ps THEN NoProc ELSE tx
  /\ work' = IF tx \in ps THEN db ELSE work
  /\ UNCHANGED <<db, roll, rolls, undercut, disturbed>>

Kill(p) ==
  /\ pc[p] \in Starting \cup Rolling
  /\ faults < MaxFaults
  /\ faults' = faults + 1
  /\ End({p})
  /\ blocked' = 0

Stop(p) ==
  /\ pc[p] \in {"up", "failed"}
  /\ End({p})
  /\ UNCHANGED <<faults, blocked>>

EnsureSchema(p) ==
  \/ CheckChats(p) \/ CreateNew(p) \/ CopyRows(p) \/ DropOld(p) \/ Rename(p) \/ Commit(p)
  \/ Undo(p) \/ CheckColumn(p) \/ CheckVersion(p) \/ StampVersion(p)
  \/ \E c \in Columns : AddColumn(p, c)
  \/ \E c \in Indexed : CreateIndex(p, c)

MigrateDown(p) ==
  \/ \E target \in 0..SchemaVersion : RollBegin(p, target)
  \/ \E c \in Columns : RollColumn(p, c)
  \/ RollIndex(p) \/ RollVersion(p)

Next == \E p \in Procs :
  Open(p) \/ EnsureSchema(p) \/ MigrateDown(p) \/ StatementFails(p) \/ Kill(p) \/ Stop(p)

Spec == Init /\ [][Next]_vars

-----------------------------------------------------------------------------
(* Properties *)

\* Whenever a process is killed or a statement fails while the table chats is rebuilt,
\* the committed database still has every chat.
ChatsKept == db.rows

\* "A forward re-run of ProjectStore initialization re-applies the up-migrations": a
\* process that came up after the last rollback serves the whole schema, even if
\* another one was migrating at the same time.  (instruction_snapshot_id may be
\* missing: its presence is inferred from that of messages.)
ServesFullSchema ==
  \A p \in Procs : At(p, "up") /\ p \notin undercut =>
    /\ db.chats = "loose"
    /\ Columns \ {"instr"} \subseteq db.cols
    /\ "instr" \in db.cols \/ faults > 0 \/ \E q \in Procs : At(q, "instr")

\* "clean up residual chats_new so a retry isn't blocked": whatever earlier starts
\* left behind, two undisturbed starts in a row do not both fail.
BlockedOnce == db.version <= SchemaVersion => blocked <= 1
==============================================================================
