------------------------- MODULE InstructionHistory --------------------------
(***************************************************************************)
(* The instructions of one project: InstructionEngine.save, clear,         *)
(* restore_snapshot and delete_snapshot over the tables instructions and   *)
(* instruction_snapshots.  Each call awaits the store several times, every *)
(* time in a worker thread; one action is one store transaction.           *)
(***************************************************************************)
EXTENDS Naturals, FiniteSets

CONSTANTS
  Tasks,     \* coroutines that may run at the same time
  Texts,     \* contents, Empty among them
  Empty,     \* the empty content
  Rows,      \* ids of instructions rows, each used at most once
  NoRow,
  Absent,    \* the row is not in the table
  MaxWrites, \* bound: calls of save_instructions
  MaxSnaps   \* bound: snapshots of the same content

\* What an instance assumes of them.
Distinct == Empty \in Texts /\ Absent \notin Texts /\ NoRow \notin Rows
Bounds == MaxWrites \in Nat /\ MaxSnaps \in Nat

VARIABLES
  table,   \* instructions: the content of each row
  stamp,   \* updated_at of each row
  used,    \* row ids handed out
  snaps,   \* instruction_snapshots: how many snapshots of each content
  call,    \* per coroutine: next step, new content, row found, its timestamp
  clock    \* timestamps taken so far

vars == <<table, stamp, used, snaps, call, clock>>

Calls == [pc: {"idle", "existing", "snap", "find", "write"}, new: Texts,
          old: Texts, row: Rows \cup {NoRow}, now: 0..MaxWrites]
Idle == [pc |-> "idle", new |-> Empty, old |-> Empty, row |-> NoRow, now |-> 0]

TypeOK ==
  /\ table \in [Rows -> Texts \cup {Absent}]
  /\ stamp \in [Rows -> 0..MaxWrites]
  /\ used \subseteq Rows
  /\ snaps \in [Texts -> 0..MaxSnaps]
  /\ call \in [Tasks -> Calls]
  /\ clock \in 0..MaxWrites

Init ==
  /\ table = [r \in Rows |-> Absent]
  /\ stamp = [r \in Rows |-> 0]
  /\ used = {}
  /\ snaps = [x \in Texts |-> 0]
  /\ call = [t \in Tasks |-> Idle]
  /\ clock = 0

-----------------------------------------------------------------------------
(* Helpers *)

At(t, step) == call[t].pc = step
Goto(t, step) == call' = [call EXCEPT ![t].pc = step]
End(t) == call' = [call EXCEPT ![t] = Idle]
Present == {r \in Rows : table[r] # Absent}

\* get_instructions: ORDER BY updated_at DESC LIMIT 1.
Newest ==
  IF Present = {} THEN NoRow
  ELSE CHOOSE r \in Present : \A s \in Present : stamp[s] <= stamp[r]

Current == IF Newest = NoRow THEN Empty ELSE table[Newest]

-----------------------------------------------------------------------------

\* save of content x, and restore_snapshot of a snapshot that holds x; the
\* project exists.
SaveBegin(t, x) ==
  /\ call[t] = Idle
  /\ call' = [call EXCEPT ![t] = [Idle EXCEPT !.pc = "existing", !.new = x]]
  /\ UNCHANGED <<table, stamp, used, snaps, clock>>

RestoreBegin(t, x) ==
  /\ snaps[x] > 0
  /\ SaveBegin(t, x)

\* Mutant of ReadExisting: no snapshot for a content that one holds already, as
\* if restored.
ReadExistingOnRestore(t) ==
  /\ At(t, "existing")
  /\ call' = [call EXCEPT ![t].old = Current,
                          ![t].pc = IF Current \in {Empty, call[t].new} \/ snaps[call[t].new] > 0
                                      THEN "find" ELSE "snap"]
  /\ UNCHANGED <<table, stamp, used, snaps, clock>>

\* The old content is only worth a snapshot when it is not empty and changes.
ReadExisting(t) ==
  /\ At(t, "existing")
  /\ call' = [call EXCEPT ![t].old = Current,
                          ![t].pc = IF Current \in {Empty, call[t].new} THEN "find" ELSE "snap"]
  /\ UNCHANGED <<table, stamp, used, snaps, clock>>

Snapshot(t) ==
  /\ At(t, "snap")
  /\ snaps[call[t].old] < MaxSnaps
  /\ snaps' = [snaps EXCEPT ![call[t].old] = @ + 1]
  /\ Goto(t, "find")
  /\ UNCHANGED <<table, stamp, used, clock>>

\* save_instructions looks the row up and takes the time ...
FindRow(t) ==
  /\ At(t, "find")
  /\ clock < MaxWrites
  /\ clock' = clock + 1
  /\ call' = [call EXCEPT ![t].pc = "write", ![t].row = Newest, ![t].now = clock + 1]
  /\ UNCHANGED <<table, stamp, used, snaps>>

WriteTo(t, r) ==
  /\ table' = [table EXCEPT ![r] = call[t].new]
  /\ stamp' = [stamp EXCEPT ![r] = call[t].now]

\* ... then updates that row, if it is still there,
UpdateRow(t) ==
  /\ At(t, "write")
  /\ call[t].row # NoRow
  /\ LET r == call[t].row IN
       IF r \in Present
         THEN WriteTo(t, r) ELSE UNCHANGED <<table, stamp>>
  /\ End(t)
  /\ UNCHANGED <<used, snaps, clock>>

\* Mutant of InsertRow: every save inserts.
InsertRowAlways(t) ==
  /\ At(t, "write")
  /\ \E r \in Rows \ used : WriteTo(t, r) /\ used' = used \cup {r}
  /\ End(t)
  /\ UNCHANGED <<snaps, clock>>

\* ... or inserts one.
InsertRow(t) ==
  /\ At(t, "write")
  /\ call[t].row = NoRow
  /\ \E r \in Rows \ used : WriteTo(t, r) /\ used' = used \cup {r}
  /\ End(t)
  /\ UNCHANGED <<snaps, clock>>

\* clear_instructions: no snapshot is taken.
Clear(t) ==
  /\ call[t] = Idle
  /\ table' = [r \in Rows |-> Absent]
  /\ UNCHANGED <<stamp, used, snaps, call, clock>>

DeleteSnapshot(t, x) ==
  /\ call[t] = Idle
  /\ snaps[x] > 0
  /\ snaps' = [snaps EXCEPT ![x] = @ - 1]
  /\ UNCHANGED <<table, stamp, used, call, clock>>

\* The daemon dies and restarts.
Crash ==
  /\ call' = [t \in Tasks |-> Idle]
  /\ UNCHANGED <<table, stamp, used, snaps, clock>>

Next ==
  \/ \E t \in Tasks, x \in Texts :
       SaveBegin(t, x) \/ RestoreBegin(t, x) \/ DeleteSnapshot(t, x)
  \/ \E t \in Tasks :
       \/ ReadExisting(t) \/ Snapshot(t) \/ FindRow(t)
       \/ UpdateRow(t) \/ InsertRow(t) \/ Clear(t)
  \/ Crash

Spec == Init /\ [][Next]_vars

-----------------------------------------------------------------------------
(* Properties *)

\* For a client that waits for each answer, whatever it calls and whenever the
\* daemon dies, the instructions are a text that is never overwritten before a
\* snapshot holds its content.
Versioned == INSTANCE VersionedText WITH
  current <- Current, kept <- {x \in Texts : snaps[x] > 0}

VersionedSpec == Versioned!TextSpec

\* At most one row is ever inserted for a client that waits for each answer.
OneRow == Cardinality(Present) <= 1
==============================================================================
