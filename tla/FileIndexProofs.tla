--------------------------- MODULE FileIndexProofs ----------------------------
(***************************************************************************)
(* The properties of FileIndex, for any number of files, documents, calls  *)
(* and faults.  An undisturbed file is described by its row and by the one *)
(* call that works on it, if any: FileOk says what holds between two of    *)
(* its steps, and the rest of the invariant keeps files and calls apart.   *)
(***************************************************************************)
EXTENDS FileIndex, TLAPS

-----------------------------------------------------------------------------
(* The inductive invariant *)

Active(t) == call[t].pc # "idle"

\* A file has its own path or the wanted one; rows and calls have a path.
PathsFixed ==
  /\ \A f \in Files : pathOf[f] \in {f, Orig, NoPath}
  /\ \A f \in Files : Exists(f) => pathOf[f] # NoPath
  /\ \A t \in Tasks : Active(t) => File(t) \in Files /\ Path(t) # NoPath
  /\ \A t \in Tasks : ~Active(t) => call[t] = Idle

\* A document belongs to the file it was made for, whoever names it.
DocsOwned ==
  /\ \A f \in Files : docOf[f] # NoDoc => Exists(f) /\ origin[docOf[f]] = f
  /\ \A t \in Tasks : call[t].saw # NoDoc => origin[call[t].saw] = File(t)
  /\ \A t \in Tasks : At(t, "rmSend") => call[t].saw # NoDoc
  /\ \A d \in served : origin[d] # NoFile
  /\ \A d \in Docs : origin[d] # NoFile => pathOf[origin[d]] # NoPath

\* Two calls on one path disturb it.
Alone ==
  \A t, u \in Tasks : t # u /\ Active(t) /\ Active(u) /\ Path(t) = Path(u) => Path(t) \in disturbed

\* Files that have a row, or are about to, keep their paths apart.
Owns(f) == Exists(f) \/ \E t \in Tasks : File(t) = f /\ At(t, "insert")
Apart ==
  \A f, g \in Files :
    f # g /\ Owns(f) /\ Owns(g) /\ pathOf[f] = pathOf[g] => pathOf[f] \in disturbed

\* The row's document is served and was made from what the disk holds.
Current(f) == docOf[f] \in served /\ text[docOf[f]] = disk[pathOf[f]]

\* After these steps nobody needs the document that the row names.
Replacing ==
  {"ixRead", "mark", "rmClear", "rmFail", "copy", "reset", "unlink", "drop"} \cup Indexing

\* A file, its call being at step pc with document saw ("idle" without a call): the row
\* says INDEXED of the present content, or the call is about to take that back; the
\* bytes are there until they are unlinked; what the call holds is current; and every
\* served document is named, held or given up.
FileOk(f, pc, saw) ==
  /\ status[f] = "INDEXED" => Current(f) \/ pc \in {"rmClear", "rmFail", "reset", "drop"}
  /\ Exists(f) \/ pc = "insert" => disk[pathOf[f]] # Missing \/ pc = "drop"
  /\ pc # "idle" => (Exists(f) <=> pc # "insert")
  /\ pc = "store" => saw \in served /\ text[saw] = disk[pathOf[f]]
  /\ pc = "rmSend" => saw = docOf[f]
  /\ pc \in Replacing => docOf[f] \notin served \ (refused \cup reindexed)
  /\ \A d \in served \ (refused \cup reindexed) :
       origin[d] = f => docOf[f] = d \/ (pc = "store" /\ saw = d)

FilesOk ==
  \A f \in Files : Undisturbed(f) =>
    /\ \A t \in Tasks : File(t) = f => FileOk(f, call[t].pc, call[t].saw)
    /\ ActiveOn(f) = {} => FileOk(f, "idle", NoDoc)

IInv ==
  /\ TypeOK /\ PathsFixed /\ DocsOwned /\ Alone /\ Apart /\ FilesOk /\ IndexingHasOwner

-----------------------------------------------------------------------------
(* What one step of a call does to the calls *)

Others(t) == \A u \in Tasks \ {t} : call'[u] = call[u]
Moved(t, step, d) ==
  /\ call'[t].pc = step /\ call'[t].saw = d
  /\ call'[t].file = call[t].file /\ call'[t].op = call[t].op
  /\ Others(t)
Ended(t) == call'[t] = Idle /\ Others(t)
Kept == call' \in [Tasks -> Calls]

\* The next step is noted in the call's own record.
LEMMA GotoMoves ==
  ASSUME TypeOK, NEW t \in Tasks, NEW step \in Steps, NEW d \in Docs \cup {NoDoc},
         GotoHolding(t, step, d)
  PROVE Kept /\ Moved(t, step, d)
  BY DEF TypeOK, Calls, GotoHolding, Kept, Moved, Others

LEMMA GotoGoes ==
  ASSUME TypeOK, NEW t \in Tasks, NEW step \in Steps, Goto(t, step)
  PROVE Kept /\ Moved(t, step, NoDoc)
  BY GotoMoves DEF Goto

LEMMA EndEnds == ASSUME TypeOK, NEW t \in Tasks, End(t) PROVE Kept /\ Ended(t)
  BY DEF TypeOK, Calls, Steps, Idle, End, Kept, Ended, Others

LEMMA StartStarts ==
  ASSUME TypeOK, NEW t \in Tasks, NEW f \in Files, NEW step \in Steps \ {"idle"},
         NEW op \in {"index", "remove", "upload", "replace", "delete"}, Start(t, f, op, step)
  PROVE /\ Kept /\ Others(t)
        /\ call[t] = Idle /\ call'[t].pc = step /\ call'[t].saw = NoDoc
        /\ call'[t].file = f
  BY DEF TypeOK, Calls, Steps, Idle, Start, Kept, Others

\* After the removal a call ends or goes on to the copy or the unlink.
Continued(t) == Ended(t) \/ \E step \in {"copy", "unlink"} : Moved(t, step, NoDoc)
LEMMA AfterRemovalContinues ==
  ASSUME TypeOK, NEW t \in Tasks, AfterRemoval(t) PROVE Kept /\ Continued(t)
  <1>1. Goto(t, "copy") \/ Goto(t, "unlink") \/ End(t)
    BY DEF AfterRemoval
  <1>2. ASSUME NEW step \in {"copy", "unlink"}, Goto(t, step) PROVE Kept /\ Continued(t)
    BY <1>2, GotoGoes DEF Steps, Continued
  <1> QED BY <1>1, <1>2, EndEnds DEF Continued

-----------------------------------------------------------------------------
(* A step of a call touches its own file only *)

\* The documents that a step makes are its file's, and so is what it changes of the rows,
\* the disk and the served documents.
Local(t) ==
  /\ Others(t)
  /\ UNCHANGED <<pathOf, reindexed, crashed>>
  /\ disturbed \subseteq disturbed' /\ refused \subseteq refused'
  /\ \A f \in Files \ {File(t)} : status'[f] = status[f] /\ docOf'[f] = docOf[f]
  /\ \A p \in Paths \ {Path(t)} : disk'[p] = disk[p]
  /\ \A d \in Docs :
       \/ origin'[d] = origin[d] /\ text'[d] = text[d]
       \/ origin[d] = NoFile /\ origin'[d] = File(t)
  /\ \A d \in Docs : (d \in served' <=> d \in served) \/ origin'[d] = File(t)

\* What it leaves of its own file f: the call ends or goes on, never back to the insert;
\* the document that the row or the call names is f's; INDEXING has an owner; and f is
\* as FileOk says.
OwnCall(t, f) ==
  /\ call'[t] = Idle \/ (call'[t].pc \notin {"idle", "insert"} /\ call'[t].file = f)
  /\ call'[t].saw # NoDoc => origin'[call'[t].saw] = f
  /\ call'[t].pc = "rmSend" => call'[t].saw # NoDoc
OwnRow(t, f) ==
  /\ status'[f] # "none" => Exists(f) \/ At(t, "insert")
  /\ docOf'[f] # NoDoc => status'[f] # "none" /\ origin'[docOf'[f]] = f
  /\ status'[f] = "INDEXING" =>
       \/ status[f] = "INDEXING" /\ call[t].pc \notin Indexing
       \/ call'[t].pc \in Indexing
Own(t, f) ==
  /\ OwnCall(t, f) /\ OwnRow(t, f)
  /\ pathOf[f] \notin disturbed' => (FileOk(f, call[t].pc, call[t].saw))'

\* Before its step, an undisturbed file is as its call says.
LEMMA ActiveWorks ==
  ASSUME IInv, NEW t \in Tasks, Active(t)
  PROVE /\ File(t) \in Files
        /\ \A f \in Files : File(t) = f => pathOf[f] \in Paths
        /\ \A f \in Files : File(t) = f /\ Undisturbed(f) => FileOk(f, call[t].pc, call[t].saw)
  <1>1. File(t) \in Files /\ Path(t) # NoPath
    BY DEF IInv, PathsFixed
  <1> QED BY <1>1 DEF IInv, TypeOK, FilesOk, Path

-----------------------------------------------------------------------------
(* Such a step preserves the invariant, whatever it does *)

LEMMA LocalPaths ==
  ASSUME IInv, TypeOK', NEW t \in Tasks, NEW f \in Files, File(t) = f,
         Local(t), Own(t, f)
  PROVE PathsFixed'
  <1>1. Active(t) /\ pathOf[f] \in Paths
    BY ActiveWorks, Distinct DEF IInv, PathsFixed, Active, File, Idle
  <1>2. \A g \in Files : (Exists(g) => pathOf[g] # NoPath)'
    BY <1>1, Distinct
       DEF IInv, PathsFixed, Local, Own, OwnRow, Exists, At, Active, Path, File, Paths
  <1>3. ASSUME NEW u \in Tasks
        PROVE /\ (Active(u) => File(u) \in Files /\ Path(u) # NoPath)'
              /\ (~Active(u) => call[u] = Idle)'
    BY <1>1, <1>3, Distinct
       DEF IInv, PathsFixed, Local, Others, Own, OwnCall, Active, File, Path, Idle, Paths
  <1>4. \A g \in Files : (pathOf[g] \in {g, Orig, NoPath})'
    BY DEF IInv, PathsFixed, Local
  <1> QED BY <1>2, <1>3, <1>4 DEF PathsFixed

LEMMA LocalDocs ==
  ASSUME IInv, TypeOK', NEW t \in Tasks, NEW f \in Files, File(t) = f,
         Local(t), Own(t, f)
  PROVE DocsOwned'
  <1>1. Active(t) /\ pathOf[f] \in Paths
    BY ActiveWorks, Distinct DEF IInv, PathsFixed, Active, File, Idle
  <1>2. \A d \in Docs : origin[d] \in Files => origin'[d] = origin[d]
    BY Distinct DEF Local
  <1>3. ASSUME NEW g \in Files, docOf'[g] # NoDoc
        PROVE Exists(g)' /\ origin'[docOf'[g]] = g
    <2>1. CASE g = f
      BY <1>3, <2>1 DEF Own, OwnRow, Exists
    <2>2. CASE g # f
      <3>1. docOf'[g] = docOf[g] /\ status'[g] = status[g]
        BY <2>2 DEF Local
      <3>2. docOf[g] \in Docs /\ Exists(g) /\ origin[docOf[g]] = g
        BY <1>3, <3>1 DEF IInv, TypeOK, DocsOwned
      <3> QED BY <1>2, <3>1, <3>2 DEF Exists
    <2> QED BY <2>1, <2>2
  <1>4. ASSUME NEW u \in Tasks, call'[u].pc = "rmSend" PROVE call'[u].saw # NoDoc
    BY <1>4 DEF IInv, DocsOwned, At, Local, Others, Own, OwnCall
  <1>5. ASSUME NEW u \in Tasks, call'[u].saw # NoDoc
        PROVE origin'[call'[u].saw] = call'[u].file
    <2>1. CASE u = t
      BY <1>5, <2>1 DEF Own, OwnCall, Idle
    <2>2. CASE u # t
      <3>1. call'[u] = call[u] /\ call[u].saw \in Docs
        BY <1>5, <2>2 DEF Local, Others, IInv, TypeOK, Calls
      <3>2. origin[call[u].saw] = call[u].file /\ call[u].file \in Files
        BY <1>5, <3>1 DEF IInv, DocsOwned, PathsFixed, Active, Idle, File
      <3> QED BY <1>2, <3>1, <3>2
    <2> QED BY <2>1, <2>2
  <1>6. ASSUME NEW d \in Docs
        PROVE /\ d \in served' => origin'[d] # NoFile
              /\ origin'[d] # NoFile => pathOf'[origin'[d]] # NoPath
    <2>1. CASE origin'[d] = origin[d]
      BY <1>1, <2>1, Distinct DEF IInv, DocsOwned, Local, Paths
    <2>2. CASE origin'[d] = f
      BY <1>1, <2>2, Distinct DEF Local, Paths
    <2> QED BY <2>1, <2>2 DEF Local
  <1>7. served' \subseteq Docs
    BY DEF TypeOK
  <1> QED BY <1>3, <1>5, <1>6, <1>7, <1>4 DEF DocsOwned, File, At

LEMMA LocalApart ==
  ASSUME IInv, TypeOK', NEW t \in Tasks, NEW f \in Files, File(t) = f,
         Local(t), Own(t, f)
  PROVE Alone' /\ Apart'
  <1>1. Active(t) /\ pathOf[f] \in Paths
    BY ActiveWorks, Distinct DEF IInv, PathsFixed, Active, File, Idle
  <1>2. \A u \in Tasks : Active(u)' => Active(u) /\ Path(u)' = Path(u) /\ File(u)' = File(u)
    <2>1. Active(t)' => Path(t)' = Path(t) /\ File(t)' = File(t)
      BY DEF Local, Own, OwnCall, Active, Path, File, Idle
    <2> QED BY <1>1, <2>1 DEF Local, Others, Active, Path, File
  <1>3. Alone'
    BY <1>2 DEF IInv, Alone, Local
  <1>4. ASSUME NEW g \in Files, Owns(g)' PROVE Owns(g)
    <2>1. CASE Exists(g)' /\ g = f
      BY <2>1 DEF Own, OwnRow, Owns, Exists
    <2>2. CASE Exists(g)' /\ g # f
      BY <2>2 DEF Local, Owns, Exists
    <2>3. ASSUME NEW u \in Tasks, (File(u) = g /\ At(u, "insert"))' PROVE Owns(g)
      BY <2>3 DEF Own, OwnCall, Local, Others, Owns, At, File, Idle
    <2> QED BY <1>4, <2>1, <2>2, <2>3 DEF Owns
  <1>5. Apart'
    BY <1>4 DEF IInv, Apart, Local
  <1> QED BY <1>3, <1>5

\* Another undisturbed file g with the same path has neither row nor call; with another
\* path it is not touched at all.
LEMMA LocalFiles ==
  ASSUME IInv, TypeOK', NEW t \in Tasks, NEW f \in Files, File(t) = f,
         Local(t), Own(t, f)
  PROVE FilesOk'
  <1>1. Active(t) /\ pathOf[f] \in Paths
    BY ActiveWorks, Distinct DEF IInv, PathsFixed, Active, File, Idle
  <1>2. ASSUME NEW g \in Files, Undisturbed(g)'
        PROVE /\ \A u \in Tasks : (File(u) = g => FileOk(g, call[u].pc, call[u].saw))'
              /\ (ActiveOn(g) = {} => FileOk(g, "idle", NoDoc))'
    <2>1. Undisturbed(g)
      BY <1>2 DEF Undisturbed, Local
    <2>2. CASE g = f
      <3>1. (FileOk(f, call[t].pc, call[t].saw))'
        BY <1>2, <2>2 DEF Own, Undisturbed, Local
      <3>2. ASSUME NEW u \in Tasks \ {t} PROVE File(u) # f
        BY <1>1, <2>1, <2>2, Distinct
           DEF IInv, PathsFixed, Alone, Undisturbed, Active, File, Path, Idle
      <3>3. \A u \in Tasks \ {t} : (File(u) # f)'
        BY <3>2 DEF Local, Others, File
      <3>4. (ActiveOn(f) = {})' => call'[t] = Idle
        BY DEF Own, OwnCall, ActiveOn, File
      <3>5. (ActiveOn(f) = {} => FileOk(f, "idle", NoDoc))'
        BY <3>1, <3>4 DEF Idle
      <3> QED BY <2>2, <3>1, <3>3, <3>5
    <2>3. CASE g # f
      <3>1. /\ status'[g] = status[g] /\ docOf'[g] = docOf[g] /\ pathOf'[g] = pathOf[g]
            /\ \A d \in Docs : origin[d] = g \/ origin'[d] = g =>
                 /\ origin'[d] = origin[d] /\ text'[d] = text[d]
                 /\ d \in served' <=> d \in served
            /\ reindexed' = reindexed /\ refused \subseteq refused'
        BY <1>1, <2>3, Distinct DEF Local
      <3>2. /\ docOf[g] \in Docs \cup {NoDoc}
            /\ docOf[g] \in Docs => origin[docOf[g]] = g
            /\ served \subseteq Docs /\ served' \subseteq Docs
            /\ NoDoc \notin Docs
        BY Distinct DEF IInv, TypeOK, DocsOwned
      <3>3. ASSUME NEW pc \in Steps, NEW saw \in Docs \cup {NoDoc}, FileOk(g, pc, saw),
                   saw \in Docs => origin[saw] = g, pc # "idle" => pathOf[g] \in Paths,
                   pathOf[g] = pathOf[f] => ~Exists(g) /\ pc = "idle"
            PROVE FileOk(g, pc, saw)'
        <4>1. CASE pathOf[g] = pathOf[f]
          <5>1. status[g] = "none" /\ pc = "idle"
            BY <3>3, <4>1 DEF Exists
          <5> QED BY <3>1, <3>2, <3>3, <5>1 DEF FileOk, Exists, Replacing, Indexing
        <4>2. CASE pathOf[g] # pathOf[f]
          <5>1. pathOf[g] \in Paths => disk'[pathOf[g]] = disk[pathOf[g]]
            BY <4>2 DEF Local, Path
          <5>2. Exists(g) => pathOf[g] \in Paths
            BY DEF IInv, TypeOK, PathsFixed
          <5> QED BY <3>1, <3>2, <3>3, <5>1, <5>2 DEF FileOk, Exists, Current
        <4> QED BY <4>1, <4>2
      <3>4. pathOf[g] = pathOf[f] => ~Exists(g) /\ \A u \in Tasks : File(u) # g
        <4> SUFFICES ASSUME pathOf[g] = pathOf[f] PROVE ~Exists(g) /\ \A u \in Tasks : File(u) # g
          OBVIOUS
        <4>1. ASSUME NEW u \in Tasks PROVE File(u) # g
          BY <1>1, <2>1, <2>3, Distinct
             DEF IInv, PathsFixed, Alone, Undisturbed, Active, File, Path, Idle
        <4>2. Owns(f)
          BY <1>1, <2>1, ActiveWorks DEF FileOk, Undisturbed, Owns, At, Active
        <4> QED BY <2>1, <2>3, <4>1, <4>2 DEF IInv, Apart, Owns, Undisturbed
      <3>5. ASSUME NEW u \in Tasks, File(u)' = g PROVE (FileOk(g, call[u].pc, call[u].saw))'
        <4>1. u # t /\ call'[u] = call[u] /\ File(u) = g
          BY <2>3, <3>5, Distinct DEF Own, OwnCall, Local, Others, File, Idle
        <4>2. /\ call[u].pc \in Steps /\ call[u].saw \in Docs \cup {NoDoc}
              /\ call[u].saw \in Docs => origin[call[u].saw] = g
              /\ pathOf[g] \in Paths
          BY <4>1, ActiveWorks, Distinct
             DEF IInv, TypeOK, Calls, DocsOwned, PathsFixed, Active, File, Idle
        <4>3. FileOk(g, call[u].pc, call[u].saw)
          BY <2>1, <4>1 DEF IInv, FilesOk
        <4> QED BY <3>3, <3>4, <4>1, <4>2, <4>3
      <3>6. ASSUME (ActiveOn(g) = {})' PROVE FileOk(g, "idle", NoDoc)'
        <4>1. ActiveOn(g) = {}
          BY <2>3, <3>6 DEF Local, Others, ActiveOn, File
        <4>2. FileOk(g, "idle", NoDoc)
          BY <2>1, <4>1 DEF IInv, FilesOk
        <4> QED BY <3>3, <3>4, <4>2, Distinct DEF Steps
      <3> QED BY <3>5, <3>6
    <2> QED BY <2>2, <2>3
  <1> QED BY <1>2 DEF FilesOk

\* Another call that has to write the outcome of an indexing is not touched.
LEMMA LocalIndexing ==
  ASSUME IInv, TypeOK', NEW t \in Tasks, NEW f \in Files, File(t) = f, Local(t), Own(t, f)
  PROVE IndexingHasOwner'
  <1>1. ASSUME NEW g \in Files, status'[g] = "INDEXING", ~crashed'
        PROVE \E u \in Tasks : (File(u) = g /\ call[u].pc \in Indexing)'
    <2>1. CASE g = f /\ call'[t].pc \in Indexing
      BY <2>1 DEF Own, OwnCall, Idle, Indexing, File
    <2>2. CASE status[g] = "INDEXING" /\ (g = f => call[t].pc \notin Indexing)
      <3>1. PICK u \in Tasks : File(u) = g /\ call[u].pc \in Indexing
        BY <1>1, <2>2 DEF IInv, IndexingHasOwner, ActiveOn, Local
      <3> QED BY <2>2, <3>1 DEF Local, Others, File
    <2> QED BY <1>1, <2>1, <2>2 DEF Own, OwnRow, Local
  <1> QED BY <1>1 DEF IndexingHasOwner, ActiveOn

LEMMA LocalKeeps ==
  ASSUME IInv, TypeOK', NEW t \in Tasks, NEW f \in Files, File(t) = f, Local(t), Own(t, f)
  PROVE IInv'
  BY LocalPaths, LocalDocs, LocalApart, LocalFiles, LocalIndexing DEF IInv

-----------------------------------------------------------------------------
(* Each step of a call *)

\* What a step finds: its call's record and file as the invariant describes them.
Before(t, f) ==
  /\ Path(t) = pathOf[f] /\ pathOf[f] \in Paths /\ call[t] \in Calls /\ File(t) = f
  /\ docOf[f] # NoDoc => docOf[f] \in Docs /\ Exists(f) /\ origin[docOf[f]] = f
  /\ call[t].saw # NoDoc => call[t].saw \in Docs /\ origin[call[t].saw] = f
  /\ pathOf[f] \notin disturbed => FileOk(f, call[t].pc, call[t].saw)
  /\ served \subseteq Docs /\ NoDoc \notin Docs /\ NoFile \notin Files

LEMMA BeforeStep ==
  ASSUME IInv, NEW t \in Tasks, NEW f \in Files, File(t) = f, Active(t) PROVE Before(t, f)
  <1>1. call[t] \in Calls /\ docOf[f] \in Docs \cup {NoDoc} /\ served \subseteq Docs
    BY DEF IInv, TypeOK
  <1>2. call[t].saw \in Docs \cup {NoDoc}
    BY <1>1 DEF Calls
  <1> QED BY <1>1, <1>2, ActiveWorks, Distinct
      DEF IInv, DocsOwned, Before, Undisturbed, Path, File

LEMMA UploadInsertStep ==
  ASSUME IInv, NEW t \in Tasks, NEW f \in Files, File(t) = f, UploadInsert(t)
  PROVE TypeOK' /\ Local(t) /\ Own(t, f)
  <1>1. call[t].pc = "insert" /\ Before(t, f)
    BY BeforeStep DEF UploadInsert, At, Active
  <1>2. /\ Kept
        /\ \/ status'[f] = "PENDING" /\ Moved(t, "ixRead", NoDoc)
           \/ status' = status /\ Ended(t)
    BY <1>1, GotoGoes, EndEnds DEF UploadInsert, Steps, Removing, Indexing, IInv, TypeOK, Before
  <1>3. TypeOK'
    BY <1>1, <1>2 DEF UploadInsert, IInv, TypeOK, Kept, Before, docVars, history
  <1>4. Local(t)
    BY <1>1, <1>2
       DEF UploadInsert, Local, Moved, Ended, Before, IInv, TypeOK, docVars, history
  <1>5. /\ docOf'[f] = docOf[f]
        /\ disk'[pathOf[f]] = disk[pathOf[f]]
        /\ UNCHANGED <<pathOf, served, origin, text, refused, reindexed, disturbed>>
    BY <1>1, <1>2 DEF UploadInsert, Before, Exists, IInv, TypeOK, docVars, history
  <1>6. OwnCall(t, f) /\ OwnRow(t, f)
    BY <1>1, <1>2, <1>5
       DEF OwnCall, OwnRow, Before, Moved, Ended, Idle, Exists, At, File, Indexing
  <1>7. ASSUME pathOf[f] \notin disturbed' PROVE (FileOk(f, call[t].pc, call[t].saw))'
    <2>1. FileOk(f, "insert", call[t].saw)
      BY <1>1, <1>4, <1>7 DEF Before, Local
    <2> QED BY <1>1, <1>2, <1>5, <2>1
        DEF FileOk, Current, Exists, Replacing, Indexing, Moved, Ended, Idle, Before
  <1> QED BY <1>3, <1>4, <1>6, <1>7 DEF Own

LEMMA ReadForIndexStep ==
  ASSUME IInv, NEW t \in Tasks, NEW f \in Files, File(t) = f, ReadForIndex(t)
  PROVE TypeOK' /\ Local(t) /\ Own(t, f)
  <1>1. call[t].pc = "ixRead" /\ Before(t, f)
    BY BeforeStep DEF ReadForIndex, At, Active
  <1>2. /\ Kept
        /\ \/ Exists(f) /\ Moved(t, "mark", NoDoc)
           \/ ~Exists(f) /\ Ended(t)
    BY <1>1, GotoGoes, EndEnds DEF ReadForIndex, Steps, Removing, Indexing, IInv, Before
  <1>3. TypeOK'
    BY <1>1, <1>2 DEF ReadForIndex, IInv, TypeOK, Kept, Before, rowVars, docVars, history
  <1>4. Local(t)
    BY <1>1, <1>2
       DEF ReadForIndex, Local, Moved, Ended, Before, IInv, TypeOK, rowVars, docVars, history
  <1>5. /\ status'[f] = status[f] /\ docOf'[f] = docOf[f]
        /\ disk'[pathOf[f]] = disk[pathOf[f]]
        /\ UNCHANGED <<pathOf, served, origin, text, refused, reindexed, disturbed>>
    BY <1>1, <1>2 DEF ReadForIndex, Before, Exists, IInv, TypeOK, rowVars, docVars, history
  <1>6. OwnCall(t, f) /\ OwnRow(t, f)
    BY <1>1, <1>2, <1>5
       DEF OwnCall, OwnRow, Before, Moved, Ended, Idle, Exists, At, File, Indexing
  <1>7. ASSUME pathOf[f] \notin disturbed' PROVE (FileOk(f, call[t].pc, call[t].saw))'
    <2>1. FileOk(f, "ixRead", call[t].saw)
      BY <1>1, <1>4, <1>7 DEF Before, Local
    <2> QED BY <1>1, <1>2, <1>5, <2>1
        DEF FileOk, Current, Exists, Replacing, Indexing, Moved, Ended, Idle, Before
  <1> QED BY <1>3, <1>4, <1>6, <1>7 DEF Own

LEMMA MarkIndexingStep ==
  ASSUME IInv, NEW t \in Tasks, NEW f \in Files, File(t) = f, MarkIndexing(t)
  PROVE TypeOK' /\ Local(t) /\ Own(t, f)
  <1>1. call[t].pc = "mark" /\ Before(t, f)
    BY BeforeStep DEF MarkIndexing, At, Active
  <1>2. Kept /\ Moved(t, "send", NoDoc)
    BY <1>1, GotoGoes DEF MarkIndexing, Steps, Removing, Indexing, IInv, Before
  <1>3. TypeOK'
    BY <1>1, <1>2 DEF MarkIndexing, IInv, TypeOK, Kept, Before, SetStatus, docVars, history
  <1>4. Local(t)
    BY <1>1, <1>2
       DEF MarkIndexing, Local, Moved, Before, IInv, TypeOK, SetStatus, docVars, history
  <1>5. /\ status'[f] = (IF Exists(f) THEN "INDEXING" ELSE "none")
        /\ docOf'[f] = docOf[f]
        /\ disk'[pathOf[f]] = disk[pathOf[f]]
        /\ UNCHANGED <<pathOf, served, origin, text, refused, reindexed, disturbed>>
    BY <1>1, <1>2 DEF MarkIndexing, Before, Exists, IInv, TypeOK, SetStatus, docVars, history
  <1>6. OwnCall(t, f) /\ OwnRow(t, f)
    BY <1>1, <1>2, <1>5
       DEF OwnCall, OwnRow, Before, Moved, Exists, At, File, Indexing
  <1>7. ASSUME pathOf[f] \notin disturbed' PROVE (FileOk(f, call[t].pc, call[t].saw))'
    <2>1. FileOk(f, "mark", call[t].saw)
      BY <1>1, <1>4, <1>7 DEF Before, Local
    <2> QED BY <1>1, <1>2, <1>5, <2>1
        DEF FileOk, Current, Exists, Replacing, Indexing, Moved, Before
  <1> QED BY <1>3, <1>4, <1>6, <1>7 DEF Own

LEMMA SendFailStep ==
  ASSUME IInv, NEW t \in Tasks, NEW f \in Files, File(t) = f, SendFail(t)
  PROVE TypeOK' /\ Local(t) /\ Own(t, f)
  <1>1. call[t].pc = "send" /\ Before(t, f)
    BY BeforeStep DEF SendFail, At, Active
  <1>2. Kept /\ Moved(t, "fail", NoDoc)
    BY <1>1, GotoGoes DEF SendFail, Steps, Removing, Indexing, IInv, Before
  <1>3. TypeOK'
    BY <1>1, <1>2 DEF SendFail, IInv, TypeOK, Kept, Before, rowVars, docVars, history
  <1>4. Local(t)
    BY <1>1, <1>2
       DEF SendFail, Local, Moved, Before, IInv, TypeOK, rowVars, docVars, history
  <1>5. /\ status'[f] = status[f] /\ docOf'[f] = docOf[f]
        /\ disk'[pathOf[f]] = disk[pathOf[f]]
        /\ UNCHANGED <<pathOf, served, origin, text, refused, reindexed, disturbed>>
    BY <1>1, <1>2 DEF SendFail, Before, Exists, IInv, TypeOK, rowVars, docVars, history
  <1>6. OwnCall(t, f) /\ OwnRow(t, f)
    BY <1>1, <1>2, <1>5
       DEF OwnCall, OwnRow, Before, Moved, Exists, At, File, Indexing
  <1>7. ASSUME pathOf[f] \notin disturbed' PROVE (FileOk(f, call[t].pc, call[t].saw))'
    <2>1. FileOk(f, "send", call[t].saw)
      BY <1>1, <1>4, <1>7 DEF Before, Local
    <2> QED BY <1>1, <1>2, <1>5, <2>1
        DEF FileOk, Current, Exists, Replacing, Indexing, Moved, Before
  <1> QED BY <1>3, <1>4, <1>6, <1>7 DEF Own

LEMMA StoreIndexedStep ==
  ASSUME IInv, NEW t \in Tasks, NEW f \in Files, File(t) = f, StoreIndexed(t)
  PROVE TypeOK' /\ Local(t) /\ Own(t, f)
  <1>1. call[t].pc = "store" /\ Before(t, f)
    BY BeforeStep DEF StoreIndexed, At, Active
  <1>2. Kept /\ Ended(t)
    BY <1>1, EndEnds DEF StoreIndexed, IInv, Before
  <1>3. TypeOK'
    BY <1>1, <1>2
       DEF StoreIndexed, IInv, TypeOK, DocsOwned, At, Kept, Before, SetStatus, SetDoc, docVars,
           history
  <1>4. Local(t)
    BY <1>1, <1>2
       DEF StoreIndexed, Local, Ended, Before, IInv, TypeOK, SetStatus, SetDoc, docVars, history
  <1>5. /\ status'[f] = (IF Exists(f) THEN "INDEXED" ELSE "none")
        /\ docOf'[f] = (IF Exists(f) /\ call[t].saw # NoDoc THEN call[t].saw ELSE docOf[f])
        /\ disk'[pathOf[f]] = disk[pathOf[f]]
        /\ UNCHANGED <<pathOf, served, origin, text, refused, reindexed, disturbed>>
    BY <1>1, <1>2
       DEF StoreIndexed, Before, Exists, IInv, TypeOK, SetStatus, SetDoc, docVars, history
  <1>6. OwnCall(t, f) /\ OwnRow(t, f)
    BY <1>1, <1>2, <1>5
       DEF OwnCall, OwnRow, Before, Ended, Idle, Exists, At, File, Indexing
  <1>7. ASSUME pathOf[f] \notin disturbed' PROVE (FileOk(f, call[t].pc, call[t].saw))'
    <2>1. FileOk(f, "store", call[t].saw)
      BY <1>1, <1>4, <1>7 DEF Before, Local
    <2> QED BY <1>1, <1>2, <1>5, <2>1
        DEF FileOk, Current, Exists, Replacing, Indexing, Ended, Idle, Before
  <1> QED BY <1>3, <1>4, <1>6, <1>7 DEF Own

LEMMA MarkFailedStep ==
  ASSUME IInv, NEW t \in Tasks, NEW f \in Files, File(t) = f, MarkFailed(t)
  PROVE TypeOK' /\ Local(t) /\ Own(t, f)
  <1>1. call[t].pc = "fail" /\ Before(t, f)
    BY BeforeStep DEF MarkFailed, At, Active
  <1>2. Kept /\ Ended(t)
    BY <1>1, EndEnds DEF MarkFailed, IInv, Before
  <1>3. TypeOK'
    BY <1>1, <1>2 DEF MarkFailed, IInv, TypeOK, Kept, Before, SetStatus, docVars, history
  <1>4. Local(t)
    BY <1>1, <1>2
       DEF MarkFailed, Local, Ended, Before, IInv, TypeOK, SetStatus, docVars, history
  <1>5. /\ status'[f] = (IF Exists(f) THEN "FAILED" ELSE "none")
        /\ docOf'[f] = docOf[f]
        /\ disk'[pathOf[f]] = disk[pathOf[f]]
        /\ UNCHANGED <<pathOf, served, origin, text, refused, reindexed, disturbed>>
    BY <1>1, <1>2 DEF MarkFailed, Before, Exists, IInv, TypeOK, SetStatus, docVars, history
  <1>6. OwnCall(t, f) /\ OwnRow(t, f)
    BY <1>1, <1>2, <1>5
       DEF OwnCall, OwnRow, Before, Ended, Idle, Exists, At, File, Indexing
  <1>7. ASSUME pathOf[f] \notin disturbed' PROVE (FileOk(f, call[t].pc, call[t].saw))'
    <2>1. FileOk(f, "fail", call[t].saw)
      BY <1>1, <1>4, <1>7 DEF Before, Local
    <2> QED BY <1>1, <1>2, <1>5, <2>1
        DEF FileOk, Current, Exists, Replacing, Indexing, Ended, Idle, Before
  <1> QED BY <1>3, <1>4, <1>6, <1>7 DEF Own

LEMMA RemovalReadStep ==
  ASSUME IInv, NEW t \in Tasks, NEW f \in Files, File(t) = f, RemovalRead(t)
  PROVE TypeOK' /\ Local(t) /\ Own(t, f)
  <1>1. call[t].pc = "rmRead" /\ Before(t, f)
    BY BeforeStep DEF RemovalRead, At, Active
  <1>2. /\ Kept
        /\ \/ ~Exists(f) /\ Continued(t)
           \/ docOf[f] = NoDoc /\ Moved(t, "rmClear", NoDoc)
           \/ docOf[f] # NoDoc /\ Moved(t, "rmSend", docOf[f])
    BY <1>1, GotoGoes, GotoMoves, AfterRemovalContinues
       DEF RemovalRead, Steps, Removing, Indexing, IInv, Before
  <1>3. TypeOK'
    BY <1>1, <1>2 DEF RemovalRead, IInv, TypeOK, Kept, Before, rowVars, docVars, history
  <1>4. Local(t)
    BY <1>1, <1>2
       DEF RemovalRead, Local, Moved, Ended, Continued, Before, IInv, TypeOK, rowVars, docVars,
           history
  <1>5. /\ status'[f] = status[f] /\ docOf'[f] = docOf[f]
        /\ disk'[pathOf[f]] = disk[pathOf[f]]
        /\ UNCHANGED <<pathOf, served, origin, text, refused, reindexed, disturbed>>
    BY <1>1, <1>2 DEF RemovalRead, Before, Exists, IInv, TypeOK, rowVars, docVars, history
  <1>6. OwnCall(t, f) /\ OwnRow(t, f)
    BY <1>1, <1>2, <1>5
       DEF OwnCall, OwnRow, Before, Moved, Ended, Continued, Idle, Exists, At, File, Indexing
  <1>7. ASSUME pathOf[f] \notin disturbed' PROVE (FileOk(f, call[t].pc, call[t].saw))'
    <2>1. FileOk(f, "rmRead", call[t].saw)
      BY <1>1, <1>4, <1>7 DEF Before, Local
    <2> QED BY <1>1, <1>2, <1>5, <2>1
        DEF FileOk, Current, Exists, Replacing, Indexing, Moved, Ended, Continued, Idle, Before
  <1> QED BY <1>3, <1>4, <1>6, <1>7 DEF Own

LEMMA RemovalOkStep ==
  ASSUME IInv, NEW t \in Tasks, NEW f \in Files, File(t) = f, RemovalOk(t)
  PROVE TypeOK' /\ Local(t) /\ Own(t, f)
  <1>1. call[t].pc = "rmSend" /\ Before(t, f)
    BY BeforeStep DEF RemovalOk, At, Active
  <1>2. Kept /\ Moved(t, "rmClear", NoDoc)
    BY <1>1, GotoGoes DEF RemovalOk, Steps, Removing, Indexing, IInv, Before
  <1>3. TypeOK'
    BY <1>1, <1>2 DEF RemovalOk, IInv, TypeOK, DocsOwned, At, Kept, Before, rowVars, history
  <1>4. Local(t)
    BY <1>1, <1>2
       DEF RemovalOk, Local, Moved, Before, IInv, TypeOK, rowVars, history
  <1>5. /\ served' = served \ {call[t].saw}
        /\ status'[f] = status[f] /\ docOf'[f] = docOf[f]
        /\ disk'[pathOf[f]] = disk[pathOf[f]]
        /\ UNCHANGED <<pathOf, origin, text, refused, reindexed, disturbed>>
    BY <1>1, <1>2 DEF RemovalOk, Before, Exists, IInv, TypeOK, rowVars, history
  <1>6. OwnCall(t, f) /\ OwnRow(t, f)
    BY <1>1, <1>2, <1>5
       DEF OwnCall, OwnRow, Before, Moved, Exists, At, File, Indexing
  <1>7. ASSUME pathOf[f] \notin disturbed' PROVE (FileOk(f, call[t].pc, call[t].saw))'
    <2>1. FileOk(f, "rmSend", call[t].saw)
      BY <1>1, <1>4, <1>7 DEF Before, Local
    <2> QED BY <1>1, <1>2, <1>5, <2>1
        DEF FileOk, Current, Exists, Replacing, Indexing, Moved, Before
  <1> QED BY <1>3, <1>4, <1>6, <1>7 DEF Own

LEMMA RemovalGoneStep ==
  ASSUME IInv, NEW t \in Tasks, NEW f \in Files, File(t) = f, RemovalGone(t)
  PROVE TypeOK' /\ Local(t) /\ Own(t, f)
  <1>1. call[t].pc = "rmSend" /\ Before(t, f)
    BY BeforeStep DEF RemovalGone, At, Active
  <1>2. Kept /\ Moved(t, "rmFail", NoDoc)
    BY <1>1, GotoGoes DEF RemovalGone, Steps, Removing, Indexing, IInv, Before
  <1>3. TypeOK'
    BY <1>1, <1>2
       DEF RemovalGone, IInv, TypeOK, DocsOwned, At, Kept, Before, rowVars, docVars, history
  <1>4. Local(t)
    BY <1>1, <1>2
       DEF RemovalGone, Local, Moved, Before, IInv, TypeOK, rowVars, docVars, history
  <1>5. /\ call[t].saw \notin served
        /\ status'[f] = status[f] /\ docOf'[f] = docOf[f]
        /\ disk'[pathOf[f]] = disk[pathOf[f]]
        /\ UNCHANGED <<pathOf, served, origin, text, refused, reindexed, disturbed>>
    BY <1>1, <1>2 DEF RemovalGone, Before, Exists, IInv, TypeOK, rowVars, docVars, history
  <1>6. OwnCall(t, f) /\ OwnRow(t, f)
    BY <1>1, <1>2, <1>5
       DEF OwnCall, OwnRow, Before, Moved, Exists, At, File, Indexing
  <1>7. ASSUME pathOf[f] \notin disturbed' PROVE (FileOk(f, call[t].pc, call[t].saw))'
    <2>1. FileOk(f, "rmSend", call[t].saw)
      BY <1>1, <1>4, <1>7 DEF Before, Local
    <2> QED BY <1>1, <1>2, <1>5, <2>1
        DEF FileOk, Current, Exists, Replacing, Indexing, Moved, Before
  <1> QED BY <1>3, <1>4, <1>6, <1>7 DEF Own

LEMMA RemovalFailStep ==
  ASSUME IInv, NEW t \in Tasks, NEW f \in Files, File(t) = f, RemovalFail(t)
  PROVE TypeOK' /\ Local(t) /\ Own(t, f)
  <1>1. call[t].pc = "rmSend" /\ Before(t, f)
    BY BeforeStep DEF RemovalFail, At, Active
  <1>2. Kept /\ Moved(t, "rmFail", NoDoc)
    BY <1>1, GotoGoes DEF RemovalFail, Steps, Removing, Indexing, IInv, Before
  <1>3. TypeOK'
    BY <1>1, <1>2, Distinct
       DEF RemovalFail, IInv, TypeOK, DocsOwned, At, Kept, Before, Fault, rowVars
  <1>4. Local(t)
    BY <1>1, <1>2
       DEF RemovalFail, Local, Moved, Before, IInv, TypeOK, Fault, rowVars
  <1>5. /\ served' \subseteq served /\ served \ served' \subseteq {call[t].saw}
        /\ refused' = refused \cup {call[t].saw}
        /\ status'[f] = status[f] /\ docOf'[f] = docOf[f]
        /\ disk'[pathOf[f]] = disk[pathOf[f]]
        /\ UNCHANGED <<pathOf, origin, text, reindexed, disturbed>>
    BY <1>1, <1>2 DEF RemovalFail, Before, Exists, IInv, TypeOK, Fault, rowVars
  <1>6. OwnCall(t, f) /\ OwnRow(t, f)
    BY <1>1, <1>2, <1>5
       DEF OwnCall, OwnRow, Before, Moved, Exists, At, File, Indexing
  <1>7. ASSUME pathOf[f] \notin disturbed' PROVE (FileOk(f, call[t].pc, call[t].saw))'
    <2>1. FileOk(f, "rmSend", call[t].saw)
      BY <1>1, <1>4, <1>7 DEF Before, Local
    <2> QED BY <1>1, <1>2, <1>5, <2>1
        DEF FileOk, Current, Exists, Replacing, Indexing, Moved, Before
  <1> QED BY <1>3, <1>4, <1>6, <1>7 DEF Own

LEMMA RemovalNoKbStep ==
  ASSUME IInv, NEW t \in Tasks, NEW f \in Files, File(t) = f, RemovalNoKb(t)
  PROVE TypeOK' /\ Local(t) /\ Own(t, f)
  <1>1. call[t].pc = "rmSend" /\ Before(t, f)
    BY BeforeStep DEF RemovalNoKb, At, Active
  <1>2. Kept /\ Continued(t)
    BY <1>1, AfterRemovalContinues DEF RemovalNoKb, IInv, Before
  <1>3. TypeOK'
    BY <1>1, <1>2, Distinct
       DEF RemovalNoKb, IInv, TypeOK, DocsOwned, At, Kept, Before, Fault, rowVars, docVars
  <1>4. Local(t)
    BY <1>1, <1>2
       DEF RemovalNoKb, Local, Moved, Ended, Continued, Before, IInv, TypeOK, Fault, rowVars,
           docVars
  <1>5. /\ refused' = refused \cup {call[t].saw}
        /\ status'[f] = status[f] /\ docOf'[f] = docOf[f]
        /\ disk'[pathOf[f]] = disk[pathOf[f]]
        /\ UNCHANGED <<pathOf, served, origin, text, reindexed, disturbed>>
    BY <1>1, <1>2 DEF RemovalNoKb, Before, Exists, IInv, TypeOK, Fault, rowVars, docVars
  <1>6. OwnCall(t, f) /\ OwnRow(t, f)
    BY <1>1, <1>2, <1>5
       DEF OwnCall, OwnRow, Before, Moved, Ended, Continued, Idle, Exists, At, File, Indexing
  <1>7. ASSUME pathOf[f] \notin disturbed' PROVE (FileOk(f, call[t].pc, call[t].saw))'
    <2>1. FileOk(f, "rmSend", call[t].saw)
      BY <1>1, <1>4, <1>7 DEF Before, Local
    <2> QED BY <1>1, <1>2, <1>5, <2>1
        DEF FileOk, Current, Exists, Replacing, Indexing, Moved, Ended, Continued, Idle, Before
  <1> QED BY <1>3, <1>4, <1>6, <1>7 DEF Own

LEMMA RemovalClearStep ==
  ASSUME IInv, NEW t \in Tasks, NEW f \in Files, File(t) = f, RemovalClear(t)
  PROVE TypeOK' /\ Local(t) /\ Own(t, f)
  <1>1. call[t].pc = "rmClear" /\ Before(t, f)
    BY BeforeStep DEF RemovalClear, At, Active
  <1>2. Kept /\ Continued(t)
    BY <1>1, AfterRemovalContinues DEF RemovalClear, IInv, Before
  <1>3. TypeOK'
    BY <1>1, <1>2
       DEF RemovalClear, IInv, TypeOK, Kept, Before, SetStatus, SetDoc, docVars, history
  <1>4. Local(t)
    BY <1>1, <1>2
       DEF RemovalClear, Local, Moved, Ended, Continued, Before, IInv, TypeOK, SetStatus,
           SetDoc, docVars, history
  <1>5. /\ status'[f] = (IF Exists(f) THEN "PENDING" ELSE "none")
        /\ docOf'[f] = docOf[f]
        /\ disk'[pathOf[f]] = disk[pathOf[f]]
        /\ UNCHANGED <<pathOf, served, origin, text, refused, reindexed, disturbed>>
    BY <1>1, <1>2
       DEF RemovalClear, Before, Exists, IInv, TypeOK, SetStatus, SetDoc, docVars, history
  <1>6. OwnCall(t, f) /\ OwnRow(t, f)
    BY <1>1, <1>2, <1>5
       DEF OwnCall, OwnRow, Before, Moved, Ended, Continued, Idle, Exists, At, File, Indexing
  <1>7. ASSUME pathOf[f] \notin disturbed' PROVE (FileOk(f, call[t].pc, call[t].saw))'
    <2>1. FileOk(f, "rmClear", call[t].saw)
      BY <1>1, <1>4, <1>7 DEF Before, Local
    <2> QED BY <1>1, <1>2, <1>5, <2>1
        DEF FileOk, Current, Exists, Replacing, Indexing, Moved, Ended, Continued, Idle, Before
  <1> QED BY <1>3, <1>4, <1>6, <1>7 DEF Own

LEMMA RemovalFailedStep ==
  ASSUME IInv, NEW t \in Tasks, NEW f \in Files, File(t) = f, RemovalFailed(t)
  PROVE TypeOK' /\ Local(t) /\ Own(t, f)
  <1>1. call[t].pc = "rmFail" /\ Before(t, f)
    BY BeforeStep DEF RemovalFailed, At, Active
  <1>2. Kept /\ Continued(t)
    BY <1>1, AfterRemovalContinues DEF RemovalFailed, IInv, Before
  <1>3. TypeOK'
    BY <1>1, <1>2 DEF RemovalFailed, IInv, TypeOK, Kept, Before, SetStatus, docVars, history
  <1>4. Local(t)
    BY <1>1, <1>2
       DEF RemovalFailed, Local, Moved, Ended, Continued, Before, IInv, TypeOK, SetStatus,
           docVars, history
  <1>5. /\ status'[f] = (IF Exists(f) THEN "FAILED" ELSE "none")
        /\ docOf'[f] = docOf[f]
        /\ disk'[pathOf[f]] = disk[pathOf[f]]
        /\ UNCHANGED <<pathOf, served, origin, text, refused, reindexed, disturbed>>
    BY <1>1, <1>2 DEF RemovalFailed, Before, Exists, IInv, TypeOK, SetStatus, docVars, history
  <1>6. OwnCall(t, f) /\ OwnRow(t, f)
    BY <1>1, <1>2, <1>5
       DEF OwnCall, OwnRow, Before, Moved, Ended, Continued, Idle, Exists, At, File, Indexing
  <1>7. ASSUME pathOf[f] \notin disturbed' PROVE (FileOk(f, call[t].pc, call[t].saw))'
    <2>1. FileOk(f, "rmFail", call[t].saw)
      BY <1>1, <1>4, <1>7 DEF Before, Local
    <2> QED BY <1>1, <1>2, <1>5, <2>1
        DEF FileOk, Current, Exists, Replacing, Indexing, Moved, Ended, Continued, Idle, Before
  <1> QED BY <1>3, <1>4, <1>6, <1>7 DEF Own

LEMMA ReplaceCopyStep ==
  ASSUME IInv, NEW t \in Tasks, NEW f \in Files, File(t) = f, ReplaceCopy(t)
  PROVE TypeOK' /\ Local(t) /\ Own(t, f)
  <1>1. call[t].pc = "copy" /\ Before(t, f)
    BY BeforeStep DEF ReplaceCopy, At, Active
  <1>2. /\ Kept
        /\ \/ disk'[pathOf[f]] # Missing /\ Moved(t, "reset", NoDoc)
           \/ disk' = disk /\ Ended(t)
    BY <1>1, GotoGoes, EndEnds, Distinct
       DEF ReplaceCopy, Steps, Removing, Indexing, IInv, TypeOK, Before
  <1>3. TypeOK'
    BY <1>1, <1>2 DEF ReplaceCopy, IInv, TypeOK, Kept, Before, rowVars, docVars, history
  <1>4. Local(t)
    BY <1>1, <1>2
       DEF ReplaceCopy, Local, Moved, Ended, Before, IInv, TypeOK, rowVars, docVars, history
  <1>5. /\ status'[f] = status[f] /\ docOf'[f] = docOf[f]
        /\ UNCHANGED <<pathOf, served, origin, text, refused, reindexed, disturbed>>
    BY <1>1, <1>2 DEF ReplaceCopy, Before, Exists, IInv, TypeOK, rowVars, docVars, history
  <1>6. OwnCall(t, f) /\ OwnRow(t, f)
    BY <1>1, <1>2, <1>5
       DEF OwnCall, OwnRow, Before, Moved, Ended, Idle, Exists, At, File, Indexing
  <1>7. ASSUME pathOf[f] \notin disturbed' PROVE (FileOk(f, call[t].pc, call[t].saw))'
    <2>1. FileOk(f, "copy", call[t].saw)
      BY <1>1, <1>4, <1>7 DEF Before, Local
    <2> QED BY <1>1, <1>2, <1>5, <2>1
        DEF FileOk, Current, Exists, Replacing, Indexing, Moved, Ended, Idle, Before
  <1> QED BY <1>3, <1>4, <1>6, <1>7 DEF Own

LEMMA ReplaceResetStep ==
  ASSUME IInv, NEW t \in Tasks, NEW f \in Files, File(t) = f, ReplaceReset(t)
  PROVE TypeOK' /\ Local(t) /\ Own(t, f)
  <1>1. call[t].pc = "reset" /\ Before(t, f)
    BY BeforeStep DEF ReplaceReset, At, Active
  <1>2. Kept /\ Moved(t, "ixRead", NoDoc)
    BY <1>1, GotoGoes DEF ReplaceReset, Steps, Removing, Indexing, IInv, Before
  <1>3. TypeOK'
    BY <1>1, <1>2
       DEF ReplaceReset, IInv, TypeOK, Kept, Before, SetStatus, SetDoc, docVars, history
  <1>4. Local(t)
    BY <1>1, <1>2
       DEF ReplaceReset, Local, Moved, Before, IInv, TypeOK, SetStatus, SetDoc, docVars, history
  <1>5. /\ status'[f] = (IF Exists(f) THEN "PENDING" ELSE "none")
        /\ docOf'[f] = docOf[f]
        /\ disk'[pathOf[f]] = disk[pathOf[f]]
        /\ UNCHANGED <<pathOf, served, origin, text, refused, reindexed, disturbed>>
    BY <1>1, <1>2
       DEF ReplaceReset, Before, Exists, IInv, TypeOK, SetStatus, SetDoc, docVars, history
  <1>6. OwnCall(t, f) /\ OwnRow(t, f)
    BY <1>1, <1>2, <1>5
       DEF OwnCall, OwnRow, Before, Moved, Exists, At, File, Indexing
  <1>7. ASSUME pathOf[f] \notin disturbed' PROVE (FileOk(f, call[t].pc, call[t].saw))'
    <2>1. FileOk(f, "reset", call[t].saw)
      BY <1>1, <1>4, <1>7 DEF Before, Local
    <2> QED BY <1>1, <1>2, <1>5, <2>1
        DEF FileOk, Current, Exists, Replacing, Indexing, Moved, Before
  <1> QED BY <1>3, <1>4, <1>6, <1>7 DEF Own

LEMMA DeleteUnlinkStep ==
  ASSUME IInv, NEW t \in Tasks, NEW f \in Files, File(t) = f, DeleteUnlink(t)
  PROVE TypeOK' /\ Local(t) /\ Own(t, f)
  <1>1. call[t].pc = "unlink" /\ Before(t, f)
    BY BeforeStep DEF DeleteUnlink, At, Active
  <1>2. Kept /\ Moved(t, "drop", NoDoc)
    BY <1>1, GotoGoes DEF DeleteUnlink, Steps, Removing, Indexing, IInv, Before
  <1>3. TypeOK'
    BY <1>1, <1>2 DEF DeleteUnlink, IInv, TypeOK, Kept, Before, rowVars, docVars, history
  <1>4. Local(t)
    BY <1>1, <1>2
       DEF DeleteUnlink, Local, Moved, Before, IInv, TypeOK, rowVars, docVars, history
  <1>5. /\ status'[f] = status[f] /\ docOf'[f] = docOf[f]
        /\ UNCHANGED <<pathOf, served, origin, text, refused, reindexed, disturbed>>
    BY <1>1, <1>2 DEF DeleteUnlink, Before, Exists, IInv, TypeOK, rowVars, docVars, history
  <1>6. OwnCall(t, f) /\ OwnRow(t, f)
    BY <1>1, <1>2, <1>5
       DEF OwnCall, OwnRow, Before, Moved, Exists, At, File, Indexing
  <1>7. ASSUME pathOf[f] \notin disturbed' PROVE (FileOk(f, call[t].pc, call[t].saw))'
    <2>1. FileOk(f, "unlink", call[t].saw)
      BY <1>1, <1>4, <1>7 DEF Before, Local
    <2> QED BY <1>1, <1>2, <1>5, <2>1
        DEF FileOk, Current, Exists, Replacing, Indexing, Moved, Before
  <1> QED BY <1>3, <1>4, <1>6, <1>7 DEF Own

LEMMA DeleteDropStep ==
  ASSUME IInv, NEW t \in Tasks, NEW f \in Files, File(t) = f, DeleteDrop(t)
  PROVE TypeOK' /\ Local(t) /\ Own(t, f)
  <1>1. call[t].pc = "drop" /\ Before(t, f)
    BY BeforeStep DEF DeleteDrop, At, Active
  <1>2. Kept /\ Ended(t)
    BY <1>1, EndEnds DEF DeleteDrop, IInv, Before
  <1>3. TypeOK'
    BY <1>1, <1>2 DEF DeleteDrop, IInv, TypeOK, Kept, Before, docVars, history
  <1>4. Local(t)
    BY <1>1, <1>2
       DEF DeleteDrop, Local, Ended, Before, IInv, TypeOK, docVars, history
  <1>5. /\ status'[f] = "none" /\ docOf'[f] = NoDoc
        /\ disk'[pathOf[f]] = disk[pathOf[f]]
        /\ UNCHANGED <<pathOf, served, origin, text, refused, reindexed, disturbed>>
    BY <1>1, <1>2 DEF DeleteDrop, Before, Exists, IInv, TypeOK, docVars, history
  <1>6. OwnCall(t, f) /\ OwnRow(t, f)
    BY <1>1, <1>2, <1>5
       DEF OwnCall, OwnRow, Before, Ended, Idle, Exists, At, File, Indexing
  <1>7. ASSUME pathOf[f] \notin disturbed' PROVE (FileOk(f, call[t].pc, call[t].saw))'
    <2>1. FileOk(f, "drop", call[t].saw)
      BY <1>1, <1>4, <1>7 DEF Before, Local
    <2> QED BY <1>1, <1>2, <1>5, <2>1
        DEF FileOk, Current, Exists, Replacing, Indexing, Ended, Idle, Before
  <1> QED BY <1>3, <1>4, <1>6, <1>7 DEF Own

LEMMA SendOkStep ==
  ASSUME IInv, NEW t \in Tasks, NEW f \in Files, File(t) = f, SendOk(t)
  PROVE TypeOK' /\ Local(t) /\ Own(t, f)
  <1>1. call[t].pc = "send" /\ Before(t, f)
    BY BeforeStep DEF SendOk, At, Active
  <1>2. PICK d \in Docs : MakeDoc(t, d) /\ GotoHolding(t, "store", d)
    BY DEF SendOk
  <1>3. Kept /\ Moved(t, "store", d)
    BY <1>2, GotoMoves DEF Steps, Indexing, IInv
  <1>4. TypeOK'
    BY <1>1, <1>2, <1>3 DEF SendOk, MakeDoc, IInv, TypeOK, Kept, Before, rowVars, history
  <1>5. Local(t)
    BY <1>1, <1>2, <1>3
       DEF SendOk, MakeDoc, Local, Moved, Before, IInv, TypeOK, rowVars, history
  <1>6. /\ d \notin served /\ served' = served \cup {d}
        /\ origin'[d] = f /\ text'[d] = disk[pathOf[f]]
        /\ docOf[f] # d
        /\ \A e \in Docs \ {d} : origin'[e] = origin[e] /\ text'[e] = text[e]
        /\ UNCHANGED <<status, docOf, pathOf, disk, refused, reindexed, disturbed>>
    BY <1>1, <1>2 DEF SendOk, MakeDoc, Before, IInv, TypeOK, DocsOwned, rowVars, history
  <1>7. OwnCall(t, f) /\ OwnRow(t, f)
    BY <1>1, <1>3, <1>6 DEF OwnCall, OwnRow, Before, Moved, Exists, At, File, Indexing
  <1>8. ASSUME pathOf[f] \notin disturbed' PROVE (FileOk(f, call[t].pc, call[t].saw))'
    <2>1. FileOk(f, "send", call[t].saw)
      BY <1>1, <1>5, <1>8 DEF Before, Local
    <2> QED BY <1>1, <1>3, <1>6, <2>1
        DEF FileOk, Current, Exists, Replacing, Indexing, Moved, Before
  <1> QED BY <1>4, <1>5, <1>7, <1>8 DEF Own

\* When the answer is lost the file counts as disturbed from then on.
LEMMA SendLostStep ==
  ASSUME IInv, NEW t \in Tasks, NEW f \in Files, File(t) = f, SendLost(t)
  PROVE TypeOK' /\ Local(t) /\ Own(t, f)
  <1>1. call[t].pc = "send" /\ Before(t, f)
    BY BeforeStep DEF SendLost, At, Active
  <1>2. PICK d \in Docs : MakeDoc(t, d)
    BY DEF SendLost
  <1>3. PICK next \in {"send", "fail", "store"} : Kept /\ Moved(t, next, NoDoc)
    BY GotoGoes DEF SendLost, Steps, Indexing, IInv
  <1>4. faults' \in 0..MaxFaults
    BY Distinct DEF SendLost, Fault, IInv, TypeOK
  <1>5. TypeOK'
    BY <1>1, <1>2, <1>3, <1>4 DEF SendLost, MakeDoc, Fault, IInv, TypeOK, Kept, Before, rowVars
  <1>6. Local(t)
    BY <1>1, <1>2, <1>3
       DEF SendLost, MakeDoc, Fault, Local, Moved, Before, IInv, TypeOK, rowVars
  <1>7. OwnCall(t, f) /\ OwnRow(t, f)
    <2>1. docOf[f] # NoDoc => origin'[docOf[f]] = f
      BY <1>1, <1>2 DEF MakeDoc, Before, IInv, TypeOK
    <2> QED BY <1>1, <1>3, <2>1
        DEF SendLost, OwnCall, OwnRow, Before, Moved, Exists, At, File, Indexing, rowVars
  <1>8. pathOf[f] \in disturbed'
    BY <1>1 DEF SendLost, Fault, Before
  <1> QED BY <1>5, <1>6, <1>7, <1>8 DEF Own

\* Every step of a call is such a step, and so preserves the invariant.
LEMMA CallIsLocal ==
  ASSUME IInv, NEW t \in Tasks, IndexStep(t) \/ RemoveStep(t) \/ FileStep(t)
  PROVE Active(t) /\ File(t) \in Files /\ TypeOK' /\ Local(t) /\ Own(t, File(t))
  <1>1. Active(t)
    BY
       DEF IndexStep, RemoveStep, FileStep, ReadForIndex, MarkIndexing, SendOk, SendLost,
           SendFail,
           StoreIndexed, MarkFailed, RemovalRead, RemovalOk, RemovalGone, RemovalFail, RemovalNoKb,
           RemovalClear, RemovalFailed, UploadInsert, ReplaceCopy, ReplaceReset, DeleteUnlink,
           DeleteDrop, At, Active
  <1>2. PICK f \in Files : File(t) = f
    BY <1>1, ActiveWorks
  <1>3. CASE IndexStep(t)
    BY <1>1, <1>2, <1>3, ReadForIndexStep, MarkIndexingStep, SendOkStep, SendLostStep,
       SendFailStep, StoreIndexedStep, MarkFailedStep DEF IndexStep
  <1>4. CASE RemoveStep(t)
    BY <1>1, <1>2, <1>4, RemovalReadStep, RemovalOkStep, RemovalGoneStep, RemovalFailStep,
       RemovalNoKbStep, RemovalClearStep, RemovalFailedStep DEF RemoveStep
  <1>5. CASE FileStep(t)
    BY <1>1, <1>2, <1>5, UploadInsertStep, ReplaceCopyStep, ReplaceResetStep,
       DeleteUnlinkStep, DeleteDropStep DEF FileStep
  <1> QED BY <1>3, <1>4, <1>5

LEMMA CallStep ==
  ASSUME IInv, NEW t \in Tasks, IndexStep(t) \/ RemoveStep(t) \/ FileStep(t) PROVE IInv'
  <1>0. PICK f \in Files : File(t) = f /\ TypeOK' /\ Local(t) /\ Own(t, f)
    BY CallIsLocal
  <1> QED BY <1>0, LocalKeeps

-----------------------------------------------------------------------------
(* The other steps *)

\* A call starts on a file f: what may join it there is noted in disturbed.
Joined(t, f) == \A u \in Tasks \ {t} : Active(u) /\ Path(u) = pathOf[f] => pathOf[f] \in disturbed'
LEMMA OverlapNotes ==
  ASSUME IInv, NEW t \in Tasks, NEW f \in Files, Overlap(t, pathOf[f])
  PROVE /\ Joined(t, f)
        /\ disturbed \subseteq disturbed' /\ disturbed' \subseteq disturbed \cup {pathOf[f]}
  BY DEF Overlap, Joined, IInv, PathsFixed, Active, Idle

LEMMA BeginKeeps ==
  ASSUME IInv, NEW t \in Tasks, NEW f \in Files,
         NEW op \in {"index", "remove", "replace", "delete"},
         Begin(t, f, op)
  PROVE IInv'
  <1>1. Exists(f) /\ pathOf[f] \in Paths /\ docOf[f] \in Docs \cup {NoDoc}
    BY DEF Begin, IInv, TypeOK, PathsFixed
  <1>2. PICK step \in {"mark", "rmRead"} :
          /\ Start(t, f, op, step)
          /\ step = "mark" <=> op = "index"
    BY DEF Begin
  <1>3. /\ Kept /\ Others(t) /\ call[t] = Idle
        /\ call'[t].pc = step /\ call'[t].saw = NoDoc /\ call'[t].file = f
    BY <1>2, StartStarts DEF IInv, Steps, Removing
  <1>4. /\ Joined(t, f)
        /\ disturbed \subseteq disturbed' /\ disturbed' \subseteq disturbed \cup {pathOf[f]}
    BY OverlapNotes DEF Begin
  <1>5. /\ reindexed \subseteq reindexed'
        /\ step = "mark" => docOf[f] \in reindexed' \cup {NoDoc}
        /\ UNCHANGED <<rowVars, disk, docVars, refused, faults, crashed>>
    BY <1>1, <1>2 DEF Begin
  <1>6. TypeOK'
    <2>1. reindexed' \subseteq Docs
      BY <1>1 DEF Begin, IInv, TypeOK
    <2> QED BY <1>1, <1>3, <1>4, <1>5, <2>1 DEF IInv, TypeOK, Kept, rowVars, docVars
  <1>7. PathsFixed'
    BY <1>1, <1>3, <1>5, Distinct
       DEF IInv, PathsFixed, Others, Active, File, Path, Exists, Paths, rowVars
  <1>8. DocsOwned'
    BY <1>3, <1>5 DEF IInv, DocsOwned, Others, File, At, Exists, rowVars, docVars
  <1>9. Alone'
    BY <1>3, <1>4, <1>5 DEF IInv, Alone, Joined, Others, Active, File, Path, rowVars
  <1>10. Apart'
    <2>1. \A g \in Files : Owns(g)' => Owns(g)
      BY <1>1, <1>3, <1>5 DEF Owns, Others, At, File, Exists, rowVars
    <2> QED BY <1>4, <1>5, <2>1 DEF IInv, Apart, rowVars
  <1>11. ASSUME NEW g \in Files, Undisturbed(g)'
         PROVE /\ \A u \in Tasks : (File(u) = g => FileOk(g, call[u].pc, call[u].saw))'
               /\ (ActiveOn(g) = {} => FileOk(g, "idle", NoDoc))'
    <2>1. Undisturbed(g) /\ UNCHANGED pathOf
      BY <1>4, <1>5, <1>11 DEF Undisturbed, rowVars
    <2>2. ASSUME NEW pc, NEW saw, FileOk(g, pc, saw) PROVE FileOk(g, pc, saw)'
      BY <1>5, <2>2 DEF FileOk, Current, Exists, rowVars, docVars
    <2>3. ASSUME NEW u \in Tasks \ {t}, File(u)' = g PROVE (FileOk(g, call[u].pc, call[u].saw))'
      BY <1>3, <2>1, <2>2, <2>3 DEF IInv, FilesOk, Others, File
    <2>4. CASE g = f
      <3>1. \A u \in Tasks : File(u) # f
        BY <1>3, <1>4, <1>11, <2>1, <2>4, Distinct
           DEF IInv, PathsFixed, Joined, Undisturbed, Active, File, Path, Idle
      <3>2. FileOk(f, "idle", NoDoc)
        BY <2>1, <2>4, <3>1 DEF IInv, FilesOk, ActiveOn
      <3>3. FileOk(f, step, NoDoc)'
        <4>1. NoDoc \notin served
          BY Distinct DEF IInv, TypeOK
        <4> QED BY <1>1, <1>2, <1>5, <3>2, <4>1
            DEF FileOk, Current, Exists, Replacing, Indexing, rowVars, docVars
      <3> QED BY <1>3, <2>3, <2>4, <3>3 DEF ActiveOn, File
    <2>5. CASE g # f
      <3>1. (ActiveOn(g) = {})' => ActiveOn(g) = {}
        BY <1>3, Distinct DEF ActiveOn, File, Others, Idle
      <3> QED BY <1>3, <2>1, <2>2, <2>3, <2>5, <3>1 DEF IInv, FilesOk, File
    <2> QED BY <2>4, <2>5
  <1>12. IndexingHasOwner'
    BY <1>3, <1>5
       DEF IInv, IndexingHasOwner, ActiveOn, Others, Idle, Indexing, File, rowVars
  <1> QED BY <1>6, <1>7, <1>8, <1>9, <1>10, <1>11, <1>12 DEF IInv, FilesOk

\* An upload never takes a path that holds something: its file is the only one there,
\* unless a delete of another file has just unlinked it, which counts as an overlap.
LEMMA UploadCopyKeeps ==
  ASSUME IInv, NEW t \in Tasks, NEW f \in Files, UploadCopy(t, f) PROVE IInv'
  <1>1. PICK p \in {Orig, f}, c \in Contents :
          /\ p = Orig => disk[Orig] = Missing
          /\ pathOf' = [pathOf EXCEPT ![f] = p]
          /\ disk' = [disk EXCEPT ![p] = c]
          /\ Overlap(t, p)
    <2>1. CASE disk[Orig] = Missing
      BY <2>1 DEF UploadCopy
    <2>2. CASE disk[Orig] # Missing
      BY <2>2, Distinct DEF UploadCopy
    <2> QED BY <2>1, <2>2
  <1>2. /\ pathOf[f] = NoPath /\ p \in Paths /\ p # NoPath
        /\ pathOf'[f] = p /\ \A g \in Files \ {f} : pathOf'[g] = pathOf[g]
        /\ disk'[p] # Missing /\ \A q \in Paths \ {p} : disk'[q] = disk[q]
    BY <1>1, Distinct DEF UploadCopy, Paths, IInv, TypeOK
  <1>3. /\ Kept /\ Others(t) /\ call[t] = Idle
        /\ call'[t].pc = "insert" /\ call'[t].saw = NoDoc /\ call'[t].file = f
    BY StartStarts DEF UploadCopy, IInv, Steps
  <1>4. UNCHANGED <<status, docOf, docVars, refused, reindexed, faults, crashed>>
    BY DEF UploadCopy
  <1>5. /\ \A u \in Tasks \ {t} : Active(u) /\ Path(u) = p => p \in disturbed'
        /\ disturbed \subseteq disturbed' /\ disturbed' \subseteq disturbed \cup {p}
    BY <1>1 DEF Overlap, IInv, PathsFixed, Active, Idle
  \* The new file has no row, no call and no document yet.
  <1>6. /\ ~Exists(f) /\ docOf[f] = NoDoc
        /\ \A u \in Tasks : File(u) # f
        /\ \A d \in Docs : origin[d] # f
    BY <1>2, Distinct DEF IInv, PathsFixed, DocsOwned, Active, Idle, File, Path
  <1>7. \A u \in Tasks \ {t} : Active(u)' => Active(u) /\ File(u)' = File(u) /\ Path(u)' = Path(u)
    BY <1>2, <1>3, <1>6 DEF Others, Active, File, Path, IInv, PathsFixed
  <1>8. TypeOK'
    BY <1>1, <1>2, <1>3, <1>4, <1>5 DEF IInv, TypeOK, Kept, docVars
  <1>9. PathsFixed'
    <2>1. \A g \in Files : pathOf'[g] \in {g, Orig, NoPath} /\ (Exists(g)' => pathOf'[g] # NoPath)
      BY <1>1, <1>2, <1>4 DEF IInv, PathsFixed, Exists
    <2>2. \A u \in Tasks : (Active(u) => File(u) \in Files /\ Path(u) # NoPath)'
      BY <1>2, <1>3, <1>7 DEF IInv, PathsFixed, File, Path
    <2>3. \A u \in Tasks : (~Active(u) => call[u] = Idle)'
      BY <1>3 DEF IInv, PathsFixed, Others, Active
    <2> QED BY <2>1, <2>2, <2>3 DEF PathsFixed
  <1>10. DocsOwned'
    BY <1>2, <1>3, <1>4, <1>6 DEF IInv, DocsOwned, TypeOK, Others, File, At, Exists, docVars
  <1>11. Alone'
    BY <1>2, <1>3, <1>5, <1>7 DEF IInv, Alone, Active, File, Path
  \* Another file that has a row, or is about to, and this path.
  <1>12. ASSUME NEW g \in Files \ {f}, Owns(g), pathOf[g] = p, p \notin disturbed'
         PROVE FALSE
    <2>1. p = Orig /\ Undisturbed(g)
      BY <1>1, <1>5, <1>12, Distinct DEF IInv, PathsFixed, Undisturbed
    <2>2. \A u \in Tasks : File(u) # g
      BY <1>3, <1>5, <1>12, Distinct DEF IInv, PathsFixed, Active, File, Path, Idle
    <2>3. FileOk(g, "idle", NoDoc) /\ Exists(g)
      BY <1>12, <2>1, <2>2 DEF IInv, FilesOk, ActiveOn, Owns
    <2> QED BY <1>1, <1>12, <2>1, <2>3 DEF FileOk
  <1>13. Apart'
    <2>1. \A g \in Files \ {f} : Owns(g)' => Owns(g)
      BY <1>3, <1>4 DEF Owns, Others, At, File, Exists
    <2> QED BY <1>2, <1>5, <1>12, <2>1 DEF IInv, Apart
  <1>14. ASSUME NEW g \in Files, Undisturbed(g)'
         PROVE /\ \A u \in Tasks : (File(u) = g => FileOk(g, call[u].pc, call[u].saw))'
               /\ (ActiveOn(g) = {} => FileOk(g, "idle", NoDoc))'
    <2>1. CASE g = f
      <3>1. FileOk(f, "insert", NoDoc)'
        BY <1>2, <1>4, <1>6, Distinct
           DEF FileOk, Current, Exists, Replacing, Indexing, docVars, IInv, TypeOK
      <3> QED BY <1>3, <1>6, <2>1, <3>1 DEF ActiveOn, File, Others
    <2>2. CASE g # f
      <3>1. Undisturbed(g) /\ pathOf'[g] = pathOf[g]
        BY <1>2, <1>5, <1>14, <2>2 DEF Undisturbed
      <3>2. pathOf[g] = p => ~Exists(g) /\ \A u \in Tasks : File(u) # g
        <4>1. \A u \in Tasks : pathOf[g] = p => File(u) # g
          BY <1>3, <1>5, <1>14, <3>1, Distinct
             DEF IInv, PathsFixed, Undisturbed, Active, File, Path, Idle
        <4> QED BY <1>12, <1>14, <2>2, <3>1, <4>1 DEF Owns, Undisturbed
      <3>3. ASSUME NEW pc \in Steps, NEW saw, FileOk(g, pc, saw),
                   pc # "idle" => pathOf[g] \in Paths \ {p}
            PROVE FileOk(g, pc, saw)'
        <4>1. CASE Exists(g) \/ pc # "idle"
          <5>1. disk'[pathOf[g]] = disk[pathOf[g]]
            BY <1>2, <3>2, <3>3, <4>1 DEF IInv, TypeOK, PathsFixed
          <5> QED BY <1>4, <3>1, <3>3, <5>1 DEF FileOk, Current, Exists, docVars
        <4>2. CASE status[g] = "none" /\ pc = "idle"
          BY <1>4, <3>3, <4>2 DEF FileOk, Exists, Replacing, Indexing, docVars
        <4> QED BY <4>1, <4>2 DEF Exists
      <3>4. ASSUME NEW u \in Tasks, File(u)' = g PROVE (FileOk(g, call[u].pc, call[u].saw))'
        <4>1. u # t /\ call'[u] = call[u] /\ File(u) = g
          BY <1>3, <2>2, <3>4 DEF Others, File
        <4>2. call[u].pc \in Steps /\ pathOf[g] \in Paths \ {p}
          BY <3>2, <4>1, ActiveWorks, Distinct
             DEF IInv, TypeOK, Calls, PathsFixed, Active, File, Idle
        <4>3. FileOk(g, call[u].pc, call[u].saw)
          BY <3>1, <4>1 DEF IInv, FilesOk
        <4> QED BY <3>3, <4>1, <4>2, <4>3
      <3>5. ASSUME (ActiveOn(g) = {})' PROVE FileOk(g, "idle", NoDoc)'
        <4>1. ActiveOn(g) = {}
          BY <1>3, <3>5, Distinct DEF Others, ActiveOn, File, Idle
        <4> QED BY <3>1, <3>3, <4>1 DEF IInv, FilesOk, Steps
      <3> QED BY <3>4, <3>5
    <2> QED BY <2>1, <2>2
  <1>15. IndexingHasOwner'
    BY <1>3, <1>4, Distinct DEF IInv, IndexingHasOwner, ActiveOn, Others, Idle, Indexing, File
  <1> QED BY <1>8, <1>9, <1>10, <1>11, <1>13, <1>14, <1>15 DEF IInv, FilesOk

\* What is lost with the knowledge base disturbs the files it was made of.
LEMMA LoseDocsKeeps == ASSUME IInv, LoseDocs PROVE IInv'
  <1>1. /\ served' = {} /\ disturbed' = disturbed \cup {pathOf[origin[d]] : d \in served}
        /\ UNCHANGED <<rowVars, disk, origin, text, call, refused, reindexed, crashed>>
    BY DEF LoseDocs, Fault
  <1>2. \A d \in served : origin[d] \in Files /\ pathOf[origin[d]] \in Paths
    BY Distinct DEF IInv, TypeOK, DocsOwned
  <1>3. faults' \in 0..MaxFaults
    BY Distinct DEF LoseDocs, Fault, IInv, TypeOK
  <1>4. TypeOK'
    BY <1>1, <1>2, <1>3 DEF IInv, TypeOK, rowVars
  <1>5. PathsFixed' /\ DocsOwned'
    BY <1>1 DEF IInv, PathsFixed, DocsOwned, Active, Exists, File, Path, At, rowVars
  <1>6. Alone' /\ Apart'
    BY <1>1 DEF IInv, Alone, Apart, Owns, Active, Exists, File, Path, At, rowVars
  <1>7. ASSUME NEW g \in Files, Undisturbed(g)'
        PROVE /\ \A u \in Tasks : (File(u) = g => FileOk(g, call[u].pc, call[u].saw))'
              /\ (ActiveOn(g) = {} => FileOk(g, "idle", NoDoc))'
    <2>1. Undisturbed(g) /\ \A d \in served : origin[d] # g
      BY <1>1, <1>7 DEF Undisturbed, rowVars
    <2>2. ASSUME NEW pc, NEW saw, FileOk(g, pc, saw), saw \in served => origin[saw] = g
          PROVE FileOk(g, pc, saw)'
      <3>1. docOf[g] \in served => origin[docOf[g]] = g
        BY Distinct DEF IInv, DocsOwned, TypeOK
      <3> QED BY <1>1, <2>1, <2>2, <3>1 DEF FileOk, Current, Exists, rowVars
    <2>3. \A u \in Tasks : File(u) = g => (call[u].saw \in served => origin[call[u].saw] = g)
      BY Distinct DEF IInv, DocsOwned, TypeOK
    <2>4. NoDoc \notin served
      BY Distinct DEF IInv, TypeOK
    <2> QED BY <1>1, <2>1, <2>2, <2>3, <2>4 DEF IInv, FilesOk, ActiveOn, File
  <1>8. IndexingHasOwner'
    BY <1>1 DEF IInv, IndexingHasOwner, ActiveOn, File, rowVars
  <1> QED BY <1>4, <1>5, <1>6, <1>7, <1>8 DEF IInv, FilesOk

\* A crash ends every call and disturbs the files they were working on.
LEMMA CrashKeeps == ASSUME IInv, Crash PROVE IInv'
  <1>1. /\ disturbed' = disturbed \cup {Path(t) : t \in {u \in Tasks : call[u] # Idle}}
        /\ call' = [t \in Tasks |-> Idle] /\ crashed' = TRUE
        /\ UNCHANGED <<rowVars, disk, docVars, refused, reindexed>>
    BY DEF Crash, Fault
  <1>2. \A t \in Tasks : call[t] # Idle => Path(t) \in Paths
    BY ActiveWorks DEF IInv, PathsFixed, Path
  <1>3. faults' \in 0..MaxFaults
    BY Distinct DEF Crash, Fault, IInv, TypeOK
  <1>4. TypeOK'
    BY <1>1, <1>2, <1>3 DEF IInv, TypeOK, Calls, Steps, Idle, rowVars, docVars
  <1>5. \A t \in Tasks : ~Active(t)' /\ File(t)' = NoFile /\ ~At(t, "insert")'
    BY <1>1 DEF Active, File, At, Idle
  <1>6. PathsFixed' /\ DocsOwned'
    BY <1>1, <1>5 DEF IInv, PathsFixed, DocsOwned, Exists, At, Idle, rowVars, docVars
  <1>7. Alone' /\ Apart'
    BY <1>1, <1>5 DEF IInv, Alone, Apart, Owns, Exists, rowVars
  <1>8. ASSUME NEW g \in Files, Undisturbed(g)' PROVE FileOk(g, "idle", NoDoc)'
    <2>1. Undisturbed(g) /\ \A t \in Tasks : File(t) # g
      BY <1>1, <1>8, Distinct DEF Undisturbed, File, Path, Idle, rowVars
    <2>2. FileOk(g, "idle", NoDoc)
      BY <2>1 DEF IInv, FilesOk, ActiveOn
    <2> QED BY <1>1, <2>2 DEF FileOk, Current, Exists, rowVars, docVars
  <1>9. FilesOk'
    BY <1>5, <1>8, Distinct DEF FilesOk
  <1>10. IndexingHasOwner'
    BY <1>1 DEF IndexingHasOwner
  <1> QED BY <1>4, <1>6, <1>7, <1>9, <1>10 DEF IInv

LEMMA InitInv == Init => IInv
  <1> SUFFICES ASSUME Init PROVE IInv
    OBVIOUS
  <1>1. TypeOK
    <2>1. Idle \in Calls
      BY DEF Idle, Calls, Steps
    <2>2. 0 \in 0..MaxFaults
      BY Distinct
    <2>3. call \in [Tasks -> Calls]
      BY <2>1 DEF Init
    <2>4. /\ status \in [Files -> {"none", "PENDING", "INDEXING", "INDEXED", "FAILED"}]
          /\ docOf \in [Files -> Docs \cup {NoDoc}] /\ pathOf \in [Files -> Paths \cup {NoPath}]
          /\ disk \in [Paths -> Contents \cup {Missing}]
          /\ origin \in [Docs -> Files \cup {NoFile}] /\ text \in [Docs -> Contents \cup {Missing}]
      BY DEF Init
    <2> QED BY <2>2, <2>3, <2>4 DEF Init, TypeOK
  <1>2. \A t \in Tasks : ~Active(t) /\ File(t) = NoFile /\ call[t] = Idle /\ ~At(t, "insert")
    BY DEF Init, Active, File, At, Idle
  <1>3. PathsFixed /\ DocsOwned /\ Alone /\ Apart
    BY <1>2 DEF Init, PathsFixed, DocsOwned, Alone, Apart, Owns, Exists, At, Idle
  <1>4. FilesOk
    BY <1>2, Distinct DEF Init, FilesOk, FileOk, Exists, Replacing, Indexing
  <1>5. IndexingHasOwner
    BY DEF Init, IndexingHasOwner
  <1> QED BY <1>1, <1>3, <1>4, <1>5 DEF IInv

LEMMA NextInv == ASSUME IInv, [Next]_vars PROVE IInv'
  <1>1. CASE UNCHANGED vars
    BY <1>1
       DEF vars, rowVars, docVars, history, IInv, TypeOK, PathsFixed, DocsOwned, Alone, Apart,
         Owns, FilesOk, FileOk, Current, Undisturbed, IndexingHasOwner, ActiveOn, Active, Exists,
         File, Path, At
  <1> QED BY <1>1, BeginKeeps, UploadCopyKeeps, CallStep, LoseDocsKeeps, CrashKeeps DEF Next

LEMMA SpecInv == Spec => []IInv
  BY InitInv, NextInv, PTL DEF Spec

-----------------------------------------------------------------------------
(* The properties *)

\* Every row, path, document and call stays what its type says.
THEOREM WellTyped == Spec => []TypeOK
  BY SpecInv, PTL DEF IInv

\* A file that index_status calls INDEXED is found by its present content, once no call
\* works on it: index_file writes INDEXED with the id of the document just made,
\* replace_file and delete_file take the old one back first.
THEOREM IndexedIsCurrent == Spec => []IndexCurrent
  <1>1. IInv => IndexCurrent
    BY DEF IInv, FilesOk, FileOk, Current, Undisturbed, IndexCurrent
  <1> QED BY <1>1, SpecInv, PTL

\* Rows of different files never share a path, however many uploads want the same name,
\* and a row's bytes are there until its delete_file unlinks them.
THEOREM RowsKeepBytes == Spec => []RowOnDisk
  <1>1. ASSUME IInv, NEW f \in Files, Exists(f), Undisturbed(f)
        PROVE /\ \A g \in Files \ {f} : Exists(g) => pathOf[g] # pathOf[f]
              /\ disk[pathOf[f]] # Missing \/ \E t \in ActiveOn(f) : At(t, "drop")
    BY <1>1 DEF IInv, Apart, Owns, FilesOk, FileOk, Undisturbed, ActiveOn, At
  <1>2. IInv => RowOnDisk
    BY <1>1 DEF RowOnDisk
  <1> QED BY <1>2, SpecInv, PTL

\* No served document is forgotten: its row names it, or the call that made it is about to
\* write its id, unless its removal was refused or the file indexed again.
THEOREM DocumentsAccounted == Spec => []DocAccounted
  <1>1. ASSUME IInv, NEW d \in served \ (refused \cup reindexed), Undisturbed(origin[d])
        PROVE \/ docOf[origin[d]] = d
              \/ \E t \in ActiveOn(origin[d]) : At(t, "store") /\ call[t].saw = d
    <2>1. origin[d] \in Files
      BY <1>1, Distinct DEF IInv, TypeOK, DocsOwned
    <2> QED BY <1>1, <2>1 DEF IInv, FilesOk, FileOk, ActiveOn, At
  <1>2. IInv => DocAccounted
    BY <1>1 DEF DocAccounted
  <1> QED BY <1>2, SpecInv, PTL

\* A row is in INDEXING only while a call of index_file still has to write its outcome,
\* unless the daemon crashed.
THEOREM IndexingIsOwned == Spec => []IndexingHasOwner
  BY SpecInv, PTL DEF IInv
-----------------------------------------------------------------------------
(* The files as a user sees them *)

\* A call that inserts a row is the only one that knows the file.
Fresh ==
  \A t \in Tasks : At(t, "insert") => ~Exists(File(t)) /\ \A u \in Tasks \ {t} : File(u) # File(t)

LEMMA FreshInit == ASSUME Init PROVE Fresh
  BY DEF Init, Fresh, At, Idle

LEMMA FreshStep == ASSUME IInv, Fresh, [Next]_vars PROVE Fresh'
  <1>1. ASSUME NEW t \in Tasks, IndexStep(t) \/ RemoveStep(t) \/ FileStep(t) PROVE Fresh'
    <2>1. Active(t) /\ File(t) \in Files /\ Local(t) /\ Own(t, File(t))
      BY <1>1, CallIsLocal
    <2>2. ASSUME NEW u \in Tasks, At(u, "insert")' PROVE u # t /\ call'[u] = call[u] /\ At(u, "insert")
      BY <2>1, <2>2 DEF Local, Others, Own, OwnCall, At, Idle
    <2>3. \A u \in Tasks : At(u, "insert") /\ u # t => File(u) \in Files
      BY DEF IInv, PathsFixed, Active, At
    <2>4. \A u \in Tasks : File(u)' = File(u) \/ (u = t /\ File(u)' = NoFile)
      BY <2>1 DEF Local, Others, Own, OwnCall, File, Idle
    <2> QED BY <2>1, <2>2, <2>3, <2>4, Distinct DEF Fresh, Local, Exists, File, At
  <1>2. ASSUME NEW t \in Tasks, NEW f \in Files, NEW op \in {"index", "remove", "replace", "delete"},
               Begin(t, f, op)
        PROVE Fresh'
    <2>1. PICK step \in {"mark", "rmRead"} : Start(t, f, op, step)
      BY <1>2 DEF Begin
    <2>2. call'[t].pc = step /\ call'[t].file = f /\ Others(t) /\ Exists(f) /\ UNCHANGED status
      BY <1>2, <2>1, StartStarts DEF Begin, IInv, Steps, Removing, rowVars
    <2> QED BY <2>2 DEF Fresh, Others, At, File, Exists
  <1>3. ASSUME NEW t \in Tasks, NEW f \in Files, UploadCopy(t, f) PROVE Fresh'
    <2>1. call'[t].pc = "insert" /\ call'[t].file = f /\ Others(t) /\ UNCHANGED status
      BY <1>3, StartStarts DEF UploadCopy, IInv, Steps
    <2>2. ~Exists(f) /\ \A u \in Tasks : File(u) # f
      BY <1>3, Distinct DEF UploadCopy, IInv, PathsFixed, Active, File, Path, Idle
    <2> QED BY <2>1, <2>2 DEF Fresh, Others, At, File, Exists
  <1>4. CASE LoseDocs \/ UNCHANGED vars
    BY <1>4 DEF LoseDocs, vars, rowVars, Fresh, At, File, Exists
  <1>5. CASE Crash
    BY <1>5 DEF Crash, Fresh, At, Idle
  <1> QED BY <1>1, <1>2, <1>3, <1>4, <1>5 DEF Next

Past == {"rmClear", "rmFail", "reset", "drop"}
Unmoved(f) == Phase(f)' = Phase(f) /\ Content(f)' = Content(f) /\ Found(f)' = Found(f)
Blind(f) == Content(f) = Missing /\ Found(f) = Missing

\* The ways of IndexedFile, of one file.
Moves(f) ==
  \/ Unmoved(f)
  \/ /\ Phase(f) = "new" /\ Found(f)' = Found(f)
     /\ \/ Phase(f)' = "hidden" /\ Content(f)' \in Contents
        \/ Phase(f)' = "gone" /\ Content(f)' = Content(f)
  \/ /\ Phase(f) \in {"hidden", "shown"} /\ Phase(f)' = "hidden"
     /\ \/ Found(f)' = Found(f) /\ Content(f)' \in Contents \cup {Missing}
        \/ Found(f)' = Missing /\ Content(f)' = Content(f)
  \/ /\ Phase(f) = "hidden" /\ Phase(f)' = "shown"
     /\ Content(f)' = Content(f) /\ Content(f) # Missing /\ Found(f)' = Content(f)
  \/ Phase(f) \in {"hidden", "lost"} /\ Phase(f)' = "gone" /\ Blind(f)'
  \/ Phase(f) \in {"new", "hidden", "shown"} /\ Phase(f)' = "lost" /\ Blind(f)'

LEMMA Still ==
  ASSUME \A f \in Files : Unmoved(f) PROVE UNCHANGED Index!files
  BY DEF Unmoved, Index!files, Phases, Bytes, Finds

LEMMA OneMoves ==
  ASSUME NEW f \in Files, Moves(f), \A g \in Files \ {f} : Unmoved(g)
  PROVE [Index!Next]_(Index!files)
  <1>0. PICK ph, co, fo : ph = Phase(f)' /\ co = Content(f)' /\ fo = Found(f)'
    OBVIOUS
  <1>1. /\ Phases' = [Phases EXCEPT ![f] = ph]
        /\ Bytes' = [Bytes EXCEPT ![f] = co]
        /\ Finds' = [Finds EXCEPT ![f] = fo]
    BY <1>0 DEF Unmoved, Phases, Bytes, Finds
  <1>2. /\ Phases[f] = Phase(f) /\ Bytes[f] = Content(f) /\ Finds[f] = Found(f)
        /\ co = Content(f) => Bytes' = Bytes
        /\ fo = Found(f) => Finds' = Finds
    BY <1>1 DEF Phases, Bytes, Finds
  <1>3. CASE Unmoved(f)
    BY <1>3, Still
  <1>4. CASE Phase(f) = "new" /\ fo = Found(f) /\ ph = "hidden" /\ co \in Contents
    BY <1>1, <1>2, <1>4 DEF Index!Next, Index!Create
  <1>5. CASE Phase(f) = "new" /\ fo = Found(f) /\ ph = "gone" /\ co = Content(f)
    BY <1>1, <1>2, <1>5 DEF Index!Next, Index!Refuse
  <1>6. CASE Phase(f) \in {"hidden", "shown"} /\ ph = "hidden" /\ fo = Found(f) /\ co \in Contents \cup {Missing}
    BY <1>1, <1>2, <1>6 DEF Index!Next, Index!Edit
  <1>7. CASE Phase(f) \in {"hidden", "shown"} /\ ph = "hidden" /\ fo = Missing /\ co = Content(f)
    BY <1>1, <1>2, <1>7 DEF Index!Next, Index!Unindex
  <1>8. CASE Phase(f) = "hidden" /\ ph = "shown" /\ co = Content(f) /\ Content(f) # Missing /\ fo = Content(f)
    BY <1>1, <1>2, <1>8 DEF Index!Next, Index!Publish
  <1>9. CASE Phase(f) \in {"hidden", "lost"} /\ ph = "gone" /\ co = Missing /\ fo = Missing
    BY <1>1, <1>2, <1>9 DEF Index!Next, Index!Delete
  <1>10. CASE Phase(f) \in {"new", "hidden", "shown"} /\ ph = "lost" /\ co = Missing /\ fo = Missing
    <2>1. Index!Lose({f}, {})
      BY <1>1, <1>2, <1>10 DEF Index!Lose, Phases, Bytes, Finds
    <2> QED BY <2>1 DEF Index!Next
  <1> QED BY <1>0, <1>3, <1>4, <1>5, <1>6, <1>7, <1>8, <1>9, <1>10 DEF Moves, Blind

\* Faults and overlaps touch any number of files, in these ways.
Falls(f) ==
  \/ Unmoved(f)
  \/ Phase(f) = "new" /\ Phase(f)' = "gone" /\ Content(f)' = Content(f) /\ Found(f)' = Found(f)
  \/ Phase(f) \in {"hidden", "shown"} /\ Phase(f)' = "lost" /\ Blind(f)'

LEMMA ManyFall ==
  ASSUME \A f \in Files : Falls(f)
  PROVE Index!Next
  <1>1. PICK fs \in SUBSET Files, cut \in SUBSET Files :
          /\ fs = {f \in Files : Phase(f) \in {"hidden", "shown"} /\ Phase(f)' = "lost" /\ Blind(f)'}
          /\ cut = {f \in Files : Phase(f) = "new" /\ Phase(f)' = "gone" /\ Content(f)' = Content(f) /\ Found(f)' = Found(f)}
    OBVIOUS
  <1>2. \A f \in Files \ (fs \cup cut) : Unmoved(f)
    BY <1>1 DEF Falls
  <1>3. Phases' = [f \in Files |-> IF f \in cut THEN "gone" ELSE IF f \in fs THEN "lost" ELSE Phases[f]]
    BY <1>1, <1>2 DEF Phases, Unmoved
  <1>4. Bytes' = [f \in Files |-> IF f \in fs THEN Missing ELSE Bytes[f]]
    BY <1>1, <1>2 DEF Bytes, Unmoved, Blind
  <1>5. Finds' = [f \in Files |-> IF f \in fs THEN Missing ELSE Finds[f]]
    BY <1>1, <1>2 DEF Finds, Unmoved, Blind
  <1>6. (\A f \in fs : Phases[f] # "gone") /\ (\A f \in cut : Phases[f] = "new")
    BY <1>1 DEF Phases
  <1> QED BY <1>3, <1>4, <1>5, <1>6 DEF Index!Next, Index!Lose

-----------------------------------------------------------------------------
(* A step of a call moves its own file only *)

\* What the views say of a file a call works on.
LEMMA ViewBefore ==
  ASSUME IInv, Fresh, NEW t \in Tasks, NEW f \in Files, File(t) = f, Active(t), ~At(t, "insert")
  PROVE /\ ~Exists(f) => Phase(f) = "gone"
        /\ Exists(f) /\ ~Undisturbed(f) => Phase(f) = "lost"
        /\ Exists(f) /\ Undisturbed(f) =>
             Phase(f) = IF status[f] = "INDEXED" /\ call[t].pc \notin Past THEN "shown" ELSE "hidden"
        /\ Undisturbed(f) => Exists(f)
  <1>1. pathOf[f] # NoPath /\ ~Inserting(f)
    BY DEF IInv, PathsFixed, Fresh, Inserting, ActiveOn, Path, File
  <1>2. Undisturbed(f) => \A u \in Tasks \ {t} : File(u) # f
    BY Distinct DEF IInv, PathsFixed, Alone, Undisturbed, Active, File, Path, Idle
  <1>3. Undisturbed(f) => (Shown(f) <=> status[f] = "INDEXED" /\ call[t].pc \notin Past)
    BY <1>2 DEF Shown, ActiveOn, Past, File
  <1>4. Undisturbed(f) => Exists(f)
    BY ActiveWorks DEF FileOk, Active, At
  <1> QED BY <1>1, <1>3, <1>4 DEF Phase

LEMMA ViewAfter ==
  ASSUME IInv, Fresh, NEW t \in Tasks, NEW f \in Files, File(t) = f, Active(t), Local(t), Own(t, f)
  PROVE /\ ~Exists(f)' => Phase(f)' = "gone"
        /\ Exists(f)' /\ ~Undisturbed(f)' => Phase(f)' = "lost"
        /\ Exists(f)' /\ Undisturbed(f)' =>
             Phase(f)' = IF status'[f] = "INDEXED" /\ call'[t].pc \notin Past THEN "shown" ELSE "hidden"
  <1>0. \A u \in Tasks \ {t} : call'[u] = call[u]
    BY DEF Local, Others
  <1>1. pathOf'[f] # NoPath /\ ~Inserting(f)'
    <2>1. \A u \in Tasks \ {t} : At(u, "insert") => File(u) # f
      BY DEF Fresh
    <2>2. ~At(t, "insert")'
      BY DEF Own, OwnCall, At, Idle
    <2> QED BY <1>0, <2>1, <2>2 DEF IInv, PathsFixed, Inserting, ActiveOn, Path, File, At, Local
  <1>2. Undisturbed(f)' => \A u \in Tasks \ {t} : File(u)' # f
    BY <1>0, Distinct DEF IInv, PathsFixed, Alone, Undisturbed, Active, File, Path, Idle, Local
  <1>3. call'[t] = Idle \/ File(t)' = f
    BY DEF Own, OwnCall, File
  <1>4. Undisturbed(f)' => (Shown(f)' <=> status'[f] = "INDEXED" /\ call'[t].pc \notin Past)
    <2>1. CASE File(t)' = f
      BY <1>2, <2>1 DEF Shown, ActiveOn, Past, File
    <2>2. CASE call'[t] = Idle
      BY <1>2, <2>2, Distinct DEF Shown, ActiveOn, Past, File, Idle
    <2> QED BY <1>3, <2>1, <2>2
  <1> QED BY <1>1, <1>4 DEF Phase

LEMMA Bystanders ==
  ASSUME IInv, Fresh, NEW t \in Tasks, NEW f \in Files, File(t) = f, Active(t), Local(t), Own(t, f),
         disturbed' \subseteq disturbed \cup {pathOf[f]}, IInv', NEW g \in Files \ {f}
  PROVE Unmoved(g)
  <1>0. /\ \A u \in Tasks : (File(u)' = g <=> File(u) = g) /\ (File(u) = g => call'[u] = call[u])
        /\ pathOf'[g] = pathOf[g] /\ status'[g] = status[g] /\ docOf'[g] = docOf[g]
    BY Distinct DEF Local, Others, Own, OwnCall, File, Idle
  <1>1. /\ Inserting(g)' <=> Inserting(g)
        /\ Shown(g)' <=> Shown(g)
        /\ Exists(g)' <=> Exists(g)
    BY <1>0 DEF Inserting, Shown, ActiveOn, At, Exists
  <1>2. ASSUME Exists(g), Undisturbed(g)
        PROVE /\ Undisturbed(g)' /\ disk'[pathOf[g]] = disk[pathOf[g]]
              /\ docOf[g] \in served' <=> docOf[g] \in served
              /\ docOf[g] \in served => text'[docOf[g]] = text[docOf[g]]
    <2>1. pathOf[g] \in Paths
      BY <1>2 DEF IInv, TypeOK, PathsFixed
    <2>2. pathOf[g] # pathOf[f]
      <3>1. Undisturbed(f) => Owns(f)
        BY ActiveWorks DEF FileOk, Owns, Active, At
      <3> QED BY <1>2, <3>1 DEF IInv, Apart, Owns, Undisturbed
    <2>3. docOf[g] \in Docs => origin[docOf[g]] = g /\ g # NoFile
      BY Distinct DEF IInv, DocsOwned
    <2>4. served \subseteq Docs /\ docOf[g] \in Docs \cup {NoDoc} /\ NoDoc \notin Docs
      BY Distinct DEF IInv, TypeOK
    <2>5. served' \subseteq Docs
      BY DEF IInv, TypeOK
    <2> QED BY <1>0, <1>2, <2>1, <2>2, <2>3, <2>4, <2>5 DEF Local, Undisturbed, Path
  <1>3. ~Undisturbed(g) => ~Undisturbed(g)'
    BY <1>0 DEF Undisturbed, Local
  <1> QED BY <1>0, <1>1, <1>2, <1>3 DEF Unmoved, Phase, Content, Found, Seen

\* A step that leaves the bytes and the row's existence as they are, and finds no other
\* content without showing it.
Gentle(f) ==
  /\ disk' = disk /\ (Exists(f)' <=> Exists(f))
  /\ Seen(f) /\ Seen(f)' => Phase(f)' = "shown" \/ Found(f)' \in {Found(f), Missing}

LEMMA GentleMoves ==
  ASSUME IInv, Fresh, IInv', NEW t \in Tasks, NEW f \in Files, File(t) = f, Active(t), ~At(t, "insert"),
         Local(t), Own(t, f), Gentle(f)
  PROVE Moves(f)
  <1>1. CASE ~Exists(f)
    <2>1. Phase(f) = "gone" /\ Phase(f)' = "gone"
      BY <1>1, ViewBefore, ViewAfter DEF Gentle
    <2> QED BY <1>1, <2>1 DEF Moves, Unmoved, Gentle, Content, Found, Seen
  <1>2. CASE Exists(f) /\ ~Undisturbed(f)'
    <2>1. Phase(f) \in {"lost", "hidden", "shown"} /\ Phase(f)' = "lost"
      BY <1>2, ViewBefore, ViewAfter DEF Gentle
    <2>2. Blind(f)' /\ (Phase(f) = "lost" => Blind(f))
      <3>1. Phase(f) = "lost" => ~Undisturbed(f)
        BY <1>2, ViewBefore
      <3> QED BY <1>2, <3>1 DEF Blind, Content, Found, Seen
    <2> QED BY <2>1, <2>2 DEF Moves, Unmoved, Blind
  <1>3. CASE Exists(f) /\ Undisturbed(f)'
    <2>1. Exists(f) /\ Exists(f)' /\ Undisturbed(f) /\ Undisturbed(f)' /\ pathOf'[f] = pathOf[f] /\ disk' = disk
          /\ pathOf[f] \in Paths
      BY <1>3, ActiveWorks DEF Undisturbed, Local, Gentle
    <2>2. Content(f) = disk[pathOf[f]] /\ Content(f)' = Content(f) /\ Content(f) \in Contents \cup {Missing}
      BY <2>1 DEF Content, Seen, IInv, TypeOK
    <2>3. /\ Phase(f) \in {"shown", "hidden"} /\ Phase(f)' \in {"shown", "hidden"}
          /\ Phase(f) = "shown" => status[f] = "INDEXED" /\ call[t].pc \notin Past
          /\ Phase(f)' = "shown" => status'[f] = "INDEXED" /\ call'[t].pc \notin Past
      BY <2>1, ViewBefore, ViewAfter
    <2>4. FileOk(f, call[t].pc, call[t].saw) /\ (FileOk(f, call[t].pc, call[t].saw))'
      BY <2>1, ActiveWorks DEF Own, Undisturbed
    <2>5. Phase(f) = "shown" => Found(f) = Content(f)
      BY <2>1, <2>2, <2>3, <2>4 DEF FileOk, Current, Found, Seen, Past
    <2>6. Phase(f)' = "shown" => Found(f)' = Content(f)' /\ Content(f)' # Missing
      BY <2>1, <2>2, <2>3, <2>4 DEF FileOk, Current, Found, Seen, Past
    <2>7. Phase(f)' = "hidden" => Found(f)' \in {Found(f), Missing}
      BY <2>1 DEF Gentle, Seen
    <2> QED BY <2>2, <2>3, <2>5, <2>6, <2>7 DEF Moves, Unmoved
  <1> QED BY <1>1, <1>2, <1>3

\* A document that is new was never the file's.
LEMMA FoundKeeps ==
  ASSUME IInv, IInv', NEW t \in Tasks, NEW f \in Files, Local(t), docOf' = docOf,
         \A d \in served' : d \in served \/ origin[d] = NoFile
  PROVE Seen(f) /\ Seen(f)' => Found(f)' \in {Found(f), Missing}
  <1>1. docOf[f] \in Docs => origin[docOf[f]] # NoFile
    BY Distinct DEF IInv, DocsOwned
  <1>2. served \subseteq Docs /\ served' \subseteq Docs
    BY DEF IInv, TypeOK
  <1>3. docOf[f] \in served' => docOf[f] \in served /\ text'[docOf[f]] = text[docOf[f]]
    BY <1>1, <1>2 DEF Local
  <1> QED BY <1>3 DEF Found

LEMMA InsertMoves ==
  ASSUME IInv, Fresh, IInv', NEW t \in Tasks, NEW f \in Files, File(t) = f, Local(t), Own(t, f), UploadInsert(t)
  PROVE Moves(f)
  <1>1. At(t, "insert") /\ Active(t) /\ ~Exists(f)
    BY DEF UploadInsert, At, Active, Fresh
  <1>2. Phase(f) = "new" /\ Blind(f)
    BY <1>1 DEF Phase, Inserting, ActiveOn, Blind, Content, Found, Seen
  <1>3. /\ docOf[f] = NoDoc /\ docOf'[f] = NoDoc /\ NoDoc \notin served'
        /\ pathOf'[f] \in Paths
    <2>1. docOf[f] = NoDoc /\ UNCHANGED docOf /\ pathOf[f] \in Paths /\ served' \subseteq Docs
      BY <1>1, ActiveWorks DEF IInv, TypeOK, DocsOwned, UploadInsert
    <2> QED BY <2>1, Distinct DEF Local
  <1>4. CASE ~Exists(f)'
    BY <1>1, <1>2, <1>4, ViewAfter DEF Moves, Blind, Content, Found, Seen
  <1>5. CASE Exists(f)' /\ ~Undisturbed(f)'
    BY <1>1, <1>2, <1>5, ViewAfter DEF Moves, Blind, Content, Found, Seen
  <1>6. CASE Exists(f)' /\ Undisturbed(f)'
    <2>1. status'[f] = "PENDING" /\ call'[t].pc = "ixRead"
      <3>1. call[t] \in Calls /\ (status' = [status EXCEPT ![f] = "PENDING"] \/ UNCHANGED status)
        BY DEF UploadInsert, IInv, TypeOK
      <3>2. ~UNCHANGED status
        BY <1>1, <1>6 DEF Exists
      <3> QED BY <3>1, <3>2, GotoGoes DEF UploadInsert, IInv, TypeOK, Moved, Steps
    <2>2. Phase(f)' = "hidden"
      BY <1>1, <1>6, <2>1, ViewAfter
    <2>3. disk'[pathOf'[f]] \in Contents
      BY <1>3, <1>6, <2>1 DEF Own, FileOk, Undisturbed, IInv, TypeOK, Local
    <2> QED BY <1>2, <1>3, <1>6, <2>2, <2>3 DEF Moves, Blind, Content, Found, Seen
  <1> QED BY <1>4, <1>5, <1>6

LEMMA RewriteMoves ==
  ASSUME IInv, Fresh, IInv', NEW t \in Tasks, NEW f \in Files, File(t) = f, Local(t), Own(t, f),
         ReplaceCopy(t) \/ DeleteUnlink(t)
  PROVE Moves(f)
  <1>1. /\ Active(t) /\ ~At(t, "insert") /\ UNCHANGED <<status, docOf, pathOf, served, origin, text, disturbed>>
        /\ disk' = disk \/ call'[t].pc \in Past
    BY GotoGoes DEF ReplaceCopy, DeleteUnlink, At, Active, rowVars, docVars, history, IInv, Steps, Moved, Past
  <1>2. CASE disk' = disk
    BY <1>1, <1>2, FoundKeeps, GentleMoves DEF Gentle, Exists
  <1>3. CASE call'[t].pc \in Past
    <2>1. /\ Exists(f)' <=> Exists(f)
          /\ Undisturbed(f)' <=> Undisturbed(f)
          /\ pathOf[f] \in Paths
      BY <1>1, ActiveWorks DEF Exists, Undisturbed
    <2>2. Found(f)' = Found(f) /\ Content(f)' \in Contents \cup {Missing}
      BY <1>1, <2>1 DEF Found, Content, Seen, IInv, TypeOK
    <2>3. CASE Exists(f) /\ Undisturbed(f)
      BY <1>1, <1>3, <2>1, <2>2, <2>3, ViewBefore, ViewAfter DEF Moves
    <2>4. CASE ~(Exists(f) /\ Undisturbed(f))
      BY <1>1, <2>1, <2>2, <2>4, ViewBefore, ViewAfter DEF Moves, Unmoved, Content, Seen
    <2> QED BY <2>3, <2>4
  <1> QED BY <1>1, <1>2, <1>3

LEMMA DropMoves ==
  ASSUME IInv, Fresh, IInv', NEW t \in Tasks, NEW f \in Files, File(t) = f, Local(t), Own(t, f), DeleteDrop(t)
  PROVE Moves(f)
  <1>1. call[t].pc = "drop" /\ Active(t) /\ ~At(t, "insert") /\ ~Exists(f)'
    BY DEF DeleteDrop, At, Active, Exists, IInv, TypeOK
  <1>2. Phase(f)' = "gone" /\ Blind(f)'
    BY <1>1, ViewAfter DEF Blind, Content, Found, Seen
  <1>3. Phase(f) \in {"gone", "lost", "hidden"} /\ (Phase(f) = "gone" => Blind(f))
    BY <1>1, ViewBefore DEF Past, Blind, Content, Found, Seen
  <1> QED BY <1>2, <1>3 DEF Moves, Unmoved, Blind

\* What else a call does leaves bytes and row, and shows what it finds.
LEMMA OtherMoves ==
  ASSUME IInv, Fresh, IInv', NEW t \in Tasks, NEW f \in Files, File(t) = f, Local(t), Own(t, f),
         IndexStep(t) \/ RemoveStep(t) \/ ReplaceReset(t)
  PROVE Moves(f)
  <1>1. Active(t) /\ ~At(t, "insert") /\ disk' = disk
    BY DEF IndexStep, RemoveStep, ReadForIndex, MarkIndexing, SendOk, SendLost, SendFail,
           StoreIndexed, MarkFailed, RemovalRead, RemovalOk, RemovalGone, RemovalFail, RemovalNoKb,
           RemovalClear, RemovalFailed, ReplaceReset, At, Active
  <1>2. Exists(f)' <=> Exists(f)
    <2>1. status' = status \/ \E s \in {"PENDING", "INDEXING", "INDEXED", "FAILED"} : SetStatus(t, s)
      BY DEF IndexStep, RemoveStep, ReadForIndex, MarkIndexing, SendOk, SendLost, SendFail,
             StoreIndexed, MarkFailed, RemovalRead, RemovalOk, RemovalGone, RemovalFail, RemovalNoKb,
             RemovalClear, RemovalFailed, ReplaceReset, rowVars
    <2> QED BY <2>1 DEF SetStatus, Exists, IInv, TypeOK
  <1>3. CASE StoreIndexed(t)
    <2>1. Seen(f) /\ Seen(f)' => Phase(f)' = "shown"
      <3>1. call'[t].pc = "idle" /\ (Exists(f) => status'[f] = "INDEXED")
        BY <1>3, EndEnds DEF StoreIndexed, SetStatus, IInv, TypeOK, Ended, Idle
      <3> QED BY <1>1, <3>1, ViewAfter DEF Past, Seen
    <2> QED BY <1>1, <1>2, <2>1, GentleMoves DEF Gentle
  <1>4. CASE ~StoreIndexed(t)
    <2>1. docOf' = docOf
      BY <1>4 DEF IndexStep, RemoveStep, ReadForIndex, MarkIndexing, SendOk, SendLost, SendFail,
             MarkFailed, RemovalRead, RemovalOk, RemovalGone, RemovalFail, RemovalNoKb,
             RemovalClear, RemovalFailed, ReplaceReset, rowVars, SetDoc
    <2>2. ASSUME NEW d \in served', d \notin served PROVE origin[d] = NoFile
      <3>1. CASE SendOk(t) \/ SendLost(t)
        BY <2>2, <3>1 DEF SendOk, SendLost, MakeDoc
      <3>2. CASE ~(SendOk(t) \/ SendLost(t))
        <4>1. served' \subseteq served
          BY <1>4, <3>2 DEF IndexStep, RemoveStep, ReadForIndex, MarkIndexing, SendFail,
             MarkFailed, RemovalRead, RemovalOk, RemovalGone, RemovalFail, RemovalNoKb,
             RemovalClear, RemovalFailed, ReplaceReset, docVars
        <4> QED BY <2>2, <4>1
      <3> QED BY <3>1, <3>2
    <2> QED BY <1>1, <1>2, <2>1, <2>2, FoundKeeps, GentleMoves DEF Gentle
  <1> QED BY <1>3, <1>4

LEMMA CallMoves ==
  ASSUME IInv, Fresh, IInv', NEW t \in Tasks, IndexStep(t) \/ RemoveStep(t) \/ FileStep(t)
  PROVE [Index!Next]_(Index!files)
  <1>0. PICK f \in Files : File(t) = f /\ Active(t) /\ Local(t) /\ Own(t, f)
    BY CallIsLocal
  <1>1. disturbed' \subseteq disturbed \cup {pathOf[f]}
    BY <1>0 DEF IndexStep, RemoveStep, FileStep, ReadForIndex, MarkIndexing, SendOk, SendLost, SendFail,
           StoreIndexed, MarkFailed, RemovalRead, RemovalOk, RemovalGone, RemovalFail, RemovalNoKb,
           RemovalClear, RemovalFailed, UploadInsert, ReplaceCopy, ReplaceReset, DeleteUnlink,
           DeleteDrop, history, Fault, Path
  <1>2. \A g \in Files \ {f} : Unmoved(g)
    BY <1>0, <1>1, Bystanders
  <1>3. Moves(f)
    BY <1>0, InsertMoves, RewriteMoves, DropMoves, OtherMoves DEF FileStep
  <1> QED BY <1>2, <1>3, OneMoves

-----------------------------------------------------------------------------
(* The steps that touch many files *)

\* Without a change of its row and its bytes, a file is as before or lost.
LEMMA FallsOnly ==
  ASSUME IInv, IInv', NEW f \in Files, disturbed \subseteq disturbed',
         UNCHANGED <<status, docOf, text>>, pathOf'[f] = pathOf[f],
         Exists(f) /\ Undisturbed(f)' =>
           /\ disk'[pathOf[f]] = disk[pathOf[f]]
           /\ docOf[f] \in served' <=> docOf[f] \in served
           /\ Shown(f)' <=> Shown(f),
         ~Exists(f) /\ Inserting(f)' => Inserting(f)
  PROVE Falls(f)
  <1>1. /\ Exists(f)' <=> Exists(f)
        /\ Undisturbed(f)' => Undisturbed(f)
    BY DEF Exists, Undisturbed
  <1>2. CASE ~Exists(f)
    BY <1>1, <1>2 DEF Falls, Unmoved, Phase, Content, Found, Seen
  <1>3. CASE Exists(f) /\ Undisturbed(f)'
    BY <1>1, <1>3 DEF Falls, Unmoved, Phase, Content, Found, Seen
  <1>4. CASE Exists(f) /\ ~Undisturbed(f)'
    BY <1>1, <1>4 DEF Falls, Unmoved, Phase, Content, Found, Seen, Blind
  <1> QED BY <1>2, <1>3, <1>4

LEMMA BeginFalls ==
  ASSUME IInv, IInv', NEW t \in Tasks, NEW f \in Files,
         NEW op \in {"index", "remove", "replace", "delete"}, Begin(t, f, op), NEW g \in Files
  PROVE Falls(g)
  <1>1. PICK step \in {"mark", "rmRead"} : Start(t, f, op, step)
    BY DEF Begin
  <1>2. /\ call[t] = Idle /\ call'[t].pc = step /\ call'[t].file = f /\ Others(t)
        /\ disturbed \subseteq disturbed' /\ UNCHANGED <<rowVars, disk, docVars>>
    BY <1>1, StartStarts, OverlapNotes DEF Begin, IInv, Steps, Removing
  <1>3. Shown(g)' <=> Shown(g)
    BY <1>2, Distinct DEF Shown, ActiveOn, File, Others, Idle, rowVars
  <1>4. Inserting(g)' => Inserting(g)
    BY <1>2 DEF Inserting, ActiveOn, At, File, Others
  <1> QED BY <1>2, <1>3, <1>4, FallsOnly DEF rowVars, docVars

\* An upload takes a path at which no other undisturbed file has its bytes.
LEMMA UploadFalls ==
  ASSUME IInv, IInv', NEW t \in Tasks, NEW f \in Files, UploadCopy(t, f), NEW g \in Files
  PROVE Falls(g)
  <1>1. PICK p \in {Orig, f}, c \in Contents :
          /\ p = Orig => disk[Orig] = Missing
          /\ pathOf' = [pathOf EXCEPT ![f] = p]
          /\ disk' = [disk EXCEPT ![p] = c]
          /\ Overlap(t, p)
    <2>1. CASE disk[Orig] = Missing
      BY <2>1 DEF UploadCopy
    <2>2. CASE disk[Orig] # Missing
      BY <2>2, Distinct DEF UploadCopy
    <2> QED BY <2>1, <2>2
  <1>2. /\ call[t] = Idle /\ call'[t].pc = "insert" /\ call'[t].file = f /\ Others(t)
        /\ disturbed \subseteq disturbed' /\ UNCHANGED <<status, docOf, docVars>>
        /\ pathOf[f] = NoPath /\ ~Exists(f)
    BY <1>1, StartStarts DEF UploadCopy, Overlap, IInv, Steps, PathsFixed
  <1>3. CASE g = f
    <2>1. Inserting(f)' /\ ~Exists(f)'
      BY <1>2 DEF Inserting, ActiveOn, At, File, Exists
    <2> QED BY <1>2, <1>3, <2>1 DEF Falls, Unmoved, Phase, Content, Found, Seen
  <1>4. CASE g # f
    <2>1. /\ pathOf'[g] = pathOf[g]
          /\ Shown(g)' <=> Shown(g)
          /\ Inserting(g)' => Inserting(g)
      BY <1>1, <1>2, <1>4, Distinct DEF Shown, Inserting, ActiveOn, At, File, Others, Idle, IInv, TypeOK
    <2>2. ASSUME Exists(g), Undisturbed(g)' PROVE disk'[pathOf[g]] = disk[pathOf[g]]
      <3>1. Undisturbed(g) /\ pathOf[g] \in {g, Orig} /\ pathOf[g] \in Paths
        BY <1>2, <2>1, <2>2 DEF Undisturbed, IInv, TypeOK, PathsFixed
      <3>2. CASE pathOf[g] # p
        BY <1>1, <3>1, <3>2 DEF IInv, TypeOK
      <3>3. CASE pathOf[g] = p
        <4>1. p = Orig /\ disk[pathOf[g]] = Missing
          BY <1>1, <1>4, <3>1, <3>3, Distinct
        <4>2. PICK u \in Tasks : File(u) = g /\ call[u].pc = "drop"
          BY <2>2, <3>1, <4>1 DEF IInv, FilesOk, FileOk, ActiveOn
        <4>3. u # t /\ call[u] # Idle /\ Path(u) = p
          BY <1>2, <3>3, <4>2 DEF Idle, Path
        <4>4. p \in disturbed'
          BY <1>1, <4>3 DEF Overlap
        <4> QED BY <2>1, <2>2, <3>3, <4>4 DEF Undisturbed
      <3> QED BY <3>2, <3>3
    <2> QED BY <1>2, <2>1, <2>2, FallsOnly DEF docVars
  <1> QED BY <1>3, <1>4

LEMMA LoseFalls == ASSUME IInv, IInv', LoseDocs, NEW g \in Files PROVE Falls(g)
  <1>1. /\ served' = {} /\ disturbed' = disturbed \cup {pathOf[origin[d]] : d \in served}
        /\ UNCHANGED <<rowVars, disk, origin, text, call>>
    BY DEF LoseDocs, Fault
  <1>2. Undisturbed(g)' => docOf[g] \notin served
    BY <1>1, Distinct DEF Undisturbed, IInv, TypeOK, DocsOwned, rowVars
  <1>3. (Shown(g)' <=> Shown(g)) /\ (Inserting(g)' <=> Inserting(g))
    BY <1>1 DEF Shown, Inserting, ActiveOn, At, File, rowVars
  <1> QED BY <1>1, <1>2, <1>3, FallsOnly DEF rowVars

LEMMA CrashFalls == ASSUME IInv, IInv', Crash, NEW g \in Files PROVE Falls(g)
  <1>1. /\ disturbed' = disturbed \cup {Path(t) : t \in {u \in Tasks : call[u] # Idle}}
        /\ \A t \in Tasks : call'[t] = Idle
        /\ UNCHANGED <<rowVars, disk, docVars>>
    BY DEF Crash, Fault
  <1>2. Undisturbed(g)' => \A t \in Tasks : File(t) # g
    BY <1>1, Distinct DEF Undisturbed, File, Path, Idle, rowVars
  <1>3. \A t \in Tasks : File(t)' # g
    BY <1>1, Distinct DEF File, Idle
  <1>4. (Undisturbed(g)' => (Shown(g)' <=> Shown(g))) /\ ~Inserting(g)'
    BY <1>1, <1>2, <1>3 DEF Shown, Inserting, ActiveOn, rowVars
  <1> QED BY <1>1, <1>4, FallsOnly DEF rowVars, docVars

LEMMA IndexInit == ASSUME Init PROVE Index!Init
  <1>1. \A f \in Files : Phase(f) = "new" /\ Blind(f)
    BY DEF Init, Phase, Exists, Blind, Content, Found, Seen
  <1> QED BY <1>1 DEF Index!Init, Phases, Bytes, Finds, Blind

LEMMA IndexStepped == ASSUME IInv, Fresh, [Next]_vars PROVE [Index!Next]_(Index!files)
  <1>1. IInv'
    BY NextInv
  <1>2. CASE UNCHANGED vars
    <2>1. \A f \in Files : Unmoved(f)
      BY <1>2
         DEF vars, rowVars, docVars, history, Unmoved, Phase, Content, Found, Seen, Exists, Undisturbed,
             Shown, Inserting, ActiveOn, At, File
    <2> QED BY <2>1, Still
  <1>3. ASSUME NEW t \in Tasks, NEW f \in Files, NEW op \in {"index", "remove", "replace", "delete"},
               Begin(t, f, op)
        PROVE Index!Next
    BY <1>1, <1>3, BeginFalls, ManyFall
  <1>4. ASSUME NEW t \in Tasks, NEW f \in Files, UploadCopy(t, f) PROVE Index!Next
    BY <1>1, <1>4, UploadFalls, ManyFall
  <1>5. CASE LoseDocs \/ Crash
    BY <1>1, <1>5, LoseFalls, CrashFalls, ManyFall
  <1> QED BY <1>1, <1>2, <1>3, <1>4, <1>5, CallMoves DEF Next

\* The files implement IndexedFile, for any number of files, documents, calls and faults: a
\* file is shown as indexed only while its document is served and made of its bytes, and a
\* deleted file never comes back (index_file, remove_file_index, upload_file, replace_file
\* and delete_file).
THEOREM ImplementsIndexedFile == Spec => IndexSpec
  <1>1. Init => Index!Init /\ Fresh
    BY IndexInit, FreshInit
  <1>2. IInv /\ Fresh /\ [Next]_vars => Fresh' /\ [Index!Next]_(Index!files)
    BY FreshStep, IndexStepped
  <1> QED BY <1>1, <1>2, SpecInv, PTL DEF Spec, IndexSpec, Index!Spec

LEMMA ShownStep == ASSUME Index!ShownIsFound, [Index!Next]_(Index!files) PROVE Index!ShownIsFound'
  <1>1. DOMAIN Phases = Files /\ DOMAIN Bytes = Files /\ DOMAIN Finds = Files
    BY DEF Phases, Bytes, Finds
  <1>2. ASSUME NEW f \in Files,
               \/ Index!Create(f) \/ Index!Refuse(f) \/ Index!Edit(f) \/ Index!Unindex(f)
               \/ Index!Publish(f) \/ Index!Delete(f)
        PROVE Index!ShownIsFound'
    BY <1>1, <1>2
       DEF Index!Create, Index!Refuse, Index!Edit, Index!Unindex, Index!Publish, Index!Delete, Index!ShownIsFound
  <1>3. ASSUME NEW fs \in SUBSET Files, NEW cut \in SUBSET Files, Index!Lose(fs, cut) PROVE Index!ShownIsFound'
    BY <1>3 DEF Index!Lose, Index!ShownIsFound
  <1>4. CASE UNCHANGED Index!files
    BY <1>4 DEF Index!files, Index!ShownIsFound
  <1> QED BY <1>2, <1>3, <1>4 DEF Index!Next

\* So what a user sees as indexed is found by what it contains, also while calls that will
\* replace or delete it are under way (remove_file_index comes first in both).
THEOREM ShownFilesAreFound == Spec => []Index!ShownIsFound
  <1>1. Index!Init => Index!ShownIsFound
    BY DEF Index!Init, Index!ShownIsFound
  <1>2. Index!ShownIsFound /\ [Index!Next]_(Index!files) => Index!ShownIsFound'
    BY ShownStep
  <1> QED BY <1>1, <1>2, ImplementsIndexedFile, PTL DEF IndexSpec, Index!Spec
===============================================================================
