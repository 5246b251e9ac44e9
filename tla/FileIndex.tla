------------------------------ MODULE FileIndex ------------------------------
(***************************************************************************)
(* A project's knowledge files: rows of knowledge_files, the bytes on      *)
(* disk, and the documents fusion-rag holds for them.  Calls of            *)
(* KnowledgeManager.upload_file, replace_file and delete_file and of       *)
(* RAGCoordinator.index_file and remove_file_index run as coroutines; one  *)
(* action is one stretch of code between two awaits.  index_folder runs    *)
(* index_file for the files it listed, one coroutine each.                 *)
(*                                                                         *)
(* _ensure_kb appears by its outcome: it returns, or it raises (its own    *)
(* steps are module KnowledgeBase).                                        *)
(***************************************************************************)
EXTENDS Naturals, FiniteSets

CONSTANTS
  Tasks,     \* coroutines that may run at the same time
  Files,     \* ids of knowledge_files rows, each used at most once
  Docs,      \* document ids fusion-rag may hand out, each at most once
  Contents,  \* what a source file may contain
  Orig,      \* the path every upload would like: all carry the same name
  NoDoc,     \* rag_doc_id is NULL
  NoFile,    \* no file: the document id has not been handed out
  NoPath,    \* the file id has not been handed out
  Missing,   \* nothing on disk at this path
  MaxFaults  \* bound: crashes, lost answers, lost KBs and refused removals

ASSUME Distinct ==
  /\ Orig \notin Files
  /\ NoDoc \notin Docs
  /\ NoFile \notin Files
  /\ NoPath \notin Files \cup {Orig}
  /\ Missing \notin Contents
  /\ MaxFaults \in Nat

\* The wanted path, or the one made unique for this file ("{stem}_{uuid}").
Paths == Files \cup {Orig}

VARIABLES
  status,    \* index_status of each row, "none" without a row
  docOf,     \* rag_doc_id of each row
  pathOf,    \* file_path, fixed when the file is created
  disk,      \* what each path holds
  served,    \* documents fusion-rag serves
  origin,    \* the file each document was made for
  text,      \* the content it was made from
  call,      \* per coroutine: next step, operation, its file, the doc id it holds
  disturbed, \* paths whose calls overlapped, were cut short or lost an answer
  refused,   \* documents whose removal was refused
  reindexed, \* documents whose file index_file was asked to index again
  faults,
  crashed    \* the daemon has crashed

rowVars  == <<status, docOf, pathOf>>
docVars  == <<served, origin, text>>
history  == <<disturbed, refused, reindexed, faults, crashed>>
vars == <<rowVars, disk, docVars, call, history>>

Removing == {"rmRead", "rmSend", "rmClear", "rmFail"}
Indexing == {"send", "store", "fail"}
Steps == {"idle", "insert", "ixRead", "mark", "copy", "reset", "unlink", "drop"}
           \cup Removing \cup Indexing

Calls == [pc: Steps, op: {"none", "index", "remove", "upload", "replace", "delete"},
          file: Files \cup {NoFile}, saw: Docs \cup {NoDoc}]
Idle == [pc |-> "idle", op |-> "none", file |-> NoFile, saw |-> NoDoc]

TypeOK ==
  /\ status \in [Files -> {"none", "PENDING", "INDEXING", "INDEXED", "FAILED"}]
  /\ docOf \in [Files -> Docs \cup {NoDoc}]
  /\ pathOf \in [Files -> Paths \cup {NoPath}]
  /\ disk \in [Paths -> Contents \cup {Missing}]
  /\ served \subseteq Docs
  /\ origin \in [Docs -> Files \cup {NoFile}]
  /\ text \in [Docs -> Contents \cup {Missing}]
  /\ call \in [Tasks -> Calls]
  /\ disturbed \subseteq Paths
  /\ refused \subseteq Docs
  /\ reindexed \subseteq Docs
  /\ faults \in 0..MaxFaults
  /\ crashed \in BOOLEAN

Init ==
  /\ status = [f \in Files |-> "none"]
  /\ docOf = [f \in Files |-> NoDoc]
  /\ pathOf = [f \in Files |-> NoPath]
  /\ disk = [p \in Paths |-> Missing]
  /\ served = {}
  /\ origin = [d \in Docs |-> NoFile]
  /\ text = [d \in Docs |-> Missing]
  /\ call = [t \in Tasks |-> Idle]
  /\ disturbed = {}
  /\ refused = {}
  /\ reindexed = {}
  /\ faults = 0
  /\ crashed = FALSE

-----------------------------------------------------------------------------
(* Helpers *)

Exists(f) == status[f] # "none"
File(t) == call[t].file
Path(t) == pathOf[File(t)]
At(t, step) == call[t].pc = step

Start(t, f, op, step) ==
  /\ call[t] = Idle
  /\ call' = [call EXCEPT ![t] = [pc |-> step, op |-> op, file |-> f, saw |-> NoDoc]]

\* A document id is held for the next step only.
GotoHolding(t, step, d) == call' = [call EXCEPT ![t].pc = step, ![t].saw = d]
Goto(t, step) == GotoHolding(t, step, NoDoc)
End(t) == call' = [call EXCEPT ![t] = Idle]

\* update_knowledge_file: nothing happens to a row that is gone, and a None
\* for rag_doc_id is dropped, so that only a new id ever replaces an old one.

\* Mutant of SetStatus: the row is written also when it is gone.
SetStatusUpserts(t, s) == status' = [status EXCEPT ![File(t)] = s]

SetStatus(t, s) ==
  status' = IF Exists(File(t)) THEN [status EXCEPT ![File(t)] = s] ELSE status
SetDoc(t, d) ==
  docOf' = IF Exists(File(t)) /\ d # NoDoc THEN [docOf EXCEPT ![File(t)] = d] ELSE docOf

\* A call starts on path p: does it meet another one there?
Overlap(t, p) ==
  IF \E u \in Tasks \ {t} : call[u] # Idle /\ Path(u) = p
    THEN disturbed' = disturbed \cup {p} ELSE UNCHANGED disturbed

\* A fault that touches the files at paths ps.
Fault(ps) ==
  /\ faults < MaxFaults
  /\ faults' = faults + 1
  /\ disturbed' = disturbed \cup ps
  /\ UNCHANGED reindexed

\* fusion-rag reads the file and makes document d of what it finds.
MakeDoc(t, d) ==
  /\ disk[Path(t)] # Missing
  /\ origin[d] = NoFile
  /\ origin' = [origin EXCEPT ![d] = File(t)]
  /\ text' = [text EXCEPT ![d] = disk[Path(t)]]
  /\ served' = served \cup {d}

-----------------------------------------------------------------------------
(* Entry points *)

\* Mutant of Begin: replace_file leaves the old index to the next indexing.
BeginKeepsIndex(t, f, op) ==
  /\ Exists(f)
  /\ Start(t, f, op, IF op = "index" THEN "mark" ELSE IF op = "replace" THEN "copy" ELSE "rmRead")
  /\ Overlap(t, pathOf[f])
  /\ reindexed' = reindexed \cup (IF op = "index" THEN {docOf[f]} \ {NoDoc} ELSE {})
  /\ UNCHANGED <<rowVars, disk, docVars, refused, faults, crashed>>

\* index_file, remove_file_index, replace_file and delete_file of a file whose
\* row was just found.  The last two remove the old index first.
Begin(t, f, op) ==
  /\ Exists(f)
  /\ Start(t, f, op, IF op = "index" THEN "mark" ELSE "rmRead")
  /\ Overlap(t, pathOf[f])
  /\ reindexed' = reindexed \cup (IF op = "index" THEN {docOf[f]} \ {NoDoc} ELSE {})
  /\ UNCHANGED <<rowVars, disk, docVars, refused, faults, crashed>>

\* Mutant of UploadCopy: the wanted path is taken without a look.
UploadCopyOver(t, f) ==
  /\ pathOf[f] = NoPath
  /\ pathOf' = [pathOf EXCEPT ![f] = Orig]
  /\ \E c \in Contents : disk' = [disk EXCEPT ![Orig] = c]
  /\ Overlap(t, Orig)
  /\ Start(t, f, "upload", "insert")
  /\ UNCHANGED <<status, docOf, docVars, refused, reindexed, faults, crashed>>

\* upload_file up to the copy: the wanted path, or a unique one if it is taken.
\* (Rejected sources and quota refusals come before and change nothing.)
UploadCopy(t, f) ==
  /\ pathOf[f] = NoPath
  /\ LET p == IF disk[Orig] = Missing THEN Orig ELSE f IN
       /\ pathOf' = [pathOf EXCEPT ![f] = p]
       /\ \E c \in Contents : disk' = [disk EXCEPT ![p] = c]
       /\ Overlap(t, p)
  /\ Start(t, f, "upload", "insert")
  /\ UNCHANGED <<status, docOf, docVars, refused, reindexed, faults, crashed>>

\* create_file: the row is inserted, or the project or folder is gone.
UploadInsert(t) ==
  /\ At(t, "insert")
  /\ \/ status' = [status EXCEPT ![File(t)] = "PENDING"] /\ Goto(t, "ixRead")
     \/ End(t) /\ UNCHANGED status
  /\ UNCHANGED <<docOf, pathOf, disk, docVars, history>>

-----------------------------------------------------------------------------
(* RAGCoordinator.index_file *)

ReadForIndex(t) ==
  /\ At(t, "ixRead")
  /\ IF Exists(File(t)) THEN Goto(t, "mark") ELSE End(t)
  /\ UNCHANGED <<rowVars, disk, docVars, history>>

MarkIndexing(t) ==
  /\ At(t, "mark")
  /\ SetStatus(t, "INDEXING")
  /\ Goto(t, "send")
  /\ UNCHANGED <<docOf, pathOf, disk, docVars, history>>

\* _ensure_kb and rag_upload_doc succeed.
SendOk(t) ==
  /\ At(t, "send")
  /\ \E d \in Docs : MakeDoc(t, d) /\ GotoHolding(t, "store", d)
  /\ UNCHANGED <<rowVars, disk, history>>

\* The document is made but its id does not come back: the answer is lost, and
\* _request posts again or gives up, or the answer names no document.
SendLost(t) ==
  /\ At(t, "send")
  /\ \E d \in Docs : MakeDoc(t, d)
  /\ \E next \in {"send", "fail", "store"} : Goto(t, next)
  /\ Fault({Path(t)})
  /\ UNCHANGED <<rowVars, disk, refused, crashed>>

\* Mutant of SendFail: the error is raised past the FAILED status.
SendFailEscapes(t) ==
  /\ At(t, "send")
  /\ End(t)
  /\ UNCHANGED <<rowVars, disk, docVars, history>>

\* Mutant of SendFail: the upload is tried again for ever.
SendFailRetries(t) ==
  /\ At(t, "send")
  /\ UNCHANGED vars

\* _ensure_kb raises, or the POST fails without effect.
SendFail(t) ==
  /\ At(t, "send")
  /\ Goto(t, "fail")
  /\ UNCHANGED <<rowVars, disk, docVars, history>>

StoreIndexed(t) ==
  /\ At(t, "store")
  /\ SetStatus(t, "INDEXED")
  /\ SetDoc(t, call[t].saw)
  /\ End(t)
  /\ UNCHANGED <<pathOf, disk, docVars, history>>

\* Mutant of MarkFailed: a status no reader of the column knows.
MarkFailedUnknown(t) ==
  /\ At(t, "fail")
  /\ SetStatus(t, "ERROR")
  /\ End(t)
  /\ UNCHANGED <<docOf, pathOf, disk, docVars, history>>

MarkFailed(t) ==
  /\ At(t, "fail")
  /\ SetStatus(t, "FAILED")
  /\ End(t)
  /\ UNCHANGED <<docOf, pathOf, disk, docVars, history>>

-----------------------------------------------------------------------------
(* RAGCoordinator.remove_file_index *)

\* Where a call goes on after the removal, failed or not: replace_file and
\* delete_file log a failure and continue.
AfterRemoval(t) ==
  CASE call[t].op = "replace" -> Goto(t, "copy")
    [] call[t].op = "delete"  -> Goto(t, "unlink")
    [] OTHER                  -> End(t)

RemovalRead(t) ==
  /\ At(t, "rmRead")
  /\ CASE ~Exists(File(t))      -> AfterRemoval(t)
       [] Exists(File(t)) /\ docOf[File(t)] = NoDoc -> Goto(t, "rmClear")
       [] docOf[File(t)] # NoDoc -> GotoHolding(t, "rmSend", docOf[File(t)])
  /\ UNCHANGED <<rowVars, disk, docVars, history>>

RemovalOk(t) ==
  /\ At(t, "rmSend")
  /\ call[t].saw \in served
  /\ served' = served \ {call[t].saw}
  /\ Goto(t, "rmClear")
  /\ UNCHANGED <<rowVars, disk, origin, text, history>>

\* rag_delete_doc raises on the 404 of a document already gone.
RemovalGone(t) ==
  /\ At(t, "rmSend")
  /\ call[t].saw \notin served
  /\ Goto(t, "rmFail")
  /\ UNCHANGED <<rowVars, disk, docVars, history>>

\* rag_delete_doc raises: refused, or done but not acknowledged.
RemovalFail(t) ==
  /\ At(t, "rmSend")
  /\ Fault({})
  /\ served' \in {served, served \ {call[t].saw}}
  /\ refused' = refused \cup {call[t].saw}
  /\ Goto(t, "rmFail")
  /\ UNCHANGED <<rowVars, disk, origin, text, crashed>>

\* _ensure_kb raises: the status is left as it is.
RemovalNoKb(t) ==
  /\ At(t, "rmSend")
  /\ Fault({})
  /\ refused' = refused \cup {call[t].saw}
  /\ AfterRemoval(t)
  /\ UNCHANGED <<rowVars, disk, docVars, crashed>>

\* Mutant of RemovalClear: only rag_doc_id is reset.
RemovalClearKeepsStatus(t) ==
  /\ At(t, "rmClear")
  /\ SetDoc(t, NoDoc)
  /\ AfterRemoval(t)
  /\ UNCHANGED <<status, pathOf, disk, docVars, history>>

\* {"index_status": "PENDING", "rag_doc_id": None}
RemovalClear(t) ==
  /\ At(t, "rmClear")
  /\ SetStatus(t, "PENDING")
  /\ SetDoc(t, NoDoc)
  /\ AfterRemoval(t)
  /\ UNCHANGED <<pathOf, disk, docVars, history>>

RemovalFailed(t) ==
  /\ At(t, "rmFail")
  /\ SetStatus(t, "FAILED")
  /\ AfterRemoval(t)
  /\ UNCHANGED <<docOf, pathOf, disk, docVars, history>>

-----------------------------------------------------------------------------
(* The rest of replace_file and delete_file *)

\* check_quota raises, or the new content replaces the old atomically.
ReplaceCopy(t) ==
  /\ At(t, "copy")
  /\ \/ End(t) /\ UNCHANGED disk
     \/ /\ \E c \in Contents : disk' = [disk EXCEPT ![Path(t)] = c]
        /\ Goto(t, "reset")
  /\ UNCHANGED <<rowVars, docVars, history>>

ReplaceReset(t) ==
  /\ At(t, "reset")
  /\ SetStatus(t, "PENDING")
  /\ SetDoc(t, NoDoc)
  /\ Goto(t, "ixRead")
  /\ UNCHANGED <<pathOf, disk, docVars, history>>

\* An OSError of unlink is logged and swallowed.
DeleteUnlink(t) ==
  /\ At(t, "unlink")
  /\ disk' \in {disk, [disk EXCEPT ![Path(t)] = Missing]}
  /\ Goto(t, "drop")
  /\ UNCHANGED <<rowVars, docVars, history>>

DeleteDrop(t) ==
  /\ At(t, "drop")
  /\ status' = [status EXCEPT ![File(t)] = "none"]
  /\ docOf' = [docOf EXCEPT ![File(t)] = NoDoc]
  /\ End(t)
  /\ UNCHANGED <<pathOf, disk, docVars, history>>

-----------------------------------------------------------------------------
(* Environment *)

\* The knowledge base is lost with its documents (_ensure_kb makes a new one).
LoseDocs ==
  /\ served # {}
  /\ served' = {}
  /\ Fault({pathOf[origin[d]] : d \in served})
  /\ UNCHANGED <<rowVars, disk, origin, text, call, refused, crashed>>

\* The daemon dies and restarts; every call under way is cut short.
Crash ==
  /\ Fault({Path(t) : t \in {u \in Tasks : call[u] # Idle}})
  /\ call' = [t \in Tasks |-> Idle]
  /\ crashed' = TRUE
  /\ UNCHANGED <<rowVars, disk, docVars, refused>>

-----------------------------------------------------------------------------

IndexStep(t) ==
  \/ ReadForIndex(t)
  \/ MarkIndexing(t)
  \/ SendOk(t)
  \/ SendLost(t)
  \/ SendFail(t)
  \/ StoreIndexed(t)
  \/ MarkFailed(t)

RemoveStep(t) ==
  \/ RemovalRead(t)
  \/ RemovalOk(t)
  \/ RemovalGone(t)
  \/ RemovalFail(t)
  \/ RemovalNoKb(t)
  \/ RemovalClear(t)
  \/ RemovalFailed(t)

FileStep(t) ==
  \/ UploadInsert(t)
  \/ ReplaceCopy(t)
  \/ ReplaceReset(t)
  \/ DeleteUnlink(t)
  \/ DeleteDrop(t)

Next ==
  \/ \E t \in Tasks, f \in Files :
       \/ \E op \in {"index", "remove", "replace", "delete"} : Begin(t, f, op)
       \/ UploadCopy(t, f)
  \/ \E t \in Tasks : IndexStep(t) \/ RemoveStep(t) \/ FileStep(t)
  \/ LoseDocs
  \/ Crash

Spec == Init /\ [][Next]_vars

\* Every awaited call ends: HTTP has timeouts, store calls are local.
FairSpec ==
  Spec /\ \A t \in Tasks : WF_vars(IndexStep(t) \/ RemoveStep(t) \/ FileStep(t))

-----------------------------------------------------------------------------
(* Properties *)

ActiveOn(f) == {t \in Tasks : File(t) = f}
Undisturbed(f) == pathOf[f] \notin disturbed

\* An INDEXED file is found by its present content: its document is served and
\* was made from what the disk holds, once no call is working on it.
IndexCurrent ==
  \A f \in Files :
    status[f] = "INDEXED" /\ Undisturbed(f) /\ ActiveOn(f) = {} =>
      docOf[f] \in served /\ text[docOf[f]] = disk[pathOf[f]]

\* Two rows never name the same path, and a row's file is on disk until a
\* delete_file unlinks it.
RowOnDisk ==
  \A f \in Files :
    Exists(f) /\ Undisturbed(f) =>
      /\ \A g \in Files \ {f} : Exists(g) => pathOf[g] # pathOf[f]
      /\ disk[pathOf[f]] # Missing \/ \E t \in ActiveOn(f) : At(t, "drop")

\* A served document is named by its file's row or about to be, unless its
\* removal was refused or the file was indexed again without one.
DocAccounted ==
  \A d \in served \ (refused \cup reindexed) :
    Undisturbed(origin[d]) =>
      \/ docOf[origin[d]] = d
      \/ \E t \in ActiveOn(origin[d]) : At(t, "store") /\ call[t].saw = d

\* Only a crash leaves a row in INDEXING, which index_folder never picks up:
\* whatever calls overlap, one of them still has to write its outcome.
IndexingHasOwner ==
  \A f \in Files :
    status[f] = "INDEXING" /\ ~crashed => \E t \in ActiveOn(f) : call[t].pc \in Indexing

\* And it does: no row stays in INDEXING unless the daemon crashes, however
\* many calls overlap on the file and whatever becomes of its document.
IndexingEnds ==
  \A f \in Files : status[f] = "INDEXING" ~> status[f] # "INDEXING" \/ crashed
-----------------------------------------------------------------------------
(* The files as a user sees them: IndexedFile *)

\* The row says INDEXED, and no call is past the removal of that index.
Shown(f) ==
  status[f] = "INDEXED" /\ \A t \in ActiveOn(f) : call[t].pc \notin {"rmClear", "rmFail", "reset", "drop"}
Inserting(f) == \E t \in ActiveOn(f) : At(t, "insert")

Phase(f) ==
  CASE ~Exists(f) /\ (pathOf[f] = NoPath \/ Inserting(f)) -> "new"
    [] ~Exists(f) /\ pathOf[f] # NoPath /\ ~Inserting(f) -> "gone"
    [] Exists(f) /\ ~Undisturbed(f) -> "lost"
    [] Exists(f) /\ Undisturbed(f) /\ Shown(f) -> "shown"
    [] Exists(f) /\ Undisturbed(f) /\ ~Shown(f) -> "hidden"
Seen(f) == Exists(f) /\ Undisturbed(f)
Content(f) == IF Seen(f) THEN disk[pathOf[f]] ELSE Missing
Found(f) == IF Seen(f) /\ docOf[f] \in served THEN text[docOf[f]] ELSE Missing

Phases == [f \in Files |-> Phase(f)]
Bytes == [f \in Files |-> Content(f)]
Finds == [f \in Files |-> Found(f)]

Index == INSTANCE IndexedFile WITH phase <- Phases, content <- Bytes, found <- Finds

\* Whatever calls overlap, a file is shown as indexed from the moment its index is that of
\* its bytes and until one of the two is about to change, and a deleted file never returns.
IndexSpec == Index!Spec
==============================================================================
