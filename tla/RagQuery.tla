------------------------------- MODULE RagQuery -------------------------------
(***************************************************************************)
(* RAGCoordinator.query: the searches of one query, one per folder and all *)
(* at once, _merge_results and _to_sources, while files are moved and      *)
(* deleted.  fusion-rag returns the best documents under a path prefix; a  *)
(* file keeps the path of the folder it was uploaded to.                   *)
(***************************************************************************)
EXTENDS Naturals, FiniteSets, FiniteSetsExt, Sequences, SequencesExt

CONSTANTS
  Docs,       \* files of the project, each with one document
  Folders,
  MaxScore,
  MaxTopK,    \* RAG_MAX_TOP_K
  MaxScope,   \* RAG_MAX_FOLDER_SCOPE
  MaxChanges  \* bound: files moved or deleted during one query

VARIABLES
  path,     \* the folder a file was uploaded to: the prefix of its path
  folder,   \* folder_id of its row
  rows,     \* files whose row is there
  indexed,  \* documents fusion-rag has
  score,    \* of each document for the query
  q,        \* the query: step, parameters, answers of the searches, results, sources
  changes

vars == <<path, folder, rows, indexed, score, q, changes>>

Pending == {"pending"}
Failed == {"failed"}
Idle == [pc |-> "idle", scope |-> <<>>, k |-> 1, threshold |-> 1, answers |-> <<>>,
         results |-> <<>>, named |-> {}]

Bounds == IsFiniteSet(Docs) /\ MaxScore \in Nat \ {0} /\ MaxTopK \in Nat \ {0} /\ MaxScope \in Nat
          /\ MaxChanges \in Nat

TypeOK ==
  /\ path \in [Docs -> Folders] /\ folder \in [Docs -> Folders]
  /\ indexed \subseteq rows /\ rows \subseteq Docs
  /\ score \in [Docs -> 1..MaxScore]
  /\ q.pc \in {"idle", "search", "sources", "done", "refused"}
  /\ q.scope \in SeqOf(Folders, MaxScope) /\ q.k \in 1..MaxTopK /\ q.threshold \in 1..MaxScore
  /\ \A i \in DOMAIN q.answers : q.answers[i] \in {Pending, Failed} \/ q.answers[i] \subseteq Docs
  /\ ToSet(q.results) \subseteq Docs /\ q.named \subseteq Docs
  /\ changes \in 0..MaxChanges

Init ==
  /\ path \in [Docs -> Folders] /\ folder = path
  /\ rows = Docs /\ indexed = Docs
  /\ score \in [Docs -> 1..MaxScore]
  /\ q = Idle /\ changes = 0

-----------------------------------------------------------------------------
(* The query *)

Clamp(k) == IF k < 1 THEN 1 ELSE IF k > MaxTopK THEN MaxTopK ELSE k

\* MANUAL without a folder is answered at once; otherwise one search per folder, or one
\* without a prefix.
Begin(mode, ids, k, threshold) ==
  /\ q.pc = "idle"
  /\ LET scope == SubSeq(ids, 1, Min({Len(ids), MaxScope}))
         asked == [Idle EXCEPT !.scope = scope, !.k = Clamp(k), !.threshold = threshold] IN
       q' = IF mode = "MANUAL" /\ ids = <<>> THEN [asked EXCEPT !.pc = "done"]
            ELSE [asked EXCEPT !.pc = "search", !.answers = [i \in 1..Max({1, Len(scope)}) |-> Pending]]
  /\ UNCHANGED <<path, folder, rows, indexed, score, changes>>

\* A folder that is not there, or of another project.
Refuse == q.pc = "idle" /\ q' = [q EXCEPT !.pc = "refused"]
          /\ UNCHANGED <<path, folder, rows, indexed, score, changes>>

Under(i) == {d \in indexed : q.scope = <<>> \/ path[d] = q.scope[i]}
Best(ds, k) == {s \in SUBSET ds : /\ Cardinality(s) = Min({k, Cardinality(ds)})
                                  /\ \A d \in s, e \in ds \ s : score[d] >= score[e]}

\* A search answers, or fails with a GatewayError, which is collected.
Search(i) ==
  /\ q.pc = "search" /\ q.answers[i] = Pending
  /\ \E answer \in Best(Under(i), q.k) \cup {Failed} : q' = [q EXCEPT !.answers[i] = answer]
  /\ UNCHANGED <<path, folder, rows, indexed, score, changes>>

Answered == {i \in DOMAIN q.answers : q.answers[i] \notin {Pending, Failed}}
Found == {d \in UNION {q.answers[i] : i \in Answered} : score[d] >= q.threshold}

\* The documents in some order; as a mutant of Ranked, the one they were found in.
Listed(ds) == {r \in [1..Cardinality(ds) -> ds] : \A i, j \in DOMAIN r : i < j => r[i] # r[j]}

\* The best first, equal ones in some order.
Ranked(ds) == {r \in Listed(ds) : \A i, j \in DOMAIN r : i < j => score[r[i]] >= score[r[j]]}

\* Duplicates dropped, those below the threshold left out.
Merge ==
  /\ q.pc = "search"
  /\ \A i \in DOMAIN q.answers : q.answers[i] # Pending
  /\ \E r \in Ranked(Found) :
       q' = [q EXCEPT !.pc = "sources", !.results = SubSeq(r, 1, Min({Len(r), q.k}))]
  /\ UNCHANGED <<path, folder, rows, indexed, score, changes>>

\* A source names the file whose row has the document, as the rows are by then (one
\* page of them: a project of more than MAX_PAGE_SIZE files is not modelled).
Sources ==
  /\ q.pc = "sources"
  /\ q' = [q EXCEPT !.pc = "done", !.named = ToSet(q.results) \cap rows]
  /\ UNCHANGED <<path, folder, rows, indexed, score, changes>>

-----------------------------------------------------------------------------
(* Calls on files meanwhile *)

Change == changes < MaxChanges /\ changes' = changes + 1 /\ UNCHANGED <<path, score, q>>

\* move_file changes the row and nothing else.
MoveFile(d, f) ==
  /\ d \in rows /\ folder[d] # f
  /\ folder' = [folder EXCEPT ![d] = f]
  /\ Change /\ UNCHANGED <<rows, indexed>>

\* remove_file_index, then the row.
RemoveIndex(d) ==
  /\ d \in indexed
  /\ indexed' = indexed \ {d}
  /\ Change /\ UNCHANGED <<folder, rows>>
DropRow(d) ==
  /\ d \in rows \ indexed
  /\ rows' = rows \ {d}
  /\ UNCHANGED <<path, folder, indexed, score, q, changes>>

Next ==
  \/ \E mode \in {"AUTO", "MANUAL"}, ids \in SeqOf(Folders, MaxScope + 1),
        k \in 0..MaxTopK + 1, threshold \in 1..MaxScore : Begin(mode, ids, k, threshold)
  \/ Refuse \/ Merge \/ Sources
  \/ \E i \in DOMAIN q.answers : Search(i)
  \/ \E d \in Docs : RemoveIndex(d) \/ DropRow(d) \/ \E f \in Folders : MoveFile(d, f)

-----------------------------------------------------------------------------

Searched(d) == \E i \in Answered : q.scope = <<>> \/ path[d] = q.scope[i]

\* Merging the best of each folder gives the best of all folders that answered:
\* distinct documents in the order of their scores, none left out that is not below
\* the threshold or worse than top_k others; each lies in a folder that was asked
\* for, unless its file was moved, and is named unless its file was deleted meanwhile.
ScopedAnswer ==
  q.pc \in {"sources", "done"} =>
    LET r == q.results IN
    /\ Len(r) <= q.k
    /\ \A i, j \in DOMAIN r : i < j => r[i] # r[j] /\ score[r[i]] >= score[r[j]]
    /\ \A d \in indexed \ ToSet(r) :
         Searched(d) /\ score[d] >= q.threshold =>
           Len(r) = q.k /\ \A i \in DOMAIN r : score[r[i]] >= score[d]
    /\ \A d \in ToSet(r) :
         /\ score[d] >= q.threshold
         /\ q.scope = <<>> \/ folder[d] \in ToSet(q.scope) \/ folder[d] # path[d]
         /\ q.pc = "done" => d \in q.named \/ d \notin indexed
==============================================================================
