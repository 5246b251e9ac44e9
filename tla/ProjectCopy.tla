----------------------------- MODULE ProjectCopy ------------------------------
(***************************************************************************)
(* ProjectManager._copy_project_content (duplicate_project, and creation   *)
(* from a template): the folders in the order of their listing, then the   *)
(* files, each in a transaction of its own, while the source is edited.    *)
(* The files have one name, so that paths collide wherever they can.       *)
(* A crash leaves what was copied so far.                                  *)
(***************************************************************************)
EXTENDS Naturals, Sequences, SequencesExt, FiniteSets

CONSTANTS
  Folders,   \* of the source project
  Files,     \* of the source project
  Root,      \* no folder
  MaxPage,   \* MAX_PAGE_SIZE, the most a listing returns
  MaxEdits   \* bound: folders and files edited during a copy

VARIABLES
  parent,    \* the folder each folder of the source lies in
  place,     \* the folder of each file that is there
  step,
  todo,      \* what is left of the listing at hand: rows as they were listed
  tree,      \* the copied folders, named as in the source, and where their copies lie
  copies,    \* the copied files: original, folder, path, whether its bytes are there
  edited,    \* folders and files of the source that were edited since the copy began
  early      \* folders that were listed before their parent

vars == <<parent, place, step, todo, tree, copies, edited, early>>

Places == Folders \cup {Root}
Row(id, in) == [id |-> id, in |-> in]

TypeOK ==
  /\ parent \in [Folders -> Places]
  /\ DOMAIN place \subseteq Files /\ \A x \in DOMAIN place : place[x] \in Places
  /\ step \in {"idle", "folders", "files"}
  /\ \A i \in DOMAIN todo : todo[i] \in [id: Folders \cup Files, in: Places]
  /\ \A f \in DOMAIN tree : tree[f] \in DOMAIN tree \cup {Root}
  /\ edited \subseteq Folders \cup Files /\ early \subseteq Folders

IsForest(p) ==
  \E rank \in [Folders -> 1..Cardinality(Folders)] :
    \A f \in Folders : p[f] # Root => rank[p[f]] < rank[f]

Init ==
  /\ parent \in {p \in [Folders -> Places] : IsForest(p)}
  /\ place \in [Files -> Places]
  /\ step = "idle" /\ todo = <<>>
  /\ tree = [f \in {} |-> Root] /\ copies = {}
  /\ edited = {} /\ early = {}

-----------------------------------------------------------------------------
(* The copy *)

\* At most a page, in the order of sort_order and name, which may be any.
Listing(rows) ==
  {SubSeq(s, 1, IF Len(s) < MaxPage THEN Len(s) ELSE MaxPage) : s \in SetToSeqs(rows)}

\* folder_id_map.get
Mapped(f) == IF f \in DOMAIN tree THEN f ELSE Root

ListFolders ==
  /\ step = "idle"
  /\ step' = "folders"
  /\ todo' \in Listing({Row(f, parent[f]) : f \in Folders})
  /\ UNCHANGED <<parent, place, tree, copies, edited, early>>

CopyFolder ==
  /\ step = "folders" /\ todo # <<>>
  /\ LET row == Head(todo) IN
       /\ tree' = [f \in DOMAIN tree \cup {row.id} |-> IF f = row.id THEN Mapped(row.in) ELSE tree[f]]
       /\ early' = IF row.in \in Places \ (DOMAIN tree \cup {Root}) THEN early \cup {row.id} ELSE early
  /\ todo' = Tail(todo)
  /\ UNCHANGED <<parent, place, step, copies, edited>>

ListFiles ==
  /\ step = "folders" /\ todo = <<>>
  /\ step' = "files"
  /\ todo' \in Listing({Row(x, place[x]) : x \in DOMAIN place})
  /\ UNCHANGED <<parent, place, tree, copies, edited, early>>

OnDisk(path) == \E c \in copies : c.path = path /\ c.bytes

\* Mutant of FreePath: the name as it is.
NamePath(in, x) == <<in, "name">>

\* A name that is taken gets a random suffix.
FreePath(in, x) == IF OnDisk(<<in, "name">>) THEN <<in, "name", x>> ELSE <<in, "name">>

\* The bytes are copied if they are still there, the row is inserted in any case.
CopyFile ==
  /\ step = "files" /\ todo # <<>>
  /\ LET x == Head(todo).id
         in == Mapped(Head(todo).in) IN
       copies' = copies \cup {[of |-> x, in |-> in, path |-> FreePath(in, x), bytes |-> x \in DOMAIN place]}
  /\ todo' = Tail(todo)
  /\ UNCHANGED <<parent, place, step, tree, edited, early>>

-----------------------------------------------------------------------------
(* The source meanwhile *)

Edit(what) ==
  /\ step # "idle" /\ Cardinality(edited \cup {what}) <= MaxEdits
  /\ edited' = edited \cup {what}
  /\ UNCHANGED <<step, todo, tree, copies, early>>

MoveFolder(f, to) ==
  /\ IsForest([parent EXCEPT ![f] = to])
  /\ parent' = [parent EXCEPT ![f] = to]
  /\ Edit(f) /\ UNCHANGED place

MoveFile(x, to) ==
  /\ x \in DOMAIN place
  /\ place' = [place EXCEPT ![x] = to]
  /\ Edit(x) /\ UNCHANGED parent

DeleteFile(x) ==
  /\ x \in DOMAIN place
  /\ place' = [y \in DOMAIN place \ {x} |-> place[y]]
  /\ Edit(x) /\ UNCHANGED parent

Next ==
  \/ ListFolders \/ CopyFolder \/ ListFiles \/ CopyFile
  \/ \E to \in Places : \/ \E f \in Folders : MoveFolder(f, to)
                        \/ \E x \in Files : MoveFile(x, to)
  \/ \E x \in Files : DeleteFile(x)

-----------------------------------------------------------------------------

\* However far the copy came and whatever is edited meanwhile: what was not edited is
\* copied once (or a page of files was) and lies where it lies in the source, up to the
\* folders that the listing named before their parent, whose copies are roots, and the
\* files of folders that it cut off.  No two copies share a path, unless the original of one was deleted meanwhile.
CopyFaithful ==
  /\ \A f \in DOMAIN tree \ edited : tree[f] = IF f \in early THEN Root ELSE parent[f]
  /\ \A c \in copies : c.of \notin edited => c.in = Mapped(place[c.of]) /\ c.bytes
  /\ \A c, d \in copies : c # d =>
       c.of # d.of /\ (c.path # d.path \/ c.of \notin DOMAIN place \/ d.of \notin DOMAIN place)
  /\ step = "files" /\ todo = <<>> =>
       Files \ edited \subseteq {c.of : c \in copies} \/ Cardinality(copies) = MaxPage
==============================================================================
