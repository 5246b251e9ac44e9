---------------------------- MODULE KnowledgeBase ----------------------------
(***************************************************************************)
(* The life of a project's upstream knowledge base (KB): concurrent calls  *)
(* of RAGCoordinator._ensure_kb, each a coroutine that awaits the store    *)
(* (a worker thread) and fusion-rag (HTTP), a per-project asyncio.Lock     *)
(* around creation, ProjectManager.delete running against them, KBs lost   *)
(* by the upstream, create responses lost on the wire, and daemon crashes. *)
(*                                                                         *)
(* One action is one stretch of code between two awaits.                   *)
(***************************************************************************)
EXTENDS Naturals, FiniteSets

CONSTANTS
  Projects,    \* project ids
  Tasks,       \* coroutines that may run at the same time
  KbIds,       \* ids fusion-rag may hand out, each at most once
  NoKb,        \* kb_id is NULL
  Free,        \* the lock has no holder
  Nobody,      \* the KB id has not been handed out
  MaxLost,     \* bound: create responses lost after taking effect
  MaxCrashes   \* bound: daemon crashes

ASSUME DistinctNulls ==
  /\ NoKb \notin KbIds
  /\ Free \notin Tasks
  /\ Nobody \notin Projects

ASSUME Bounds == MaxLost \in Nat /\ MaxCrashes \in Nat

VARIABLES
  rows,     \* projects that have a row in the projects table
  kbId,     \* the kb_id column
  live,     \* KBs fusion-rag serves
  owner,    \* the project each KB was created for
  lock,     \* _kb_create_locks
  pc, proj, seen,  \* per coroutine: next step, its project, the kb_id it read
  lost, crashes

vars == <<rows, kbId, live, owner, lock, pc, proj, seen, lost, crashes>>

Critical == {"reread", "reprobe", "create", "persist"}
Steps == {"idle", "read", "probe", "clear", "lock", "delKb", "delRow"} \cup Critical

TypeOK ==
  /\ rows \subseteq Projects
  /\ kbId \in [Projects -> KbIds \cup {NoKb}]
  /\ live \subseteq KbIds
  /\ owner \in [KbIds -> Projects \cup {Nobody}]
  /\ lock \in [Projects -> Tasks \cup {Free}]
  /\ pc \in [Tasks -> Steps]
  /\ proj \in [Tasks -> Projects]
  /\ seen \in [Tasks -> KbIds \cup {NoKb}]
  /\ lost \in 0..MaxLost
  /\ crashes \in 0..MaxCrashes

Init ==
  /\ rows = Projects
  /\ kbId = [p \in Projects |-> NoKb]
  /\ live = {}
  /\ owner = [k \in KbIds |-> Nobody]
  /\ lock = [p \in Projects |-> Free]
  /\ pc = [t \in Tasks |-> "idle"]
  /\ proj \in [Tasks -> Projects]
  /\ seen = [t \in Tasks |-> NoKb]
  /\ lost = 0
  /\ crashes = 0

-----------------------------------------------------------------------------
(* Helpers *)

Goto(t, step) == pc' = [pc EXCEPT ![t] = step]

\* Leaving "async with self._kb_create_lock(...)", by return or by raise.
LeaveLock(t) ==
  /\ lock' = [lock EXCEPT ![proj[t]] = Free]
  /\ Goto(t, "idle")

\* Mutant of UpdateKbId: the column really becomes NULL when asked to.
UpdateKbIdClears(p, k) == IF p \in rows THEN [kbId EXCEPT ![p] = k] ELSE kbId

\* update_project with fields = {"kb_id": k}: a missing row is ignored, and so
\* is a None value, which the "v is not None" filter drops.
UpdateKbId(p, k) == IF p \in rows /\ k # NoKb THEN [kbId EXCEPT ![p] = k] ELSE kbId

\* Mutant of MayBeGone: an ambiguous probe counts as "gone".
MayBeGoneIfAmbiguous(k) == TRUE

\* The answer of _kb_exists: an ambiguous probe (5xx, timeout), retried once,
\* counts as "exists"; only a 404 counts as "gone".
MayExist(k) == TRUE
MayBeGone(k) == k \notin live

\* fusion-rag creates KB k for project p.
NewKb(p, k) ==
  /\ owner[k] = Nobody
  /\ owner' = [owner EXCEPT ![k] = p]
  /\ live' = live \cup {k}

-----------------------------------------------------------------------------
(* RAGCoordinator._ensure_kb *)

\* A caller that has just found the project's row enters _ensure_kb.
Enter(t, p) ==
  /\ pc[t] = "idle"
  /\ p \in rows
  /\ proj' = [proj EXCEPT ![t] = p]
  /\ Goto(t, "read")
  /\ UNCHANGED <<rows, kbId, live, owner, lock, seen, lost, crashes>>

\* Mutant of ReadRow: no second look under the lock.
ReadRowOnce(t, from, probe, none) ==
  /\ pc[t] = from
  /\ seen' = [seen EXCEPT ![t] = kbId[proj[t]]]
  /\ Goto(t, IF kbId[proj[t]] = NoKb \/ from = "reread" THEN none ELSE probe)
  /\ UNCHANGED <<rows, kbId, live, owner, lock, proj, lost, crashes>>

\* The row is read, outside ("read") or inside ("reread") the lock.
ReadRow(t, from, probe, none) ==
  /\ pc[t] = from
  /\ seen' = [seen EXCEPT ![t] = kbId[proj[t]]]
  /\ Goto(t, IF kbId[proj[t]] = NoKb THEN none ELSE probe)
  /\ UNCHANGED <<rows, kbId, live, owner, lock, proj, lost, crashes>>

\* Fast path, no lock: the KB exists and is returned, or it is stale.
Probe(t) ==
  /\ pc[t] = "probe"
  /\ \/ MayExist(seen[t]) /\ Goto(t, "idle")
     \/ MayBeGone(seen[t]) /\ Goto(t, "clear")
  /\ UNCHANGED <<rows, kbId, live, owner, lock, proj, seen, lost, crashes>>

Clear(t) ==
  /\ pc[t] = "clear"
  /\ kbId' = UpdateKbId(proj[t], NoKb)
  /\ Goto(t, "lock")
  /\ UNCHANGED <<rows, live, owner, lock, proj, seen, lost, crashes>>

Acquire(t) ==
  /\ pc[t] = "lock"
  /\ lock[proj[t]] = Free
  /\ lock' = [lock EXCEPT ![proj[t]] = t]
  /\ Goto(t, "reread")
  /\ UNCHANGED <<rows, kbId, live, owner, proj, seen, lost, crashes>>

Reprobe(t) ==
  /\ pc[t] = "reprobe"
  /\ \/ MayExist(seen[t]) /\ LeaveLock(t)
     \/ MayBeGone(seen[t]) /\ Goto(t, "create") /\ UNCHANGED lock
  /\ UNCHANGED <<rows, kbId, live, owner, proj, seen, lost, crashes>>

CreateOk(t) ==
  /\ pc[t] = "create"
  /\ \E k \in KbIds :
       /\ NewKb(proj[t], k)
       /\ seen' = [seen EXCEPT ![t] = k]
  /\ Goto(t, "persist")
  /\ UNCHANGED <<rows, kbId, lock, proj, lost, crashes>>

\* The POST took effect but its answer never arrived: _request sends it again,
\* or gives up and _ensure_kb raises.
CreateLost(t) ==
  /\ pc[t] = "create"
  /\ lost < MaxLost
  /\ lost' = lost + 1
  /\ \E k \in KbIds : NewKb(proj[t], k)
  /\ \/ Goto(t, "create") /\ UNCHANGED lock
     \/ LeaveLock(t)
  /\ UNCHANGED <<rows, kbId, proj, seen, crashes>>

\* Mutant of CreateFail: the lock is acquired and released by hand, without
\* "finally".
CreateFailKeepsLock(t) ==
  /\ pc[t] = "create"
  /\ Goto(t, "idle")
  /\ UNCHANGED <<rows, kbId, live, owner, lock, proj, seen, lost, crashes>>

\* GatewayError without effect: RAGError is raised through the lock.
CreateFail(t) ==
  /\ pc[t] = "create"
  /\ LeaveLock(t)
  /\ UNCHANGED <<rows, kbId, live, owner, proj, seen, lost, crashes>>

Persist(t) ==
  /\ pc[t] = "persist"
  /\ kbId' = UpdateKbId(proj[t], seen[t])
  /\ LeaveLock(t)
  /\ UNCHANGED <<rows, live, owner, proj, seen, lost, crashes>>

-----------------------------------------------------------------------------
(* ProjectManager.delete, from the row it read (whether the project is     *)
(* archived is free here) to the row's removal                             *)

DeleteRead(t, p) ==
  /\ pc[t] = "idle"
  /\ p \in rows
  /\ proj' = [proj EXCEPT ![t] = p]
  /\ seen' = [seen EXCEPT ![t] = kbId[p]]
  /\ Goto(t, IF kbId[p] = NoKb THEN "delRow" ELSE "delKb")
  /\ UNCHANGED <<rows, kbId, live, owner, lock, lost, crashes>>

\* rag_delete_kb; a failure is logged and swallowed.
DeleteKb(t) ==
  /\ pc[t] = "delKb"
  /\ live' \in {live, live \ {seen[t]}}
  /\ Goto(t, "delRow")
  /\ UNCHANGED <<rows, kbId, owner, lock, proj, seen, lost, crashes>>

DeleteRow(t) ==
  /\ pc[t] = "delRow"
  /\ rows' = rows \ {proj[t]}
  /\ kbId' = [kbId EXCEPT ![proj[t]] = NoKb]
  /\ Goto(t, "idle")
  /\ UNCHANGED <<live, owner, lock, proj, seen, lost, crashes>>

-----------------------------------------------------------------------------
(* Environment *)

\* fusion-rag loses a KB (its data directory was reset).
LoseKb(k) ==
  /\ k \in live
  /\ live' = live \ {k}
  /\ UNCHANGED <<rows, kbId, owner, lock, pc, proj, seen, lost, crashes>>

\* The daemon dies and restarts: coroutines and locks are gone.
Crash ==
  /\ crashes < MaxCrashes
  /\ crashes' = crashes + 1
  /\ lock' = [p \in Projects |-> Free]
  /\ pc' = [t \in Tasks |-> "idle"]
  /\ UNCHANGED <<rows, kbId, live, owner, proj, seen, lost>>

-----------------------------------------------------------------------------

EnsureStep(t) ==
  \/ ReadRow(t, "read", "probe", "lock")
  \/ Probe(t)
  \/ Clear(t)
  \/ ReadRow(t, "reread", "reprobe", "create")
  \/ Reprobe(t)
  \/ CreateOk(t)
  \/ CreateLost(t)
  \/ CreateFail(t)
  \/ Persist(t)

DeleteStep(t) == DeleteKb(t) \/ DeleteRow(t)

Next ==
  \/ \E t \in Tasks, p \in Projects : Enter(t, p) \/ DeleteRead(t, p)
  \/ \E t \in Tasks : EnsureStep(t) \/ Acquire(t) \/ DeleteStep(t)
  \/ \E k \in KbIds : LoseKb(k)
  \/ Crash

Spec == Init /\ [][Next]_vars

\* Every awaited call ends (HTTP calls have timeouts, store calls are local),
\* and asyncio.Lock wakes its waiters first come, first served.
Fairness ==
  \A t \in Tasks :
    /\ WF_vars(EnsureStep(t) \/ DeleteStep(t))
    /\ SF_vars(Acquire(t))

FairSpec == Spec /\ Fairness

-----------------------------------------------------------------------------
(* Properties *)

\* Same-project creation is race-free: as long as no create answer was lost and
\* the daemon did not crash, an existing project never has two live KBs, even
\* when several callers found its KB stale at the same time.
OneLiveKb ==
  lost = 0 /\ crashes = 0 =>
    \A k1, k2 \in live : owner[k1] = owner[k2] /\ owner[k1] \in rows => k1 = k2

\* Every call of _ensure_kb and delete ends: no path keeps the creation lock.
CallsEnd == \A t \in Tasks : pc[t] # "idle" ~> pc[t] = "idle"

\* A coroutine never makes a project's kb_id abandon a KB that is still served:
\* the module implements the register of KbRegister.
Reg == INSTANCE KbRegister WITH
  open <- rows, named <- kbId, gone <- {k \in KbIds : owner[k] # Nobody} \ live

RegisterSpec == Reg!RegSpec

-----------------------------------------------------------------------------
(* The inductive invariant behind OneLiveKb and RegisterSpec *)

\* A coroutine is inside the lock exactly when it holds it.
LockHeld ==
  /\ \A t \in Tasks : pc[t] \in Critical => lock[proj[t]] = t
  /\ \A p \in Projects : lock[p] # Free => pc[lock[p]] \in Critical /\ proj[lock[p]] = p

\* A KB is named, served or about to be stored only by the project it is for,
\* and a deleted project names none.
OwnKb ==
  /\ \A p \in Projects \ rows : kbId[p] = NoKb
  /\ \A k \in live : owner[k] # Nobody
  /\ \A p \in Projects : kbId[p] # NoKb => owner[kbId[p]] = p
  /\ \A t \in Tasks : pc[t] = "persist" => seen[t] # NoKb /\ owner[seen[t]] = proj[t]

\* The holder creates a KB only while the project names no served one, and
\* stores a KB only that no project names yet.
HolderReplacesStale ==
  \A t \in Tasks :
    /\ pc[t] = "reprobe" => seen[t] = kbId[proj[t]] \/ proj[t] \notin rows
    /\ pc[t] \in {"create", "persist"} => kbId[proj[t]] \notin live
    /\ pc[t] = "persist" => \A p \in Projects : kbId[p] # seen[t]

\* Without lost answers and crashes, a served KB is named or about to be.
NoLeak ==
  lost = 0 /\ crashes = 0 =>
    \A k \in live :
      owner[k] \in rows =>
        \/ kbId[owner[k]] = k
        \/ \E t \in Tasks : pc[t] = "persist" /\ seen[t] = k /\ proj[t] = owner[k]

IInv == TypeOK /\ LockHeld /\ OwnKb /\ HolderReplacesStale /\ NoLeak
==============================================================================
