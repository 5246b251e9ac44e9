------------------------- MODULE KnowledgeBaseProofs -------------------------
(***************************************************************************)
(* For every set of projects, coroutines and KB ids, and any number of     *)
(* lost answers and crashes: IInv is an invariant of KnowledgeBase, it     *)
(* implies OneLiveKb, and with it every step is a step of KbRegister.      *)
(***************************************************************************)
EXTENDS KnowledgeBase, TLAPS

USE DEF Critical, Steps

LEMMA InitIInv == Init => IInv
<1> SUFFICES ASSUME Init PROVE IInv
  OBVIOUS
<1>1. TypeOK
  BY Bounds DEF Init, TypeOK
<1>2. LockHeld
  BY DistinctNulls DEF Init, LockHeld
<1>3. OwnKb /\ HolderReplacesStale /\ NoLeak
  BY DEF Init, OwnKb, HolderReplacesStale, NoLeak
<1> QED
  BY <1>1, <1>2, <1>3 DEF IInv

\* Steps that only move a coroutine between places outside the lock.
LEMMA OutsideStep ==
  ASSUME IInv, NEW t \in Tasks, NEW step \in Steps \ Critical, pc[t] \notin Critical,
         Goto(t, step), proj' \in [Tasks -> Projects],
         \A u \in Tasks \ {t} : proj'[u] = proj[u] /\ seen'[u] = seen[u],
         proj' = proj \/ pc[t] = "idle",
         seen' \in [Tasks -> KbIds \cup {NoKb}],
         UNCHANGED <<rows, kbId, live, owner, lost, crashes, lock>>
  PROVE  IInv'
<1>1. TypeOK'
  BY DEF IInv, TypeOK, Goto
<1> USE DEF Goto
<1>2. LockHeld'
  BY <1>1 DEF IInv, TypeOK, LockHeld
<1>3. OwnKb'
  BY <1>1 DEF IInv, TypeOK, OwnKb
<1>4. HolderReplacesStale'
  BY <1>1 DEF IInv, TypeOK, HolderReplacesStale
<1>5. NoLeak'
  BY <1>1 DEF IInv, TypeOK, NoLeak
<1> QED
  BY <1>1, <1>2, <1>3, <1>4, <1>5 DEF IInv

LEMMA EnterInv ==
  ASSUME IInv, NEW t \in Tasks, NEW p \in Projects, Enter(t, p)
  PROVE  IInv'
<1>1. proj' \in [Tasks -> Projects] /\ \A u \in Tasks \ {t} : proj'[u] = proj[u]
  BY DEF Enter, IInv, TypeOK
<1>2. seen' \in [Tasks -> KbIds \cup {NoKb}] /\ seen' = seen
  BY DEF Enter, IInv, TypeOK
<1> QED
  BY <1>1, <1>2, OutsideStep DEF Enter

LEMMA DeleteReadInv ==
  ASSUME IInv, NEW t \in Tasks, NEW p \in Projects, DeleteRead(t, p)
  PROVE  IInv'
<1>1. proj' \in [Tasks -> Projects] /\ \A u \in Tasks \ {t} : proj'[u] = proj[u]
  BY DEF DeleteRead, IInv, TypeOK
<1>2. /\ seen' \in [Tasks -> KbIds \cup {NoKb}]
      /\ \A u \in Tasks \ {t} : seen'[u] = seen[u]
  BY DEF DeleteRead, IInv, TypeOK
<1>3. PICK step \in {"delRow", "delKb"} : Goto(t, step)
  BY DEF DeleteRead
<1> QED
  BY <1>1, <1>2, <1>3, OutsideStep DEF DeleteRead

LEMMA ReadRowInv ==
  ASSUME IInv, NEW t \in Tasks, ReadRow(t, "read", "probe", "lock")
  PROVE  IInv'
<1>1. proj' \in [Tasks -> Projects] /\ proj' = proj
  BY DEF ReadRow, IInv, TypeOK
<1>2. /\ seen' \in [Tasks -> KbIds \cup {NoKb}]
      /\ \A u \in Tasks \ {t} : seen'[u] = seen[u]
  BY DEF ReadRow, IInv, TypeOK
<1>3. PICK step \in {"probe", "lock"} : Goto(t, step)
  BY DEF ReadRow
<1> QED
  BY <1>1, <1>2, <1>3, OutsideStep DEF ReadRow

LEMMA ProbeInv ==
  ASSUME IInv, NEW t \in Tasks, Probe(t)
  PROVE  IInv'
<1>1. proj' = proj /\ seen' = seen
  BY DEF Probe
<1>2. proj' \in [Tasks -> Projects] /\ seen' \in [Tasks -> KbIds \cup {NoKb}]
  BY <1>1 DEF IInv, TypeOK
<1>3. PICK step \in {"idle", "clear"} : Goto(t, step)
  BY DEF Probe
<1> QED
  BY <1>1, <1>2, <1>3, OutsideStep DEF Probe

\* Clearing kb_id before the lock is taken changes nothing: update_project
\* drops the None.  The theorems below rest on it.
LEMMA ClearInv ==
  ASSUME IInv, NEW t \in Tasks, Clear(t)
  PROVE  IInv'
<1>1. proj' = proj /\ seen' = seen /\ kbId' = kbId
  BY DEF Clear, UpdateKbId
<1>2. proj' \in [Tasks -> Projects] /\ seen' \in [Tasks -> KbIds \cup {NoKb}]
  BY <1>1 DEF IInv, TypeOK
<1> QED
  BY <1>1, <1>2, OutsideStep DEF Clear

LEMMA AcquireInv ==
  ASSUME IInv, NEW t \in Tasks, Acquire(t)
  PROVE  IInv'
<1> USE DEF Acquire, Goto
<1>1. TypeOK'
  BY Bounds DEF IInv, TypeOK
<1>2. LockHeld'
  BY <1>1, DistinctNulls DEF IInv, TypeOK, LockHeld
<1>3. OwnKb'
  BY <1>1, DistinctNulls DEF IInv, TypeOK, OwnKb
<1>4. HolderReplacesStale'
  BY <1>1, DistinctNulls DEF IInv, TypeOK, LockHeld, OwnKb, HolderReplacesStale
<1>5. NoLeak'
  BY <1>1, DistinctNulls DEF IInv, TypeOK, LockHeld, OwnKb, HolderReplacesStale, NoLeak
<1> QED
  BY <1>1, <1>2, <1>3, <1>4, <1>5 DEF IInv

LEMMA RereadInv ==
  ASSUME IInv, NEW t \in Tasks, ReadRow(t, "reread", "reprobe", "create")
  PROVE  IInv'
<1> USE DEF ReadRow, Goto
<1>1. TypeOK'
  BY Bounds DEF IInv, TypeOK
<1>2. LockHeld'
  BY <1>1, DistinctNulls DEF IInv, TypeOK, LockHeld
<1>3. OwnKb'
  BY <1>1, DistinctNulls DEF IInv, TypeOK, OwnKb
<1>4. HolderReplacesStale'
  BY <1>1, DistinctNulls DEF IInv, TypeOK, LockHeld, OwnKb, HolderReplacesStale
<1>5. NoLeak'
  BY <1>1, DistinctNulls DEF IInv, TypeOK, LockHeld, OwnKb, HolderReplacesStale, NoLeak
<1> QED
  BY <1>1, <1>2, <1>3, <1>4, <1>5 DEF IInv

LEMMA ReprobeInv ==
  ASSUME IInv, NEW t \in Tasks, Reprobe(t)
  PROVE  IInv'
<1> USE DEF Reprobe, Goto, LeaveLock, MayExist, MayBeGone
<1>1. TypeOK'
  BY Bounds DEF IInv, TypeOK
<1>2. LockHeld'
  BY <1>1, DistinctNulls DEF IInv, TypeOK, LockHeld
<1>3. OwnKb'
  BY <1>1, DistinctNulls DEF IInv, TypeOK, OwnKb
<1>4. HolderReplacesStale'
  BY <1>1, DistinctNulls DEF IInv, TypeOK, LockHeld, OwnKb, HolderReplacesStale
<1>5. NoLeak'
  BY <1>1, DistinctNulls DEF IInv, TypeOK, LockHeld, OwnKb, HolderReplacesStale, NoLeak
<1> QED
  BY <1>1, <1>2, <1>3, <1>4, <1>5 DEF IInv

LEMMA CreateOkInv ==
  ASSUME IInv, NEW t \in Tasks, CreateOk(t)
  PROVE  IInv'
<1> USE DEF CreateOk, Goto, NewKb
<1>1. TypeOK'
  BY Bounds DEF IInv, TypeOK
<1>2. LockHeld'
  BY <1>1, DistinctNulls DEF IInv, TypeOK, LockHeld
<1>3. OwnKb'
  BY <1>1, DistinctNulls DEF IInv, TypeOK, OwnKb
<1>4. HolderReplacesStale'
  BY <1>1, DistinctNulls DEF IInv, TypeOK, LockHeld, OwnKb, HolderReplacesStale
<1>5. NoLeak'
  BY <1>1, DistinctNulls DEF IInv, TypeOK, LockHeld, OwnKb, HolderReplacesStale, NoLeak
<1> QED
  BY <1>1, <1>2, <1>3, <1>4, <1>5 DEF IInv

LEMMA CreateLostInv ==
  ASSUME IInv, NEW t \in Tasks, CreateLost(t)
  PROVE  IInv'
<1> USE DEF CreateLost, Goto, LeaveLock, NewKb
<1>1. TypeOK'
  BY Bounds DEF IInv, TypeOK
<1>2. LockHeld'
  BY <1>1, DistinctNulls DEF IInv, TypeOK, LockHeld
<1>3. OwnKb'
  BY <1>1, DistinctNulls DEF IInv, TypeOK, OwnKb
<1>4. HolderReplacesStale'
  BY <1>1, DistinctNulls DEF IInv, TypeOK, LockHeld, OwnKb, HolderReplacesStale
<1>5. NoLeak'
  BY <1>1, DistinctNulls DEF IInv, TypeOK, LockHeld, OwnKb, HolderReplacesStale, NoLeak
<1> QED
  BY <1>1, <1>2, <1>3, <1>4, <1>5 DEF IInv

LEMMA CreateFailInv ==
  ASSUME IInv, NEW t \in Tasks, CreateFail(t)
  PROVE  IInv'
<1> USE DEF CreateFail, Goto, LeaveLock
<1>1. TypeOK'
  BY Bounds DEF IInv, TypeOK
<1>2. LockHeld'
  BY <1>1, DistinctNulls DEF IInv, TypeOK, LockHeld
<1>3. OwnKb'
  BY <1>1, DistinctNulls DEF IInv, TypeOK, OwnKb
<1>4. HolderReplacesStale'
  BY <1>1, DistinctNulls DEF IInv, TypeOK, LockHeld, OwnKb, HolderReplacesStale
<1>5. NoLeak'
  BY <1>1, DistinctNulls DEF IInv, TypeOK, LockHeld, OwnKb, HolderReplacesStale, NoLeak
<1> QED
  BY <1>1, <1>2, <1>3, <1>4, <1>5 DEF IInv

LEMMA PersistInv ==
  ASSUME IInv, NEW t \in Tasks, Persist(t)
  PROVE  IInv'
<1> USE DEF Persist, Goto, LeaveLock, UpdateKbId
<1>1. TypeOK'
  BY Bounds DEF IInv, TypeOK
<1>2. LockHeld'
  BY <1>1, DistinctNulls DEF IInv, TypeOK, LockHeld
<1>3. OwnKb'
  BY <1>1, DistinctNulls DEF IInv, TypeOK, OwnKb
<1>4. HolderReplacesStale'
  BY <1>1, DistinctNulls DEF IInv, TypeOK, LockHeld, OwnKb, HolderReplacesStale
<1>5. NoLeak'
  BY <1>1, DistinctNulls DEF IInv, TypeOK, LockHeld, OwnKb, HolderReplacesStale, NoLeak
<1> QED
  BY <1>1, <1>2, <1>3, <1>4, <1>5 DEF IInv

LEMMA DeleteKbInv ==
  ASSUME IInv, NEW t \in Tasks, DeleteKb(t)
  PROVE  IInv'
<1> USE DEF DeleteKb, Goto
<1>1. TypeOK'
  BY Bounds DEF IInv, TypeOK
<1>2. LockHeld'
  BY <1>1, DistinctNulls DEF IInv, TypeOK, LockHeld
<1>3. OwnKb'
  BY <1>1, DistinctNulls DEF IInv, TypeOK, OwnKb
<1>4. HolderReplacesStale'
  BY <1>1, DistinctNulls DEF IInv, TypeOK, LockHeld, OwnKb, HolderReplacesStale
<1>5. NoLeak'
  BY <1>1, DistinctNulls DEF IInv, TypeOK, LockHeld, OwnKb, HolderReplacesStale, NoLeak
<1> QED
  BY <1>1, <1>2, <1>3, <1>4, <1>5 DEF IInv

LEMMA DeleteRowInv ==
  ASSUME IInv, NEW t \in Tasks, DeleteRow(t)
  PROVE  IInv'
<1> USE DEF DeleteRow, Goto
<1>1. TypeOK'
  BY Bounds DEF IInv, TypeOK
<1>2. LockHeld'
  BY <1>1, DistinctNulls DEF IInv, TypeOK, LockHeld
<1>3. OwnKb'
  BY <1>1, DistinctNulls DEF IInv, TypeOK, OwnKb
<1>4. HolderReplacesStale'
  BY <1>1, DistinctNulls DEF IInv, TypeOK, LockHeld, OwnKb, HolderReplacesStale
<1>5. NoLeak'
  BY <1>1, DistinctNulls DEF IInv, TypeOK, LockHeld, OwnKb, HolderReplacesStale, NoLeak
<1> QED
  BY <1>1, <1>2, <1>3, <1>4, <1>5 DEF IInv

LEMMA LoseKbInv ==
  ASSUME IInv, NEW k \in KbIds, LoseKb(k)
  PROVE  IInv'
<1> USE DEF LoseKb
<1>1. TypeOK'
  BY Bounds DEF IInv, TypeOK
<1>2. LockHeld'
  BY <1>1, DistinctNulls DEF IInv, TypeOK, LockHeld
<1>3. OwnKb'
  BY <1>1, DistinctNulls DEF IInv, TypeOK, OwnKb
<1>4. HolderReplacesStale'
  BY <1>1, DistinctNulls DEF IInv, TypeOK, LockHeld, OwnKb, HolderReplacesStale
<1>5. NoLeak'
  BY <1>1, DistinctNulls DEF IInv, TypeOK, LockHeld, OwnKb, HolderReplacesStale, NoLeak
<1> QED
  BY <1>1, <1>2, <1>3, <1>4, <1>5 DEF IInv

LEMMA CrashInv ==
  ASSUME IInv, Crash
  PROVE  IInv'
<1> USE DEF Crash
<1>1. TypeOK'
  BY Bounds DEF IInv, TypeOK
<1>2. LockHeld'
  BY <1>1, DistinctNulls DEF IInv, TypeOK, LockHeld
<1>3. OwnKb'
  BY <1>1, DistinctNulls DEF IInv, TypeOK, OwnKb
<1>4. HolderReplacesStale'
  BY <1>1, DistinctNulls DEF IInv, TypeOK, LockHeld, OwnKb, HolderReplacesStale
<1>5. NoLeak'
  BY <1>1, DistinctNulls DEF IInv, TypeOK, LockHeld, OwnKb, HolderReplacesStale, NoLeak
<1> QED
  BY <1>1, <1>2, <1>3, <1>4, <1>5 DEF IInv

LEMMA StepIInv == IInv /\ [Next]_vars => IInv'
<1> SUFFICES ASSUME IInv, [Next]_vars PROVE IInv'
  OBVIOUS
<1>1. ASSUME NEW t \in Tasks, NEW p \in Projects, Enter(t, p) \/ DeleteRead(t, p)
      PROVE  IInv'
  BY <1>1, EnterInv, DeleteReadInv
<1>2. ASSUME NEW t \in Tasks, EnsureStep(t) PROVE IInv'
  BY <1>2, ReadRowInv, ProbeInv, ClearInv, RereadInv, ReprobeInv, CreateOkInv,
     CreateLostInv, CreateFailInv, PersistInv DEF EnsureStep
<1>3. ASSUME NEW t \in Tasks, Acquire(t) \/ DeleteStep(t) PROVE IInv'
  BY <1>3, AcquireInv, DeleteKbInv, DeleteRowInv DEF DeleteStep
<1>4. ASSUME NEW k \in KbIds, LoseKb(k) PROVE IInv'
  BY <1>4, LoseKbInv
<1>5. CASE Crash
  BY <1>5, CrashInv
<1>6. CASE UNCHANGED vars
  BY <1>6 DEF vars, IInv, TypeOK, LockHeld, OwnKb, HolderReplacesStale, NoLeak
<1> QED
  BY <1>1, <1>2, <1>3, <1>4, <1>5, <1>6 DEF Next

\* The row, lock and upstream bookkeeping of _ensure_kb and delete stay
\* consistent at every await, for any number of coroutines and crashes.
THEOREM Consistent == Spec => []IInv
<1> QED
  BY InitIInv, StepIInv, PTL DEF Spec

LEMMA IInvOneLiveKb == IInv => OneLiveKb
<1> SUFFICES ASSUME IInv, lost = 0, crashes = 0, NEW k1 \in live, NEW k2 \in live,
                    owner[k1] = owner[k2], owner[k1] \in rows
             PROVE  k1 = k2
  BY DEF OneLiveKb
<1> DEFINE Named(k) == kbId[owner[k]] = k
           Pending(k, t) == pc[t] = "persist" /\ seen[t] = k /\ proj[t] = owner[k]
<1>1. \A k \in {k1, k2} : Named(k) \/ \E t \in Tasks : Pending(k, t)
  BY DEF IInv, NoLeak
<1>2. CASE Named(k1) /\ Named(k2)
  BY <1>2
\* A holder about to persist has seen that the named KB is gone.
<1>3. ASSUME NEW k \in {k1, k2}, NEW l \in {k1, k2}, NEW t \in Tasks,
             Named(k), Pending(l, t)
      PROVE  FALSE
  BY <1>3 DEF IInv, HolderReplacesStale
\* Two coroutines about to persist for one project would both hold its lock.
<1>4. ASSUME NEW t \in Tasks, NEW u \in Tasks, Pending(k1, t), Pending(k2, u)
      PROVE  k1 = k2
  BY <1>4 DEF IInv, LockHeld
<1> QED
  BY <1>1, <1>2, <1>3, <1>4

\* Concurrent callers of _ensure_kb never leave an existing project with two
\* served knowledge bases, unless a create answer was lost or the daemon died.
THEOREM RaceFreeCreation == Spec => []OneLiveKb
<1> QED
  BY Consistent, IInvOneLiveKb, PTL

LEMMA InitReg == Init => Reg!RegInit
<1> QED
  BY DEF Init, Reg!RegInit

\* Persist is the one step that makes a project name a KB.
LEMMA PersistAdopts ==
  ASSUME IInv, NEW t \in Tasks, Persist(t)
  PROVE  Reg!Adopt(proj[t], seen[t]) \/ UNCHANGED Reg!regVars
<1>1. CASE proj[t] \in rows
  <2>1. proj[t] \in Projects /\ seen[t] \in KbIds /\ kbId[proj[t]] \in KbIds \cup {NoKb}
    BY <1>1 DEF IInv, TypeOK, OwnKb, Persist
  <2>2. kbId[proj[t]] \notin live /\ \A q \in Projects : kbId[q] # seen[t]
    BY DEF Persist, IInv, HolderReplacesStale
  <2>3. kbId[proj[t]] # NoKb => owner[kbId[proj[t]]] # Nobody
    BY <2>1, DistinctNulls DEF IInv, OwnKb
  <2> QED
    BY <1>1, <2>1, <2>2, <2>3 DEF Persist, UpdateKbId, Reg!Adopt, IInv, OwnKb
<1>2. CASE proj[t] \notin rows
  BY <1>2 DEF Persist, UpdateKbId, Reg!regVars
<1> QED
  BY <1>1, <1>2

\* A KB that the upstream creates was not served before and is now.
LEMMA CreateStutters ==
  ASSUME IInv, NEW t \in Tasks, CreateOk(t) \/ CreateLost(t)
  PROVE  UNCHANGED Reg!regVars
<1>1. PICK k \in KbIds : NewKb(proj[t], k)
  BY DEF CreateOk, CreateLost
<1>2. proj[t] \in Projects /\ owner'[k] # Nobody
  BY <1>1, DistinctNulls DEF IInv, TypeOK, NewKb
<1>3. \A l \in KbIds \ {k} : owner'[l] = owner[l] /\ (l \in live' <=> l \in live)
  BY <1>1 DEF IInv, TypeOK, NewKb
<1>4. {l \in KbIds : owner'[l] # Nobody} \ live' = {l \in KbIds : owner[l] # Nobody} \ live
  BY <1>1, <1>2, <1>3 DEF NewKb
<1> QED
  BY <1>4 DEF CreateOk, CreateLost, Reg!regVars

\* Deleting or losing a KB makes at most that one vanish.
LEMMA Vanishes ==
  ASSUME IInv, NEW k, live' \in {live, live \ {k}}, UNCHANGED <<rows, kbId, owner>>
  PROVE  (k \in KbIds /\ Reg!Vanish(k)) \/ UNCHANGED Reg!regVars
<1>1. CASE k \in live /\ live' = live \ {k}
  <2>1. k \in KbIds /\ owner[k] # Nobody
    BY <1>1 DEF IInv, TypeOK, OwnKb
  <2> QED
    BY <1>1, <2>1 DEF Reg!Vanish
<1>2. CASE live' = live
  BY <1>2 DEF Reg!regVars
<1> QED
  BY <1>1, <1>2

LEMMA StepReg == IInv /\ [Next]_vars => [Reg!RegNext]_(Reg!regVars)
<1> SUFFICES ASSUME IInv, [Next]_vars
             PROVE  Reg!RegNext \/ UNCHANGED Reg!regVars
  OBVIOUS
<1>1. ASSUME NEW t \in Tasks, NEW p \in Projects, Enter(t, p) \/ DeleteRead(t, p)
      PROVE  UNCHANGED Reg!regVars
  BY <1>1 DEF Enter, DeleteRead, Reg!regVars
<1>2. ASSUME NEW t \in Tasks, EnsureStep(t)
      PROVE  Reg!RegNext \/ UNCHANGED Reg!regVars
  <2>1. CASE CreateOk(t) \/ CreateLost(t)
    BY <2>1, CreateStutters
  <2>2. CASE Persist(t)
    <3>1. proj[t] \in Projects /\ seen[t] \in KbIds
      BY <2>2 DEF IInv, TypeOK, OwnKb, Persist
    <3> QED
      BY <2>2, <3>1, PersistAdopts DEF Reg!RegNext
  <2>3. CASE \/ ReadRow(t, "read", "probe", "lock")
             \/ Probe(t) \/ Clear(t)
             \/ ReadRow(t, "reread", "reprobe", "create")
             \/ Reprobe(t) \/ CreateFail(t)
    BY <2>3 DEF ReadRow, Probe, Clear, UpdateKbId, Reprobe, CreateFail, Reg!regVars
  <2> QED
    BY <1>2, <2>1, <2>2, <2>3 DEF EnsureStep
<1>3. ASSUME NEW t \in Tasks, Acquire(t) PROVE UNCHANGED Reg!regVars
  BY <1>3 DEF Acquire, Reg!regVars
<1>4. ASSUME NEW t \in Tasks, DeleteStep(t)
      PROVE  Reg!RegNext \/ UNCHANGED Reg!regVars
  <2>1. CASE DeleteKb(t)
    BY <2>1, Vanishes DEF DeleteKb, Reg!RegNext
  <2>2. CASE DeleteRow(t)
    <3>1. proj[t] \in Projects
      BY DEF IInv, TypeOK
    <3>2. Reg!Close(proj[t])
      BY <2>2 DEF DeleteRow, Reg!Close
    <3> QED
      BY <3>1, <3>2 DEF Reg!RegNext
  <2> QED
    BY <1>4, <2>1, <2>2 DEF DeleteStep
<1>5. ASSUME NEW k \in KbIds, LoseKb(k)
      PROVE  Reg!RegNext \/ UNCHANGED Reg!regVars
  BY <1>5, Vanishes DEF LoseKb, Reg!RegNext
<1>6. CASE Crash \/ UNCHANGED vars
  BY <1>6 DEF Crash, vars, Reg!regVars
<1> QED
  BY <1>1, <1>2, <1>3, <1>4, <1>5, <1>6 DEF Next

\* KnowledgeBase implements KbRegister: no interleaving of _ensure_kb, delete,
\* upstream losses, retries and crashes makes a project abandon a KB that is
\* still served, or name another project's.
THEOREM ImplementsRegister == Spec => RegisterSpec
<1> QED
  BY InitReg, StepReg, Consistent, PTL DEF Spec, RegisterSpec, Reg!RegSpec
==============================================================================
