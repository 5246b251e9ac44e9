---------------------------- MODULE MCDaemonProofs ----------------------------
(***************************************************************************)
(* The life of the daemon for any number of shells, PIDs, processes and    *)
(* connections: the launcher, whose module MCDaemon extends, then the      *)
(* shutdown of the server, then the three parts together.  How the         *)
(* database is opened is proved in SchemaMigrationProofs.                  *)
(***************************************************************************)
EXTENDS MCDaemon, Sequences, FiniteSetTheorems, WellFoundedInduction, TLAPS

-----------------------------------------------------------------------------
(* The launcher *)

ShellType == [pc: Ended \cup Commands, pid: Pids \cup {NoPid}]

LauncherInv == TypeOK /\ SparesOthers

LEMMA CommandSets ==
  /\ Ended = {"idle", "stopped"}
  /\ Commands = {"clear", "lock", "spawn", "write", "verify", "release", "term", "poll", "remove"}
  /\ WithPid = {"write", "verify", "release", "term", "poll", "remove"}
  BY DEF Ended, Commands, WithPid

LEMMA LauncherInit == Init => LauncherInv
  <1> SUFFICES ASSUME Init PROVE LauncherInv
    OBVIOUS
  <1>1. \A s \in Shells : sh[s].pc = "idle" /\ sh[s].pid = NoPid
    BY DEF Init
  <1>2. sh \in [Shells -> [pc: Ended \cup Commands, pid: Pids \cup {NoPid}]]
    BY CommandSets DEF Init
  <1>3. kills \in 0..MaxKills
    BY Assumptions DEF Init
  <1>4. proc \in [Pids -> {"none", "other"} \cup Daemon]
    BY DEF Init
  <1> QED BY <1>1, <1>2, <1>3, <1>4, CommandSets DEF Init, LauncherInv, TypeOK, SparesOthers

\* A shell goes on to a command, with the PID that command needs.
LEMMA ShellTyped ==
  ASSUME TypeOK, NEW s \in Shells, NEW cmd \in Ended \cup Commands, NEW p \in Pids \cup {NoPid},
         GotoWith(s, cmd, p), cmd \in WithPid => p # NoPid,
         proc' \in [Pids -> {"none", "other"} \cup Daemon], pidFile' \in Pids \cup {NoPid},
         lock' \in BOOLEAN, sock' \in Pids \cup {NoPid}, kills' \in 0..MaxKills
  PROVE TypeOK' /\ sh'[s] = [pc |-> cmd, pid |-> p] /\ \A u \in Shells : u # s => sh'[u] = sh[u]
  <1>1. sh'[s] = [pc |-> cmd, pid |-> p] /\ \A u \in Shells : u # s => sh'[u] = sh[u]
    BY DEF GotoWith, TypeOK
  <1>2. sh' \in [Shells -> ShellType]
    BY DEF GotoWith, TypeOK, ShellType
  <1>3. \A u \in Shells : sh'[u].pc \in WithPid => sh'[u].pid # NoPid
    BY <1>1 DEF TypeOK
  <1> QED BY <1>1, <1>2, <1>3 DEF TypeOK, ShellType

\* The steps of do_start: nothing becomes another program's process, nobody is signalled.
LEMMA StartSteps ==
  ASSUME LauncherInv, NEW s \in Shells,
         \/ Start(s) \/ ClearPidFile(s) \/ TakeLock(s) \/ Spawn(s) \/ WritePidFile(s) \/ Verify(s)
         \/ Release(s)
  PROVE LauncherInv'
  <1>0. TypeOK /\ sh[s].pid \in Pids \cup {NoPid}
    BY DEF LauncherInv, TypeOK
  <1>1. PICK cmd \in Ended \cup {"clear", "lock", "spawn", "write", "verify", "release"}, p \in Pids \cup {NoPid} :
          /\ GotoWith(s, cmd, p) /\ (cmd \in WithPid => p # NoPid)
          /\ proc' \in [Pids -> {"none", "other"} \cup Daemon] /\ pidFile' \in Pids \cup {NoPid}
          /\ lock' \in BOOLEAN /\ sock' \in Pids \cup {NoPid} /\ kills' \in 0..MaxKills
          /\ \A i \in Pids : proc'[i] = "other" => proc[i] = "other"
    <2>1. CASE Start(s)
      <3>1. GotoWith(s, "idle", NoPid) \/ GotoWith(s, "clear", sh[s].pid)
        BY <2>1 DEF Start, End, Goto, Pid
      <3> QED BY <1>0, <2>1, <3>1, CommandSets DEF Start, TypeOK
    <2>2. CASE ClearPidFile(s)
      BY <1>0, <2>2, CommandSets DEF ClearPidFile, Goto, Pid, TypeOK
    <2>7. CASE TakeLock(s)
      <3>1. GotoWith(s, "idle", NoPid) \/ GotoWith(s, "spawn", sh[s].pid)
        BY <2>7 DEF TakeLock, End, Goto, Pid
      <3> QED BY <1>0, <2>7, <3>1, CommandSets DEF TakeLock, TypeOK
    <2>3. CASE Spawn(s)
      <3>1. PICK i \in Pids : proc' = [proc EXCEPT ![i] = "boot"] /\ GotoWith(s, "write", i)
        BY <2>3 DEF Spawn
      <3> QED BY <1>0, <2>3, <3>1, CommandSets, Assumptions DEF Spawn, TypeOK, Daemon
    <2>4. CASE WritePidFile(s) \/ Verify(s)
      <3>1. sh[s].pid # NoPid
        BY <2>4, CommandSets DEF WritePidFile, Verify, At, TypeOK, LauncherInv
      <3> QED BY <1>0, <2>4, <3>1, CommandSets DEF WritePidFile, Verify, Goto, Pid, TypeOK
    <2>5. CASE Release(s)
      BY <1>0, <2>5, CommandSets DEF Release, End, TypeOK
    <2> QED BY <2>1, <2>2, <2>3, <2>4, <2>5, <2>7
  <1>2. cmd \in Ended \cup Commands /\ cmd \notin {"term", "poll"}
    BY CommandSets
  <1>3. TypeOK' /\ sh'[s] = [pc |-> cmd, pid |-> p] /\ \A u \in Shells : u # s => sh'[u] = sh[u]
    BY <1>0, <1>1, <1>2, ShellTyped
  <1>4. SparesOthers'
    <2> SUFFICES ASSUME NEW u \in Shells, sh'[u].pc \in {"term", "poll"} PROVE proc'[sh'[u].pid] # "other"
      BY DEF SparesOthers, Pid
    <2>1. sh'[u] = sh[u]
      BY <1>2, <1>3
    <2>2. sh[u].pid \in Pids /\ proc[sh[u].pid] # "other"
      BY <2>1, CommandSets DEF LauncherInv, TypeOK, SparesOthers, Pid
    <2> QED BY <1>1, <2>1, <2>2
  <1> QED BY <1>3, <1>4 DEF LauncherInv

\* The steps of do_stop: who is signalled was the daemon when it was looked at.
LEMMA StopSteps ==
  ASSUME LauncherInv, NEW s \in Shells,
         StopNothing(s) \/ Stop(s) \/ Term(s) \/ Poll(s) \/ Remove(s) \/ KillShell(s)
  PROVE LauncherInv'
  <1>0. TypeOK /\ sh[s].pid \in Pids \cup {NoPid}
    BY DEF LauncherInv, TypeOK
  <1>1. PICK cmd \in Ended \cup {"term", "poll", "remove"}, p \in Pids \cup {NoPid} :
          /\ GotoWith(s, cmd, p) /\ (cmd \in WithPid => p # NoPid)
          /\ proc' \in [Pids -> {"none", "other"} \cup Daemon] /\ pidFile' \in Pids \cup {NoPid}
          /\ lock' \in BOOLEAN /\ sock' \in Pids \cup {NoPid} /\ kills' \in 0..MaxKills
          /\ \A i \in Pids : proc'[i] = "other" => proc[i] = "other"
          /\ cmd \in {"term", "poll"} => proc'[p] # "other"
    <2>1. CASE StopNothing(s)
      <3>1. GotoWith(s, "stopped", sh[s].pid) /\ UNCHANGED <<proc, lock, sock, kills>> /\ pidFile' = NoPid
        BY <2>1 DEF StopNothing, Goto, Pid
      <3>2. "stopped" \in Ended \cup {"term", "poll", "remove"} /\ "stopped" \notin WithPid
        BY CommandSets
      <3> QED BY <1>0, <3>1, <3>2 DEF TypeOK
    <2>2. CASE Stop(s)
      BY <1>0, <2>2, CommandSets DEF Stop, IsRunning, PidIsDaemon, Daemon, TypeOK
    <2>3. CASE Term(s)
      <3>1. sh[s].pid \in Pids /\ At(s, "term")
        BY <2>3, CommandSets DEF Term, At, TypeOK, LauncherInv
      <3>2. PICK what \in {"none", "drain"} : proc' = [proc EXCEPT ![sh[s].pid] = what]
        BY <2>3 DEF Term, Pid
      <3> QED BY <1>0, <2>3, <3>1, <3>2, CommandSets, Assumptions DEF Term, Goto, Pid, TypeOK, Daemon
    <2>4. CASE Poll(s)
      <3>1. sh[s].pid \in Pids
        BY <2>4, CommandSets DEF Poll, At, TypeOK, LauncherInv
      <3> QED BY <1>0, <2>4, <3>1, CommandSets, Assumptions DEF Poll, Goto, Pid, TypeOK, Daemon
    <2>5. CASE Remove(s)
      <3>1. /\ GotoWith(s, "stopped", NoPid) /\ UNCHANGED <<proc, kills>>
            /\ pidFile' = NoPid /\ sock' = NoPid /\ lock' = FALSE
        BY <2>5 DEF Remove
      <3>2. "stopped" \in Ended \cup {"term", "poll", "remove"} /\ "stopped" \notin WithPid
        BY CommandSets
      <3> QED BY <1>0, <3>1, <3>2 DEF TypeOK
    <2>6. CASE KillShell(s)
      BY <1>0, <2>6, CommandSets, Assumptions DEF KillShell, End, TypeOK
    <2> QED BY <2>1, <2>2, <2>3, <2>4, <2>5, <2>6
  <1>2. cmd \in Ended \cup Commands
    BY CommandSets
  <1>3. TypeOK' /\ sh'[s] = [pc |-> cmd, pid |-> p] /\ \A u \in Shells : u # s => sh'[u] = sh[u]
    BY <1>0, <1>1, <1>2, ShellTyped
  <1>4. SparesOthers'
    <2> SUFFICES ASSUME NEW u \in Shells, sh'[u].pc \in {"term", "poll"} PROVE proc'[sh'[u].pid] # "other"
      BY DEF SparesOthers, Pid
    <2>1. CASE u = s
      BY <1>1, <1>3, <2>1
    <2>2. CASE u # s
      <3>1. sh'[u] = sh[u]
        BY <1>3, <2>2
      <3>2. sh[u].pid \in Pids /\ proc[sh[u].pid] # "other"
        BY <3>1, CommandSets DEF LauncherInv, TypeOK, SparesOthers, Pid
      <3> QED BY <1>1, <3>1, <3>2
    <2> QED BY <2>1, <2>2
  <1> QED BY <1>3, <1>4 DEF LauncherInv

\* A PID is reused only when no script is about to signal it.
LEMMA SystemSteps ==
  ASSUME LauncherInv, NEW p \in Pids, Bind(p) \/ Exit(p) \/ Reuse(p)
  PROVE LauncherInv'
  <1>1. PICK what \in {"none", "other", "serve"} :
          /\ proc' = [proc EXCEPT ![p] = what] /\ sock' \in {sock, p}
          /\ UNCHANGED <<pidFile, lock, sh, kills>>
          /\ what = "other" => \A s \in Shells : sh[s].pid # p
    BY DEF Bind, Exit, Reuse, Pid
  <1>2. TypeOK'
    BY <1>1 DEF LauncherInv, TypeOK, Daemon
  <1>3. SparesOthers'
    <2> SUFFICES ASSUME NEW u \in Shells, sh[u].pc \in {"term", "poll"} PROVE proc'[sh[u].pid] # "other"
      BY <1>1 DEF SparesOthers, Pid
    <2>1. sh[u].pid \in Pids /\ proc[sh[u].pid] # "other"
      BY CommandSets DEF LauncherInv, TypeOK, SparesOthers, Pid
    <2> QED BY <1>1, <2>1 DEF LauncherInv, TypeOK
  <1> QED BY <1>2, <1>3 DEF LauncherInv

LEMMA LauncherStep == ASSUME LauncherInv, [Next]_vars PROVE LauncherInv'
  <1>1. CASE UNCHANGED vars
    BY <1>1 DEF vars, LauncherInv, TypeOK, SparesOthers, Pid
  <1>2. CASE Next
    BY <1>2, StartSteps, StopSteps, SystemSteps DEF Next
  <1> QED BY <1>1, <1>2

-----------------------------------------------------------------------------
(* One shell at a time: the daemon the lock and the PID file speak of *)

NoDaemon == \A p \in Pids : ~PidIsDaemon(p)
OnlyDaemon(p) == \A q \in Pids : PidIsDaemon(q) => q = p
InPidFile == OnlyDaemon(pidFile)

\* Up to spawn a start holds the lock and there is no daemon, unless a shell that was
\* killed left the lock behind; from then on "pid" is the daemon, and so is what the PID
\* file says once it is written; a stop waits for that daemon.
Serial(s) ==
  /\ \A p, q \in Pids : PidIsDaemon(p) /\ PidIsDaemon(q) => p = q
  /\ \A p \in Pids : proc[p] = "serve" => sock = p
  /\ sh[s].pc \in Ended => lock \/ InPidFile
  /\ sh[s].pc \in {"clear", "lock"} => lock \/ NoDaemon
  /\ sh[s].pc \in {"spawn", "remove"} => NoDaemon
  /\ sh[s].pc \in {"spawn", "write", "verify", "release"} => lock
  /\ sh[s].pc \in {"write", "verify", "term", "poll"} => OnlyDaemon(Pid(s))
  /\ sh[s].pc \in {"verify", "term", "poll"} => pidFile = Pid(s)
  /\ sh[s].pc = "release" => InPidFile
  /\ kills = 0 /\ sh[s].pc \notin {"spawn", "write", "verify", "release"} => ~lock

\* Mutual exclusion of daemons, as OneDaemon counts them.
LEMMA SerialShows ==
  ASSUME NEW s \in Shells, Shells = {s}, Serial(s)
  PROVE OneDaemon /\ DaemonFound
  <1>1. OneDaemon
    <2> DEFINE D == {p \in Pids : PidIsDaemon(p)}
    <2>1. CASE D = {}
      BY <2>1, FS_EmptySet DEF OneDaemon
    <2>2. CASE D # {}
      <3>1. PICK p \in D : TRUE
        BY <2>2
      <3>2. D = {p}
        BY <3>1 DEF Serial
      <3>3. Cardinality(D) = 1
        BY <3>2, FS_Singleton
      <3> QED BY <3>3 DEF OneDaemon
    <2> QED BY <2>1, <2>2
  <1>2. DaemonFound
    BY CommandSets DEF DaemonFound, Serial, InPidFile, OnlyDaemon
  <1> QED BY <1>1, <1>2

LEMMA SerialInit == ASSUME NEW s \in Shells, Init PROVE Serial(s)
  <1>1. sh[s].pc = "idle"
    BY DEF Init
  <1>2. NoDaemon /\ \A p \in Pids : proc[p] # "serve"
    BY DEF Init, NoDaemon, PidIsDaemon, Daemon
  <1> QED BY <1>1, <1>2, CommandSets DEF Init, Serial, NoDaemon, InPidFile, OnlyDaemon

\* What the commands of the only shell do that leave every process alone.
LEMMA SerialFiles ==
  ASSUME TypeOK, NEW s \in Shells, Serial(s),
         \/ Start(s) \/ ClearPidFile(s) \/ TakeLock(s) \/ WritePidFile(s) \/ Verify(s) \/ Release(s)
         \/ StopNothing(s) \/ Stop(s) \/ Remove(s) \/ KillShell(s)
  PROVE Serial(s)'
  <1> USE CommandSets
  <1>0. sh[s].pid \in Pids \cup {NoPid} /\ sh \in [Shells -> ShellType] /\ kills \in Nat
    BY Assumptions DEF TypeOK, ShellType
  <1>a. UNCHANGED proc
    BY DEF Start, ClearPidFile, TakeLock, WritePidFile, Verify, Release, StopNothing, Stop, Remove,
           KillShell
  <1>b. \A p \in Pids : PidIsDaemon(p)' <=> PidIsDaemon(p)
    BY <1>a DEF PidIsDaemon
  <1>c. IsRunning => OnlyDaemon(pidFile)
    BY DEF TypeOK, IsRunning, OnlyDaemon, Serial
  <1>d. ~IsRunning /\ InPidFile => NoDaemon
    BY Assumptions DEF IsRunning, InPidFile, OnlyDaemon, NoDaemon
  <1>e. NoDaemon => \A p : OnlyDaemon(p)
    BY DEF NoDaemon, OnlyDaemon
  <1>1. CASE Start(s)
    <2>1. sh'[s].pc \in {"idle", "clear"} /\ (sh'[s].pc = "clear" => ~IsRunning)
          /\ UNCHANGED <<proc, pidFile, lock, sock, kills>> /\ sh[s].pc \in Ended
      BY <1>0, <1>1 DEF Start, End, Goto, GotoWith, ShellType
    <2> QED BY <1>b, <1>d, <2>1 DEF Serial, NoDaemon, InPidFile, OnlyDaemon
  <1>2. CASE ClearPidFile(s)
    <2>1. sh'[s].pc = "lock" /\ UNCHANGED <<proc, lock, sock, kills>> /\ sh[s].pc = "clear"
      BY <1>0, <1>2 DEF ClearPidFile, At, Goto, GotoWith, ShellType
    <2> QED BY <1>b, <2>1 DEF Serial, NoDaemon, InPidFile, OnlyDaemon
  <1>3. CASE TakeLock(s)
    <2>1. /\ sh'[s].pc = IF lock THEN "idle" ELSE "spawn"
          /\ lock' = TRUE /\ UNCHANGED <<proc, pidFile, sock, kills>> /\ sh[s].pc = "lock"
      BY <1>0, <1>3 DEF TakeLock, At, End, Goto, GotoWith, ShellType
    <2> QED BY <1>b, <2>1 DEF Serial, NoDaemon, InPidFile, OnlyDaemon
  <1>4. CASE WritePidFile(s)
    <2>1. /\ sh'[s] = [pc |-> "verify", pid |-> sh[s].pid] /\ pidFile' = sh[s].pid
          /\ UNCHANGED <<proc, lock, sock, kills>> /\ sh[s].pc = "write"
      BY <1>0, <1>4 DEF WritePidFile, At, Goto, GotoWith, ShellType, Pid
    <2> QED BY <1>b, <2>1 DEF Serial, NoDaemon, InPidFile, OnlyDaemon, Pid
  <1>5. CASE Verify(s)
    <2>1. /\ sh'[s].pc = "release" /\ pidFile' = IF IsRunning THEN pidFile ELSE NoPid
          /\ UNCHANGED <<proc, lock, sock, kills>> /\ sh[s].pc = "verify"
      BY <1>0, <1>5 DEF Verify, At, Goto, GotoWith, ShellType
    <2>2. InPidFile
      BY <2>1 DEF Serial, InPidFile, Pid
    <2>3. InPidFile'
      BY <1>b, <1>d, <2>1, <2>2 DEF InPidFile, OnlyDaemon, NoDaemon
    <2> QED BY <1>b, <2>1, <2>3 DEF Serial, NoDaemon, InPidFile, OnlyDaemon
  <1>6. CASE Release(s)
    <2>1. sh'[s].pc = "idle" /\ lock' = FALSE /\ UNCHANGED <<proc, pidFile, sock, kills>> /\ sh[s].pc = "release"
      BY <1>0, <1>6 DEF Release, At, End, GotoWith, ShellType
    <2> QED BY <1>b, <2>1 DEF Serial, NoDaemon, InPidFile, OnlyDaemon
  <1>7. CASE StopNothing(s)
    <2>1. sh'[s].pc = "stopped" /\ ~IsRunning /\ pidFile' = NoPid /\ UNCHANGED <<proc, lock, sock, kills>>
          /\ sh[s].pc \in Ended
      BY <1>0, <1>7 DEF StopNothing, Goto, GotoWith, ShellType
    <2> QED BY <1>b, <1>d, <2>1 DEF Serial, NoDaemon, InPidFile, OnlyDaemon
  <1>8. CASE Stop(s)
    <2>1. sh'[s] = [pc |-> "term", pid |-> pidFile] /\ IsRunning
          /\ UNCHANGED <<proc, pidFile, lock, sock, kills>> /\ sh[s].pc \in Ended
      BY <1>0, <1>8 DEF Stop, GotoWith, ShellType
    <2> QED BY <1>b, <1>c, <2>1 DEF Serial, NoDaemon, InPidFile, OnlyDaemon, Pid
  <1>9. CASE Remove(s)
    <2>1. sh'[s].pc = "stopped" /\ sock' = NoPid /\ lock' = FALSE /\ UNCHANGED <<proc, kills>>
          /\ sh[s].pc = "remove"
      BY <1>0, <1>9 DEF Remove, At, GotoWith, ShellType
    <2>2. NoDaemon /\ \A p \in Pids : proc[p] # "serve"
      BY <2>1 DEF Serial, NoDaemon, PidIsDaemon, Daemon
    <2> QED BY <1>b, <2>1, <2>2 DEF Serial, NoDaemon, InPidFile, OnlyDaemon
  <1>10. CASE KillShell(s)
    <2>1. sh'[s].pc = "idle" /\ kills' # 0 /\ UNCHANGED <<proc, pidFile, lock, sock>> /\ sh[s].pc \notin Ended
      BY <1>0, <1>10 DEF KillShell, End, GotoWith, ShellType
    <2>2. lock \/ InPidFile
      BY <1>e, <1>0, <2>1 DEF Serial, InPidFile, Pid, ShellType, Ended, Commands
    <2> QED BY <1>b, <2>1, <2>2 DEF Serial, NoDaemon, InPidFile, OnlyDaemon
  <1> QED BY <1>1, <1>2, <1>3, <1>4, <1>5, <1>6, <1>7, <1>8, <1>9, <1>10

\* A new process is the only daemon; after kill -9 there is none.
LEMMA SerialProcesses ==
  ASSUME TypeOK, NEW s \in Shells, Serial(s), Spawn(s) \/ Term(s) \/ Poll(s)
  PROVE Serial(s)'
  <1> USE CommandSets
  <1>0. sh[s].pid \in Pids \cup {NoPid} /\ sh \in [Shells -> ShellType]
    BY DEF TypeOK, ShellType
  <1>1. CASE Spawn(s)
    <2>1. PICK i \in Pids : proc' = [proc EXCEPT ![i] = "boot"] /\ GotoWith(s, "write", i)
      BY <1>1 DEF Spawn
    <2>2. sh'[s] = [pc |-> "write", pid |-> i] /\ sock' = NoPid /\ UNCHANGED <<pidFile, lock, kills>>
          /\ sh[s].pc = "spawn"
      BY <1>0, <1>1, <2>1 DEF Spawn, At, GotoWith, ShellType
    <2>3. lock /\ NoDaemon
      BY <2>2 DEF Serial
    <2>4. \A q \in Pids : PidIsDaemon(q)' => q = i
      BY <2>1, <2>3 DEF NoDaemon, PidIsDaemon, TypeOK
    <2>5. \A q \in Pids : proc'[q] # "serve"
      BY <2>1, <2>3 DEF NoDaemon, PidIsDaemon, TypeOK, Daemon
    <2> QED BY <2>2, <2>3, <2>4, <2>5 DEF Serial, NoDaemon, InPidFile, OnlyDaemon, Pid
  <1>2. CASE Term(s)
    <2>1. sh[s].pid \in Pids /\ sh[s].pc = "term"
      BY <1>2 DEF Term, At, TypeOK
    <2>2. PICK what \in {"none", "drain"} : proc' = [proc EXCEPT ![sh[s].pid] = what]
      BY <1>2 DEF Term, Pid
    <2>3. sh'[s] = [pc |-> "poll", pid |-> sh[s].pid] /\ UNCHANGED <<pidFile, lock, sock, kills>>
      BY <1>0, <1>2 DEF Term, Goto, GotoWith, ShellType, Pid
    <2>4. OnlyDaemon(sh[s].pid) /\ pidFile = sh[s].pid
      BY <2>1 DEF Serial, Pid
    <2>5. \A q \in Pids : (PidIsDaemon(q)' => q = sh[s].pid) /\ (proc'[q] = "serve" => proc[q] = "serve")
      BY <2>1, <2>2, <2>4 DEF OnlyDaemon, PidIsDaemon, TypeOK
    <2> QED BY <2>1, <2>3, <2>4, <2>5 DEF Serial, NoDaemon, InPidFile, OnlyDaemon, Pid
  <1>3. CASE Poll(s)
    <2>1. sh[s].pid \in Pids /\ sh[s].pc = "poll" /\ proc' = [proc EXCEPT ![sh[s].pid] = "none"]
      BY <1>3 DEF Poll, At, TypeOK, Pid
    <2>2. sh'[s].pc = "remove" /\ UNCHANGED <<pidFile, lock, sock, kills>>
      BY <1>0, <1>3 DEF Poll, Goto, GotoWith, ShellType, Pid
    <2>3. \A q \in Pids : ~PidIsDaemon(q)' /\ proc'[q] # "serve"
      BY <2>1 DEF Serial, OnlyDaemon, PidIsDaemon, Pid, TypeOK, Daemon
    <2> QED BY <2>1, <2>2, <2>3 DEF Serial, NoDaemon, InPidFile, OnlyDaemon
  <1> QED BY <1>1, <1>2, <1>3

\* The daemon stays the same one while it boots and serves, and no other becomes one.
LEMMA SerialSystem ==
  ASSUME TypeOK, NEW s \in Shells, Serial(s), NEW p \in Pids, Bind(p) \/ Exit(p) \/ Reuse(p)
  PROVE Serial(s)'
  <1>1. \A q \in Pids : PidIsDaemon(q)' => PidIsDaemon(q)
    BY DEF Bind, Exit, Reuse, PidIsDaemon, Daemon, TypeOK
  <1>2. UNCHANGED <<pidFile, lock, sh, kills>>
    BY DEF Bind, Exit, Reuse
  <1>3. \A q \in Pids : proc'[q] = "serve" => sock' = q
    <2>1. CASE Bind(p)
      BY <2>1, <1>1 DEF Bind, Serial, PidIsDaemon, Daemon, TypeOK
    <2>2. CASE Exit(p) \/ Reuse(p)
      BY <2>2 DEF Exit, Reuse, Serial, TypeOK
    <2> QED BY <2>1, <2>2
  <1> QED BY <1>1, <1>2, <1>3 DEF Serial, NoDaemon, InPidFile, OnlyDaemon, Pid

LEMMA SerialStep ==
  ASSUME LauncherInv, NEW s \in Shells, Shells = {s}, Serial(s), [Next]_vars
  PROVE Serial(s)'
  <1>0. TypeOK
    BY DEF LauncherInv
  <1>1. CASE UNCHANGED vars
    BY <1>1 DEF vars, Serial, NoDaemon, InPidFile, OnlyDaemon, PidIsDaemon, Pid
  <1>2. CASE Next
    BY <1>0, <1>2, SerialFiles, SerialProcesses, SerialSystem DEF Next
  <1> QED BY <1>1, <1>2

-----------------------------------------------------------------------------
(* The shutdown of serve() *)

\* No connection is served once the server is past wait_closed, and up to there
\* nothing is closed.
Quiet == server \in {"closing", "stopped"} => \A c \in Conns : conn[c] \in {"none", "closed"}
Intact == server \in {"serving", "stopping", "draining"} => open = Rpc!Resources
ShutdownInv == Rpc!TypeOK /\ Quiet /\ Intact

LEMMA ShutdownInit == ASSUME Rpc!Init PROVE ShutdownInv
  BY DaemonAssumption
     DEF Rpc!Init, ShutdownInv, Rpc!TypeOK, Quiet, Intact, Rpc!Phases, Rpc!Resources, Rpc!Lines

\* A client's step opens a connection only while the server listens.
LEMMA ClientSteps ==
  ASSUME ShutdownInv, NEW c \in Conns, Rpc!Connect(c) \/ Rpc!Send(c) \/ Rpc!Leave(c)
  PROVE ShutdownInv'
  <1>1. CASE Rpc!Connect(c)
    BY <1>1 DEF Rpc!Connect, ShutdownInv, Rpc!TypeOK, Quiet, Intact, Rpc!At, Rpc!Goto
  <1>2. CASE Rpc!Send(c)
    <2>1. \E l \in Rpc!Lines \cup {"method"} : line' = [line EXCEPT ![c] = l]
      BY <1>2 DEF Rpc!Send
    <2>2. sent' \in [Conns -> 0..MaxLines]
      BY <1>2, DaemonAssumption DEF Rpc!Send, ShutdownInv, Rpc!TypeOK
    <2>3. UNCHANGED <<server, open, conn, client>>
      BY <1>2 DEF Rpc!Send
    <2> QED BY <2>1, <2>2, <2>3 DEF ShutdownInv, Rpc!TypeOK, Quiet, Intact
  <1>3. CASE Rpc!Leave(c)
    BY <1>3 DEF Rpc!Leave, ShutdownInv, Rpc!TypeOK, Quiet, Intact
  <1> QED BY <1>1, <1>2, <1>3

\* A connection that is served is neither new nor closed: past wait_closed there is none.
LEMMA ServeSteps ==
  ASSUME ShutdownInv, NEW c \in Conns, Rpc!Serve(c)
  PROVE ShutdownInv'
  <1>1. conn[c] \in {"read", "handle", "close"} /\ UNCHANGED <<server, open, client, sent>>
    BY DEF Rpc!Serve, Rpc!ReadLong, Rpc!ReadInvalid, Rpc!ReadMethod, Rpc!ReadEnd, Rpc!HandleEnd,
           Rpc!Close, Rpc!At
  <1>2. server \notin {"closing", "stopped"}
    BY <1>1 DEF ShutdownInv, Quiet
  <1>3. conn' = conn \/ \E s \in {"read", "handle", "close", "closed"} : Rpc!Goto(c, s)
    BY DEF Rpc!Serve, Rpc!ReadLong, Rpc!ReadInvalid, Rpc!ReadMethod, Rpc!ReadEnd, Rpc!HandleEnd,
           Rpc!Close
  <1>4. line' = line \/ line' = [line EXCEPT ![c] = "none"]
    BY DEF Rpc!Serve, Rpc!ReadLong, Rpc!ReadInvalid, Rpc!ReadMethod, Rpc!ReadEnd, Rpc!HandleEnd,
           Rpc!Close
  <1>5. Rpc!TypeOK'
    BY <1>1, <1>3, <1>4 DEF ShutdownInv, Rpc!TypeOK, Rpc!Goto
  <1> QED BY <1>1, <1>2, <1>5 DEF ShutdownInv, Quiet, Intact

\* wait_closed is what Quiet rests on; the closing steps come after it.
LEMMA ServerSteps ==
  ASSUME ShutdownInv, Rpc!Signal \/ Rpc!Shutdown
  PROVE ShutdownInv'
  <1> USE DEF ShutdownInv, Rpc!TypeOK, Quiet, Intact, Rpc!Phases
  <1>1. CASE Rpc!Signal
    BY <1>1 DEF Rpc!Signal
  <1>2. CASE Rpc!CloseListener
    BY <1>2 DEF Rpc!CloseListener
  <1>3. CASE Rpc!Drained
    BY <1>3 DEF Rpc!Drained
  <1>4. CASE Rpc!CloseGateway
    BY <1>4 DEF Rpc!CloseGateway
  <1>5. CASE Rpc!CloseStore
    BY <1>5 DEF Rpc!CloseStore
  <1> QED BY <1>1, <1>2, <1>3, <1>4, <1>5 DEF Rpc!Shutdown

LEMMA ShutdownStep == ASSUME ShutdownInv, [Rpc!Next]_rpc PROVE ShutdownInv'
  <1>1. CASE UNCHANGED rpc
    BY <1>1 DEF rpc, ShutdownInv, Rpc!TypeOK, Quiet, Intact
  <1>2. CASE Rpc!Next
    BY <1>2, ClientSteps, ServeSteps, ServerSteps DEF Rpc!Next
  <1> QED BY <1>1, <1>2

LEMMA QuietSpares == ASSUME ShutdownInv PROVE Rpc!NoUseAfterClose
  BY DEF ShutdownInv, Rpc!TypeOK, Quiet, Intact, Rpc!NoUseAfterClose, Rpc!At, Rpc!Phases

-----------------------------------------------------------------------------
(* The except clauses of handle_request *)

\* No clause comes before one of a subclass of its class.
Ordered ==
  \A i, j \in 1..Len(Rpc!Clauses) : Rpc!Base(Rpc!Clauses[j][1]) = Rpc!Clauses[i][1] => j <= i

LEMMA ClausesOrdered == Len(Rpc!Clauses) = 19 /\ Rpc!Clauses[19][1] = "Exception" /\ Ordered
  <1>1. Len(Rpc!Clauses) = 19 /\ Rpc!Clauses[19][1] = "Exception"
    BY DEF Rpc!Clauses
  <1>2. ASSUME NEW i \in 1..19, NEW j \in 1..19, Rpc!Base(Rpc!Clauses[j][1]) = Rpc!Clauses[i][1]
        PROVE j <= i
    BY <1>2, SMTT(60) DEF Rpc!Clauses, Rpc!Base
  <1> QED BY <1>1, <1>2 DEF Ordered

LEMMA LeastIndex == ASSUME NEW S, S \subseteq Nat, S # {} PROVE \E m \in S : \A n \in S : m <= n
  <1> DEFINE Less == OpToRel(<, Nat)
  <1>1. IsWellFoundedOn(Less, Nat)
    BY NatLessThanWellFounded, Zenon
  <1>2. \A n, m \in Nat : n < m => <<n, m>> \in Less
    BY Zenon DEF OpToRel
  <1> HIDE DEF Less
  <1>3. PICK m \in S : \A n \in S : <<n, m>> \notin Less
    BY <1>1, WFMin
  <1>4. \A n \in S : ~(n < m)
    BY <1>2, <1>3
  <1> QED BY <1>3, <1>4

\* So the first clause that catches an exception is the most specific one.
LEMMA FirstIsSpecific == Rpc!SpecificCode
  <1> SUFFICES ASSUME NEW e \in Rpc!Raised \ {"ok"}
               PROVE \E i \in Rpc!Catches(e) :
                       /\ Rpc!CodeOf[e] = Rpc!Clauses[i][2]
                       /\ \A j \in Rpc!Catches(e) : Rpc!IsA(Rpc!Clauses[i][1], Rpc!Clauses[j][1])
    BY DEF Rpc!SpecificCode
  <1>0. PICK C : C = Rpc!Catches(e)
    OBVIOUS
  <1>1. C \subseteq Nat /\ 19 \in C /\ \A i \in C : i \in 1..19 /\ Rpc!IsA(e, Rpc!Clauses[i][1])
    BY <1>0, ClausesOrdered DEF Rpc!Catches, Rpc!IsA
  <1>4. PICK i \in C : \A j \in C : i <= j
    BY <1>1, LeastIndex
  <1>5. Rpc!Min(C) = i
    <2>1. \A k \in C : (\A j \in C : k <= j) => k = i
      BY <1>1, <1>4
    <2> QED BY <1>4, <2>1 DEF Rpc!Min
  <1>6. Rpc!CodeOf[e] = Rpc!Clauses[i][2]
    BY <1>0, <1>5 DEF Rpc!CodeOf
  <1>7. ASSUME NEW j \in C PROVE Rpc!IsA(Rpc!Clauses[i][1], Rpc!Clauses[j][1])
    <2>1. i \in 1..19 /\ j \in 1..19 /\ i <= j
      BY <1>1, <1>4
    <2>2. /\ Rpc!Clauses[i][1] \in {"Exception", e, Rpc!Base(e)}
          /\ Rpc!Clauses[j][1] \in {"Exception", e, Rpc!Base(e)}
      BY <1>1, <2>1 DEF Rpc!IsA
    <2>3. CASE Rpc!Clauses[i][1] = "Exception"
      <3>1. Rpc!Base(Rpc!Clauses[19][1]) = Rpc!Clauses[i][1]
        BY <2>3, ClausesOrdered DEF Rpc!Base
      <3> QED BY <2>1, <2>3, <3>1, ClausesOrdered DEF Ordered, Rpc!IsA
    <2> QED BY <2>1, <2>2, <2>3, ClausesOrdered DEF Ordered, Rpc!IsA
  <1> QED BY <1>0, <1>6, <1>7

-----------------------------------------------------------------------------
(* The parts together *)

DaemonInv ==
  /\ LauncherInv
  /\ Runs("schema") => Schema!SchemaInv
  /\ Runs("rpc") => ShutdownInv

LEMMA DaemonStarts == ASSUME DaemonInit PROVE DaemonInv
  <1>1. Runs("schema") => Schema!SchemaInv
    BY DaemonAssumption, Schema!SchemaInit DEF DaemonInit
  <1> QED BY <1>1, LauncherInit, ShutdownInit DEF DaemonInit, DaemonInv

LEMMA DaemonSteps == ASSUME DaemonInv, [DaemonNext]_daemonVars PROVE DaemonInv'
  <1>1. part' = part /\ [Next]_vars
    BY DEF DaemonNext, daemonVars
  <1>2. LauncherInv'
    BY <1>1, LauncherStep DEF DaemonInv
  <1>3. Runs("rpc") => [Rpc!Next]_rpc
    BY DEF DaemonNext, daemonVars, Runs
  <1>4. Runs("schema") => [Schema!Next]_(Schema!vars)
    BY DEF DaemonNext, daemonVars, Runs, schema, Schema!vars
  <1>5. Runs("schema")' => Schema!SchemaInv'
    BY <1>1, <1>4, DaemonAssumption, Schema!SchemaStep DEF DaemonInv, Runs
  <1>6. Runs("rpc")' => ShutdownInv'
    BY <1>1, <1>3, ShutdownStep DEF DaemonInv, Runs
  <1> QED BY <1>2, <1>5, <1>6 DEF DaemonInv

LEMMA DaemonAlways == DaemonSpec => []DaemonInv
  <1>1. DaemonInv /\ [DaemonNext]_daemonVars => DaemonInv'
    BY DaemonSteps
  <1>2. DaemonInit => DaemonInv
    BY DaemonStarts
  <1> QED BY <1>1, <1>2, PTL DEF DaemonSpec

\* The state of the three parts has its type, whatever runs (start.sh, ProjectStore's
\* migrations, serve).
THEOREM PartsAreTyped == DaemonSpec => []PartsTyped
  <1>1. ASSUME DaemonInv PROVE PartsTyped
    <2>1. Runs("schema") => Schema!TypeOK
      BY <1>1, Schema!SchemaShows DEF DaemonInv
    <2> QED BY <1>1, <2>1 DEF DaemonInv, PartsTyped, LauncherInv, ShutdownInv
  <1>2. DaemonInv => PartsTyped
    BY <1>1
  <1> QED BY <1>2, DaemonAlways, PTL

\* However many shells run start.sh and are killed, and however PIDs are reused, a stale
\* PID file never makes do_stop signal another program's process.
THEOREM StopSparesOthers == DaemonSpec => []SparesOthers
  <1>1. DaemonInv => SparesOthers
    BY DEF DaemonInv, LauncherInv
  <1> QED BY <1>1, DaemonAlways, PTL

\* One shell at a time: what it needs and what follows.
LEMMA SerialAlways ==
  ASSUME NEW s \in Shells, Shells = {s}
  PROVE DaemonSpec => [](DaemonInv /\ Serial(s))
  <1>1. ASSUME DaemonInit PROVE Serial(s)
    BY <1>1, SerialInit DEF DaemonInit
  <1>2. ASSUME DaemonInv, Serial(s), [DaemonNext]_daemonVars PROVE Serial(s)'
    <2>1. [Next]_vars
      BY <1>2 DEF DaemonNext, daemonVars
    <2> QED BY <1>2, <2>1, SerialStep DEF DaemonInv
  <1>3. /\ DaemonInit => Serial(s)
        /\ DaemonInv /\ Serial(s) /\ [DaemonNext]_daemonVars => Serial(s)'
    BY <1>1, <1>2
  <1> QED BY <1>3, DaemonAlways, PTL DEF DaemonSpec

\* One shell at a time starts no second daemon, also when shells are killed half way
\* (do_start and its lock directory).
THEOREM OneShellOneDaemon == ASSUME NEW s \in Shells, Shells = {s} PROVE DaemonSpec => []OneDaemon
  <1>1. ASSUME Serial(s) PROVE OneDaemon
    BY <1>1, SerialShows
  <1>2. Serial(s) => OneDaemon
    BY <1>1
  <1> QED BY <1>2, SerialAlways, PTL

\* One shell at a time, when none was killed, finds the daemon it started again
\* (is_running, do_stop).
THEOREM OneShellFinds == ASSUME NEW s \in Shells, Shells = {s} PROVE DaemonSpec => []DaemonFound
  <1>1. ASSUME Serial(s) PROVE DaemonFound
    BY <1>1, SerialShows
  <1>2. Serial(s) => DaemonFound
    BY <1>1
  <1> QED BY <1>2, SerialAlways, PTL

\* However often a process is killed or a statement fails, and however processes overlap,
\* no chat is lost while the table is rebuilt (ProjectStore's migrations).
THEOREM ChatsSurvive == DaemonSpec => []ChatsKept
  <1>1. ASSUME DaemonInv PROVE ChatsKept
    BY <1>1, Schema!SchemaShows DEF DaemonInv, ChatsKept
  <1>2. DaemonInv => ChatsKept
    BY <1>1
  <1> QED BY <1>2, DaemonAlways, PTL

\* A process that came up after the last rollback serves the whole schema of the code
\* (_ensure_schema, migrate_down).
THEOREM SchemaIsWhole == DaemonSpec => []ServesFullSchema
  <1>1. ASSUME DaemonInv PROVE ServesFullSchema
    BY <1>1, Schema!SchemaShows DEF DaemonInv, ServesFullSchema
  <1>2. DaemonInv => ServesFullSchema
    BY <1>1
  <1> QED BY <1>2, DaemonAlways, PTL

\* Two undisturbed starts in a row do not both fail, whatever earlier kills left behind
\* (the clean-up of chats_new).
THEOREM BlockedAtMostOnce == DaemonSpec => []BlockedOnce
  <1>1. ASSUME DaemonInv PROVE BlockedOnce
    BY <1>1, Schema!SchemaShows DEF DaemonInv, BlockedOnce
  <1>2. DaemonInv => BlockedOnce
    BY <1>1
  <1> QED BY <1>2, DaemonAlways, PTL

\* At shutdown neither the gateway client nor the store is closed while a handler that
\* was accepted may still use it, for any number of connections (serve, after
\* wait_closed).
THEOREM ShutdownSpares == DaemonSpec => []NoUseAfterClose
  <1>1. ASSUME DaemonInv PROVE NoUseAfterClose
    BY <1>1, QuietSpares DEF DaemonInv, NoUseAfterClose
  <1>2. DaemonInv => NoUseAfterClose
    BY <1>1
  <1> QED BY <1>2, DaemonAlways, PTL

\* Whatever leaves a running handler is answered with the code of the most specific of the
\* except clauses that match it, wherever that one stands (ProjectRPCServer.handle_request).
THEOREM CodesAreSpecific == DaemonSpec => []SpecificCode
  BY FirstIsSpecific, PTL DEF SpecificCode
===============================================================================
