--------------------------- MODULE DaemonLauncher ----------------------------
(***************************************************************************)
(* start.sh and the daemon it manages: do_start and do_stop run by shells  *)
(* that may overlap or be killed, the PID file, the lock directory, the    *)
(* socket, and processes that fail to boot, crash, drain and have their    *)
(* PIDs reused.  One action is one command of the script that touches      *)
(* shared state; "restart" is a stop followed by a start.                  *)
(***************************************************************************)
EXTENDS Naturals, FiniteSets

CONSTANTS
  Shells,   \* invocations of start.sh that may run at the same time
  Pids,
  NoPid,
  MaxKills  \* bound: shells killed before they end

ASSUME Assumptions == NoPid \notin Pids /\ MaxKills \in Nat

VARIABLES
  proc,     \* what runs under each PID
  pidFile,  \* the PID in PID_FILE, or NoPid without a file
  lock,     \* the directory PID_FILE.lock exists
  sock,     \* the daemon listening at SOCK_PATH, or NoPid
  sh,       \* per shell: next command, the PID in its variable "pid"
  kills

vars == <<proc, pidFile, lock, sock, sh, kills>>

Daemon == {"boot", "serve", "drain"}
Ended == {"idle", "stopped"}
WithPid == {"write", "verify", "release", "term", "poll", "remove"}
Commands == {"clear", "lock", "spawn"} \cup WithPid

TypeOK ==
  /\ proc \in [Pids -> {"none", "other"} \cup Daemon]
  /\ pidFile \in Pids \cup {NoPid}
  /\ lock \in BOOLEAN
  /\ sock \in Pids \cup {NoPid}
  /\ sh \in [Shells -> [pc: Ended \cup Commands, pid: Pids \cup {NoPid}]]
  /\ \A s \in Shells : sh[s].pc \in WithPid => sh[s].pid # NoPid
  /\ kills \in 0..MaxKills

Init ==
  /\ proc = [p \in Pids |-> "none"]
  /\ pidFile = NoPid
  /\ lock = FALSE
  /\ sock = NoPid
  /\ sh = [s \in Shells |-> [pc |-> "idle", pid |-> NoPid]]
  /\ kills = 0

-----------------------------------------------------------------------------
(* Helpers *)

At(s, cmd) == sh[s].pc = cmd
Pid(s) == sh[s].pid
GotoWith(s, cmd, p) == sh' = [sh EXCEPT ![s] = [pc |-> cmd, pid |-> p]]
Goto(s, cmd) == GotoWith(s, cmd, Pid(s))
End(s) == GotoWith(s, "idle", NoPid)

\* Mutant of PidIsDaemon: kill -0 alone.
PidIsAlive(p) == proc[p] # "none"

\* A live PID counts as ours only if its command line is the daemon's.
PidIsDaemon(p) == proc[p] \in Daemon
IsRunning == pidFile # NoPid /\ PidIsDaemon(pidFile)

-----------------------------------------------------------------------------
(* do_start *)

\* Mutant of Start: no look at what runs.
StartAnyway(s) ==
  /\ sh[s].pc \in Ended
  /\ Goto(s, "clear")
  /\ UNCHANGED <<proc, pidFile, lock, sock, kills>>

Start(s) ==
  /\ sh[s].pc \in Ended
  /\ IF IsRunning THEN End(s) ELSE Goto(s, "clear")
  /\ UNCHANGED <<proc, pidFile, lock, sock, kills>>

ClearPidFile(s) ==
  /\ At(s, "clear")
  /\ pidFile' = NoPid
  /\ Goto(s, "lock")
  /\ UNCHANGED <<proc, lock, sock, kills>>

\* mkdir succeeds for one shell; for another the start is aborted.
TakeLock(s) ==
  /\ At(s, "lock")
  /\ lock' = TRUE
  /\ IF lock THEN End(s) ELSE Goto(s, "spawn")
  /\ UNCHANGED <<proc, pidFile, sock, kills>>

Spawn(s) ==
  /\ At(s, "spawn")
  /\ sock' = NoPid
  /\ \E p \in Pids :
       /\ proc[p] = "none"
       /\ proc' = [proc EXCEPT ![p] = "boot"]
       /\ GotoWith(s, "write", p)
  /\ UNCHANGED <<pidFile, lock, kills>>

WritePidFile(s) ==
  /\ At(s, "write")
  /\ pidFile' = Pid(s)
  /\ Goto(s, "verify")
  /\ UNCHANGED <<proc, lock, sock, kills>>

\* Mutant of Verify: a daemon that does not serve yet is given up.
VerifyServes(s) ==
  /\ At(s, "verify")
  /\ pidFile' = IF pidFile # NoPid /\ proc[pidFile] = "serve" THEN pidFile ELSE NoPid
  /\ Goto(s, "release")
  /\ UNCHANGED <<proc, lock, sock, kills>>

\* One second later: is it running?
Verify(s) ==
  /\ At(s, "verify")
  /\ pidFile' = IF IsRunning THEN pidFile ELSE NoPid
  /\ Goto(s, "release")
  /\ UNCHANGED <<proc, lock, sock, kills>>

Release(s) ==
  /\ At(s, "release")
  /\ lock' = FALSE
  /\ End(s)
  /\ UNCHANGED <<proc, pidFile, sock, kills>>

-----------------------------------------------------------------------------
(* do_stop *)

\* Not running: only the PID file is removed.
StopNothing(s) ==
  /\ sh[s].pc \in Ended
  /\ ~IsRunning
  /\ pidFile' = NoPid
  /\ Goto(s, "stopped")
  /\ UNCHANGED <<proc, lock, sock, kills>>

\* Mutant of Stop: whatever the PID file says.
StopAnyway(s) ==
  /\ sh[s].pc \in Ended
  /\ GotoWith(s, "term", pidFile)
  /\ UNCHANGED <<proc, pidFile, lock, sock, kills>>

Stop(s) ==
  /\ sh[s].pc \in Ended
  /\ IsRunning
  /\ GotoWith(s, "term", pidFile)
  /\ UNCHANGED <<proc, pidFile, lock, sock, kills>>

\* kill -TERM: a serving daemon drains; any other process just ends.
Term(s) ==
  /\ At(s, "term")
  /\ proc' = [proc EXCEPT ![Pid(s)] =
                CASE @ = "serve" -> "drain" [] @ = "drain" -> "drain" [] OTHER -> "none"]
  /\ Goto(s, "poll")
  /\ UNCHANGED <<pidFile, lock, sock, kills>>

\* The process is gone, or 30 seconds are over: kill -9.
Poll(s) ==
  /\ At(s, "poll")
  /\ proc' = [proc EXCEPT ![Pid(s)] = "none"]
  /\ Goto(s, "remove")
  /\ UNCHANGED <<pidFile, lock, sock, kills>>

Remove(s) ==
  /\ At(s, "remove")
  /\ pidFile' = NoPid
  /\ sock' = NoPid
  /\ lock' = FALSE
  /\ GotoWith(s, "stopped", NoPid)
  /\ UNCHANGED <<proc, kills>>

-----------------------------------------------------------------------------
(* The daemon and the operating system *)

\* serve() removes what is at SOCK_PATH and renames its own socket there.
Bind(p) ==
  /\ proc[p] = "boot"
  /\ proc' = [proc EXCEPT ![p] = "serve"]
  /\ sock' = p
  /\ UNCHANGED <<pidFile, lock, sh, kills>>

\* It fails to boot, dies, or ends its drain.
Exit(p) ==
  /\ proc[p] \in Daemon
  /\ proc' = [proc EXCEPT ![p] = "none"]
  /\ UNCHANGED <<pidFile, lock, sock, sh, kills>>

\* A PID no script is about to signal is reused by another process for a while.
Reuse(p) ==
  /\ \A s \in Shells : Pid(s) # p
  /\ \/ proc[p] = "none" /\ proc' = [proc EXCEPT ![p] = "other"]
     \/ proc[p] = "other" /\ proc' = [proc EXCEPT ![p] = "none"]
  /\ UNCHANGED <<pidFile, lock, sock, sh, kills>>

KillShell(s) ==
  /\ sh[s].pc \notin Ended
  /\ kills < MaxKills
  /\ kills' = kills + 1
  /\ End(s)
  /\ UNCHANGED <<proc, pidFile, lock, sock>>

Next ==
  \/ \E s \in Shells :
       \/ Start(s) \/ ClearPidFile(s) \/ TakeLock(s) \/ Spawn(s)
       \/ WritePidFile(s) \/ Verify(s) \/ Release(s)
       \/ StopNothing(s) \/ Stop(s) \/ Term(s) \/ Poll(s) \/ Remove(s)
       \/ KillShell(s)
  \/ \E p \in Pids : Bind(p) \/ Exit(p) \/ Reuse(p)

Spec == Init /\ [][Next]_vars

-----------------------------------------------------------------------------
(* Properties *)

\* "mkdir-based atomic lock guards against two start invocations racing to
\* spawn a daemon": there is never more than one.
OneDaemon == Cardinality({p \in Pids : PidIsDaemon(p)}) <= 1

\* While no script runs, the next one can do its work: the start lock is free, and
\* a daemon is found again, since the PID file names it and the socket is its own
\* once it serves.  (A shell killed half way leaves lock and daemon behind.)
DaemonFound ==
  (kills = 0 /\ \A s \in Shells : sh[s].pc \in Ended) =>
    /\ ~lock
    /\ \A p \in Pids :
         PidIsDaemon(p) => pidFile = p /\ (proc[p] = "serve" => sock = p)

\* A stale PID file never makes "stop" signal another process.
SparesOthers ==
  \A s \in Shells : sh[s].pc \in {"term", "poll"} => proc[Pid(s)] # "other"
==============================================================================
