------------------------------- MODULE MCDaemon -------------------------------
(***************************************************************************)
(* The life of the daemon on small instances: how it is started and        *)
(* stopped (DaemonLauncher), how it opens its database (SchemaMigration),  *)
(* how it serves and shuts down (RpcServer).  These share no state: a      *)
(* behaviour runs one of them, named by part, and the variables of the     *)
(* other two are Off (those of the launcher stay as they begin).           *)
(***************************************************************************)
EXTENDS DaemonLauncher

CONSTANTS Off, Procs, NoProc, MaxFaults, MaxRolls, Conns, MaxLines

VARIABLES
  part,
  db, tx, work, pc, roll, faults, rolls, undercut, disturbed, blocked,  \* SchemaMigration
  server, open, conn, line, client, sent                                \* RpcServer

schema == <<db, tx, work, pc, roll, faults, rolls, undercut, disturbed, blocked>>
rpc == <<server, open, conn, line, client, sent>>
daemonVars == <<part, vars, schema, rpc>>

Schema == INSTANCE SchemaMigrationProofs
Rpc == INSTANCE RpcServer

ASSUME DaemonAssumption == Schema!Bounds /\ MaxLines \in Nat

-----------------------------------------------------------------------------

SchemaOff ==
  /\ db = Off /\ tx = Off /\ work = Off /\ pc = Off /\ roll = Off /\ faults = Off
  /\ rolls = Off /\ undercut = Off /\ disturbed = Off /\ blocked = Off
RpcOff == server = Off /\ open = Off /\ conn = Off /\ line = Off /\ client = Off /\ sent = Off

Runs(p) == part = p
DaemonInit ==
  /\ part \in {"launcher", "schema", "rpc"}
  /\ Init
  /\ IF Runs("schema") THEN Schema!Init ELSE SchemaOff
  /\ IF Runs("rpc") THEN Rpc!Init ELSE RpcOff

DaemonNext ==
  /\ UNCHANGED part
  /\ \/ Runs("launcher") /\ Next /\ UNCHANGED <<schema, rpc>>
     \/ Runs("schema") /\ Schema!Next /\ UNCHANGED <<vars, rpc>>
     \/ Runs("rpc") /\ Rpc!Next /\ UNCHANGED <<vars, schema>>

\* RpcServer's fairness: what it serves and its shutdown go on.
RpcStep(A) == Runs("rpc") /\ A /\ UNCHANGED <<part, vars, schema>>
DaemonFairness ==
  /\ \A c \in Conns : WF_daemonVars(RpcStep(Rpc!Serve(c)))
  /\ WF_daemonVars(RpcStep(Rpc!Shutdown))

DaemonSpec == DaemonInit /\ [][DaemonNext]_daemonVars /\ DaemonFairness

-----------------------------------------------------------------------------
(* Properties, as their modules state them *)

\* The state of every part that runs has its type.
PartsTyped ==
  /\ TypeOK
  /\ Runs("schema") => Schema!TypeOK
  /\ Runs("rpc") => Rpc!TypeOK

\* No kill and no failing statement loses a chat while the table is rebuilt.
ChatsKept == Runs("schema") => Schema!ChatsKept

\* A process that came up after the last rollback serves the whole schema.
ServesFullSchema == Runs("schema") => Schema!ServesFullSchema

\* Two undisturbed starts in a row do not both fail.
BlockedOnce == Runs("schema") => Schema!BlockedOnce

\* At shutdown nothing is closed while a handler may still use it.
NoUseAfterClose == Runs("rpc") => Rpc!NoUseAfterClose

\* An error is answered with the code of the most specific clause that matches it.
SpecificCode == Runs("rpc") => Rpc!SpecificCode

\* After a signal the daemon stops.
StopEnds == (Runs("rpc") /\ server = "stopping") ~> (Runs("rpc") /\ server = "stopped")
==============================================================================
