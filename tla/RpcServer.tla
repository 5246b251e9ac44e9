------------------------------ MODULE RpcServer -------------------------------
(***************************************************************************)
(* ProjectRPCServer: the loop that serves one connection, the handlers by  *)
(* the exceptions that leave them while they use the clients, the error    *)
(* codes, and the shutdown of serve().  Clients send a line at a time and  *)
(* may give up waiting (ProjectClient.call does after 10 seconds); their   *)
(* handler goes on.                                                        *)
(***************************************************************************)
EXTENDS Naturals, Sequences, FiniteSetsExt

CONSTANTS
  Conns,     \* connections, each used once
  MaxLines   \* bound: lines sent on one connection after the listener is closed

VARIABLES
  server,    \* phase of serve()
  open,      \* the resources not closed yet
  conn,      \* per connection: the step of _client_cb
  line,      \* per connection: the line that is sent and not read
  client,    \* per connection: connected, or gone
  sent       \* per connection: lines sent after the listener was closed

vars == <<server, open, conn, line, client, sent>>

Resources == {"gateway", "store"}
Phases == {"serving", "stopping", "draining", "closing", "stopped"}
Lines == {"parse", "unknown", "long"}

-----------------------------------------------------------------------------
(* What the handlers return or raise *)

Anything == {"ok", "ProjectNotFound", "KeyError", "ValidationError", "Exception"}

ProjectErrors == Anything \cup {
  "ProjectNotArchived", "ArtifactAlreadyMigrated", "ArtifactNotFound", "ProjectError",
   "GatewayError", "RAGError", "SnapshotNotFound"}
ChatErrors == Anything \cup {
  "ChatNotFound", "ChatError", "ProjectError", "RAGError"}
KnowledgeErrors == Anything \cup {
  "FolderNotFound", "FolderError", "KnowledgeFileNotFound", "KnowledgeQuotaExceeded",
   "KnowledgeError", "RAGServiceUnavailable"}
AgentRagErrors == Anything \cup {
  "AgentUnavailable", "AgentBinderError", "RAGError", "RAGServiceUnavailable",
   "FolderNotFound", "KnowledgeFileNotFound", "GatewayError"}

Raised == ProjectErrors \cup ChatErrors \cup KnowledgeErrors \cup AgentRagErrors

\* The base class of an exception, as its module declares it.
Base(e) ==
  CASE e \in {"ProjectNotFound", "ProjectNotArchived", "ArtifactAlreadyMigrated", "ArtifactNotFound"}
         -> "ProjectError"
    [] e = "ChatNotFound" -> "ChatError"
    [] e \in {"FolderNotFound", "KnowledgeFileNotFound", "KnowledgeQuotaExceeded"} -> "KnowledgeError"
    [] e = "AgentUnavailable" -> "AgentBinderError"
    [] e = "RAGServiceUnavailable" -> "RAGError"
    [] OTHER -> "Exception"
IsA(e, class) == class = "Exception" \/ e = class \/ Base(e) = class

\* The except clauses of handle_request, in their order, with their codes (negated).
Clauses == <<
  <<"ProjectNotFound", 32001>>, <<"ProjectNotArchived", 32002>>,
  <<"ArtifactAlreadyMigrated", 32003>>, <<"ArtifactNotFound", 32004>>,
  <<"ChatNotFound", 32005>>, <<"ChatError", 32012>>,
  <<"FolderNotFound", 32006>>, <<"FolderError", 32006>>,
  <<"KnowledgeFileNotFound", 32007>>, <<"KnowledgeQuotaExceeded", 32014>>,
  <<"KnowledgeError", 32013>>, <<"SnapshotNotFound", 32010>>,
  <<"AgentBinderError", 32008>>, <<"RAGError", 32009>>, <<"GatewayError", 32011>>,
  <<"ProjectError", 32000>>, <<"ValidationError", 32602>>, <<"KeyError", 32602>>,
  <<"Exception", 32603>>>>

\* The clauses an exception would be caught by.
Catches(e) == {i \in 1..Len(Clauses) : IsA(e, Clauses[i][1])}

\* Mutant of CodeOf: the clause of exactly that type.
CodeOfType == [e \in Raised |->
  LET own == {i \in 1..Len(Clauses) : Clauses[i][1] = e} IN
    IF e = "ok" THEN 200 ELSE IF own = {} THEN 32603 ELSE Clauses[Min(own)][2]]

\* The first clause that matches.
CodeOf == [e \in Raised |-> IF e = "ok" THEN 200 ELSE Clauses[Min(Catches(e))][2]]

-----------------------------------------------------------------------------

TypeOK ==
  /\ server \in Phases
  /\ open \subseteq Resources
  /\ conn \in [Conns -> {"none", "read", "handle", "close", "closed"}]
  /\ line \in [Conns -> {"none", "method"} \cup Lines]
  /\ client \in [Conns -> {"here", "gone"}]
  /\ sent \in [Conns -> 0..MaxLines]

Init ==
  /\ server = "serving"
  /\ open = Resources
  /\ conn = [c \in Conns |-> "none"]
  /\ line = [c \in Conns |-> "none"]
  /\ client = [c \in Conns |-> "here"]
  /\ sent = [c \in Conns |-> 0]

At(c, step) == conn[c] = step
Goto(c, step) == conn' = [conn EXCEPT ![c] = step]

-----------------------------------------------------------------------------
(* Clients *)

Connect(c) ==
  /\ server \in {"serving", "stopping"}
  /\ At(c, "none")
  /\ Goto(c, "read")
  /\ UNCHANGED <<server, open, line, client, sent>>

Late == server \notin {"serving", "stopping"}
Send(c) ==
  /\ ~At(c, "none") /\ client[c] = "here" /\ line[c] = "none"
  /\ Late => sent[c] < MaxLines
  /\ \E l \in Lines \cup {"method"} : line' = [line EXCEPT ![c] = l]
  /\ sent' = IF Late THEN [sent EXCEPT ![c] = @ + 1] ELSE sent
  /\ UNCHANGED <<server, open, conn, client>>

\* The client has its answer, or waits no longer.
Leave(c) ==
  /\ ~At(c, "none") /\ client[c] = "here"
  /\ client' = [client EXCEPT ![c] = "gone"]
  /\ UNCHANGED <<server, open, conn, line, sent>>

-----------------------------------------------------------------------------
(* _client_cb and handle_request *)

\* readline raises for a line over its own limit, and handle_request for JSON that is
\* no object: the connection is closed without an answer.
ReadLong(c) ==
  /\ At(c, "read") /\ line[c] = "long"
  /\ line' = [line EXCEPT ![c] = "none"]
  /\ Goto(c, "close")
  /\ UNCHANGED <<server, open, client, sent>>

\* Not JSON, or no such method: answered without a handler.
ReadInvalid(c) ==
  /\ At(c, "read") /\ line[c] \in {"parse", "unknown"}
  /\ line' = [line EXCEPT ![c] = "none"]
  /\ UNCHANGED <<server, open, conn, client, sent>>

ReadMethod(c) ==
  /\ At(c, "read") /\ line[c] = "method"
  /\ Goto(c, "handle")
  /\ line' = [line EXCEPT ![c] = "none"]
  /\ UNCHANGED <<server, open, client, sent>>

\* Mutant of ReadEnd: no read timeout.
ReadEndOnEof(c) ==
  /\ At(c, "read") /\ line[c] = "none" /\ client[c] = "gone"
  /\ Goto(c, "close")
  /\ UNCHANGED <<server, open, line, client, sent>>

\* The client closed its side, or nothing came for FUSION_UDS_READ_TIMEOUT.
ReadEnd(c) ==
  /\ At(c, "read") /\ line[c] = "none"
  /\ Goto(c, "close")
  /\ UNCHANGED <<server, open, line, client, sent>>

\* The handler returned or raised and is answered; the write may fail when the client
\* is gone.
HandleEnd(c) ==
  /\ At(c, "handle")
  /\ \/ Goto(c, "read")
     \/ client[c] = "gone" /\ Goto(c, "close")
  /\ UNCHANGED <<server, open, line, client, sent>>

Close(c) ==
  /\ At(c, "close")
  /\ Goto(c, "closed")
  /\ UNCHANGED <<server, open, line, client, sent>>

-----------------------------------------------------------------------------
(* serve() *)

\* SIGTERM or SIGINT.
Signal ==
  /\ server = "serving"
  /\ server' = "stopping"
  /\ UNCHANGED <<open, conn, line, client, sent>>

CloseListener ==
  /\ server = "stopping"
  /\ server' = "draining"
  /\ UNCHANGED <<open, conn, line, client, sent>>

\* Mutant of Drained: wait_closed returns at once, as before Python 3.12.
DrainedAtOnce ==
  /\ server = "draining"
  /\ server' = "closing"
  /\ UNCHANGED <<open, conn, line, client, sent>>

\* wait_closed waits for every connection.
Drained ==
  /\ server = "draining"
  /\ \A c \in Conns : conn[c] \in {"none", "closed"}
  /\ server' = "closing"
  /\ UNCHANGED <<open, conn, line, client, sent>>

CloseGateway ==
  /\ server = "closing" /\ "gateway" \in open
  /\ open' = open \ {"gateway"}
  /\ UNCHANGED <<server, conn, line, client, sent>>

CloseStore ==
  /\ server = "closing" /\ open = {"store"}
  /\ open' = {}
  /\ server' = "stopped"
  /\ UNCHANGED <<conn, line, client, sent>>

Serve(c) == ReadLong(c) \/ ReadInvalid(c) \/ ReadMethod(c) \/ ReadEnd(c) \/ HandleEnd(c) \/ Close(c)
Shutdown == CloseListener \/ Drained \/ CloseGateway \/ CloseStore

Next ==
  \/ \E c \in Conns : Connect(c) \/ Send(c) \/ Leave(c) \/ Serve(c)
  \/ Signal \/ Shutdown

\* Handlers end because each of their upstream calls has a timeout, reads time out.
Fairness == (\A c \in Conns : WF_vars(Serve(c))) /\ WF_vars(Shutdown)
Spec == Init /\ [][Next]_vars /\ Fairness

-----------------------------------------------------------------------------
(* Properties *)

\* At shutdown nothing is closed while a handler that was accepted may still use it:
\* also that of a client which gave up waiting.
NoUseAfterClose == \A c \in Conns : At(c, "handle") => open = Resources

\* Whatever leaves a running handler is answered with the code of the most specific
\* of the clauses that match it, whatever their order in the code.
SpecificCode ==
  (\E c \in Conns : At(c, "handle")) =>
    \A e \in Raised \ {"ok"} : \E i \in Catches(e) :
      /\ CodeOf[e] = Clauses[i][2]
      /\ \A j \in Catches(e) : IsA(Clauses[i][1], Clauses[j][1])

\* After a signal the daemon stops, once clients send nothing more: idle and
\* abandoned connections do not keep it.
StopEnds == (server = "stopping") ~> (server = "stopped")
==============================================================================
