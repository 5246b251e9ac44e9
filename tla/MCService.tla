------------------------------ MODULE MCService -------------------------------
(***************************************************************************)
(* The parts of the service that share no state with each other, on small  *)
(* instances.  A behaviour runs one of them, named by part, and a property *)
(* speaks of the part that runs.  The variables of the others are Off;     *)
(* those of ArtifactMigration and InstructionHistory stay as they begin.   *)
(***************************************************************************)
EXTENDS ArtifactMigration, TLC

CONSTANTS
  Off,
  Clients, Texts, Empty, Rows, NoRow, Absent, MaxWrites, MaxSnaps,
  TTL, MaxClock,
  Agents, NoAgent, MaxRows,
  MaxTokens,
  Keys, NoKey, Limit, Window, MaxKeys, MaxTime,
  Docs, Folders, MaxScore, MaxTopK, MaxScope, MaxChanges,
  Files, Root, MaxPage, MaxEdits,
  Chats, Detached, None, MaxAdds

VARIABLES
  part,
  table, stamp, used, snaps, save, now,                        \* InstructionHistory
  req,                                                         \* GatewayRetry
  task, pos, neg, clock, valid, lastValid, lastBad,            \* TokenCache
  bindings, chatRow, setting, contested,                       \* AgentBinding
  x, client, upstream,                                         \* StreamExchange
  time, hits, log,                                             \* RateLimiter
  path, folder, fileRows, indexed, score, q, changes,          \* RagQuery
  parent, place, step, todo, tree, copies, edited, early,      \* ProjectCopy
  home, gone, attached, disk, adds, access, strayed, twice     \* Attachments

history == <<table, stamp, used, snaps, save, now>>
gateway == <<req>>
token == <<task, pos, neg, clock, valid, lastValid, lastBad>>
binding == <<bindings, chatRow, setting, contested>>
stream == <<x, client, upstream>>
rate == <<time, hits, log>>
rag == <<path, folder, fileRows, indexed, score, q, changes>>
copy == <<parent, place, step, todo, tree, copies, edited, early>>
attachment == <<home, gone, attached, disk, adds, access, strayed, twice>>
rest == <<gateway, token, binding, stream, rate, rag, copy, attachment>>
serviceVars == <<part, vars, history, rest>>

History == INSTANCE InstructionHistory WITH Tasks <- Clients, call <- save, clock <- now
Gateway == INSTANCE GatewayRetry
Token == INSTANCE TokenCache WITH MaxTime <- MaxClock
Binding == INSTANCE AgentBinding WITH Calls <- Tasks, rows <- bindings, call <- setting
Stream == INSTANCE StreamExchange
Rate == INSTANCE RateLimiter WITH clock <- time
Rag == INSTANCE RagQuery WITH rows <- fileRows
Copy == INSTANCE ProjectCopy
Attachment == INSTANCE Attachments WITH Calls <- Tasks, rows <- attached, call <- access

ASSUME HistoryAssumption == History!Distinct /\ History!Bounds
ASSUME TokenAssumption == Token!Bounds
ASSUME StreamAssumption == MaxTokens \in Nat
ASSUME AttachmentAssumption == Attachment!Bounds
ASSUME BindingAssumption == MaxRows \in Nat
ASSUME RateAssumption == Rate!Bounds
ASSUME RagAssumption == Rag!Bounds
ASSUME CopyAssumption == IsFiniteSet(Folders) /\ IsFiniteSet(Files) /\ Root \notin Folders /\ MaxPage \in Nat

-----------------------------------------------------------------------------

GatewayOff == req = Off
TokenOff == task = Off /\ pos = Off /\ neg = Off /\ clock = Off /\ valid = Off /\ lastValid = Off /\ lastBad = Off
BindingOff == bindings = Off /\ chatRow = Off /\ setting = Off /\ contested = Off
StreamOff == x = Off /\ client = Off /\ upstream = Off
RateOff == time = Off /\ hits = Off /\ log = Off
RagOff == path = Off /\ folder = Off /\ fileRows = Off /\ indexed = Off /\ score = Off /\ q = Off /\ changes = Off
CopyOff == parent = Off /\ place = Off /\ step = Off /\ todo = Off /\ tree = Off /\ copies = Off /\ edited = Off /\ early = Off
AttachmentOff == home = Off /\ gone = Off /\ attached = Off /\ disk = Off /\ adds = Off /\ access = Off /\ strayed = Off /\ twice = Off

Runs(p) == part = p
ServiceInit ==
  /\ part \in {"artifacts", "history", "gateway", "token", "binding", "stream", "rate", "rag", "copy", "attachment"}
  /\ Init
  /\ History!Init
  /\ IF Runs("gateway") THEN Gateway!Init ELSE GatewayOff
  /\ IF Runs("token") THEN Token!Init ELSE TokenOff
  /\ IF Runs("binding") THEN Binding!Init ELSE BindingOff
  /\ IF Runs("stream") THEN Stream!Init ELSE StreamOff
  /\ IF Runs("rate") THEN Rate!Init ELSE RateOff
  /\ IF Runs("rag") THEN Rag!Init ELSE RagOff
  /\ IF Runs("copy") THEN Copy!Init ELSE CopyOff
  /\ IF Runs("attachment") THEN Attachment!Init ELSE AttachmentOff

\* A step of one of the parts whose variables are Off when they do not run.
RestNext ==
  \/ Runs("gateway") /\ Gateway!Next /\ UNCHANGED <<token, binding, stream, rate, rag, copy, attachment>>
  \/ Runs("token") /\ Token!Next /\ UNCHANGED <<gateway, binding, stream, rate, rag, copy, attachment>>
  \/ Runs("binding") /\ Binding!Next /\ UNCHANGED <<gateway, token, stream, rate, rag, copy, attachment>>
  \/ Runs("stream") /\ Stream!Next /\ UNCHANGED <<gateway, token, binding, rate, rag, copy, attachment>>
  \/ Runs("rate") /\ Rate!Next /\ UNCHANGED <<gateway, token, binding, stream, rag, copy, attachment>>
  \/ Runs("rag") /\ Rag!Next /\ UNCHANGED <<gateway, token, binding, stream, rate, copy, attachment>>
  \/ Runs("copy") /\ Copy!Next /\ UNCHANGED <<gateway, token, binding, stream, rate, rag, attachment>>
  \/ Runs("attachment") /\ Attachment!Next /\ UNCHANGED <<gateway, token, binding, stream, rate, rag, copy>>

ServiceNext ==
  /\ UNCHANGED part
  /\ \/ Runs("artifacts") /\ Next /\ UNCHANGED <<history, rest>>
     \/ Runs("history") /\ History!Next /\ UNCHANGED <<vars, rest>>
     \/ RestNext /\ UNCHANGED <<vars, history>>

ServiceSpec == ServiceInit /\ [][ServiceNext]_serviceVars

\* What is interchangeable.
Symmetry ==
  Permutations(Tasks) \cup Permutations(Projects) \cup Permutations(Artifacts)
    \cup Permutations(Agents)

-----------------------------------------------------------------------------
(* Properties, as their modules state them *)

\* The state of the part that runs has its type.
PartTyped ==
  CASE Runs("artifacts") -> TypeOK
    [] Runs("history") -> History!TypeOK
    [] Runs("gateway") -> Gateway!TypeOK
    [] Runs("token") -> Token!TypeOK
    [] Runs("binding") -> Binding!TypeOK
    [] Runs("stream") -> Stream!TypeOK
    [] Runs("rate") -> Rate!TypeOK
    [] Runs("rag") -> Rag!TypeOK
    [] Runs("copy") -> Copy!TypeOK
    [] Runs("attachment") -> Attachment!TypeOK

\* For a client that waits for each answer, the instructions are a text that is
\* never overwritten before a snapshot holds its content, whenever it crashes.
VersionedSpec == History!VersionedSpec

\* At most one row of instructions is ever inserted for such a client.
OneRow == History!OneRow

\* A POST takes effect at most once more than answers to it were lost.
EffectsAccounted == Runs("gateway") => Gateway!EffectsAccounted

\* A token decided from the cache was valid, or refused, less than TTL ago.
DecidedRecently == Runs("token") => Token!DecidedRecently

\* What a set_binding or remove_binding that nothing overlapped was asked for is so.
AskedIsDone == Runs("binding") => Binding!AskedIsDone

\* When "done" is written to a client, its chat keeps exactly what was written before.
DoneMeansStored == Runs("stream") => Stream!DoneMeansStored

\* More than Limit requests in a window take more than RATE_MAX_IPS clients.
LimitUnlessCrowded == Runs("rate") => Rate!LimitUnlessCrowded

\* The merged answer of a query is the best of the folders that answered.
ScopedAnswer == Runs("rag") => Rag!ScopedAnswer

\* What was not edited is copied once, into the copy of its folder, to its own path.
CopyFaithful == Runs("copy") => Copy!CopyFaithful

\* Rows and bytes of attachments match, whatever moves and deletions of chats,
\* projects and attachments overlap.
RowsMatchBytes == Runs("attachment") => Attachment!RowsMatchBytes
==============================================================================
