--------------------------- MODULE MCServiceProofs ----------------------------
(***************************************************************************)
(* The parts of MCService for any number of calls, projects, texts, tokens *)
(* and times: an inductive invariant for each part, then the parts         *)
(* together.  ArtifactMigrationProofs has that of the migration of         *)
(* artifacts.                                                              *)
(***************************************************************************)
EXTENDS MCService, ArtifactMigrationProofs, FiniteSetTheorems, SequenceTheorems, WellFoundedInduction, TLAPS

-----------------------------------------------------------------------------
(* The retries of the gateway *)

\* Of a request that may not be repeated, every effect so far was one whose answer was
\* lost; the last request of a call may have one more.  The counts are bounded by the
\* attempts made.
RetryInv ==
  /\ Gateway!TypeOK
  /\ req.lost <= req.attempt + 1 /\ req.effects <= req.attempt + 1
  /\ req.pc = "send" => req.lost <= req.attempt /\ req.effects <= req.attempt
  /\ req.kind # "idempotent" => req.effects <= req.lost + IF req.pc = "send" THEN 0 ELSE 1
  /\ req.pc = "ok" => req.effects > 0

LEMMA RetryInit == ASSUME Gateway!Init PROVE RetryInv
  BY DEF Gateway!Init, RetryInv, Gateway!TypeOK, Gateway!Idle, Gateway!Kinds, Gateway!MaxRetries

LEMMA RetryStep == ASSUME RetryInv, [Gateway!Next]_gateway PROVE RetryInv'
  <1> DEFINE Shape == [pc: {"idle", "send", "ok", "error", "escaped"}, kind: {"idempotent", "post", "artifacts"},
                       attempt: 0..3, effects: 0..4, lost: 0..4]
  <1>a. req \in Shape
    BY DEF RetryInv, Gateway!TypeOK, Gateway!Kinds, Gateway!MaxRetries
  <1>b. ASSUME req' \in Shape,
               req'.lost <= req'.attempt + 1 /\ req'.effects <= req'.attempt + 1,
               req'.pc = "send" => req'.lost <= req'.attempt /\ req'.effects <= req'.attempt,
               req'.kind # "idempotent" => req'.effects <= req'.lost + IF req'.pc = "send" THEN 0 ELSE 1,
               req'.pc = "ok" => req'.effects > 0
        PROVE RetryInv'
    BY <1>b DEF RetryInv, Gateway!TypeOK, Gateway!Kinds, Gateway!MaxRetries
  <1>0. CASE UNCHANGED gateway
    BY <1>0 DEF gateway, RetryInv, Gateway!TypeOK
  <1>1. ASSUME NEW kind \in {"idempotent", "post", "artifacts"}, Gateway!Request(kind) PROVE RetryInv'
    <2>1. req' = [pc |-> "send", kind |-> kind, attempt |-> 0, effects |-> 0, lost |-> 0]
      BY <1>1 DEF Gateway!Request, Gateway!Idle
    <2> QED BY <1>b, <2>1
  <1>2. ASSUME NEW pc \in {"ok", "escaped", "error"}, NEW e \in 0..1, req.pc = "send",
               Gateway!End(pc, e), pc = "ok" => e = 1
        PROVE RetryInv'
    <2>1. req' = [pc |-> pc, kind |-> req.kind, attempt |-> req.attempt, effects |-> req.effects + e,
                  lost |-> req.lost]
      BY <1>a, <1>2 DEF Gateway!End
    <2> QED BY <1>a, <1>b, <1>2, <2>1 DEF RetryInv
  <1>3. ASSUME NEW e \in 0..1, NEW l \in 0..1, l <= e, req.pc = "send", Gateway!Retry(e, l),
               req.kind # "idempotent" => l = e
        PROVE RetryInv'
    <2>1. req' = [pc |-> IF req.attempt < 3 THEN "send" ELSE "error", kind |-> req.kind,
                  attempt |-> IF req.attempt < 3 THEN req.attempt + 1 ELSE req.attempt,
                  effects |-> req.effects + e, lost |-> req.lost + l]
      BY <1>a, <1>3 DEF Gateway!Retry, Gateway!MaxRetries
    <2> QED BY <1>a, <1>b, <1>3, <2>1 DEF RetryInv
  <1>4. CASE Gateway!TransportError
    BY <1>3, <1>4 DEF Gateway!TransportError, Gateway!Sending
  <1>5. CASE Gateway!StatusRetryable
    <2>1. PICK e \in 0..1 : IF req.kind = "idempotent" THEN Gateway!Retry(e, 0) ELSE Gateway!End("error", e)
      BY <1>5 DEF Gateway!StatusRetryable
    <2>2. CASE req.kind = "idempotent"
      BY <1>3, <1>5, <2>1, <2>2 DEF Gateway!StatusRetryable, Gateway!Sending
    <2>3. CASE req.kind # "idempotent"
      BY <1>2, <1>5, <2>1, <2>3 DEF Gateway!StatusRetryable, Gateway!Sending
    <2> QED BY <2>2, <2>3
  <1>6. CASE Gateway!Answered \/ Gateway!AnsweredBadly \/ Gateway!StatusRefused
    BY <1>2, <1>6 DEF Gateway!Answered, Gateway!AnsweredBadly, Gateway!StatusRefused, Gateway!Sending
  <1> QED BY <1>0, <1>1, <1>4, <1>5, <1>6 DEF Gateway!Next, Gateway!Kinds

-----------------------------------------------------------------------------
(* The token cache *)

VerifyType == [pc: {"idle", "sent", "answered", "accepted", "denied"}, now: Nat,
               how: {"none", "cache", "valid", "invalid"}]

\* Times are not bounded here: TypeOK's bounds are those of the clock in a run.
CacheTyped ==
  /\ task \in [Tasks -> VerifyType]
  /\ pos \in Nat /\ neg \in Nat /\ clock \in Nat /\ lastValid \in Nat /\ lastBad \in Nat
  /\ valid \in BOOLEAN

\* Everything that is remembered of the identity service lies in the past.
Past ==
  /\ lastValid <= clock /\ lastBad <= clock
  /\ valid => lastValid = clock
  /\ \A t \in Tasks : task[t].now <= clock

\* An entry expires at most TTL after what it remembers was so.
EntriesExpire == pos <= lastValid + TTL /\ neg <= lastBad + TTL

\* An answer that is under way was so at or after the time its request began.
AnswersFresh ==
  \A t \in Tasks : task[t].pc = "answered" =>
    /\ task[t].how = "valid" => task[t].now <= lastValid
    /\ task[t].how = "invalid" => task[t].now <= lastBad
    /\ task[t].how \in {"valid", "invalid"}
Undecided == \A t \in Tasks : task[t].pc = "sent" => task[t].how = "none"

CacheInv == CacheTyped /\ Past /\ EntriesExpire /\ AnswersFresh /\ Undecided /\ Token!DecidedRecently

\* Bounds move up with what they are relative to.
LEMMA Later ==
  ASSUME NEW n \in Nat, NEW a \in Nat, NEW b \in Nat, NEW d \in Nat, n <= a + d, a <= b
  PROVE n <= b + d
  OBVIOUS

LEMMA CacheInit == ASSUME Token!Bounds, Token!Init PROVE CacheInv
  BY DEF Token!Bounds, Token!Init, Token!Idle, CacheInv, CacheTyped, VerifyType, Past, EntriesExpire, AnswersFresh,
         Undecided, Token!DecidedRecently

\* The times of what was so never go back, which is all the other requests rely on.
LEMMA VerifyBegins == ASSUME Token!Bounds, CacheInv, NEW t \in Tasks, Token!Begin(t) PROVE CacheInv'
  <1>1. \E pc \in {"accepted", "denied", "sent"}, how \in {"cache", "none"} :
          /\ task' = [task EXCEPT ![t] = [pc |-> pc, now |-> clock, how |-> how]]
          /\ pc = "accepted" => clock < pos
          /\ pc = "denied" => clock < neg
          /\ pc = "sent" <=> how = "none"
    BY DEF Token!Begin, CacheInv, CacheTyped
  <1>2. PICK pc \in {"accepted", "denied", "sent"}, how \in {"cache", "none"} :
          /\ task' = [task EXCEPT ![t] = [pc |-> pc, now |-> clock, how |-> how]]
          /\ pc = "accepted" => clock < pos
          /\ pc = "denied" => clock < neg
          /\ pc = "sent" <=> how = "none"
    BY <1>1
  <1>3. UNCHANGED <<pos, neg, clock, valid, lastValid, lastBad>>
    BY DEF Token!Begin
  <1>4. /\ task'[t] = [pc |-> pc, now |-> clock, how |-> how]
        /\ \A u \in Tasks \ {t} : task'[u] = task[u]
    BY <1>2 DEF CacheInv, CacheTyped
  <1>5. CacheTyped'
    BY <1>2, <1>3 DEF CacheInv, CacheTyped, VerifyType
  <1>6. Past' /\ EntriesExpire' /\ AnswersFresh' /\ Undecided'
    BY <1>2, <1>3, <1>4 DEF CacheInv, CacheTyped, Past, EntriesExpire, AnswersFresh, Undecided
  <1>7. Token!DecidedRecently'
    BY <1>2, <1>3, <1>4 DEF Token!Bounds, CacheInv, CacheTyped, VerifyType, EntriesExpire, Token!DecidedRecently
  <1> QED BY <1>5, <1>6, <1>7 DEF CacheInv

LEMMA IdentityAnswered == ASSUME Token!Bounds, CacheInv, NEW t \in Tasks, Token!IdentityAnswers(t) PROVE CacheInv'
  <1>1. /\ task' = [task EXCEPT ![t].pc = "answered", ![t].how = IF valid THEN "valid" ELSE "invalid"]
        /\ task[t].pc = "sent"
        /\ lastBad' = IF valid THEN lastBad ELSE clock
        /\ UNCHANGED <<pos, neg, clock, valid, lastValid>>
    BY DEF Token!IdentityAnswers, Token!Goto
  <1>2. /\ task'[t] = [task[t] EXCEPT !.pc = "answered", !.how = IF valid THEN "valid" ELSE "invalid"]
        /\ \A u \in Tasks \ {t} : task'[u] = task[u]
    BY <1>1 DEF CacheInv, CacheTyped
  <1>3. CacheTyped'
    BY ZenonT(40), <1>1 DEF CacheInv, CacheTyped, VerifyType
  <1>4. lastBad <= lastBad'
    BY <1>1 DEF CacheInv, CacheTyped, Past
  <1>5. Past' /\ EntriesExpire' /\ Undecided'
    BY <1>1, <1>2, <1>4 DEF Token!Bounds, CacheInv, CacheTyped, VerifyType, Past, EntriesExpire, Undecided
  <1>6. AnswersFresh'
    BY <1>1, <1>2, <1>4 DEF Token!Bounds, CacheInv, CacheTyped, VerifyType, Past, AnswersFresh
  <1>7. Token!DecidedRecently'
    BY <1>1, <1>2, <1>4 DEF Token!Bounds, CacheInv, CacheTyped, VerifyType, Token!DecidedRecently
  <1> QED BY <1>3, <1>5, <1>6, <1>7 DEF CacheInv

LEMMA AcceptStep == ASSUME Token!Bounds, CacheInv, NEW t \in Tasks, Token!Accept(t) PROVE CacheInv'
  <1>1. /\ task' = [task EXCEPT ![t].pc = "accepted", ![t].how = "valid"]
        /\ task[t].pc = "answered" /\ task[t].how = "valid"
        /\ pos' = task[t].now + TTL /\ neg' = 0
        /\ UNCHANGED <<clock, valid, lastValid, lastBad>>
    BY DEF Token!Accept, Token!Goto
  <1>2. /\ task'[t] = [task[t] EXCEPT !.pc = "accepted", !.how = "valid"]
        /\ \A u \in Tasks \ {t} : task'[u] = task[u]
    BY <1>1 DEF CacheInv, CacheTyped
  <1>3. CacheTyped'
    <2>1. task[t] \in VerifyType
      BY DEF CacheInv, CacheTyped
    <2>2. task'[t] \in VerifyType
      BY <1>2, <2>1 DEF VerifyType
    <2>3. task' \in [Tasks -> VerifyType]
      BY <1>1, <1>2, <2>2 DEF CacheInv, CacheTyped
    <2>4. pos' \in Nat /\ neg' \in Nat /\ lastBad' \in Nat
      BY <1>1, <2>1 DEF Token!Bounds, CacheInv, CacheTyped, VerifyType
    <2> QED BY <1>1, <2>3, <2>4 DEF CacheInv, CacheTyped
  <1>4. EntriesExpire'
    BY <1>1 DEF Token!Bounds, CacheInv, CacheTyped, VerifyType, AnswersFresh, EntriesExpire
  <1>5. Past' /\ AnswersFresh' /\ Undecided' /\ Token!DecidedRecently'
    BY <1>1, <1>2 DEF Token!Bounds, CacheInv, CacheTyped, VerifyType, Past, AnswersFresh, Undecided, Token!DecidedRecently
  <1> QED BY <1>3, <1>4, <1>5 DEF CacheInv

LEMMA DenyStep == ASSUME Token!Bounds, CacheInv, NEW t \in Tasks, Token!Deny(t) PROVE CacheInv'
  <1>1. /\ task' = [task EXCEPT ![t].pc = "denied", ![t].how = "invalid"]
        /\ task[t].pc \in {"sent", "answered"}
        /\ neg' = task[t].now + TTL
        /\ lastBad' = IF task[t].how = "invalid" THEN lastBad ELSE clock
        /\ UNCHANGED <<pos, clock, valid, lastValid>>
    BY DEF Token!Deny, Token!Goto
  <1>2. /\ task'[t] = [task[t] EXCEPT !.pc = "denied", !.how = "invalid"]
        /\ \A u \in Tasks \ {t} : task'[u] = task[u]
    BY <1>1 DEF CacheInv, CacheTyped
  <1>3. CacheTyped'
    <2>1. task[t] \in VerifyType
      BY DEF CacheInv, CacheTyped
    <2>2. task'[t] \in VerifyType
      BY <1>2, <2>1 DEF VerifyType
    <2>3. task' \in [Tasks -> VerifyType]
      BY <1>1, <1>2, <2>2 DEF CacheInv, CacheTyped
    <2>4. pos' \in Nat /\ neg' \in Nat /\ lastBad' \in Nat
      BY <1>1, <2>1 DEF Token!Bounds, CacheInv, CacheTyped, VerifyType
    <2> QED BY <1>1, <2>3, <2>4 DEF CacheInv, CacheTyped
  <1>4. lastBad <= lastBad' /\ task[t].now <= lastBad'
    BY <1>1 DEF CacheInv, CacheTyped, VerifyType, Past, AnswersFresh, Undecided
  <1>5. EntriesExpire'
    BY <1>1, <1>4 DEF Token!Bounds, CacheInv, CacheTyped, VerifyType, EntriesExpire
  <1>6. Past' /\ AnswersFresh' /\ Undecided' /\ Token!DecidedRecently'
    BY <1>1, <1>2, <1>4 DEF Token!Bounds, CacheInv, CacheTyped, VerifyType, Past, AnswersFresh, Undecided, Token!DecidedRecently
  <1> QED BY <1>3, <1>5, <1>6 DEF CacheInv

\* Time passes, and the token is revoked or issued again.
LEMMA WorldSteps == ASSUME Token!Bounds, CacheInv, Token!Tick \/ Token!Revoke PROVE CacheInv'
  <1>0. valid' \in BOOLEAN
    BY DEF Token!Tick, Token!Revoke, CacheInv, CacheTyped
  <1>1. task' = task /\ pos' = pos /\ neg' = neg /\ lastBad' = lastBad
    BY DEF Token!Tick, Token!Revoke
  <1>2. /\ clock <= clock' /\ lastValid <= lastValid' /\ lastValid' <= clock'
        /\ clock' \in Nat /\ lastValid' \in Nat
    <2> USE DEF CacheInv, CacheTyped, Past
    <2>1. CASE Token!Tick
      BY <2>1 DEF Token!Tick
    <2>2. CASE Token!Revoke /\ valid
      BY <2>2 DEF Token!Revoke
    <2>3. CASE Token!Revoke /\ ~valid
      BY <2>3 DEF Token!Revoke
    <2> QED BY <2>1, <2>2, <2>3
  <1>3. CacheTyped'
    BY <1>0, <1>1, <1>2 DEF CacheInv, CacheTyped
  <1>4. Past'
    <2>1. valid' => lastValid' = clock'
      BY DEF Token!Tick, Token!Revoke, CacheInv, CacheTyped, Past
    <2>2. lastBad' <= clock' /\ \A t \in Tasks : task'[t].now <= clock'
      BY <1>1, <1>2 DEF CacheInv, CacheTyped, VerifyType, Past
    <2> QED BY <1>2, <2>1, <2>2 DEF Past
  <1>5. EntriesExpire'
    <2>1. TTL \in Nat /\ pos \in Nat /\ neg \in Nat /\ lastValid \in Nat /\ lastBad \in Nat
      BY DEF Token!Bounds, CacheInv, CacheTyped
    <2>2. pos <= lastValid + TTL /\ neg <= lastBad + TTL
      BY DEF CacheInv, EntriesExpire
    <2>3. lastValid <= lastValid' /\ lastValid' \in Nat
      BY <1>2
    <2>4. pos <= lastValid' + TTL
      BY <2>1, <2>2, <2>3, Later
    <2> QED BY <1>1, <2>2, <2>4 DEF EntriesExpire
  <1>6. AnswersFresh' /\ Undecided'
    BY <1>1, <1>2 DEF CacheInv, CacheTyped, VerifyType, AnswersFresh, Undecided
  <1>7. Token!DecidedRecently'
    <2> SUFFICES ASSUME NEW t \in Tasks, task[t].how = "cache"
                 PROVE task[t].now < (IF task[t].pc = "accepted" THEN lastValid' ELSE lastBad) + TTL
      BY <1>1 DEF Token!DecidedRecently
    <2>1. task[t].now < (IF task[t].pc = "accepted" THEN lastValid ELSE lastBad) + TTL
      BY DEF CacheInv, Token!DecidedRecently
    <2> QED BY <1>2, <2>1 DEF Token!Bounds, CacheInv, CacheTyped, VerifyType
  <1> QED BY <1>3, <1>4, <1>5, <1>6, <1>7 DEF CacheInv

LEMMA CacheStep == ASSUME Token!Bounds, CacheInv, [Token!Next]_token PROVE CacheInv'
  <1>1. CASE UNCHANGED token
    BY <1>1 DEF token, CacheInv, CacheTyped, Past, EntriesExpire, AnswersFresh, Undecided, Token!DecidedRecently
  <1>2. CASE Token!Next
    BY <1>2, VerifyBegins, IdentityAnswered, AcceptStep, DenyStep, WorldSteps DEF Token!Next
  <1> QED BY <1>1, <1>2

-----------------------------------------------------------------------------
(* The exchange of a streamed reply *)

\* While the client wants tokens it has had all that were taken; "done" and "reply" are
\* only told at the end, by which nothing is taken any more.
ExchangeInv ==
  /\ Stream!TypeOK
  /\ x.sent <= x.taken /\ (x.pc # "end" /\ x.want => x.sent = x.taken)
  /\ x.pc # "end" => "done" \notin x.told /\ "reply" \notin x.told /\ x.stored = Stream!NoMessage
  /\ Stream!DoneMeansStored

ExchangeShape ==
  [front: {"rest", "rpc"}, want: BOOLEAN, pc: {"read", "store", "cancel", "end"},
   taken: 0..MaxTokens, sent: 0..MaxTokens, stored: 0..(MaxTokens + 1),
   told: SUBSET {"error", "done", "cancelled", "reply"}]

LEMMA ExchangeFacts ==
  ASSUME ExchangeInv
  PROVE /\ x \in ExchangeShape /\ client \in {"here", "gone"}
        /\ upstream \in {"open", "complete", "failed", "slow"}
        /\ x.sent <= x.taken /\ (x.pc # "end" /\ x.want => x.sent = x.taken)
        /\ x.pc # "end" => "done" \notin x.told /\ "reply" \notin x.told /\ x.stored = MaxTokens + 1
  BY DEF ExchangeInv, ExchangeShape, Stream!TypeOK, Stream!NoMessage

LEMMA ExchangeInit == ASSUME MaxTokens \in Nat, Stream!Init PROVE ExchangeInv
  <1>1. PICK front \in {"rest", "rpc"}, want \in BOOLEAN :
          x = [front |-> front, want |-> want, pc |-> "read", taken |-> 0, sent |-> 0,
               stored |-> MaxTokens + 1, told |-> {}]
    BY DEF Stream!Init, Stream!Exchange, Stream!NoMessage
  <1>2. x \in ExchangeShape
    BY <1>1 DEF ExchangeShape
  <1> QED BY <1>1, <1>2
          DEF Stream!Init, ExchangeInv, ExchangeShape, Stream!TypeOK, Stream!NoMessage, Stream!DoneMeansStored

LEMMA ExchangeStep == ASSUME MaxTokens \in Nat, ExchangeInv, [Stream!Next]_stream PROVE ExchangeInv'
  <1> DEFINE Facts == /\ x \in ExchangeShape /\ client \in {"here", "gone"}
                      /\ upstream \in {"open", "complete", "failed", "slow"}
                      /\ x.sent <= x.taken /\ (x.pc # "end" /\ x.want => x.sent = x.taken)
                      /\ x.pc # "end" => "done" \notin x.told /\ "reply" \notin x.told /\ x.stored = MaxTokens + 1
             World == client' \in {"here", "gone"} /\ upstream' \in {"open", "complete", "failed", "slow"}
  <1>a. Facts
    BY ExchangeFacts
  <1>b. ASSUME NEW front \in {"rest", "rpc"}, NEW pc \in {"read", "store", "cancel", "end"}, NEW tk \in 0..MaxTokens, NEW st \in 0..MaxTokens,
               NEW so \in 0..(MaxTokens + 1), NEW want \in BOOLEAN,
               NEW told \in SUBSET {"error", "done", "cancelled", "reply"},
               x' = [front |-> front, want |-> want, pc |-> pc, taken |-> tk, sent |-> st, stored |-> so,
                     told |-> told],
               World, st <= tk, pc # "end" /\ want => st = tk,
               pc # "end" => "done" \notin told /\ "reply" \notin told /\ so = MaxTokens + 1,
               "done" \in told => st = tk /\ so = IF tk = 0 THEN MaxTokens + 1 ELSE st,
               "reply" \in told => so = tk
        PROVE ExchangeInv'
    <2>1. x' \in ExchangeShape
      BY <1>a, <1>b DEF ExchangeShape
    <2> QED BY <1>b, <2>1 DEF ExchangeInv, ExchangeShape, Stream!TypeOK, Stream!NoMessage, Stream!DoneMeansStored
  <1>0. CASE UNCHANGED stream
    BY <1>0 DEF stream, ExchangeInv, Stream!TypeOK, Stream!NoMessage, Stream!DoneMeansStored
  <1>1. CASE Stream!Begin
    <2>1. PICK front \in {"rest", "rpc"}, want \in BOOLEAN :
            x' = [front |-> front, want |-> want, pc |-> "read", taken |-> 0, sent |-> 0,
                 stored |-> MaxTokens + 1, told |-> {}]
      BY <1>1 DEF Stream!Begin, Stream!Exchange, Stream!NoMessage
    <2> QED BY <1>1, <1>b, <2>1 DEF Stream!Begin
  <1>3. ASSUME NEW event \in {"error", "cancelled"}, Stream!EndWith(event), x.pc # "end", World
        PROVE ExchangeInv'
    <2>1. x' = [front |-> x.front, want |-> x.want, pc |-> "end", taken |-> x.taken, sent |-> x.sent,
                stored |-> x.stored, told |-> x.told \cup {event}]
      BY <1>a, <1>3 DEF Stream!EndWith, ExchangeShape
    <2> QED BY <1>a, <1>b, <1>3, <2>1 DEF ExchangeShape
  <1>4. ASSUME NEW pc \in {"store", "cancel", "end"}, Stream!Goto(pc), x.pc # "end", World
        PROVE ExchangeInv'
    <2>1. x' = [front |-> x.front, want |-> x.want, pc |-> pc, taken |-> x.taken, sent |-> x.sent,
                stored |-> x.stored, told |-> x.told]
      BY <1>a, <1>4 DEF Stream!Goto, ExchangeShape
    <2> QED BY <1>a, <1>b, <1>4, <2>1 DEF ExchangeShape
  <1>5. CASE Stream!Token
    <2>1. x.pc = "read" /\ x.taken < MaxTokens /\ UNCHANGED <<client, upstream>>
      BY <1>5 DEF Stream!Token, Stream!Reading
    <2>2. CASE Stream!Goto("cancel")
      BY <1>a, <1>4, <2>1, <2>2
    <2>3. CASE \E emitted \in Stream!Emits : Stream!Took(emitted, emitted)
      <3>1. PICK emitted \in BOOLEAN : Stream!Took(emitted, emitted) /\ (emitted => x.want)
        BY <2>3 DEF Stream!Emits
      <3>2. x' = [front |-> x.front, want |-> emitted, pc |-> x.pc, taken |-> x.taken + 1,
                  sent |-> IF emitted THEN x.sent + 1 ELSE x.sent, stored |-> x.stored, told |-> x.told]
        BY <1>a, <3>1 DEF Stream!Took, ExchangeShape
      <3>3. x.taken + 1 \in 0..MaxTokens /\ (emitted => x.sent = x.taken) /\ x.sent \in 0..MaxTokens
        BY <1>a, <2>1, <3>1 DEF ExchangeShape
      <3>4. (IF emitted THEN x.sent + 1 ELSE x.sent) \in 0..MaxTokens
        BY <3>3
      <3> QED BY <1>a, <1>b, <2>1, <3>2, <3>3, <3>4 DEF ExchangeShape
    <2> QED BY <1>5, <2>2, <2>3 DEF Stream!Token
  <1>6. CASE Stream!Slow \/ Stream!Complete
    BY <1>a, <1>4, <1>6 DEF Stream!Slow, Stream!Complete, Stream!Reading
  <1>7. CASE Stream!ErrorChunk
    <2>1. x.pc = "read" /\ UNCHANGED client /\ upstream' = "failed"
      BY <1>7 DEF Stream!ErrorChunk, Stream!Reading
    <2>2. CASE Stream!Goto("cancel")
      BY <1>a, <1>4, <2>1, <2>2
    <2>3. CASE x' = [x EXCEPT !.pc = "store", !.told = @ \cup {"error"}]
      <3>1. x' = [front |-> x.front, want |-> x.want, pc |-> "store", taken |-> x.taken, sent |-> x.sent,
                  stored |-> x.stored, told |-> x.told \cup {"error"}]
        BY <1>a, <2>3 DEF ExchangeShape
      <3> QED BY <1>a, <1>b, <2>1, <3>1 DEF ExchangeShape
    <2> QED BY <1>7, <2>2, <2>3 DEF Stream!ErrorChunk
  <1>8. CASE Stream!BadChunk \/ Stream!Fails \/ Stream!Cancel \/ Stream!Abandon
    BY <1>a, <1>3, <1>4, <1>8
       DEF Stream!BadChunk, Stream!Fails, Stream!Cancel, Stream!Abandon, Stream!Reading
  <1>9. CASE Stream!Store
    <2>1. x.pc = "store" /\ UNCHANGED <<client, upstream>>
      BY <1>9 DEF Stream!Store
    <2>2. CASE x.taken = 0 /\ Stream!EndWith("done")
      <3>1. x' = [front |-> x.front, want |-> x.want, pc |-> "end", taken |-> x.taken, sent |-> x.sent,
                  stored |-> x.stored, told |-> x.told \cup {"done"}]
        BY <1>a, <2>2 DEF Stream!EndWith, ExchangeShape
      <3> QED BY <1>a, <1>b, <2>1, <2>2, <3>1 DEF ExchangeShape
    <2>3. CASE Stream!EndWith("error")
      BY <1>a, <1>3, <2>1, <2>3
    <2>4. CASE x.taken > 0 /\ x' = [x EXCEPT !.pc = "end", !.stored = x.taken,
                          !.told = @ \cup (IF x.want THEN {"done"} ELSE {})
                                     \cup (IF Stream!Rest THEN {} ELSE {"reply"})]
      <3> DEFINE told == x.told \cup (IF x.want THEN {"done"} ELSE {}) \cup (IF Stream!Rest THEN {} ELSE {"reply"})
      <3>1. x' = [front |-> x.front, want |-> x.want, pc |-> "end", taken |-> x.taken, sent |-> x.sent,
                  stored |-> x.taken, told |-> told]
        BY <1>a, <2>4 DEF ExchangeShape
      <3>2. told \in SUBSET {"error", "done", "cancelled", "reply"} /\ ("done" \in told => x.want)
        BY <1>a, <2>1 DEF ExchangeShape
      <3>3. x.front \in {"rest", "rpc"} /\ x.want \in BOOLEAN /\ x.taken \in 0..MaxTokens
            /\ x.sent \in 0..MaxTokens /\ x.taken \in 0..(MaxTokens + 1) /\ x.sent <= x.taken
            /\ (x.want => x.sent = x.taken) /\ World
        BY <1>a, <2>1 DEF ExchangeShape
      <3> HIDE DEF told
      <3>4. "done" \in told => x.sent = x.taken /\ x.taken = IF x.taken = 0 THEN MaxTokens + 1 ELSE x.sent
        BY <2>4, <3>2, <3>3
      <3>5. told \in SUBSET {"error", "done", "cancelled", "reply"}
        BY <3>2
      <3> QED BY <1>b, <3>1, <3>3, <3>4, <3>5
    <2> QED BY <1>9, <2>2, <2>3, <2>4 DEF Stream!Store
  <1>10. CASE Stream!ClientGoes
    BY <1>10 DEF Stream!ClientGoes, ExchangeInv, Stream!TypeOK, Stream!NoMessage, Stream!DoneMeansStored
  <1> QED BY <1>0, <1>1, <1>5, <1>6, <1>7, <1>8, <1>9, <1>10 DEF Stream!Next

-----------------------------------------------------------------------------
(* Attachments *)

Adding(t) == access[t].pc \in {"copy", "insert"}
Deleting(t) == access[t].pc \in {"check", "unlink", "drop"}
Dropping(a) == \E t \in Tasks : access[t].pc = "drop" /\ access[t].att = a
Excused(p) == p \in twice \/ p.dir \in gone
Closed(p) == home[p.chat] = None
Clearing(p) == \E t \in Tasks :
  /\ access[t].pc \in {"removeDir", "removeTree"} /\ access[t].path.dir = p.dir
  /\ access[t].pc = "removeDir" => access[t].path.chat = p.chat

\* What a call holds at its step, and what a row names.
Accesses == \A t \in Tasks :
  /\ access[t].pc # "idle" => access[t].path \in Attachment!Paths
  /\ Adding(t) \/ Deleting(t) => access[t].att \in 1..adds /\ access[t].path.name \in {0, access[t].att}
  /\ access[t].pc = "copy" => access[t].path.name = 0
  /\ ~Adding(t) /\ ~Deleting(t) => access[t].att = 0
  /\ access[t].pc = "removeDir" => Closed(access[t].path)
  /\ access[t].pc = "removeTree" => access[t].path.dir \in gone
RowShapes == \A a \in 1..MaxAdds : attached[a] # None =>
  /\ attached[a] \in Attachment!Paths /\ a <= adds /\ ~Closed(attached[a])
  /\ attached[a].name \in {0, a}

\* An attachment has no row while the one call that adds it runs; a deletion keeps the
\* path it read, and nobody else changes the row but a second deletion.
OneAdder == \A t \in Tasks : Adding(t) =>
  attached[access[t].att] = None /\ \A u \in Tasks : u # t => access[u].att # access[t].att
DeleteReads == \A t \in Tasks : Deleting(t) =>
  /\ attached[access[t].att] \in {access[t].path, None}
  /\ attached[access[t].att] = None => access[t].path \in twice \/ Closed(access[t].path)
TwoDeletes == \A t, u \in Tasks :
  t # u /\ Deleting(t) /\ Deleting(u) /\ access[t].att = access[u].att => access[t].path \in twice

\* The bytes of a row are there until a deletion of it unlinked them, and those of a
\* row about to be inserted are.
Bytes == \A a \in 1..MaxAdds : attached[a] # None =>
  attached[a] \in disk \/ Dropping(a) \/ Excused(attached[a])
NewBytes == \A t \in Tasks : access[t].pc = "insert" =>
  access[t].path \in disk \/ Excused(access[t].path) \/ Closed(access[t].path)

\* A path is used a second time only once a deletion of the first row unlinked it, so that
\* what a deletion still has to unlink is only its own.
Shared == \A a, b \in 1..MaxAdds : a # b /\ attached[a] # None /\ attached[a] = attached[b] =>
  Dropping(a) \/ Dropping(b) \/ Excused(attached[a])
SharedDelete == \A t \in Tasks, a \in 1..MaxAdds :
  access[t].pc \in {"check", "unlink"} /\ attached[a] = access[t].path /\ a # access[t].att =>
    attached[a] = None \/ Dropping(a) \/ Excused(attached[a])
SharedNew == \A t \in Tasks : access[t].pc = "insert" =>
  /\ \A a \in 1..MaxAdds : attached[a] # None /\ attached[a] = access[t].path =>
       Dropping(a) \/ Excused(attached[a])
  /\ \A u \in Tasks :
       u # t /\ access[u].path = access[t].path /\ access[u].pc \in {"check", "unlink", "insert"} =>
         Excused(access[t].path) \/ Closed(access[t].path)

\* Of a chat that did not stray, all bytes are where it is or was: what is on disk has a
\* row or gets one, or, when the chat is deleted, is being removed.
Straying == \A t \in Tasks : Adding(t) /\ Closed(access[t].path) => access[t].path.chat \in strayed
AtHome == \A c \in Chats : c \notin strayed /\ home[c] # None =>
  /\ home[c] \in Projects
  /\ \A p \in disk : p.chat = c => p.dir = home[c]
  /\ \A t \in Tasks : (Adding(t) \/ access[t].pc = "dropChat") /\ access[t].path.chat = c =>
       access[t].path.dir = home[c]
Holder(p) ==
  \/ \E a \in 1..MaxAdds : attached[a] = p /\ ~Dropping(a)
  \/ \E t \in Tasks : access[t].pc = "insert" /\ access[t].path = p
Owned == \A p \in disk : p.chat \notin strayed =>
  /\ Closed(p) => Clearing(p)
  /\ ~Closed(p) => Holder(p)

AttachmentInv ==
  /\ Attachment!TypeOK /\ Accesses /\ RowShapes
  /\ OneAdder /\ DeleteReads /\ TwoDeletes
  /\ Bytes /\ NewBytes /\ Shared /\ SharedDelete /\ SharedNew
  /\ Straying /\ AtHome /\ Owned

LEMMA AddBeginStep ==
  ASSUME AttachmentInv, NEW t \in Tasks, NEW c \in Chats, Attachment!AddBegin(t, c)
  PROVE AttachmentInv'
  <1>a. Attachment!TypeOK /\ Accesses /\ RowShapes /\ OneAdder /\ DeleteReads /\ TwoDeletes /\ Bytes
        /\ NewBytes /\ Shared /\ SharedDelete /\ SharedNew /\ Straying /\ AtHome /\ Owned
    BY DEF AttachmentInv
  <1>e. /\ access[t].pc = "idle" /\ home[c] # None /\ adds' = adds + 1 /\ adds \in 0..MaxAdds /\ adds + 1 \in 1..MaxAdds
        /\ access'[t].pc = "copy" /\ access'[t].att = adds + 1 /\ access'[t].path \in Attachment!Paths
        /\ access'[t].path.dir = home[c] /\ access'[t].path.chat = c /\ access'[t].path.name = 0
        /\ \A u \in Tasks : u # t => access'[u] = access[u]
        /\ access' \in [Tasks -> [pc : Attachment!Steps, att : 0..MaxAdds, path : Attachment!Paths \cup {None}]]
        /\ UNCHANGED <<home, gone, attached, disk, strayed, twice>>
    BY <1>a, AttachmentAssumption DEF Attachment!AddBegin, Attachment!At, Attachment!Goto, Attachment!Return, Attachment!Idle, Attachment!TypeOK, Attachment!Steps, Attachment!Bounds, Attachment!Atts, Attachment!Plain, Attachment!Paths
  <1>p. /\ \A a \in 1..MaxAdds : attached[a] # None => attached[a] \in Attachment!Paths
        /\ \A u \in Tasks : access[u].pc # "idle" => access[u].path \in Attachment!Paths
        /\ disk \subseteq Attachment!Paths
    BY <1>a DEF Accesses, RowShapes, Attachment!TypeOK
  <1>m1. \A a \in 1..MaxAdds : Dropping(a)' <=> Dropping(a)
    BY <1>e DEF Dropping, Attachment!TypeOK
  <1>m2. \A p \in Attachment!Paths : Excused(p)' <=> Excused(p)
    BY <1>e DEF Excused, Attachment!Paths, Attachment!TypeOK
  <1>m3. \A p \in Attachment!Paths : Closed(p)' <=> Closed(p)
    BY <1>e DEF Closed, Attachment!Paths, Attachment!TypeOK
  <1>m4. \A p \in Attachment!Paths : Holder(p) => Holder(p)'
    BY <1>e DEF Holder, Dropping, Attachment!TypeOK
  <1>m5. \A p \in Attachment!Paths : Clearing(p) => Clearing(p)'
    BY <1>e DEF Clearing, Attachment!TypeOK
  <1>1. Attachment!TypeOK'
    BY <1>a, <1>e, <1>p DEF Attachment!TypeOK, Attachment!Atts
  <1>2. Accesses'
    BY <1>a, <1>e, <1>p, <1>m1, <1>m2, <1>m3, <1>m4, <1>m5, <1>1 DEF Accesses, RowShapes, Adding, Deleting, Attachment!TypeOK
  <1>3. RowShapes'
    BY <1>a, <1>e, <1>p, <1>m1, <1>m2, <1>m3, <1>m4, <1>m5, <1>1 DEF RowShapes, Accesses
  <1>4. OneAdder'
    BY <1>a, <1>e, <1>p, <1>1 DEF OneAdder, RowShapes, Accesses, Adding, Deleting, Attachment!TypeOK
  <1>5. DeleteReads'
    BY <1>a, <1>e, <1>p, <1>m1, <1>m2, <1>m3, <1>m4, <1>m5, <1>1 DEF DeleteReads, OneAdder, TwoDeletes, Accesses, RowShapes, Deleting, Adding, Attachment!TypeOK
  <1>6. TwoDeletes'
    BY <1>a, <1>e, <1>p, <1>1 DEF TwoDeletes, DeleteReads, OneAdder, Deleting, Adding, Attachment!TypeOK
  <1>7. Bytes'
    BY <1>a, <1>e, <1>p, <1>m1, <1>m2, <1>m3, <1>m4, <1>m5, <1>1 DEF Bytes, NewBytes, SharedDelete
  <1>8. NewBytes'
    BY <1>a, <1>e, <1>p, <1>m1, <1>m2, <1>m3, <1>m4, <1>m5, <1>1 DEF NewBytes, SharedNew, Attachment!TypeOK
  <1>9. Shared'
    BY <1>a, <1>e, <1>p, <1>m1, <1>m2, <1>m3, <1>m4, <1>m5, <1>1 DEF Shared, SharedNew, Attachment!TypeOK
  <1>10. SharedDelete'
    BY <1>a, <1>e, <1>p, <1>m1, <1>m2, <1>m3, <1>m4, <1>m5, <1>1 DEF SharedDelete, SharedNew
  <1>11. SharedNew'
    BY <1>a, <1>e, <1>p, <1>m1, <1>m2, <1>m3, <1>m4, <1>m5, <1>1 DEF SharedNew, Bytes, NewBytes, TwoDeletes, DeleteReads
  <1>12. Straying'
    BY <1>a, <1>e, <1>p, <1>1 DEF Straying, Adding, Attachment!TypeOK, Closed
  <1>13. AtHome'
    BY <1>a, <1>e, <1>p, <1>1 DEF AtHome, Straying, Adding, Attachment!TypeOK
  <1>14. Owned'
    BY <1>a, <1>e, <1>p, <1>m1, <1>m2, <1>m3, <1>m4, <1>m5, <1>1 DEF Owned, AtHome, Straying, OneAdder
  <1> QED BY <1>1, <1>2, <1>3, <1>4, <1>5, <1>6, <1>7, <1>8, <1>9, <1>10, <1>11, <1>12, <1>13, <1>14 DEF AttachmentInv

LEMMA AddCopyStep ==
  ASSUME AttachmentInv, NEW t \in Tasks, Attachment!AddCopy(t)
  PROVE AttachmentInv'
  <1>a. Attachment!TypeOK /\ Accesses /\ RowShapes /\ OneAdder /\ DeleteReads /\ TwoDeletes /\ Bytes
        /\ NewBytes /\ Shared /\ SharedDelete /\ SharedNew /\ Straying /\ AtHome /\ Owned
    BY DEF AttachmentInv
  <1>e. /\ access[t].pc = "copy" /\ access'[t].pc = "insert" /\ access'[t].att = access[t].att
        /\ access'[t].path \in Attachment!Paths /\ access[t].path \in Attachment!Paths
        /\ access'[t].path.dir = access[t].path.dir /\ access'[t].path.chat = access[t].path.chat
        /\ \/ access'[t].path = access[t].path /\ access[t].path.name = 0 /\ access[t].path \notin disk
           \/ access'[t].path.name = access[t].att /\ access[t].att # 0
        /\ access[t].att \in 1..adds /\ disk' = disk \cup {access'[t].path}
        /\ \A u \in Tasks : u # t => access'[u] = access[u]
        /\ access' \in [Tasks -> [pc : Attachment!Steps, att : 0..MaxAdds, path : Attachment!Paths \cup {None}]]
        /\ UNCHANGED <<home, gone, attached, adds, strayed, twice>>
    <2> DEFINE old == access[t].path
               new == [old EXCEPT !.name = IF old \in disk THEN access[t].att ELSE 0]
    <2>1. /\ access[t].pc = "copy" /\ old \in Attachment!Paths /\ old.name = 0
          /\ access[t].att \in 1..adds /\ access[t].att \in 0..MaxAdds
      BY <1>a DEF Attachment!AddCopy, Attachment!At, Accesses, Adding, Attachment!TypeOK
    <2>2. /\ new \in Attachment!Paths /\ new.dir = old.dir /\ new.chat = old.chat
          /\ new.name = IF old \in disk THEN access[t].att ELSE 0
      BY <2>1 DEF Attachment!Paths, Attachment!Bounds
    <2>3. old \notin disk => new = old
      BY <2>1 DEF Attachment!Paths
    <2>4. /\ access' = [access EXCEPT ![t] = [@ EXCEPT !.pc = "insert", !.path = new]]
          /\ disk' = disk \cup {new} /\ UNCHANGED <<home, gone, attached, adds, strayed, twice>>
      BY DEF Attachment!AddCopy
    <2>5. access'[t] = [pc |-> "insert", att |-> access[t].att, path |-> new]
      BY <1>a, <2>4 DEF Attachment!TypeOK
    <2> HIDE DEF new
    <2> QED BY <1>a, <2>1, <2>2, <2>3, <2>4, <2>5 DEF Attachment!TypeOK, Attachment!Steps
  <1>p. /\ \A a \in 1..MaxAdds : attached[a] # None => attached[a] \in Attachment!Paths
        /\ \A u \in Tasks : access[u].pc # "idle" => access[u].path \in Attachment!Paths
        /\ disk \subseteq Attachment!Paths
    BY <1>a DEF Accesses, RowShapes, Attachment!TypeOK
  <1>m1. \A a \in 1..MaxAdds : Dropping(a)' <=> Dropping(a)
    BY <1>e DEF Dropping, Attachment!TypeOK
  <1>m2. \A p \in Attachment!Paths : Excused(p)' <=> Excused(p)
    BY <1>e DEF Excused, Attachment!Paths, Attachment!TypeOK
  <1>m3. \A p \in Attachment!Paths : Closed(p)' <=> Closed(p)
    BY <1>e DEF Closed, Attachment!Paths, Attachment!TypeOK
  <1>m4. \A p \in Attachment!Paths : Holder(p) => Holder(p)'
    BY <1>e DEF Holder, Dropping, Attachment!TypeOK
  <1>m5. \A p \in Attachment!Paths : Clearing(p) => Clearing(p)'
    BY <1>e DEF Clearing, Attachment!TypeOK
  <1>1. Attachment!TypeOK'
    BY <1>a, <1>e, <1>p DEF Attachment!TypeOK, Attachment!Atts
  <1>2. Accesses'
    BY <1>a, <1>e, <1>p, <1>m1, <1>m2, <1>m3, <1>m4, <1>m5, <1>1 DEF Accesses, RowShapes, Adding, Deleting, Attachment!TypeOK
  <1>3. RowShapes'
    BY <1>a, <1>e, <1>p, <1>m1, <1>m2, <1>m3, <1>m4, <1>m5, <1>1 DEF RowShapes, Accesses
  <1>4. OneAdder'
    BY <1>a, <1>e, <1>p, <1>1 DEF OneAdder, RowShapes, Accesses, Adding, Deleting, Attachment!TypeOK
  <1>5. DeleteReads'
    BY <1>a, <1>e, <1>p, <1>m1, <1>m2, <1>m3, <1>m4, <1>m5, <1>1 DEF DeleteReads, OneAdder, TwoDeletes, Accesses, RowShapes, Deleting, Adding, Attachment!TypeOK
  <1>6. TwoDeletes'
    BY <1>a, <1>e, <1>p, <1>1 DEF TwoDeletes, DeleteReads, OneAdder, Deleting, Adding, Attachment!TypeOK
  <1>7. Bytes'
    BY <1>a, <1>e, <1>p, <1>m1, <1>m2, <1>m3, <1>m4, <1>m5, <1>1 DEF Bytes, NewBytes, SharedDelete
  <1>8. NewBytes'
    BY <1>a, <1>e, <1>p, <1>m1, <1>m2, <1>m3, <1>m4, <1>m5, <1>1 DEF NewBytes, SharedNew, Attachment!TypeOK
  <1>9. Shared'
    BY <1>a, <1>e, <1>p, <1>m1, <1>m2, <1>m3, <1>m4, <1>m5, <1>1 DEF Shared, SharedNew, Attachment!TypeOK
  <1>10. SharedDelete'
    BY <1>a, <1>e, <1>p, <1>m1, <1>m2, <1>m3, <1>m4, <1>m5, <1>1 DEF SharedDelete, SharedNew
  <1>11. SharedNew'
    <2> DEFINE new == access'[t].path
    <2>0. new \notin disk \/ (new.name = access[t].att /\ access[t].att # 0)
      BY <1>e
    <2>1. ASSUME NEW v \in Tasks, v # t, access[v].path = new, access[v].pc \in {"check", "unlink", "insert"}
          PROVE Excused(new) \/ Closed(new)
      <3>1. CASE new.name = access[t].att /\ access[t].att # 0
        BY <1>a, <1>e, <2>1, <3>1 DEF Accesses, OneAdder, Adding, Deleting
      <3>2. CASE new \notin disk /\ access[v].pc = "insert"
        BY <1>a, <2>1, <3>2 DEF NewBytes
      <3>3. CASE new \notin disk /\ access[v].pc # "insert"
        <4>1. Deleting(v) /\ access[v].att \in 1..MaxAdds
          BY <1>a, <2>1, <3>3 DEF Deleting, Accesses, Attachment!TypeOK
        <4>2. CASE attached[access[v].att] = None
          BY <1>a, <2>1, <4>1, <4>2 DEF DeleteReads, Excused
        <4>3. CASE attached[access[v].att] # None
          <5>1. attached[access[v].att] = new /\ (Dropping(access[v].att) \/ Excused(new))
            BY <1>a, <2>1, <3>3, <4>1, <4>3 DEF DeleteReads, Bytes
          <5>2. CASE Dropping(access[v].att)
            <6>1. PICK w \in Tasks : access[w].pc = "drop" /\ access[w].att = access[v].att
              BY <5>2 DEF Dropping
            <6> QED BY <1>a, <2>1, <4>1, <6>1 DEF TwoDeletes, Deleting, Excused
          <5> QED BY <5>1, <5>2
        <4> QED BY <4>2, <4>3
      <3> QED BY <2>0, <3>1, <3>2, <3>3
    <2>2. ASSUME NEW a \in 1..MaxAdds, attached[a] # None, attached[a] = new
          PROVE Dropping(a) \/ Excused(new)
      BY <1>a, <1>e, <2>0, <2>2 DEF Bytes, RowShapes, OneAdder, Adding
    <2> QED BY <1>a, <1>e, <1>p, <1>m1, <1>m2, <1>m3, <2>1, <2>2 DEF SharedNew
  <1>12. Straying'
    BY <1>a, <1>e, <1>p, <1>1 DEF Straying, Adding, Attachment!TypeOK, Closed
  <1>13. AtHome'
    BY <1>a, <1>e, <1>p, <1>1 DEF AtHome, Straying, Adding, Attachment!TypeOK
  <1>14. Owned'
    <2> PICK new \in Attachment!Paths : new = access'[t].path
      BY <1>e
    <2>1. new.chat \notin strayed => ~Closed(new)
      BY <1>a, <1>e DEF Straying, Adding, Closed
    <2>2. Holder(new)'
      BY <1>e DEF Holder
    <2>3. ASSUME NEW p \in Attachment!Paths, p \in disk \cup {new}, p.chat \notin strayed
          PROVE (Closed(p)' => Clearing(p)') /\ (~Closed(p)' => Holder(p)')
      <3>1. CASE p = new
        BY <1>m3, <2>1, <2>2, <2>3, <3>1
      <3>2. CASE p \in disk
        BY <1>a, <1>m3, <1>m4, <1>m5, <2>3, <3>2 DEF Owned
      <3> QED BY <2>3, <3>1, <3>2
    <2> QED BY <1>e, <1>p, <2>3 DEF Owned
  <1> QED BY <1>1, <1>2, <1>3, <1>4, <1>5, <1>6, <1>7, <1>8, <1>9, <1>10, <1>11, <1>12, <1>13, <1>14 DEF AttachmentInv

LEMMA AddInsertStep ==
  ASSUME AttachmentInv, NEW t \in Tasks, Attachment!AddInsert(t)
  PROVE AttachmentInv'
  <1>a. Attachment!TypeOK /\ Accesses /\ RowShapes /\ OneAdder /\ DeleteReads /\ TwoDeletes /\ Bytes
        /\ NewBytes /\ Shared /\ SharedDelete /\ SharedNew /\ Straying /\ AtHome /\ Owned
    BY DEF AttachmentInv
  <1>e. /\ access[t].pc = "insert" /\ access[t].att \in 1..MaxAdds /\ access[t].path \in Attachment!Paths /\ access[t].att <= adds
        /\ access'[t].pc = "idle" /\ access'[t].att = 0
        /\ \A a \in 1..MaxAdds : a # access[t].att => attached'[a] = attached[a]
        /\ Closed(access[t].path) => attached'[access[t].att] = attached[access[t].att]
        /\ ~Closed(access[t].path) => attached'[access[t].att] = access[t].path
        /\ \A u \in Tasks : u # t => access'[u] = access[u]
        /\ \A u \in Tasks : access'[u].pc # "idle" => u # t /\ access[u] = access'[u]
        /\ UNCHANGED <<home, gone, disk, adds, strayed, twice>>
    BY <1>a, AttachmentAssumption DEF Attachment!AddInsert, Attachment!At, Attachment!Goto, Attachment!Return, Attachment!Idle, Attachment!TypeOK, Attachment!Steps, Attachment!Bounds, Attachment!Atts, Accesses, Adding, Closed
  <1>f. /\ access' \in [Tasks -> [pc : Attachment!Steps, att : 0..MaxAdds, path : Attachment!Paths \cup {None}]]
        /\ attached' \in [1..MaxAdds -> Attachment!Paths \cup {None}]
    BY <1>a, AttachmentAssumption DEF Attachment!AddInsert, Attachment!At, Attachment!Goto, Attachment!Return, Attachment!Idle, Attachment!TypeOK, Attachment!Steps, Attachment!Bounds, Attachment!Atts, Accesses, Adding, Closed
  <1>q. \A u \in Tasks : access[u].att \in 0..MaxAdds /\ (Adding(u) \/ Deleting(u) => access[u].att \in 1..MaxAdds)
    BY <1>a DEF Accesses, Attachment!TypeOK
  <1>p. /\ \A a \in 1..MaxAdds : attached[a] # None => attached[a] \in Attachment!Paths
        /\ \A u \in Tasks : access[u].pc # "idle" => access[u].path \in Attachment!Paths
        /\ disk \subseteq Attachment!Paths
    BY <1>a DEF Accesses, RowShapes, Attachment!TypeOK
  <1>m1. \A a \in 1..MaxAdds : Dropping(a)' <=> Dropping(a)
    BY <1>a, <1>e DEF Dropping
  <1>m2. \A p \in Attachment!Paths : Excused(p)' <=> Excused(p)
    BY <1>e DEF Excused, Attachment!Paths
  <1>m3. \A p \in Attachment!Paths : Closed(p)' <=> Closed(p)
    BY <1>e DEF Closed, Attachment!Paths
  <1>m4. \A p \in Attachment!Paths : Clearing(p) => Clearing(p)'
    BY <1>a, <1>e DEF Clearing
  <1>n1. \A a \in 1..MaxAdds : attached'[a] # None => attached'[a] = attached[a] \/ (a = access[t].att /\ ~Closed(access[t].path) /\ attached'[a] = access[t].path)
    BY <1>e, <1>p, <1>q
  <1>n2. attached[access[t].att] = None /\ ~Dropping(access[t].att)
    BY <1>a, <1>e, <1>p, <1>q DEF OneAdder, Accesses, Adding, Dropping
  <1>n3. \A u \in Tasks : u # t => access[u].att # access[t].att
    BY <1>a, <1>e, <1>p, <1>q DEF OneAdder, Adding
  <1>n4. None \notin Attachment!Paths
    BY <1>e, <1>p, <1>q, AttachmentAssumption DEF Attachment!Bounds
  <1>n5. \A a \in 1..MaxAdds : attached[a] # None => a # access[t].att /\ attached'[a] = attached[a]
    BY <1>e, <1>p, <1>q, <1>m1, <1>m2, <1>m3, <1>m4, <1>n1, <1>n2, <1>n3, <1>n4
  <1>n6. \A p \in Attachment!Paths : Holder(p) /\ ~Closed(p) => Holder(p)'
    BY <1>e, <1>p, <1>q, <1>m1, <1>m2, <1>m3, <1>m4, <1>n1, <1>n2, <1>n3, <1>n4, <1>n5 DEF Holder
  <1>1. Attachment!TypeOK'
    BY <1>a, <1>e, <1>p, <1>q, <1>f DEF Attachment!TypeOK, Attachment!Atts
  <1>2. Accesses'
    BY <1>a, <1>e, <1>p, <1>q, <1>m1, <1>m2, <1>m3, <1>m4, <1>n1, <1>n2, <1>n3, <1>n4, <1>n5, <1>n6 DEF Accesses, RowShapes, Adding, Deleting
  <1>3. RowShapes'
    BY <1>a, <1>e, <1>p, <1>q, <1>m1, <1>m2, <1>m3, <1>m4, <1>n1, <1>n2, <1>n3, <1>n4, <1>n5, <1>n6 DEF RowShapes, Accesses
  <1>4. OneAdder'
    BY <1>a, <1>e, <1>p, <1>q DEF OneAdder, RowShapes, Accesses, Adding, Deleting
  <1>5. DeleteReads'
    BY <1>a, <1>e, <1>p, <1>q, <1>m1, <1>m2, <1>m3, <1>m4, <1>n1, <1>n2, <1>n3, <1>n4, <1>n5, <1>n6 DEF DeleteReads, OneAdder, TwoDeletes, Accesses, RowShapes, Deleting, Adding
  <1>6. TwoDeletes'
    BY <1>a, <1>e, <1>p, <1>q DEF TwoDeletes, DeleteReads, OneAdder, Deleting, Adding
  <1>7. Bytes'
    BY <1>a, <1>e, <1>p, <1>q, <1>m1, <1>m2, <1>m3, <1>m4, <1>n1, <1>n2, <1>n3, <1>n4, <1>n5, <1>n6 DEF Bytes, NewBytes, SharedDelete
  <1>8. NewBytes'
    BY <1>a, <1>e, <1>p, <1>q, <1>m1, <1>m2, <1>m3, <1>m4, <1>n1, <1>n2, <1>n3, <1>n4, <1>n5, <1>n6 DEF NewBytes, SharedNew
  <1>9. Shared'
    BY <1>a, <1>e, <1>p, <1>q, <1>m1, <1>m2, <1>m3, <1>m4, <1>n1, <1>n2, <1>n3, <1>n4, <1>n5, <1>n6 DEF Shared, SharedNew
  <1>10. SharedDelete'
    BY <1>a, <1>e, <1>p, <1>q, <1>m1, <1>m2, <1>m3, <1>m4, <1>n1, <1>n2, <1>n3, <1>n4, <1>n5, <1>n6 DEF SharedDelete, SharedNew
  <1>11. SharedNew'
    BY <1>a, <1>e, <1>p, <1>q, <1>m1, <1>m2, <1>m3, <1>m4, <1>n1, <1>n2, <1>n3, <1>n4, <1>n5, <1>n6 DEF SharedNew, Bytes, NewBytes, TwoDeletes, DeleteReads
  <1>12. Straying'
    BY <1>a, <1>e, <1>p, <1>q, <1>m1, <1>m2, <1>m3, <1>m4, <1>n1, <1>n2, <1>n3, <1>n4, <1>n5, <1>n6 DEF Straying, Adding
  <1>13. AtHome'
    BY <1>a, <1>e, <1>p, <1>q DEF AtHome, Straying, Adding
  <1>14. Owned'
    BY <1>a, <1>e, <1>p, <1>q, <1>m1, <1>m2, <1>m3, <1>m4, <1>n1, <1>n2, <1>n3, <1>n4, <1>n5, <1>n6 DEF Owned, AtHome, Straying
  <1> QED BY <1>1, <1>2, <1>3, <1>4, <1>5, <1>6, <1>7, <1>8, <1>9, <1>10, <1>11, <1>12, <1>13, <1>14 DEF AttachmentInv

LEMMA DeleteReadStep ==
  ASSUME AttachmentInv, NEW t \in Tasks, NEW b \in 1..MaxAdds, Attachment!DeleteRead(t, b)
  PROVE AttachmentInv'
  <1>a. Attachment!TypeOK /\ Accesses /\ RowShapes /\ OneAdder /\ DeleteReads /\ TwoDeletes /\ Bytes
        /\ NewBytes /\ Shared /\ SharedDelete /\ SharedNew /\ Straying /\ AtHome /\ Owned
    BY DEF AttachmentInv
  <1>e. /\ access[t].pc = "idle" /\ attached[b] # None /\ attached[b] \in Attachment!Paths
        /\ access'[t].pc = "check" /\ access'[t].att = b /\ access'[t].path = attached[b]
        /\ twice \subseteq twice' /\ twice' \subseteq twice \cup {attached[b]}
        /\ (\E u \in Tasks : access[u].pc # "idle" /\ access[u].att = b) => attached[b] \in twice'
        /\ \A u \in Tasks : u # t => access'[u] = access[u]
        /\ access' \in [Tasks -> [pc : Attachment!Steps, att : 0..MaxAdds, path : Attachment!Paths \cup {None}]]
        /\ UNCHANGED <<home, gone, attached, disk, adds, strayed>>
    BY <1>a, AttachmentAssumption DEF Attachment!DeleteRead, Attachment!At, Attachment!Goto, Attachment!Return, Attachment!Idle, Attachment!TypeOK, Attachment!Steps, Attachment!Bounds, Attachment!Atts, RowShapes
  <1>p. /\ \A a \in 1..MaxAdds : attached[a] # None => attached[a] \in Attachment!Paths
        /\ \A u \in Tasks : access[u].pc # "idle" => access[u].path \in Attachment!Paths
        /\ disk \subseteq Attachment!Paths
    BY <1>a DEF Accesses, RowShapes, Attachment!TypeOK
  <1>m1. \A a \in 1..MaxAdds : Dropping(a)' <=> Dropping(a)
    BY <1>e DEF Dropping, Attachment!TypeOK
  <1>m2. \A p \in Attachment!Paths : Excused(p) => Excused(p)'
    BY <1>e DEF Excused, Attachment!Paths, Attachment!TypeOK
  <1>m3. \A p \in Attachment!Paths : Closed(p)' <=> Closed(p)
    BY <1>e DEF Closed, Attachment!Paths, Attachment!TypeOK
  <1>m4. \A p \in Attachment!Paths : Holder(p) => Holder(p)'
    BY <1>e DEF Holder, Dropping, Attachment!TypeOK
  <1>m5. \A p \in Attachment!Paths : Clearing(p) => Clearing(p)'
    BY <1>e DEF Clearing, Attachment!TypeOK
  <1>n1. Dropping(b) => Excused(attached[b])'
    BY <1>e, <1>p DEF Dropping, Excused, Attachment!TypeOK
  <1>1. Attachment!TypeOK'
    BY <1>a, <1>e, <1>p DEF Attachment!TypeOK, Attachment!Atts
  <1>2. Accesses'
    BY <1>a, <1>e, <1>p, <1>m1, <1>m2, <1>m3, <1>m4, <1>m5, <1>n1, <1>1 DEF Accesses, RowShapes, Adding, Deleting, Attachment!TypeOK
  <1>3. RowShapes'
    BY <1>a, <1>e, <1>p, <1>m1, <1>m2, <1>m3, <1>m4, <1>m5, <1>n1, <1>1 DEF RowShapes, Accesses
  <1>4. OneAdder'
    BY <1>a, <1>e, <1>p, <1>1 DEF OneAdder, RowShapes, Accesses, Adding, Deleting, Attachment!TypeOK
  <1>5. DeleteReads'
    BY <1>a, <1>e, <1>p, <1>m1, <1>m2, <1>m3, <1>m4, <1>m5, <1>n1, <1>1 DEF DeleteReads, OneAdder, TwoDeletes, Accesses, RowShapes, Deleting, Adding, Attachment!TypeOK
  <1>6. TwoDeletes'
    BY <1>a, <1>e, <1>p, <1>1 DEF TwoDeletes, DeleteReads, OneAdder, Deleting, Adding, Attachment!TypeOK
  <1>7. Bytes'
    BY <1>a, <1>e, <1>p, <1>m1, <1>m2, <1>m3, <1>m4, <1>m5, <1>n1, <1>1 DEF Bytes, NewBytes, SharedDelete
  <1>8. NewBytes'
    BY <1>a, <1>e, <1>p, <1>m1, <1>m2, <1>m3, <1>m4, <1>m5, <1>n1, <1>1 DEF NewBytes, SharedNew, Attachment!TypeOK
  <1>9. Shared'
    BY <1>a, <1>e, <1>p, <1>m1, <1>m2, <1>m3, <1>m4, <1>m5, <1>n1, <1>1 DEF Shared, SharedNew, Attachment!TypeOK
  <1>10. SharedDelete'
    BY <1>a, <1>e, <1>p, <1>m1, <1>m2, <1>m3, <1>m4, <1>m5, <1>n1, <1>1 DEF SharedDelete, SharedNew, Shared, Deleting, Attachment!TypeOK
  <1>11. SharedNew'
    BY <1>a, <1>e, <1>p, <1>m1, <1>m2, <1>m3, <1>m4, <1>m5, <1>n1, <1>1 DEF SharedNew, Bytes, NewBytes, TwoDeletes, DeleteReads
  <1>12. Straying'
    BY <1>a, <1>e, <1>p, <1>m1, <1>m2, <1>m3, <1>m4, <1>m5, <1>n1, <1>1 DEF Straying, Adding, Attachment!TypeOK
  <1>13. AtHome'
    BY <1>a, <1>e, <1>p, <1>1 DEF AtHome, Straying, Adding, Attachment!TypeOK
  <1>14. Owned'
    BY <1>a, <1>e, <1>p, <1>m1, <1>m2, <1>m3, <1>m4, <1>m5, <1>n1, <1>1 DEF Owned, AtHome, Straying, OneAdder
  <1> QED BY <1>1, <1>2, <1>3, <1>4, <1>5, <1>6, <1>7, <1>8, <1>9, <1>10, <1>11, <1>12, <1>13, <1>14 DEF AttachmentInv

LEMMA DeleteCheckStep ==
  ASSUME AttachmentInv, NEW t \in Tasks, Attachment!DeleteCheck(t)
  PROVE AttachmentInv'
  <1>a. Attachment!TypeOK /\ Accesses /\ RowShapes /\ OneAdder /\ DeleteReads /\ TwoDeletes /\ Bytes
        /\ NewBytes /\ Shared /\ SharedDelete /\ SharedNew /\ Straying /\ AtHome /\ Owned
    BY DEF AttachmentInv
  <1>e. /\ access[t].pc = "check"
        /\ \/ Closed(access[t].path) /\ access'[t].pc = "idle" /\ access'[t].att = 0
           \/ access'[t].pc = "unlink" /\ access'[t].att = access[t].att /\ access'[t].path = access[t].path
        /\ \A u \in Tasks : u # t => access'[u] = access[u]
        /\ access' \in [Tasks -> [pc : Attachment!Steps, att : 0..MaxAdds, path : Attachment!Paths \cup {None}]]
        /\ UNCHANGED <<home, gone, attached, disk, adds, strayed, twice>>
    BY <1>a, AttachmentAssumption DEF Attachment!DeleteCheck, Attachment!At, Attachment!Goto, Attachment!Return, Attachment!Idle, Attachment!TypeOK, Attachment!Steps, Attachment!Bounds, Attachment!Atts, Closed
  <1>p. /\ \A a \in 1..MaxAdds : attached[a] # None => attached[a] \in Attachment!Paths
        /\ \A u \in Tasks : access[u].pc # "idle" => access[u].path \in Attachment!Paths
        /\ disk \subseteq Attachment!Paths
    BY <1>a DEF Accesses, RowShapes, Attachment!TypeOK
  <1>m1. \A a \in 1..MaxAdds : Dropping(a)' <=> Dropping(a)
    BY <1>e DEF Dropping, Attachment!TypeOK
  <1>m2. \A p \in Attachment!Paths : Excused(p)' <=> Excused(p)
    BY <1>e DEF Excused, Attachment!Paths, Attachment!TypeOK
  <1>m3. \A p \in Attachment!Paths : Closed(p)' <=> Closed(p)
    BY <1>e DEF Closed, Attachment!Paths, Attachment!TypeOK
  <1>m4. \A p \in Attachment!Paths : Holder(p) => Holder(p)'
    BY <1>e DEF Holder, Dropping, Attachment!TypeOK
  <1>m5. \A p \in Attachment!Paths : Clearing(p) => Clearing(p)'
    BY <1>e DEF Clearing, Attachment!TypeOK
  <1>1. Attachment!TypeOK'
    BY <1>a, <1>e, <1>p DEF Attachment!TypeOK, Attachment!Atts
  <1>2. Accesses'
    BY <1>a, <1>e, <1>p, <1>m1, <1>m2, <1>m3, <1>m4, <1>m5, <1>1 DEF Accesses, RowShapes, Adding, Deleting, Attachment!TypeOK
  <1>3. RowShapes'
    BY <1>a, <1>e, <1>p, <1>m1, <1>m2, <1>m3, <1>m4, <1>m5, <1>1 DEF RowShapes, Accesses
  <1>4. OneAdder'
    BY <1>a, <1>e, <1>p, <1>1 DEF OneAdder, RowShapes, Accesses, Adding, Deleting, Attachment!TypeOK
  <1>5. DeleteReads'
    BY <1>a, <1>e, <1>p, <1>m1, <1>m2, <1>m3, <1>m4, <1>m5, <1>1 DEF DeleteReads, OneAdder, TwoDeletes, Accesses, RowShapes, Deleting, Adding, Attachment!TypeOK
  <1>6. TwoDeletes'
    BY <1>a, <1>e, <1>p, <1>1 DEF TwoDeletes, DeleteReads, OneAdder, Deleting, Adding, Attachment!TypeOK
  <1>7. Bytes'
    BY <1>a, <1>e, <1>p, <1>m1, <1>m2, <1>m3, <1>m4, <1>m5, <1>1 DEF Bytes, NewBytes, SharedDelete
  <1>8. NewBytes'
    BY <1>a, <1>e, <1>p, <1>m1, <1>m2, <1>m3, <1>m4, <1>m5, <1>1 DEF NewBytes, SharedNew, Attachment!TypeOK
  <1>9. Shared'
    BY <1>a, <1>e, <1>p, <1>m1, <1>m2, <1>m3, <1>m4, <1>m5, <1>1 DEF Shared, SharedNew, Attachment!TypeOK
  <1>10. SharedDelete'
    BY <1>a, <1>e, <1>p, <1>m1, <1>m2, <1>m3, <1>m4, <1>m5, <1>1 DEF SharedDelete, SharedNew
  <1>11. SharedNew'
    BY <1>a, <1>e, <1>p, <1>m1, <1>m2, <1>m3, <1>m4, <1>m5, <1>1 DEF SharedNew, Bytes, NewBytes, TwoDeletes, DeleteReads
  <1>12. Straying'
    BY <1>a, <1>e, <1>p, <1>m1, <1>m2, <1>m3, <1>m4, <1>m5, <1>1 DEF Straying, Adding, Attachment!TypeOK
  <1>13. AtHome'
    BY <1>a, <1>e, <1>p, <1>1 DEF AtHome, Straying, Adding, Attachment!TypeOK
  <1>14. Owned'
    BY <1>a, <1>e, <1>p, <1>m1, <1>m2, <1>m3, <1>m4, <1>m5, <1>1 DEF Owned, AtHome, Straying, OneAdder
  <1> QED BY <1>1, <1>2, <1>3, <1>4, <1>5, <1>6, <1>7, <1>8, <1>9, <1>10, <1>11, <1>12, <1>13, <1>14 DEF AttachmentInv

LEMMA DeleteUnlinkStep ==
  ASSUME AttachmentInv, NEW t \in Tasks, Attachment!DeleteUnlink(t)
  PROVE AttachmentInv'
  <1>a. Attachment!TypeOK /\ Accesses /\ RowShapes /\ OneAdder /\ DeleteReads /\ TwoDeletes /\ Bytes
        /\ NewBytes /\ Shared /\ SharedDelete /\ SharedNew /\ Straying /\ AtHome /\ Owned
    BY DEF AttachmentInv
  <1>e. /\ access[t].pc = "unlink" /\ disk' = disk \ {access[t].path} /\ access[t].att \in 1..MaxAdds
        /\ access'[t].pc = "drop" /\ access'[t].att = access[t].att /\ access'[t].path = access[t].path
        /\ \A u \in Tasks : u # t => access'[u] = access[u]
        /\ UNCHANGED <<home, gone, attached, adds, strayed, twice>>
    BY <1>a, AttachmentAssumption DEF Attachment!DeleteUnlink, Attachment!At, Attachment!Goto, Attachment!Return, Attachment!Idle, Attachment!TypeOK, Attachment!Steps, Attachment!Bounds, Attachment!Atts, Accesses, Deleting
  <1>f. /\ access' \in [Tasks -> [pc : Attachment!Steps, att : 0..MaxAdds, path : Attachment!Paths \cup {None}]]
    BY <1>a, AttachmentAssumption DEF Attachment!DeleteUnlink, Attachment!At, Attachment!Goto, Attachment!Return, Attachment!Idle, Attachment!TypeOK, Attachment!Steps, Attachment!Bounds, Attachment!Atts, Accesses, Deleting
  <1>q. \A u \in Tasks : access[u].att \in 0..MaxAdds /\ (Adding(u) \/ Deleting(u) => access[u].att \in 1..MaxAdds)
    BY <1>a DEF Accesses, Attachment!TypeOK
  <1>p. /\ \A a \in 1..MaxAdds : attached[a] # None => attached[a] \in Attachment!Paths
        /\ \A u \in Tasks : access[u].pc # "idle" => access[u].path \in Attachment!Paths
        /\ disk \subseteq Attachment!Paths
    BY <1>a DEF Accesses, RowShapes, Attachment!TypeOK
  <1>m1. \A a \in 1..MaxAdds : Dropping(a) => Dropping(a)'
    BY <1>a, <1>e DEF Dropping
  <1>m2. \A p \in Attachment!Paths : Excused(p)' <=> Excused(p)
    BY <1>e DEF Excused, Attachment!Paths
  <1>m3. \A p \in Attachment!Paths : Closed(p)' <=> Closed(p)
    BY <1>e DEF Closed, Attachment!Paths
  <1>m4. \A p \in Attachment!Paths : Clearing(p) => Clearing(p)'
    BY <1>a, <1>e DEF Clearing
  <1>n1. \A a \in 1..MaxAdds : a = access[t].att => Dropping(a)'
    BY <1>e, <1>p, <1>q DEF Dropping
  <1>n2. \A a \in 1..MaxAdds : a # access[t].att => (Dropping(a)' <=> Dropping(a))
    BY <1>e, <1>p, <1>q DEF Dropping
  <1>n3. None \notin Attachment!Paths
    BY <1>e, <1>p, <1>q, AttachmentAssumption DEF Attachment!Bounds
  <1>n4. \A a \in 1..MaxAdds : attached[a] # None /\ attached[a] # access[t].path => a # access[t].att
    BY <1>a, <1>e, <1>p, <1>q DEF DeleteReads, Deleting
  <1>n5. \A p \in Attachment!Paths : p # access[t].path /\ Holder(p) => Holder(p)'
    BY <1>e, <1>p, <1>q, <1>m1, <1>m2, <1>m3, <1>m4, <1>n1, <1>n2, <1>n3, <1>n4 DEF Holder
  <1>1. Attachment!TypeOK'
    BY <1>a, <1>e, <1>p, <1>q, <1>f DEF Attachment!TypeOK, Attachment!Atts
  <1>2. Accesses'
    BY <1>a, <1>e, <1>p, <1>q, <1>m1, <1>m2, <1>m3, <1>m4, <1>n1, <1>n2, <1>n3, <1>n4, <1>n5 DEF Accesses, RowShapes, Adding, Deleting
  <1>3. RowShapes'
    BY <1>a, <1>e, <1>p, <1>q, <1>m1, <1>m2, <1>m3, <1>m4, <1>n1, <1>n2, <1>n3, <1>n4, <1>n5 DEF RowShapes, Accesses
  <1>4. OneAdder'
    BY <1>a, <1>e, <1>p, <1>q DEF OneAdder, RowShapes, Accesses, Adding, Deleting
  <1>5. DeleteReads'
    BY <1>a, <1>e, <1>p, <1>q, <1>m1, <1>m2, <1>m3, <1>m4, <1>n1, <1>n2, <1>n3, <1>n4, <1>n5 DEF DeleteReads, OneAdder, TwoDeletes, Accesses, RowShapes, Deleting, Adding
  <1>6. TwoDeletes'
    BY <1>a, <1>e, <1>p, <1>q DEF TwoDeletes, DeleteReads, OneAdder, Deleting, Adding
  <1>7. Bytes'
    BY <1>a, <1>e, <1>p, <1>q, <1>m1, <1>m2, <1>m3, <1>m4, <1>n1, <1>n2, <1>n3, <1>n4, <1>n5 DEF Bytes, NewBytes, SharedDelete
  <1>8. NewBytes'
    BY <1>a, <1>e, <1>p, <1>q, <1>m1, <1>m2, <1>m3, <1>m4, <1>n1, <1>n2, <1>n3, <1>n4, <1>n5 DEF NewBytes, SharedNew
  <1>9. Shared'
    BY <1>a, <1>e, <1>p, <1>q, <1>m1, <1>m2, <1>m3, <1>m4, <1>n1, <1>n2, <1>n3, <1>n4, <1>n5 DEF Shared, SharedNew
  <1>10. SharedDelete'
    BY <1>a, <1>e, <1>p, <1>q, <1>m1, <1>m2, <1>m3, <1>m4, <1>n1, <1>n2, <1>n3, <1>n4, <1>n5 DEF SharedDelete, SharedNew
  <1>11. SharedNew'
    BY <1>a, <1>e, <1>p, <1>q, <1>m1, <1>m2, <1>m3, <1>m4, <1>n1, <1>n2, <1>n3, <1>n4, <1>n5 DEF SharedNew, Bytes, NewBytes, TwoDeletes, DeleteReads
  <1>12. Straying'
    BY <1>a, <1>e, <1>p, <1>q, <1>m1, <1>m2, <1>m3, <1>m4, <1>n1, <1>n2, <1>n3, <1>n4, <1>n5 DEF Straying, Adding
  <1>13. AtHome'
    BY <1>a, <1>e, <1>p, <1>q DEF AtHome, Straying, Adding
  <1>14. Owned'
    BY <1>a, <1>e, <1>p, <1>q, <1>m1, <1>m2, <1>m3, <1>m4, <1>n1, <1>n2, <1>n3, <1>n4, <1>n5 DEF Owned, AtHome, Straying
  <1> QED BY <1>1, <1>2, <1>3, <1>4, <1>5, <1>6, <1>7, <1>8, <1>9, <1>10, <1>11, <1>12, <1>13, <1>14 DEF AttachmentInv

LEMMA DropAttachmentStep ==
  ASSUME AttachmentInv, NEW t \in Tasks, Attachment!DeleteDrop(t)
  PROVE AttachmentInv'
  <1>a. Attachment!TypeOK /\ Accesses /\ RowShapes /\ OneAdder /\ DeleteReads /\ TwoDeletes /\ Bytes
        /\ NewBytes /\ Shared /\ SharedDelete /\ SharedNew /\ Straying /\ AtHome /\ Owned
    BY DEF AttachmentInv
  <1>e. /\ access[t].pc = "drop" /\ access[t].att \in 1..MaxAdds /\ attached'[access[t].att] = None
        /\ \A a \in 1..MaxAdds : a # access[t].att => attached'[a] = attached[a]
        /\ access'[t].pc = "idle" /\ access'[t].att = 0
        /\ \A u \in Tasks : u # t => access'[u] = access[u]
        /\ \A u \in Tasks : access'[u].pc # "idle" => u # t /\ access[u] = access'[u]
        /\ UNCHANGED <<home, gone, disk, adds, strayed, twice>>
    BY <1>a, AttachmentAssumption DEF Attachment!DeleteDrop, Attachment!At, Attachment!Goto, Attachment!Return, Attachment!Idle, Attachment!TypeOK, Attachment!Steps, Attachment!Bounds, Attachment!Atts, Accesses, Deleting
  <1>f. /\ access' \in [Tasks -> [pc : Attachment!Steps, att : 0..MaxAdds, path : Attachment!Paths \cup {None}]]
        /\ attached' \in [1..MaxAdds -> Attachment!Paths \cup {None}]
    BY <1>a, AttachmentAssumption DEF Attachment!DeleteDrop, Attachment!At, Attachment!Goto, Attachment!Return, Attachment!Idle, Attachment!TypeOK, Attachment!Steps, Attachment!Bounds, Attachment!Atts, Accesses, Deleting
  <1>q. \A u \in Tasks : access[u].att \in 0..MaxAdds /\ (Adding(u) \/ Deleting(u) => access[u].att \in 1..MaxAdds)
    BY <1>a DEF Accesses, Attachment!TypeOK
  <1>p. /\ \A a \in 1..MaxAdds : attached[a] # None => attached[a] \in Attachment!Paths
        /\ \A u \in Tasks : access[u].pc # "idle" => access[u].path \in Attachment!Paths
        /\ disk \subseteq Attachment!Paths
    BY <1>a DEF Accesses, RowShapes, Attachment!TypeOK
  <1>m1. \A p \in Attachment!Paths : Excused(p)' <=> Excused(p)
    BY <1>e DEF Excused, Attachment!Paths
  <1>m2. \A p \in Attachment!Paths : Closed(p)' <=> Closed(p)
    BY <1>e DEF Closed, Attachment!Paths
  <1>m3. \A p \in Attachment!Paths : Clearing(p) => Clearing(p)'
    BY <1>a, <1>e DEF Clearing
  <1>n1. \A a \in 1..MaxAdds : a # access[t].att => (Dropping(a)' <=> Dropping(a))
    BY <1>e, <1>p, <1>q DEF Dropping
  <1>n2. \A a \in 1..MaxAdds : attached'[a] # None => a # access[t].att /\ attached'[a] = attached[a]
    BY <1>e, <1>p, <1>q
  <1>n3. \A p \in Attachment!Paths : Holder(p) => Holder(p)'
    BY <1>e, <1>p, <1>q DEF Holder, Dropping
  <1>1. Attachment!TypeOK'
    BY <1>a, <1>e, <1>p, <1>q, <1>f DEF Attachment!TypeOK, Attachment!Atts
  <1>2. Accesses'
    BY <1>a, <1>e, <1>p, <1>q, <1>m1, <1>m2, <1>m3, <1>n1, <1>n2, <1>n3 DEF Accesses, RowShapes, Adding, Deleting
  <1>3. RowShapes'
    BY <1>a, <1>e, <1>p, <1>q, <1>m1, <1>m2, <1>m3, <1>n1, <1>n2, <1>n3 DEF RowShapes, Accesses
  <1>4. OneAdder'
    BY <1>a, <1>e, <1>p, <1>q DEF OneAdder, RowShapes, Accesses, Adding, Deleting
  <1>5. DeleteReads'
    BY <1>a, <1>e, <1>p, <1>q, <1>m1, <1>m2, <1>m3, <1>n1, <1>n2, <1>n3 DEF DeleteReads, OneAdder, TwoDeletes, Accesses, RowShapes, Deleting, Adding
  <1>6. TwoDeletes'
    BY <1>a, <1>e, <1>p, <1>q DEF TwoDeletes, DeleteReads, OneAdder, Deleting, Adding
  <1>7. Bytes'
    BY <1>a, <1>e, <1>p, <1>q, <1>m1, <1>m2, <1>m3, <1>n1, <1>n2, <1>n3 DEF Bytes, NewBytes, SharedDelete
  <1>8. NewBytes'
    BY <1>a, <1>e, <1>p, <1>q, <1>m1, <1>m2, <1>m3, <1>n1, <1>n2, <1>n3 DEF NewBytes, SharedNew
  <1>9. Shared'
    BY <1>a, <1>e, <1>p, <1>q, <1>m1, <1>m2, <1>m3, <1>n1, <1>n2, <1>n3 DEF Shared, SharedNew
  <1>10. SharedDelete'
    BY <1>a, <1>e, <1>p, <1>q, <1>m1, <1>m2, <1>m3, <1>n1, <1>n2, <1>n3 DEF SharedDelete, SharedNew
  <1>11. SharedNew'
    BY <1>a, <1>e, <1>p, <1>q, <1>m1, <1>m2, <1>m3, <1>n1, <1>n2, <1>n3 DEF SharedNew, Bytes, NewBytes, TwoDeletes, DeleteReads
  <1>12. Straying'
    BY <1>a, <1>e, <1>p, <1>q, <1>m1, <1>m2, <1>m3, <1>n1, <1>n2, <1>n3 DEF Straying, Adding
  <1>13. AtHome'
    BY <1>a, <1>e, <1>p, <1>q DEF AtHome, Straying, Adding
  <1>14. Owned'
    BY <1>a, <1>e, <1>p, <1>q, <1>m1, <1>m2, <1>m3, <1>n1, <1>n2, <1>n3 DEF Owned, AtHome, Straying
  <1> QED BY <1>1, <1>2, <1>3, <1>4, <1>5, <1>6, <1>7, <1>8, <1>9, <1>10, <1>11, <1>12, <1>13, <1>14 DEF AttachmentInv

LEMMA MoveChatStep ==
  ASSUME AttachmentInv, NEW c \in Chats, NEW to \in Projects \cup {Detached}, Attachment!MoveChat(c, to)
  PROVE AttachmentInv'
  <1>a. Attachment!TypeOK /\ Accesses /\ RowShapes /\ OneAdder /\ DeleteReads /\ TwoDeletes /\ Bytes
        /\ NewBytes /\ Shared /\ SharedDelete /\ SharedNew /\ Straying /\ AtHome /\ Owned
    BY DEF AttachmentInv
  <1>e. /\ home[c] # None /\ to # None /\ home' = [home EXCEPT ![c] = to] /\ strayed' = strayed \cup {c}
        /\ UNCHANGED <<gone, attached, disk, adds, access, twice>>
    BY AttachmentAssumption DEF Attachment!MoveChat, Attachment!At, Attachment!Goto, Attachment!Return, Attachment!Idle, Attachment!TypeOK, Attachment!Steps, Attachment!Bounds, Attachment!Atts, Attachment!Plain, Attachment!Paths
  <1>p. /\ \A a \in 1..MaxAdds : attached[a] # None => attached[a] \in Attachment!Paths
        /\ \A u \in Tasks : access[u].pc # "idle" => access[u].path \in Attachment!Paths
        /\ disk \subseteq Attachment!Paths
    BY <1>a DEF Accesses, RowShapes, Attachment!TypeOK
  <1>m1. \A a \in 1..MaxAdds : Dropping(a)' <=> Dropping(a)
    BY <1>e DEF Dropping, Attachment!TypeOK
  <1>m2. \A p \in Attachment!Paths : Excused(p)' <=> Excused(p)
    BY <1>e DEF Excused, Attachment!Paths, Attachment!TypeOK
  <1>m3. \A p \in Attachment!Paths : Closed(p)' <=> Closed(p)
    BY <1>e DEF Closed, Attachment!Paths, Attachment!TypeOK
  <1>m4. \A p \in Attachment!Paths : Holder(p) => Holder(p)'
    BY <1>e DEF Holder, Dropping, Attachment!TypeOK
  <1>m5. \A p \in Attachment!Paths : Clearing(p) => Clearing(p)'
    BY <1>e DEF Clearing, Attachment!TypeOK
  <1>1. Attachment!TypeOK'
    BY <1>a, <1>e, <1>p DEF Attachment!TypeOK, Attachment!Atts
  <1>2. Accesses'
    BY <1>a, <1>e, <1>p, <1>m1, <1>m2, <1>m3, <1>m4, <1>m5, <1>1 DEF Accesses, RowShapes, Adding, Deleting, Attachment!TypeOK
  <1>3. RowShapes'
    BY <1>a, <1>e, <1>p, <1>m1, <1>m2, <1>m3, <1>m4, <1>m5, <1>1 DEF RowShapes, Accesses
  <1>4. OneAdder'
    BY <1>a, <1>e, <1>p, <1>1 DEF OneAdder, RowShapes, Accesses, Adding, Deleting, Attachment!TypeOK
  <1>5. DeleteReads'
    BY <1>a, <1>e, <1>p, <1>m1, <1>m2, <1>m3, <1>m4, <1>m5, <1>1 DEF DeleteReads, OneAdder, TwoDeletes, Accesses, RowShapes, Deleting, Adding, Attachment!TypeOK
  <1>6. TwoDeletes'
    BY <1>a, <1>e, <1>p, <1>1 DEF TwoDeletes, DeleteReads, OneAdder, Deleting, Adding, Attachment!TypeOK
  <1>7. Bytes'
    BY <1>a, <1>e, <1>p, <1>m1, <1>m2, <1>m3, <1>m4, <1>m5, <1>1 DEF Bytes, NewBytes, SharedDelete
  <1>8. NewBytes'
    BY <1>a, <1>e, <1>p, <1>m1, <1>m2, <1>m3, <1>m4, <1>m5, <1>1 DEF NewBytes, SharedNew, Attachment!TypeOK
  <1>9. Shared'
    BY <1>a, <1>e, <1>p, <1>m1, <1>m2, <1>m3, <1>m4, <1>m5, <1>1 DEF Shared, SharedNew, Attachment!TypeOK
  <1>10. SharedDelete'
    BY <1>a, <1>e, <1>p, <1>m1, <1>m2, <1>m3, <1>m4, <1>m5, <1>1 DEF SharedDelete, SharedNew
  <1>11. SharedNew'
    BY <1>a, <1>e, <1>p, <1>m1, <1>m2, <1>m3, <1>m4, <1>m5, <1>1 DEF SharedNew, Bytes, NewBytes, TwoDeletes, DeleteReads
  <1>12. Straying'
    BY <1>a, <1>e, <1>p, <1>m1, <1>m2, <1>m3, <1>m4, <1>m5, <1>1 DEF Straying, Adding, Attachment!TypeOK
  <1>13. AtHome'
    BY <1>a, <1>e, <1>p, <1>1 DEF AtHome, Straying, Adding, Attachment!TypeOK
  <1>14. Owned'
    BY <1>a, <1>e, <1>p, <1>m1, <1>m2, <1>m3, <1>m4, <1>m5, <1>1 DEF Owned, AtHome, Straying, OneAdder
  <1> QED BY <1>1, <1>2, <1>3, <1>4, <1>5, <1>6, <1>7, <1>8, <1>9, <1>10, <1>11, <1>12, <1>13, <1>14 DEF AttachmentInv

LEMMA DeleteChatReadStep ==
  ASSUME AttachmentInv, NEW t \in Tasks, NEW c \in Chats, Attachment!DeleteChatRead(t, c)
  PROVE AttachmentInv'
  <1>a. Attachment!TypeOK /\ Accesses /\ RowShapes /\ OneAdder /\ DeleteReads /\ TwoDeletes /\ Bytes
        /\ NewBytes /\ Shared /\ SharedDelete /\ SharedNew /\ Straying /\ AtHome /\ Owned
    BY DEF AttachmentInv
  <1>e. /\ access[t].pc = "idle" /\ home[c] # None
        /\ access'[t].pc = "dropChat" /\ access'[t].att = 0 /\ access'[t].path \in Attachment!Paths
        /\ access'[t].path.dir = home[c] /\ access'[t].path.chat = c
        /\ \A u \in Tasks : u # t => access'[u] = access[u]
        /\ access' \in [Tasks -> [pc : Attachment!Steps, att : 0..MaxAdds, path : Attachment!Paths \cup {None}]]
        /\ UNCHANGED <<home, gone, attached, disk, adds, strayed, twice>>
    BY <1>a, AttachmentAssumption DEF Attachment!DeleteChatRead, Attachment!At, Attachment!Goto, Attachment!Return, Attachment!Idle, Attachment!TypeOK, Attachment!Steps, Attachment!Bounds, Attachment!Atts, Attachment!Plain, Attachment!Paths
  <1>p. /\ \A a \in 1..MaxAdds : attached[a] # None => attached[a] \in Attachment!Paths
        /\ \A u \in Tasks : access[u].pc # "idle" => access[u].path \in Attachment!Paths
        /\ disk \subseteq Attachment!Paths
    BY <1>a DEF Accesses, RowShapes, Attachment!TypeOK
  <1>m1. \A a \in 1..MaxAdds : Dropping(a)' <=> Dropping(a)
    BY <1>e DEF Dropping, Attachment!TypeOK
  <1>m2. \A p \in Attachment!Paths : Excused(p)' <=> Excused(p)
    BY <1>e DEF Excused, Attachment!Paths, Attachment!TypeOK
  <1>m3. \A p \in Attachment!Paths : Closed(p)' <=> Closed(p)
    BY <1>e DEF Closed, Attachment!Paths, Attachment!TypeOK
  <1>m4. \A p \in Attachment!Paths : Holder(p) => Holder(p)'
    BY <1>e DEF Holder, Dropping, Attachment!TypeOK
  <1>m5. \A p \in Attachment!Paths : Clearing(p) => Clearing(p)'
    BY <1>e DEF Clearing, Attachment!TypeOK
  <1>1. Attachment!TypeOK'
    BY <1>a, <1>e, <1>p DEF Attachment!TypeOK, Attachment!Atts
  <1>2. Accesses'
    BY <1>a, <1>e, <1>p, <1>m1, <1>m2, <1>m3, <1>m4, <1>m5, <1>1 DEF Accesses, RowShapes, Adding, Deleting, Attachment!TypeOK
  <1>3. RowShapes'
    BY <1>a, <1>e, <1>p, <1>m1, <1>m2, <1>m3, <1>m4, <1>m5, <1>1 DEF RowShapes, Accesses
  <1>4. OneAdder'
    BY <1>a, <1>e, <1>p, <1>1 DEF OneAdder, RowShapes, Accesses, Adding, Deleting, Attachment!TypeOK
  <1>5. DeleteReads'
    BY <1>a, <1>e, <1>p, <1>m1, <1>m2, <1>m3, <1>m4, <1>m5, <1>1 DEF DeleteReads, OneAdder, TwoDeletes, Accesses, RowShapes, Deleting, Adding, Attachment!TypeOK
  <1>6. TwoDeletes'
    BY <1>a, <1>e, <1>p, <1>1 DEF TwoDeletes, DeleteReads, OneAdder, Deleting, Adding, Attachment!TypeOK
  <1>7. Bytes'
    BY <1>a, <1>e, <1>p, <1>m1, <1>m2, <1>m3, <1>m4, <1>m5, <1>1 DEF Bytes, NewBytes, SharedDelete
  <1>8. NewBytes'
    BY <1>a, <1>e, <1>p, <1>m1, <1>m2, <1>m3, <1>m4, <1>m5, <1>1 DEF NewBytes, SharedNew, Attachment!TypeOK
  <1>9. Shared'
    BY <1>a, <1>e, <1>p, <1>m1, <1>m2, <1>m3, <1>m4, <1>m5, <1>1 DEF Shared, SharedNew, Attachment!TypeOK
  <1>10. SharedDelete'
    BY <1>a, <1>e, <1>p, <1>m1, <1>m2, <1>m3, <1>m4, <1>m5, <1>1 DEF SharedDelete, SharedNew
  <1>11. SharedNew'
    BY <1>a, <1>e, <1>p, <1>m1, <1>m2, <1>m3, <1>m4, <1>m5, <1>1 DEF SharedNew, Bytes, NewBytes, TwoDeletes, DeleteReads
  <1>12. Straying'
    BY <1>a, <1>e, <1>p, <1>m1, <1>m2, <1>m3, <1>m4, <1>m5, <1>1 DEF Straying, Adding, Attachment!TypeOK
  <1>13. AtHome'
    BY <1>a, <1>e, <1>p, <1>1 DEF AtHome, Straying, Adding, Attachment!TypeOK
  <1>14. Owned'
    BY <1>a, <1>e, <1>p, <1>m1, <1>m2, <1>m3, <1>m4, <1>m5, <1>1 DEF Owned, AtHome, Straying, OneAdder
  <1> QED BY <1>1, <1>2, <1>3, <1>4, <1>5, <1>6, <1>7, <1>8, <1>9, <1>10, <1>11, <1>12, <1>13, <1>14 DEF AttachmentInv

LEMMA RemoveDirStep ==
  ASSUME AttachmentInv, NEW t \in Tasks, Attachment!RemoveDir(t)
  PROVE AttachmentInv'
  <1>a. Attachment!TypeOK /\ Accesses /\ RowShapes /\ OneAdder /\ DeleteReads /\ TwoDeletes /\ Bytes
        /\ NewBytes /\ Shared /\ SharedDelete /\ SharedNew /\ Straying /\ AtHome /\ Owned
    BY DEF AttachmentInv
  <1>e. /\ access[t].pc = "removeDir" /\ Closed(access[t].path)
        /\ disk' = {p \in disk : ~(p.dir = access[t].path.dir /\ p.chat = access[t].path.chat)}
        /\ access'[t].pc = "idle" /\ access'[t].att = 0
        /\ \A u \in Tasks : u # t => access'[u] = access[u]
        /\ access' \in [Tasks -> [pc : Attachment!Steps, att : 0..MaxAdds, path : Attachment!Paths \cup {None}]]
        /\ UNCHANGED <<home, gone, attached, adds, strayed, twice>>
    BY <1>a, AttachmentAssumption DEF Attachment!RemoveDir, Attachment!At, Attachment!Goto, Attachment!Return, Attachment!Idle, Attachment!TypeOK, Attachment!Steps, Attachment!Bounds, Attachment!Atts, Accesses
  <1>p. /\ \A a \in 1..MaxAdds : attached[a] # None => attached[a] \in Attachment!Paths
        /\ \A u \in Tasks : access[u].pc # "idle" => access[u].path \in Attachment!Paths
        /\ disk \subseteq Attachment!Paths
    BY <1>a DEF Accesses, RowShapes, Attachment!TypeOK
  <1>m1. \A a \in 1..MaxAdds : Dropping(a)' <=> Dropping(a)
    BY <1>e DEF Dropping, Attachment!TypeOK
  <1>m2. \A p \in Attachment!Paths : Excused(p)' <=> Excused(p)
    BY <1>e DEF Excused, Attachment!Paths, Attachment!TypeOK
  <1>m3. \A p \in Attachment!Paths : Closed(p)' <=> Closed(p)
    BY <1>e DEF Closed, Attachment!Paths, Attachment!TypeOK
  <1>m4. \A p \in Attachment!Paths : Holder(p) => Holder(p)'
    BY <1>e DEF Holder, Dropping, Attachment!TypeOK
  <1>n1. \A p \in disk : p \in disk' \/ Closed(p)
    BY <1>e, <1>p DEF Closed, Attachment!TypeOK
  <1>n2. \A p \in disk' : Clearing(p) => Clearing(p)'
    BY <1>e, <1>p DEF Clearing, Attachment!TypeOK
  <1>1. Attachment!TypeOK'
    BY <1>a, <1>e, <1>p DEF Attachment!TypeOK, Attachment!Atts
  <1>2. Accesses'
    BY <1>a, <1>e, <1>p, <1>m1, <1>m2, <1>m3, <1>m4, <1>n1, <1>n2, <1>1 DEF Accesses, RowShapes, Adding, Deleting, Attachment!TypeOK
  <1>3. RowShapes'
    BY <1>a, <1>e, <1>p, <1>m1, <1>m2, <1>m3, <1>m4, <1>n1, <1>n2, <1>1 DEF RowShapes, Accesses
  <1>4. OneAdder'
    BY <1>a, <1>e, <1>p, <1>1 DEF OneAdder, RowShapes, Accesses, Adding, Deleting, Attachment!TypeOK
  <1>5. DeleteReads'
    BY <1>a, <1>e, <1>p, <1>m1, <1>m2, <1>m3, <1>m4, <1>n1, <1>n2, <1>1 DEF DeleteReads, OneAdder, TwoDeletes, Accesses, RowShapes, Deleting, Adding, Attachment!TypeOK
  <1>6. TwoDeletes'
    BY <1>a, <1>e, <1>p, <1>1 DEF TwoDeletes, DeleteReads, OneAdder, Deleting, Adding, Attachment!TypeOK
  <1>7. Bytes'
    BY <1>a, <1>e, <1>p, <1>m1, <1>m2, <1>m3, <1>m4, <1>n1, <1>n2, <1>1 DEF Bytes, NewBytes, SharedDelete, RowShapes, Accesses, Deleting, Attachment!TypeOK
  <1>8. NewBytes'
    BY <1>a, <1>e, <1>p, <1>m1, <1>m2, <1>m3, <1>m4, <1>n1, <1>n2, <1>1 DEF NewBytes, SharedNew, Attachment!TypeOK
  <1>9. Shared'
    BY <1>a, <1>e, <1>p, <1>m1, <1>m2, <1>m3, <1>m4, <1>n1, <1>n2, <1>1 DEF Shared, SharedNew, Attachment!TypeOK
  <1>10. SharedDelete'
    BY <1>a, <1>e, <1>p, <1>m1, <1>m2, <1>m3, <1>m4, <1>n1, <1>n2, <1>1 DEF SharedDelete, SharedNew
  <1>11. SharedNew'
    BY <1>a, <1>e, <1>p, <1>m1, <1>m2, <1>m3, <1>m4, <1>n1, <1>n2, <1>1 DEF SharedNew, Bytes, NewBytes, TwoDeletes, DeleteReads
  <1>12. Straying'
    BY <1>a, <1>e, <1>p, <1>m1, <1>m2, <1>m3, <1>m4, <1>n1, <1>n2, <1>1 DEF Straying, Adding, Attachment!TypeOK
  <1>13. AtHome'
    BY <1>a, <1>e, <1>p, <1>1 DEF AtHome, Straying, Adding, Attachment!TypeOK
  <1>14. Owned'
    BY <1>a, <1>e, <1>p, <1>m1, <1>m2, <1>m3, <1>m4, <1>n1, <1>n2, <1>1 DEF Owned, AtHome, Straying, OneAdder
  <1> QED BY <1>1, <1>2, <1>3, <1>4, <1>5, <1>6, <1>7, <1>8, <1>9, <1>10, <1>11, <1>12, <1>13, <1>14 DEF AttachmentInv

LEMMA RemoveTreeStep ==
  ASSUME AttachmentInv, NEW t \in Tasks, Attachment!RemoveTree(t)
  PROVE AttachmentInv'
  <1>a. Attachment!TypeOK /\ Accesses /\ RowShapes /\ OneAdder /\ DeleteReads /\ TwoDeletes /\ Bytes
        /\ NewBytes /\ Shared /\ SharedDelete /\ SharedNew /\ Straying /\ AtHome /\ Owned
    BY DEF AttachmentInv
  <1>e. /\ access[t].pc = "removeTree" /\ access[t].path.dir \in gone
        /\ disk' = {p \in disk : p.dir # access[t].path.dir}
        /\ access'[t].pc = "idle" /\ access'[t].att = 0
        /\ \A u \in Tasks : u # t => access'[u] = access[u]
        /\ access' \in [Tasks -> [pc : Attachment!Steps, att : 0..MaxAdds, path : Attachment!Paths \cup {None}]]
        /\ UNCHANGED <<home, gone, attached, adds, strayed, twice>>
    BY <1>a, AttachmentAssumption DEF Attachment!RemoveTree, Attachment!At, Attachment!Goto, Attachment!Return, Attachment!Idle, Attachment!TypeOK, Attachment!Steps, Attachment!Bounds, Attachment!Atts, Accesses
  <1>p. /\ \A a \in 1..MaxAdds : attached[a] # None => attached[a] \in Attachment!Paths
        /\ \A u \in Tasks : access[u].pc # "idle" => access[u].path \in Attachment!Paths
        /\ disk \subseteq Attachment!Paths
    BY <1>a DEF Accesses, RowShapes, Attachment!TypeOK
  <1>m1. \A a \in 1..MaxAdds : Dropping(a)' <=> Dropping(a)
    BY <1>e DEF Dropping, Attachment!TypeOK
  <1>m2. \A p \in Attachment!Paths : Excused(p)' <=> Excused(p)
    BY <1>e DEF Excused, Attachment!Paths, Attachment!TypeOK
  <1>m3. \A p \in Attachment!Paths : Closed(p)' <=> Closed(p)
    BY <1>e DEF Closed, Attachment!Paths, Attachment!TypeOK
  <1>m4. \A p \in Attachment!Paths : Holder(p) => Holder(p)'
    BY <1>e DEF Holder, Dropping, Attachment!TypeOK
  <1>n1. \A p \in disk : p \in disk' \/ Excused(p)
    BY <1>e, <1>p DEF Excused, Attachment!TypeOK
  <1>n2. \A p \in disk' : Clearing(p) => Clearing(p)'
    BY <1>e, <1>p DEF Clearing, Attachment!TypeOK
  <1>1. Attachment!TypeOK'
    BY <1>a, <1>e, <1>p DEF Attachment!TypeOK, Attachment!Atts
  <1>2. Accesses'
    BY <1>a, <1>e, <1>p, <1>m1, <1>m2, <1>m3, <1>m4, <1>n1, <1>n2, <1>1 DEF Accesses, RowShapes, Adding, Deleting, Attachment!TypeOK
  <1>3. RowShapes'
    BY <1>a, <1>e, <1>p, <1>m1, <1>m2, <1>m3, <1>m4, <1>n1, <1>n2, <1>1 DEF RowShapes, Accesses
  <1>4. OneAdder'
    BY <1>a, <1>e, <1>p, <1>1 DEF OneAdder, RowShapes, Accesses, Adding, Deleting, Attachment!TypeOK
  <1>5. DeleteReads'
    BY <1>a, <1>e, <1>p, <1>m1, <1>m2, <1>m3, <1>m4, <1>n1, <1>n2, <1>1 DEF DeleteReads, OneAdder, TwoDeletes, Accesses, RowShapes, Deleting, Adding, Attachment!TypeOK
  <1>6. TwoDeletes'
    BY <1>a, <1>e, <1>p, <1>1 DEF TwoDeletes, DeleteReads, OneAdder, Deleting, Adding, Attachment!TypeOK
  <1>7. Bytes'
    BY <1>a, <1>e, <1>p, <1>m1, <1>m2, <1>m3, <1>m4, <1>n1, <1>n2, <1>1 DEF Bytes, NewBytes, SharedDelete
  <1>8. NewBytes'
    BY <1>a, <1>e, <1>p, <1>m1, <1>m2, <1>m3, <1>m4, <1>n1, <1>n2, <1>1 DEF NewBytes, SharedNew, Attachment!TypeOK
  <1>9. Shared'
    BY <1>a, <1>e, <1>p, <1>m1, <1>m2, <1>m3, <1>m4, <1>n1, <1>n2, <1>1 DEF Shared, SharedNew, Attachment!TypeOK
  <1>10. SharedDelete'
    BY <1>a, <1>e, <1>p, <1>m1, <1>m2, <1>m3, <1>m4, <1>n1, <1>n2, <1>1 DEF SharedDelete, SharedNew
  <1>11. SharedNew'
    BY <1>a, <1>e, <1>p, <1>m1, <1>m2, <1>m3, <1>m4, <1>n1, <1>n2, <1>1 DEF SharedNew, Bytes, NewBytes, TwoDeletes, DeleteReads
  <1>12. Straying'
    BY <1>a, <1>e, <1>p, <1>m1, <1>m2, <1>m3, <1>m4, <1>n1, <1>n2, <1>1 DEF Straying, Adding, Attachment!TypeOK
  <1>13. AtHome'
    BY <1>a, <1>e, <1>p, <1>1 DEF AtHome, Straying, Adding, Attachment!TypeOK
  <1>14. Owned'
    BY <1>a, <1>e, <1>p, <1>m1, <1>m2, <1>m3, <1>m4, <1>n1, <1>n2, <1>1 DEF Owned, AtHome, Straying, OneAdder
  <1> QED BY <1>1, <1>2, <1>3, <1>4, <1>5, <1>6, <1>7, <1>8, <1>9, <1>10, <1>11, <1>12, <1>13, <1>14 DEF AttachmentInv

LEMMA DeleteChatRowStep ==
  ASSUME AttachmentInv, NEW t \in Tasks, Attachment!DeleteChatRow(t)
  PROVE AttachmentInv'
  <1> DEFINE Out == {access[t].path.chat}
  <1>a. Attachment!TypeOK /\ Accesses /\ RowShapes /\ OneAdder /\ DeleteReads /\ TwoDeletes /\ Bytes
        /\ NewBytes /\ Shared /\ SharedDelete /\ SharedNew /\ Straying /\ AtHome /\ Owned
    BY DEF AttachmentInv
  <1>e. /\ access[t].pc = "dropChat" /\ access[t].path \in Attachment!Paths /\ access[t].path.chat \in Out
        /\ \A c1 \in Chats : home'[c1] = IF c1 \in Out THEN None ELSE home[c1]
        /\ \A a \in 1..MaxAdds : attached'[a] = IF attached[a] # None /\ attached[a].chat \in Out THEN None ELSE attached[a]
        /\ strayed' = strayed \cup {c1 \in Out : \E u \in Tasks : Adding(u) /\ access[u].path.chat = c1}
        /\ \/ (home[access[t].path.chat] = None \/ access[t].path.dir = Detached) /\ access'[t].pc = "idle" /\ access'[t].att = 0
           \/ access'[t].pc = "removeDir" /\ access'[t].att = 0 /\ access'[t].path = access[t].path
        /\ \A u \in Tasks : u # t => access'[u] = access[u]
        /\ UNCHANGED <<gone, disk, adds, twice>>
    <2>1. access[t].pc = "dropChat" /\ access[t].path \in Attachment!Paths /\ access[t].path.chat \in Chats
      BY <1>a DEF Attachment!DeleteChatRow, Attachment!At, Accesses, Attachment!Paths
    <2>2. Attachment!DropChats(Out) /\ UNCHANGED <<gone, disk, adds, twice>>
      BY DEF Attachment!DeleteChatRow
    <2>3. \/ access' = [access EXCEPT ![t] = Attachment!Idle]
             /\ (home[access[t].path.chat] = None \/ access[t].path.dir = Detached)
          \/ access' = [access EXCEPT ![t].pc = "removeDir"]
      BY DEF Attachment!DeleteChatRow, Attachment!Goto, Attachment!Return
    <2>4. \A u \in Tasks : u # t => access'[u] = access[u]
      BY <1>a, <2>3 DEF Attachment!TypeOK
    <2>5. \/ access'[t] = Attachment!Idle /\ (home[access[t].path.chat] = None \/ access[t].path.dir = Detached)
          \/ access'[t] = [access[t] EXCEPT !.pc = "removeDir"]
      BY <1>a, <2>3 DEF Attachment!TypeOK
    <2>6. access[t].att = 0 /\ access[t] \in [pc : Attachment!Steps, att : 0..MaxAdds, path : Attachment!Paths \cup {None}]
      BY <1>a, <2>1 DEF Accesses, Adding, Deleting, Attachment!TypeOK
    <2>7. \/ access'[t].pc = "idle" /\ access'[t].att = 0
             /\ (home[access[t].path.chat] = None \/ access[t].path.dir = Detached)
          \/ access'[t].pc = "removeDir" /\ access'[t].att = 0 /\ access'[t].path = access[t].path
      BY <2>5, <2>6 DEF Attachment!Idle
    <2>8. /\ \A c1 \in Chats : home'[c1] = IF c1 \in Out THEN None ELSE home[c1]
          /\ \A a \in 1..MaxAdds :
               attached'[a] = IF attached[a] # None /\ attached[a].chat \in Out THEN None ELSE attached[a]
          /\ strayed' = strayed \cup {c1 \in Out : \E u \in Tasks : Adding(u) /\ access[u].path.chat = c1}
      BY <2>2 DEF Attachment!DropChats, Attachment!Atts, Adding
    <2> QED BY <2>1, <2>2, <2>4, <2>7, <2>8
  <1>f. /\ access' \in [Tasks -> [pc : Attachment!Steps, att : 0..MaxAdds, path : Attachment!Paths \cup {None}]]
        /\ attached' \in [1..MaxAdds -> Attachment!Paths \cup {None}]
        /\ home' \in [Chats -> Projects \cup {Detached, None}]
        /\ strayed' \subseteq Chats
    <2>1. \/ access' = [access EXCEPT ![t] = Attachment!Idle]
          \/ access' = [access EXCEPT ![t].pc = "removeDir"]
      BY DEF Attachment!DeleteChatRow, Attachment!Goto, Attachment!Return
    <2>2. Attachment!Idle \in [pc : Attachment!Steps, att : 0..MaxAdds, path : Attachment!Paths \cup {None}]
      BY AttachmentAssumption DEF Attachment!Idle, Attachment!Steps, Attachment!Bounds
    <2>3. access' \in [Tasks -> [pc : Attachment!Steps, att : 0..MaxAdds, path : Attachment!Paths \cup {None}]]
      BY <1>a, <2>1, <2>2 DEF Attachment!TypeOK, Attachment!Steps
    <2>4. Attachment!DropChats(Out)
      BY DEF Attachment!DeleteChatRow
    <2>5. /\ attached' \in [1..MaxAdds -> Attachment!Paths \cup {None}]
          /\ home' \in [Chats -> Projects \cup {Detached, None}]
      BY <1>a, <2>4 DEF Attachment!DropChats, Attachment!TypeOK, Attachment!Atts
    <2>6. Out \subseteq Chats
      BY <1>e DEF Attachment!Paths
    <2>7. strayed' \subseteq Chats
      BY <1>a, <2>4, <2>6 DEF Attachment!DropChats, Attachment!TypeOK
    <2> QED BY <2>3, <2>5, <2>7
  <1>q. \A u \in Tasks : access[u].att \in 0..MaxAdds /\ (Adding(u) \/ Deleting(u) => access[u].att \in 1..MaxAdds)
    BY <1>a DEF Accesses, Attachment!TypeOK
  <1>p. /\ \A a \in 1..MaxAdds : attached[a] # None => attached[a] \in Attachment!Paths
        /\ \A u \in Tasks : access[u].pc # "idle" => access[u].path \in Attachment!Paths
        /\ disk \subseteq Attachment!Paths
    BY <1>a DEF Accesses, RowShapes, Attachment!TypeOK
  <1>m1. \A a \in 1..MaxAdds : Dropping(a)' <=> Dropping(a)
    BY <1>a, <1>e DEF Dropping
  <1>m2. \A p \in Attachment!Paths : Excused(p)' <=> Excused(p)
    BY <1>e DEF Excused, Attachment!Paths
  <1>n1. \A p \in Attachment!Paths : Closed(p) => Closed(p)'
    BY <1>e, <1>p, <1>q, <1>m1, <1>m2 DEF Closed, Attachment!Paths
  <1>n2. \A p \in Attachment!Paths : p.chat \in Out => Closed(p)'
    BY <1>e, <1>p, <1>q DEF Closed, Attachment!Paths
  <1>n3. \A p \in Attachment!Paths : p.chat \notin Out => (Closed(p)' <=> Closed(p))
    BY <1>e, <1>p, <1>q DEF Closed, Attachment!Paths
  <1>n4. \A a \in 1..MaxAdds : attached'[a] # None => attached'[a] = attached[a] /\ attached[a].chat \notin Out
    BY <1>e, <1>p, <1>q
  <1>n5. \A a \in 1..MaxAdds : attached[a] # None /\ attached[a].chat \notin Out => attached'[a] = attached[a]
    BY <1>e, <1>p, <1>q
  <1>n6. \A p \in Attachment!Paths : Clearing(p) => Clearing(p)'
    BY <1>e, <1>p, <1>q DEF Clearing
  <1>n7. None \notin Attachment!Paths
    BY <1>e, <1>p, <1>q, AttachmentAssumption DEF Attachment!Bounds
  <1>n8. \A p \in Attachment!Paths : p.chat \notin Out /\ Holder(p) => Holder(p)'
    BY <1>e, <1>p, <1>q, <1>m1, <1>m2, <1>n1, <1>n2, <1>n3, <1>n4, <1>n5, <1>n6, <1>n7 DEF Holder
  <1>1. Attachment!TypeOK'
    BY <1>a, <1>e, <1>p, <1>q, <1>f DEF Attachment!TypeOK, Attachment!Atts
  <1>2. Accesses'
    BY <1>a, <1>e, <1>p, <1>q, <1>m1, <1>m2, <1>n1, <1>n2, <1>n3, <1>n4, <1>n5, <1>n6, <1>n7, <1>n8 DEF Accesses, RowShapes, Adding, Deleting
  <1>3. RowShapes'
    BY <1>a, <1>e, <1>p, <1>q, <1>m1, <1>m2, <1>n1, <1>n2, <1>n3, <1>n4, <1>n5, <1>n6, <1>n7, <1>n8 DEF RowShapes, Accesses
  <1>4. OneAdder'
    BY <1>a, <1>e, <1>p, <1>q DEF OneAdder, RowShapes, Accesses, Adding, Deleting
  <1>5. DeleteReads'
    BY <1>a, <1>e, <1>p, <1>q, <1>m1, <1>m2, <1>n1, <1>n2, <1>n3, <1>n4, <1>n5, <1>n6, <1>n7, <1>n8 DEF DeleteReads, OneAdder, TwoDeletes, Accesses, RowShapes, Deleting, Adding
  <1>6. TwoDeletes'
    BY <1>a, <1>e, <1>p, <1>q DEF TwoDeletes, DeleteReads, OneAdder, Deleting, Adding
  <1>7. Bytes'
    BY <1>a, <1>e, <1>p, <1>q, <1>m1, <1>m2, <1>n1, <1>n2, <1>n3, <1>n4, <1>n5, <1>n6, <1>n7, <1>n8 DEF Bytes, NewBytes, SharedDelete
  <1>8. NewBytes'
    BY <1>a, <1>e, <1>p, <1>q, <1>m1, <1>m2, <1>n1, <1>n2, <1>n3, <1>n4, <1>n5, <1>n6, <1>n7, <1>n8 DEF NewBytes, SharedNew
  <1>9. Shared'
    BY <1>a, <1>e, <1>p, <1>q, <1>m1, <1>m2, <1>n1, <1>n2, <1>n3, <1>n4, <1>n5, <1>n6, <1>n7, <1>n8 DEF Shared, SharedNew
  <1>10. SharedDelete'
    BY <1>a, <1>e, <1>p, <1>q, <1>m1, <1>m2, <1>n1, <1>n2, <1>n3, <1>n4, <1>n5, <1>n6, <1>n7, <1>n8 DEF SharedDelete, SharedNew
  <1>11. SharedNew'
    BY <1>a, <1>e, <1>p, <1>q, <1>m1, <1>m2, <1>n1, <1>n2, <1>n3, <1>n4, <1>n5, <1>n6, <1>n7, <1>n8 DEF SharedNew, Bytes, NewBytes, TwoDeletes, DeleteReads
  <1>12. Straying'
    BY <1>a, <1>e, <1>p, <1>q, <1>m1, <1>m2, <1>n1, <1>n2, <1>n3, <1>n4, <1>n5, <1>n6, <1>n7, <1>n8 DEF Straying, Adding
  <1>13. AtHome'
    BY <1>a, <1>e, <1>p, <1>q DEF AtHome, Straying, Adding
  <1>14. Owned'
    <2> SUFFICES ASSUME NEW p \in Attachment!Paths, p \in disk, p.chat \notin strayed'
                 PROVE (Closed(p)' => Clearing(p)') /\ (~Closed(p)' => Holder(p)')
      BY <1>e, <1>p DEF Owned
    <2>0. p.chat \notin strayed
      BY <1>e
    <2>1. CASE p.chat \notin Out
      BY <1>a, <1>n3, <1>n6, <1>n8, <2>0, <2>1 DEF Owned
    <2>2. CASE Closed(p)
      BY <1>a, <1>n1, <1>n6, <2>0, <2>2 DEF Owned
    <2>3. CASE p.chat \in Out /\ ~Closed(p)
      <3>1. home[p.chat] # None /\ home[p.chat] \in Projects /\ p.dir = home[p.chat] /\ p.chat \in Chats
        BY <1>a, <2>0, <2>3 DEF AtHome, Closed, Attachment!Paths
      <3>2. access[t].path.chat = p.chat /\ access[t].path.dir = home[p.chat]
        BY <1>a, <1>e, <2>0, <2>3, <3>1 DEF AtHome
      <3>3. access'[t].pc = "removeDir" /\ access'[t].path = access[t].path
        BY <1>e, <3>1, <3>2, AttachmentAssumption DEF Attachment!Bounds
      <3>4. Clearing(p)'
        BY <3>1, <3>2, <3>3 DEF Clearing
      <3> QED BY <1>n2, <2>3, <3>4
    <2> QED BY <2>1, <2>2, <2>3
  <1> QED BY <1>1, <1>2, <1>3, <1>4, <1>5, <1>6, <1>7, <1>8, <1>9, <1>10, <1>11, <1>12, <1>13, <1>14 DEF AttachmentInv

LEMMA DeleteProjectRowStep ==
  ASSUME AttachmentInv, NEW t \in Tasks, NEW b \in Projects \ gone, Attachment!DeleteProjectRow(t, b)
  PROVE AttachmentInv'
  <1> DEFINE Out == {c1 \in Chats : home[c1] = b}
  <1>a. Attachment!TypeOK /\ Accesses /\ RowShapes /\ OneAdder /\ DeleteReads /\ TwoDeletes /\ Bytes
        /\ NewBytes /\ Shared /\ SharedDelete /\ SharedNew /\ Straying /\ AtHome /\ Owned
    BY DEF AttachmentInv
  <1>e. /\ access[t].pc = "idle" /\ gone' = gone \cup {b} /\ b \in Projects
        /\ access'[t].pc = "removeTree" /\ access'[t].att = 0 /\ access'[t].path \in Attachment!Paths /\ access'[t].path.dir = b
        /\ \A c1 \in Chats : home'[c1] = IF c1 \in Out THEN None ELSE home[c1]
        /\ \A a \in 1..MaxAdds : attached'[a] = IF attached[a] # None /\ attached[a].chat \in Out THEN None ELSE attached[a]
        /\ strayed' = strayed \cup {c1 \in Out : \E u \in Tasks : Adding(u) /\ access[u].path.chat = c1}
        /\ \A u \in Tasks : u # t => access'[u] = access[u]
        /\ UNCHANGED <<disk, adds, twice>>
    BY <1>a, AttachmentAssumption DEF Attachment!DeleteProjectRow, Attachment!At, Attachment!Goto, Attachment!Return, Attachment!Idle, Attachment!TypeOK, Attachment!Steps, Attachment!Bounds, Attachment!Atts, Accesses, Adding, Deleting, Attachment!DropChats, Attachment!Plain, Attachment!Paths
  <1>f. /\ access' \in [Tasks -> [pc : Attachment!Steps, att : 0..MaxAdds, path : Attachment!Paths \cup {None}]]
        /\ attached' \in [1..MaxAdds -> Attachment!Paths \cup {None}]
        /\ home' \in [Chats -> Projects \cup {Detached, None}]
        /\ strayed' \subseteq Chats
    BY <1>a, AttachmentAssumption DEF Attachment!DeleteProjectRow, Attachment!At, Attachment!Goto, Attachment!Return, Attachment!Idle, Attachment!TypeOK, Attachment!Steps, Attachment!Bounds, Attachment!Atts, Accesses, Adding, Deleting, Attachment!DropChats, Attachment!Plain, Attachment!Paths
  <1>q. \A u \in Tasks : access[u].att \in 0..MaxAdds /\ (Adding(u) \/ Deleting(u) => access[u].att \in 1..MaxAdds)
    BY <1>a DEF Accesses, Attachment!TypeOK
  <1>p. /\ \A a \in 1..MaxAdds : attached[a] # None => attached[a] \in Attachment!Paths
        /\ \A u \in Tasks : access[u].pc # "idle" => access[u].path \in Attachment!Paths
        /\ disk \subseteq Attachment!Paths
    BY <1>a DEF Accesses, RowShapes, Attachment!TypeOK
  <1>m1. \A a \in 1..MaxAdds : Dropping(a)' <=> Dropping(a)
    BY <1>a, <1>e DEF Dropping
  <1>m2. \A p \in Attachment!Paths : Excused(p) => Excused(p)'
    BY <1>e DEF Excused, Attachment!Paths
  <1>n1. \A p \in Attachment!Paths : Closed(p) => Closed(p)'
    BY <1>e, <1>p, <1>q, <1>m1, <1>m2 DEF Closed, Attachment!Paths
  <1>n2. \A p \in Attachment!Paths : p.chat \in Out => Closed(p)'
    BY <1>e, <1>p, <1>q DEF Closed, Attachment!Paths
  <1>n3. \A p \in Attachment!Paths : p.chat \notin Out => (Closed(p)' <=> Closed(p))
    BY <1>e, <1>p, <1>q DEF Closed, Attachment!Paths
  <1>n4. \A a \in 1..MaxAdds : attached'[a] # None => attached'[a] = attached[a] /\ attached[a].chat \notin Out
    BY <1>e, <1>p, <1>q
  <1>n5. \A a \in 1..MaxAdds : attached[a] # None /\ attached[a].chat \notin Out => attached'[a] = attached[a]
    BY <1>e, <1>p, <1>q
  <1>n6. \A p \in Attachment!Paths : Clearing(p) => Clearing(p)'
    BY <1>e, <1>p, <1>q DEF Clearing
  <1>n7. None \notin Attachment!Paths
    BY <1>e, <1>p, <1>q, AttachmentAssumption DEF Attachment!Bounds
  <1>n8. \A p \in Attachment!Paths : p.chat \notin Out /\ Holder(p) => Holder(p)'
    BY <1>e, <1>p, <1>q, <1>m1, <1>m2, <1>n1, <1>n2, <1>n3, <1>n4, <1>n5, <1>n6, <1>n7 DEF Holder
  <1>1. Attachment!TypeOK'
    BY <1>a, <1>e, <1>p, <1>q, <1>f DEF Attachment!TypeOK, Attachment!Atts
  <1>2. Accesses'
    BY <1>a, <1>e, <1>p, <1>q, <1>m1, <1>m2, <1>n1, <1>n2, <1>n3, <1>n4, <1>n5, <1>n6, <1>n7, <1>n8 DEF Accesses, RowShapes, Adding, Deleting
  <1>3. RowShapes'
    BY <1>a, <1>e, <1>p, <1>q, <1>m1, <1>m2, <1>n1, <1>n2, <1>n3, <1>n4, <1>n5, <1>n6, <1>n7, <1>n8 DEF RowShapes, Accesses
  <1>4. OneAdder'
    BY <1>a, <1>e, <1>p, <1>q DEF OneAdder, RowShapes, Accesses, Adding, Deleting
  <1>5. DeleteReads'
    BY <1>a, <1>e, <1>p, <1>q, <1>m1, <1>m2, <1>n1, <1>n2, <1>n3, <1>n4, <1>n5, <1>n6, <1>n7, <1>n8 DEF DeleteReads, OneAdder, TwoDeletes, Accesses, RowShapes, Deleting, Adding
  <1>6. TwoDeletes'
    BY <1>a, <1>e, <1>p, <1>q DEF TwoDeletes, DeleteReads, OneAdder, Deleting, Adding
  <1>7. Bytes'
    BY <1>a, <1>e, <1>p, <1>q, <1>m1, <1>m2, <1>n1, <1>n2, <1>n3, <1>n4, <1>n5, <1>n6, <1>n7, <1>n8 DEF Bytes, NewBytes, SharedDelete
  <1>8. NewBytes'
    BY <1>a, <1>e, <1>p, <1>q, <1>m1, <1>m2, <1>n1, <1>n2, <1>n3, <1>n4, <1>n5, <1>n6, <1>n7, <1>n8 DEF NewBytes, SharedNew
  <1>9. Shared'
    BY <1>a, <1>e, <1>p, <1>q, <1>m1, <1>m2, <1>n1, <1>n2, <1>n3, <1>n4, <1>n5, <1>n6, <1>n7, <1>n8 DEF Shared, SharedNew
  <1>10. SharedDelete'
    BY <1>a, <1>e, <1>p, <1>q, <1>m1, <1>m2, <1>n1, <1>n2, <1>n3, <1>n4, <1>n5, <1>n6, <1>n7, <1>n8 DEF SharedDelete, SharedNew
  <1>11. SharedNew'
    BY <1>a, <1>e, <1>p, <1>q, <1>m1, <1>m2, <1>n1, <1>n2, <1>n3, <1>n4, <1>n5, <1>n6, <1>n7, <1>n8 DEF SharedNew, Bytes, NewBytes, TwoDeletes, DeleteReads
  <1>12. Straying'
    BY <1>a, <1>e, <1>p, <1>q, <1>m1, <1>m2, <1>n1, <1>n2, <1>n3, <1>n4, <1>n5, <1>n6, <1>n7, <1>n8 DEF Straying, Adding
  <1>13. AtHome'
    BY <1>a, <1>e, <1>p, <1>q DEF AtHome, Straying, Adding
  <1>14. Owned'
    <2> SUFFICES ASSUME NEW p \in Attachment!Paths, p \in disk, p.chat \notin strayed'
                 PROVE (Closed(p)' => Clearing(p)') /\ (~Closed(p)' => Holder(p)')
      BY <1>e, <1>p DEF Owned
    <2>0. p.chat \notin strayed
      BY <1>e
    <2>1. CASE p.chat \notin Out
      BY <1>a, <1>n3, <1>n6, <1>n8, <2>0, <2>1 DEF Owned
    <2>2. CASE Closed(p)
      BY <1>a, <1>n1, <1>n6, <2>0, <2>2 DEF Owned
    <2>3. CASE p.chat \in Out /\ ~Closed(p)
      <3>1. home[p.chat] # None /\ home[p.chat] \in Projects /\ p.dir = home[p.chat] /\ p.chat \in Chats
        BY <1>a, <2>0, <2>3 DEF AtHome, Closed, Attachment!Paths
      <3>2. Clearing(p)'
        BY <1>e, <2>3, <3>1 DEF Clearing
      <3> QED BY <1>n2, <2>3, <3>2
    <2> QED BY <2>1, <2>2, <2>3
  <1> QED BY <1>1, <1>2, <1>3, <1>4, <1>5, <1>6, <1>7, <1>8, <1>9, <1>10, <1>11, <1>12, <1>13, <1>14 DEF AttachmentInv

\* What does not change the variables keeps the invariant.
LEMMA AttachmentStutter == ASSUME AttachmentInv, UNCHANGED attachment PROVE AttachmentInv'
  <1>1. /\ \A a \in 1..MaxAdds : Dropping(a)' <=> Dropping(a)
        /\ \A p : (Excused(p)' <=> Excused(p)) /\ (Closed(p)' <=> Closed(p))
        /\ \A p : (Clearing(p)' <=> Clearing(p)) /\ (Holder(p)' <=> Holder(p))
        /\ \A t \in Tasks : (Adding(t)' <=> Adding(t)) /\ (Deleting(t)' <=> Deleting(t))
    BY DEF attachment, Dropping, Excused, Closed, Clearing, Holder, Adding, Deleting
  <1>2. Attachment!TypeOK'
    BY DEF AttachmentInv, attachment, Attachment!TypeOK
  <1>3. Accesses' /\ RowShapes' /\ OneAdder' /\ DeleteReads' /\ TwoDeletes'
    BY <1>1 DEF AttachmentInv, attachment, Accesses, RowShapes, OneAdder, DeleteReads, TwoDeletes
  <1>4. Bytes' /\ NewBytes' /\ Shared' /\ SharedDelete' /\ SharedNew'
    BY <1>1 DEF AttachmentInv, attachment, Bytes, NewBytes, Shared, SharedDelete, SharedNew
  <1>5. Straying' /\ AtHome' /\ Owned'
    BY <1>1 DEF AttachmentInv, attachment, Straying, AtHome, Owned
  <1> QED BY <1>2, <1>3, <1>4, <1>5 DEF AttachmentInv

LEMMA AttachmentInit == ASSUME Attachment!Init PROVE AttachmentInv
  <1>1. /\ home \in [Chats -> Projects] /\ gone = {} /\ disk = {} /\ strayed = {} /\ twice = {}
        /\ attached = [a \in 1..MaxAdds |-> None] /\ adds = 0
        /\ access = [t \in Tasks |-> Attachment!Idle]
    BY DEF Attachment!Init, Attachment!Atts
  <1>2. /\ \A t \in Tasks : access[t].pc = "idle" /\ access[t].att = 0
        /\ \A a \in 1..MaxAdds : attached[a] = None
    BY <1>1 DEF Attachment!Idle
  <1>3. Attachment!TypeOK
    BY <1>1, AttachmentAssumption
    DEF Attachment!TypeOK, Attachment!Atts, Attachment!Idle, Attachment!Steps, Attachment!Bounds
  <1>4. Accesses /\ RowShapes /\ OneAdder /\ DeleteReads /\ TwoDeletes
    BY <1>2 DEF Accesses, RowShapes, OneAdder, DeleteReads, TwoDeletes, Adding, Deleting
  <1>5. Bytes /\ NewBytes /\ Shared /\ SharedDelete /\ SharedNew
    BY <1>2 DEF Bytes, NewBytes, Shared, SharedDelete, SharedNew
  <1>6. Straying /\ AtHome /\ Owned
    BY <1>1, <1>2 DEF Straying, AtHome, Owned, Adding
  <1> QED BY <1>3, <1>4, <1>5, <1>6 DEF AttachmentInv

LEMMA AttachmentStep == ASSUME AttachmentInv, [Attachment!Next]_attachment PROVE AttachmentInv'
  <1>1. ASSUME NEW t \in Tasks, NEW c \in Chats, Attachment!AddBegin(t, c) \/ Attachment!DeleteChatRead(t, c)
        PROVE AttachmentInv'
    BY <1>1, AddBeginStep, DeleteChatReadStep
  <1>2. ASSUME NEW t \in Tasks, NEW a \in 1..MaxAdds, Attachment!DeleteRead(t, a) PROVE AttachmentInv'
    BY <1>2, DeleteReadStep
  <1>3. ASSUME NEW t \in Tasks, NEW b \in Projects, Attachment!DeleteProjectRow(t, b) PROVE AttachmentInv'
    <2>1. b \in Projects \ gone
      BY <1>3 DEF Attachment!DeleteProjectRow
    <2> QED BY <1>3, <2>1, DeleteProjectRowStep
  <1>4. ASSUME NEW t \in Tasks, Attachment!AddCopy(t) \/ Attachment!AddInsert(t) PROVE AttachmentInv'
    BY <1>4, AddCopyStep, AddInsertStep
  <1>5. ASSUME NEW t \in Tasks,
               Attachment!DeleteCheck(t) \/ Attachment!DeleteUnlink(t) \/ Attachment!DeleteDrop(t)
        PROVE AttachmentInv'
    BY <1>5, DeleteCheckStep, DeleteUnlinkStep, DropAttachmentStep
  <1>6. ASSUME NEW t \in Tasks,
               Attachment!DeleteChatRow(t) \/ Attachment!RemoveDir(t) \/ Attachment!RemoveTree(t)
        PROVE AttachmentInv'
    BY <1>6, DeleteChatRowStep, RemoveDirStep, RemoveTreeStep
  <1>7. ASSUME NEW c \in Chats, NEW to \in Projects \cup {Detached}, Attachment!MoveChat(c, to)
        PROVE AttachmentInv'
    BY <1>7, MoveChatStep
  <1>8. CASE UNCHANGED attachment
    BY <1>8, AttachmentStutter
  <1> QED BY <1>1, <1>2, <1>3, <1>4, <1>5, <1>6, <1>7, <1>8 DEF Attachment!Next, Attachment!Atts

LEMMA AttachmentShows == ASSUME AttachmentInv PROVE Attachment!RowsMatchBytes
  <1>1. Attachment!AttachmentKept
    <2> SUFFICES ASSUME NEW a \in 1..MaxAdds, attached[a] # None, attached[a] \notin disk,
                        ~Excused(attached[a])
                 PROVE Attachment!Going(attached[a])
      BY DEF Attachment!AttachmentKept, Attachment!Atts, Excused
    <2>1. PICK t \in Tasks : access[t].pc = "drop" /\ access[t].att = a
      BY DEF AttachmentInv, Bytes, Dropping
    <2>2. attached[a] = access[t].path
      BY <2>1 DEF AttachmentInv, DeleteReads, Deleting
    <2> QED BY <2>2 DEF Attachment!Going
  <1>2. Attachment!NothingLeft
    <2> SUFFICES ASSUME NEW p \in disk, p.chat \notin strayed
                 PROVE \/ \E a \in 1..MaxAdds : attached[a] = p
                       \/ Attachment!Going(p) \/ Attachment!BeingRemoved(p)
      BY DEF Attachment!NothingLeft, Attachment!Atts
    <2>1. CASE Closed(p)
      BY <2>1 DEF AttachmentInv, Owned, Clearing, Attachment!BeingRemoved
    <2>2. CASE ~Closed(p)
      BY <2>2 DEF AttachmentInv, Owned, Holder, Attachment!Going
    <2> QED BY <2>1, <2>2
  <1> QED BY <1>1, <1>2 DEF Attachment!RowsMatchBytes

-----------------------------------------------------------------------------
(* The instructions of one client *)

\* The content the history would show: that of the only row, or Empty.
OnlyRow == \A r, s \in Rows : table[r] # Absent /\ table[s] # Absent => r = s

\* While the client waits for its call, nobody changes what the call has read: the row it
\* found is the newest, and what it is about to overwrite has a snapshot, is Empty, or is
\* the new content itself.
HistoryInv(c) ==
  /\ History!TypeOK
  /\ OnlyRow
  /\ \A r \in Rows : table[r] # Absent => r \in used
  /\ save[c].pc = "snap" => save[c].old = History!Current
  /\ save[c].pc \in {"find", "write"} =>
       \/ History!Current \in {Empty, save[c].new}
       \/ snaps[History!Current] > 0
  /\ save[c].pc = "write" => save[c].row = History!Newest

LEMMA HistoryReads ==
  ASSUME History!TypeOK, OnlyRow
  PROVE /\ \A r \in Rows : table[r] # Absent => History!Newest = r /\ History!Current = table[r]
        /\ (\A r \in Rows : table[r] = Absent) => History!Newest = NoRow /\ History!Current = Empty
        /\ History!Newest \in Rows \cup {NoRow} /\ History!Current \in Texts
        /\ History!Newest # NoRow => table[History!Newest] # Absent
  <1>1. ASSUME NEW r \in Rows, table[r] # Absent
        PROVE History!Newest = r /\ History!Current = table[r] /\ table[r] \in Texts
    <2>1. History!Present = {r}
      BY <1>1 DEF History!Present, OnlyRow
    <2>2. stamp[r] <= stamp[r]
      BY <1>1 DEF History!TypeOK
    <2>3. History!Newest = r
      BY <2>1, <2>2 DEF History!Newest
    <2>4. r # NoRow
      BY HistoryAssumption DEF History!Distinct
    <2> QED BY <1>1, <2>3, <2>4 DEF History!Current, History!TypeOK
  <1>2. ASSUME \A r \in Rows : table[r] = Absent
        PROVE History!Newest = NoRow /\ History!Current = Empty
    BY <1>2 DEF History!Present, History!Newest, History!Current
  <1> QED BY <1>1, <1>2, HistoryAssumption DEF History!Distinct

LEMMA HistoryInit == ASSUME NEW c, Clients = {c}, History!Init PROVE HistoryInv(c)
  <1>1. History!TypeOK
    BY HistoryAssumption
    DEF History!Init, History!TypeOK, History!Distinct, History!Bounds, History!Calls, History!Idle
  <1> QED BY <1>1 DEF History!Init, HistoryInv, OnlyRow, History!Idle

LEMMA HistoryReadsNext ==
  ASSUME History!TypeOK', OnlyRow'
  PROVE /\ \A r \in Rows : table'[r] # Absent => History!Current' = table'[r]
        /\ (\A r \in Rows : table'[r] = Absent) => History!Current' = Empty
  <1>1. ASSUME NEW r \in Rows, table'[r] # Absent PROVE History!Current' = table'[r]
    <2>1. History!Present' = {r}
      BY <1>1 DEF History!Present, OnlyRow
    <2>2. stamp'[r] <= stamp'[r]
      BY <1>1 DEF History!TypeOK
    <2>3. History!Newest' = r
      BY <2>1, <2>2 DEF History!Newest
    <2>4. r # NoRow
      BY HistoryAssumption DEF History!Distinct
    <2> QED BY <1>1, <2>3, <2>4 DEF History!Current
  <1>2. ASSUME \A r \in Rows : table'[r] = Absent PROVE History!Current' = Empty
    BY <1>2 DEF History!Present, History!Newest, History!Current
  <1> QED BY <1>1, <1>2

\* What the abstract text sees of a step that leaves the rows alone.
LEMMA HistoryStays ==
  ASSUME UNCHANGED <<table, stamp>>
  PROVE History!Current' = History!Current /\ History!Newest' = History!Newest
  BY DEF History!Current, History!Newest, History!Present

HistoryKept == {text \in Texts : snaps[text] > 0}

\* A step of the abstract text, or none that it sees.
TextStep ==
  \/ HistoryKept' = HistoryKept \cup {History!Current} /\ History!Current' = History!Current
  \/ HistoryKept' = HistoryKept /\ History!Current' = Empty
  \/ \E text \in Texts :
       \/ History!Current \in HistoryKept \cup {Empty} /\ History!Current' = text /\ HistoryKept' = HistoryKept
       \/ HistoryKept' = HistoryKept \ {text} /\ History!Current' = History!Current
  \/ HistoryKept' = HistoryKept /\ History!Current' = History!Current

LEMMA HistoryStep ==
  ASSUME NEW c, Clients = {c}, HistoryInv(c), [History!Next]_history
  PROVE HistoryInv(c)' /\ TextStep
  <1>a. /\ History!TypeOK /\ OnlyRow /\ \A r \in Rows : table[r] # Absent => r \in used
        /\ save \in [{c} -> History!Calls] /\ save[c] \in History!Calls
        /\ table \in [Rows -> Texts \cup {Absent}] /\ stamp \in [Rows -> 0..MaxWrites] /\ used \subseteq Rows
        /\ snaps \in [Texts -> 0..MaxSnaps] /\ now \in 0..MaxWrites
        /\ save[c].pc = "snap" => save[c].old = History!Current
        /\ save[c].pc \in {"find", "write"} =>
             \/ History!Current \in {Empty, save[c].new}
             \/ snaps[History!Current] > 0
        /\ save[c].pc = "write" => save[c].row = History!Newest
        /\ History!Newest \in Rows \cup {NoRow} /\ History!Current \in Texts
        /\ History!Newest # NoRow => table[History!Newest] # Absent
    BY HistoryReads DEF HistoryInv, History!TypeOK
  <1>b. /\ Empty \in Texts /\ Absent \notin Texts /\ NoRow \notin Rows
        /\ MaxWrites \in Nat /\ MaxSnaps \in Nat
    BY HistoryAssumption DEF History!Distinct, History!Bounds
  <1>c. History!Idle \in History!Calls
    BY <1>b DEF History!Idle, History!Calls
  \* A step of the call that leaves the rows alone.
  <1>d. ASSUME UNCHANGED <<table, stamp, used>>, now' \in 0..MaxWrites, snaps' \in [Texts -> 0..MaxSnaps],
               save' \in [{c} -> History!Calls],
               save'[c].pc = "snap" => save'[c].old = History!Current,
               save'[c].pc \in {"find", "write"} =>
                 \/ History!Current \in {Empty, save'[c].new}
                 \/ snaps'[History!Current] > 0,
               save'[c].pc = "write" => save'[c].row = History!Newest
        PROVE HistoryInv(c)' /\ History!Current' = History!Current
    <2>1. History!Current' = History!Current /\ History!Newest' = History!Newest
      BY <1>d, HistoryStays
    <2>2. History!TypeOK'
      BY <1>a, <1>d DEF History!TypeOK
    <2>3. OnlyRow' /\ \A r \in Rows : table'[r] # Absent => r \in used'
      BY <1>a, <1>d DEF OnlyRow
    <2> QED BY <1>a, <1>d, <2>1, <2>2, <2>3 DEF HistoryInv
  <1>0. CASE UNCHANGED history
    <2>1. HistoryInv(c)' /\ History!Current' = History!Current
      BY <1>0, <1>a, <1>d DEF history
    <2> QED BY <1>0, <2>1 DEF history, TextStep, HistoryKept
  <1>1. ASSUME NEW text \in Texts, History!SaveBegin(c, text) PROVE HistoryInv(c)' /\ TextStep
    <2>1. save' = [save EXCEPT ![c] = [History!Idle EXCEPT !.pc = "existing", !.new = text]]
          /\ UNCHANGED <<table, stamp, used, snaps, now>>
      BY <1>1 DEF History!SaveBegin
    <2>2. ASSUME NEW z \in History!Calls
          PROVE /\ [z EXCEPT !.pc = "existing", !.new = text] \in History!Calls
                /\ [z EXCEPT !.pc = "existing", !.new = text].pc = "existing"
      BY <1>1 DEF History!Calls
    <2>3. save' \in [{c} -> History!Calls] /\ save'[c].pc = "existing"
      BY <1>a, <1>c, <2>1, <2>2
    <2>4. HistoryInv(c)' /\ History!Current' = History!Current
      BY <1>a, <1>d, <2>1, <2>3
    <2> QED BY <2>1, <2>4 DEF TextStep, HistoryKept
  <1>2. ASSUME NEW text \in Texts, History!DeleteSnapshot(c, text) PROVE HistoryInv(c)' /\ TextStep
    <2>1. save[c] = History!Idle /\ snaps[text] > 0 /\ snaps' = [snaps EXCEPT ![text] = @ - 1]
          /\ UNCHANGED <<table, stamp, used, save, now>>
      BY <1>2 DEF History!DeleteSnapshot
    <2>2. snaps' \in [Texts -> 0..MaxSnaps] /\ save[c].pc = "idle"
      BY <1>a, <1>b, <2>1 DEF History!Idle
    <2>3. HistoryInv(c)' /\ History!Current' = History!Current
      BY <1>a, <1>d, <2>1, <2>2
    <2>4. HistoryKept' = HistoryKept \/ HistoryKept' = HistoryKept \ {text}
      BY <1>a, <2>1 DEF HistoryKept
    <2> QED BY <2>3, <2>4 DEF TextStep
  <1>3. CASE History!ReadExisting(c)
    <2> DEFINE next == IF History!Current \in {Empty, save[c].new} THEN "find" ELSE "snap"
    <2>1. save[c].pc = "existing" /\ UNCHANGED <<table, stamp, used, snaps, now>>
          /\ save' = [save EXCEPT ![c].old = History!Current, ![c].pc = next]
      BY <1>3 DEF History!ReadExisting, History!At
    <2>2. /\ save' \in [{c} -> History!Calls] /\ save'[c].pc = next /\ save'[c].old = History!Current
          /\ save'[c].new = save[c].new
      BY <1>a, <2>1 DEF History!Calls
    <2>3. HistoryInv(c)' /\ History!Current' = History!Current
      BY <1>a, <1>d, <2>1, <2>2
    <2> QED BY <2>1, <2>3 DEF TextStep, HistoryKept
  <1>4. CASE History!Snapshot(c)
    <2>1. save[c].pc = "snap" /\ snaps[save[c].old] < MaxSnaps /\ UNCHANGED <<table, stamp, used, now>>
          /\ snaps' = [snaps EXCEPT ![save[c].old] = @ + 1] /\ save' = [save EXCEPT ![c].pc = "find"]
      BY <1>4 DEF History!Snapshot, History!At, History!Goto
    <2>2. save' \in [{c} -> History!Calls] /\ save'[c].pc = "find"
      BY <1>a, <2>1 DEF History!Calls
    <2>3. snaps' \in [Texts -> 0..MaxSnaps] /\ snaps'[History!Current] > 0
      BY <1>a, <1>b, <2>1
    <2>4. HistoryInv(c)' /\ History!Current' = History!Current
      BY <1>a, <1>d, <2>1, <2>2, <2>3
    <2>5. HistoryKept' = HistoryKept \cup {History!Current}
      BY <1>a, <1>b, <2>1 DEF HistoryKept
    <2> QED BY <2>4, <2>5 DEF TextStep
  <1>5. CASE History!FindRow(c)
    <2>1. save[c].pc = "find" /\ now < MaxWrites /\ now' = now + 1 /\ UNCHANGED <<table, stamp, used, snaps>>
          /\ save' = [save EXCEPT ![c].pc = "write", ![c].row = History!Newest, ![c].now = now + 1]
      BY <1>5 DEF History!FindRow, History!At
    <2>2. now' \in 0..MaxWrites
      BY <1>a, <1>b, <2>1
    <2>3. /\ save' \in [{c} -> History!Calls] /\ save'[c].pc = "write" /\ save'[c].row = History!Newest
          /\ save'[c].new = save[c].new
      BY <1>a, <2>1, <2>2 DEF History!Calls
    <2>4. HistoryInv(c)' /\ History!Current' = History!Current
      BY <1>a, <1>d, <2>1, <2>2, <2>3
    <2> QED BY <2>1, <2>4 DEF TextStep, HistoryKept
  \* A step that leaves one row with the new content.
  <1>e. ASSUME NEW r \in Rows, save[c].pc = "write", save' = [save EXCEPT ![c] = History!Idle],
               table' = [table EXCEPT ![r] = save[c].new], stamp' = [stamp EXCEPT ![r] = save[c].now],
               used' = used \cup {r}, UNCHANGED <<snaps, now>>,
               \A s \in Rows : table[s] # Absent => s = r
        PROVE HistoryInv(c)' /\ TextStep
    <2>1. save[c].new \in Texts /\ save[c].now \in 0..MaxWrites
      BY <1>a DEF History!Calls
    <2>2. History!TypeOK'
      BY <1>a, <1>c, <1>e, <2>1 DEF History!TypeOK
    <2>3. OnlyRow' /\ table'[r] = save[c].new /\ save[c].new # Absent /\ \A s \in Rows : table'[s] # Absent => s = r
      BY <1>a, <1>b, <1>e, <2>1 DEF OnlyRow
    <2>4. save'[c].pc = "idle"
      BY <1>a, <1>e DEF History!Idle
    <2>5. HistoryInv(c)'
      BY <1>e, <2>2, <2>3, <2>4 DEF HistoryInv
    <2>6. \A s \in Rows : table'[s] # Absent => History!Current' = table'[s]
      BY <2>2, <2>3, HistoryReadsNext
    <2>7. History!Current' = save[c].new
      BY <1>a, <2>3, <2>6
    <2>8. History!Current \in HistoryKept \cup {Empty} \/ History!Current = save[c].new
      BY <1>a, <1>e DEF HistoryKept
    <2>9. HistoryKept' = HistoryKept
      BY <1>e DEF HistoryKept
    <2> QED BY <2>1, <2>5, <2>7, <2>8, <2>9 DEF TextStep
  <1>6. CASE History!UpdateRow(c)
    <2>1. save[c].pc = "write" /\ save[c].row # NoRow /\ save' = [save EXCEPT ![c] = History!Idle]
          /\ UNCHANGED <<used, snaps, now>>
      BY <1>6 DEF History!UpdateRow, History!At, History!End
    <2>2. save[c].row \in Rows /\ table[save[c].row] # Absent
      BY <1>a, <2>1
    <2>3. /\ table' = [table EXCEPT ![save[c].row] = save[c].new]
          /\ stamp' = [stamp EXCEPT ![save[c].row] = save[c].now]
      BY <1>6, <2>2 DEF History!UpdateRow, History!WriteTo, History!Present
    <2>4. used' = used \cup {save[c].row} /\ \A s \in Rows : table[s] # Absent => s = save[c].row
      BY <1>a, <2>1, <2>2 DEF OnlyRow
    <2> QED BY <1>e, <2>1, <2>2, <2>3, <2>4
  <1>7. CASE History!InsertRow(c)
    <2>1. save[c].pc = "write" /\ save[c].row = NoRow /\ save' = [save EXCEPT ![c] = History!Idle]
          /\ UNCHANGED <<snaps, now>>
      BY <1>7 DEF History!InsertRow, History!At, History!End
    <2>2. PICK r \in Rows \ used : History!WriteTo(c, r) /\ used' = used \cup {r}
      BY <1>7 DEF History!InsertRow
    <2>3. \A s \in Rows : table[s] = Absent
      BY <1>a, <1>b, <2>1, HistoryReads
    <2> QED BY <1>e, <2>1, <2>2, <2>3 DEF History!WriteTo
  <1>8. CASE History!Clear(c)
    <2>1. save[c] = History!Idle /\ table' = [r \in Rows |-> Absent] /\ UNCHANGED <<stamp, used, snaps, save, now>>
      BY <1>8 DEF History!Clear
    <2>2. History!TypeOK' /\ OnlyRow' /\ \A r \in Rows : table'[r] = Absent
      BY <1>a, <2>1 DEF History!TypeOK, OnlyRow
    <2>3. History!Current' = Empty
      BY <2>2, HistoryReadsNext
    <2>4. HistoryInv(c)'
      BY <2>1, <2>2 DEF HistoryInv, History!Idle
    <2>5. HistoryKept' = HistoryKept
      BY <2>1 DEF HistoryKept
    <2> QED BY <2>3, <2>4, <2>5 DEF TextStep
  <1>9. CASE History!Crash
    <2>1. save' = [t \in {c} |-> History!Idle] /\ UNCHANGED <<table, stamp, used, snaps, now>>
      BY <1>9 DEF History!Crash
    <2>2. save' \in [{c} -> History!Calls] /\ save'[c].pc = "idle"
      BY <1>c, <2>1 DEF History!Idle
    <2>3. HistoryInv(c)' /\ History!Current' = History!Current
      BY <1>a, <1>d, <2>1, <2>2
    <2> QED BY <2>1, <2>3 DEF TextStep, HistoryKept
  <1> QED BY <1>0, <1>1, <1>2, <1>3, <1>4, <1>5, <1>6, <1>7, <1>8, <1>9
          DEF History!Next, History!RestoreBegin


-----------------------------------------------------------------------------
(* The copy of a project *)

Listed == 1..Len(todo)
\* The listing at hand names each row once, none that was copied, and, unless the row was
\* edited since, where it lies.
CopyTodo ==
  /\ todo \in Seq([id: Folders \cup Files, in: Copy!Places])
  /\ \A i, j \in Listed : i # j => todo[i].id # todo[j].id
  /\ step = "idle" => todo = <<>> /\ DOMAIN tree = {} /\ early = {}
  /\ step = "folders" => \A i \in Listed :
       /\ todo[i].id \in Folders \ DOMAIN tree
       /\ todo[i].id \notin edited => todo[i].in = parent[todo[i].id]
  /\ step = "files" => \A i \in Listed :
       /\ todo[i].id \in Files /\ \A c \in copies : c.of # todo[i].id
       /\ todo[i].id \notin edited => todo[i].id \in DOMAIN place /\ todo[i].in = place[todo[i].id]

CopyTree ==
  /\ DOMAIN tree \subseteq Folders /\ early \subseteq DOMAIN tree
  /\ \A f \in DOMAIN tree : tree[f] \in DOMAIN tree \cup {Root}
  /\ \A f \in DOMAIN tree \ edited : tree[f] = IF f \in early THEN Root ELSE parent[f]

\* A copy lies where its original was listed; a path without bytes is that of a file that
\* is gone, and a name of its own is the file's.
CopyFiles ==
  /\ step # "files" => copies = {}
  /\ \A c \in copies :
       /\ c.of \in Files
       /\ c.of \notin edited => c.in = Copy!Mapped(place[c.of]) /\ c.bytes
       /\ ~c.bytes => c.of \notin DOMAIN place
       /\ c.path \in {<<c.in, "name">>, <<c.in, "name", c.of>>}
  /\ \A c, d \in copies : c # d =>
       c.of # d.of /\ (c.path # d.path \/ c.of \notin DOMAIN place \/ d.of \notin DOMAIN place)

\* Whatever is left of a listing that was not cut is copied or still to be copied.
CopyRest ==
  /\ IsFiniteSet(copies)
  /\ step = "files" =>
       \/ \A y \in Files \ edited : (\E c \in copies : c.of = y) \/ (\E i \in Listed : todo[i].id = y)
       \/ Cardinality(copies) + Len(todo) = MaxPage

CopySource ==
  /\ parent \in [Folders -> Copy!Places]
  /\ DOMAIN place \subseteq Files /\ \A y \in DOMAIN place : place[y] \in Copy!Places
  /\ Files \ edited \subseteq DOMAIN place
  /\ step \in {"idle", "folders", "files"}
  /\ edited \subseteq Folders \cup Files

CopyInv == CopySource /\ CopyTodo /\ CopyTree /\ CopyFiles /\ CopyRest

LEMMA SequenceItems == ASSUME NEW S, NEW s \in Seq(S) PROVE \A i \in DOMAIN s : s[i] \in S
  OBVIOUS

LEMMA ListingFacts ==
  ASSUME NEW S, IsFiniteSet(S), NEW z \in Copy!Listing(S)
  PROVE /\ z \in Seq(S)
        /\ \A i, j \in 1..Len(z) : i # j => z[i] # z[j]
        /\ Len(z) = MaxPage \/ \A r \in S : \E i \in 1..Len(z) : z[i] = r
  <1> DEFINE n == Cardinality(S)
  <1>1. n \in Nat /\ MaxPage \in Nat
    BY FS_CardinalityType, CopyAssumption
  <1>2. Copy!Cardinality(S) = n
    BY DEF Copy!Cardinality, Cardinality
  <1>3. PICK s \in Copy!SetToSeqs(S) : z = SubSeq(s, 1, IF Len(s) < MaxPage THEN Len(s) ELSE MaxPage)
    BY DEF Copy!Listing
  <1>4. s \in [1..n -> S] /\ \A i, j \in 1..n : i # j => s[i] # s[j]
    BY <1>2, <1>3 DEF Copy!SetToSeqs
  <1> HIDE DEF n
  <1>5. s \in Seq(S) /\ Len(s) = n
    BY <1>1, <1>4
  <1>6. CASE n < MaxPage
    <2>1. z = s
      BY <1>1, <1>3, <1>5, <1>6
    <2>2. s \in Injection(1..n, S)
      BY <1>4 DEF Injection, IsInjective
    <2>3. IsFiniteSet(1..n) /\ Cardinality(1..n) = n
      BY <1>1, FS_Interval
    <2>4. s \in Surjection(1..n, S)
      BY <2>2, <2>3, FS_Injection DEF n
    <2>5. \A r \in S : \E i \in 1..n : s[i] = r
      BY <2>4 DEF Surjection
    <2> QED BY <1>4, <1>5, <2>1, <2>5
  <1>7. CASE ~(n < MaxPage)
    <2>1. z = SubSeq(s, 1, MaxPage) /\ MaxPage \in 0..n
      BY <1>1, <1>3, <1>5, <1>7
    <2>2. z \in Seq(S) /\ Len(z) = MaxPage /\ \A i \in 1..MaxPage : z[i] = s[i]
      BY <1>1, <1>5, <2>1
    <2> QED BY <1>1, <1>4, <2>1, <2>2
  <1> QED BY <1>6, <1>7

\* The rows of a table are as many as their ids.
LEMMA RowsFinite ==
  ASSUME NEW S, IsFiniteSet(S), NEW where
  PROVE IsFiniteSet({Copy!Row(y, where[y]) : y \in S})
  <1> DEFINE T == {Copy!Row(y, where[y]) : y \in S}
             row == [y \in S |-> Copy!Row(y, where[y])]
  <1>1. row \in Surjection(S, T)
    BY DEF Surjection
  <1> HIDE DEF row, T
  <1>2. IsFiniteSet(T)
    BY <1>1, FS_Surjection
  <1> QED BY <1>2 DEF T

\* What remains of a listing behind its first row.
LEMMA TailFacts ==
  ASSUME NEW S, todo \in Seq(S), todo # <<>>, todo' = Tail(todo),
         \A i, j \in Listed : i # j => todo[i].id # todo[j].id
  PROVE /\ todo' \in Seq(S) /\ Len(todo') = Len(todo) - 1 /\ Len(todo) \in Nat \ {0}
        /\ Head(todo) = todo[1] /\ 1 \in Listed /\ todo[1] \in S
        /\ \A i \in Listed' : i + 1 \in Listed /\ todo'[i] = todo[i + 1] /\ todo[i + 1].id # todo[1].id
        /\ \A i \in Listed : i = 1 \/ (i - 1 \in Listed' /\ todo'[i - 1] = todo[i])
        /\ \A i, j \in Listed' : i # j => todo'[i].id # todo'[j].id
  <1>1. /\ todo' \in Seq(S) /\ Len(todo') = Len(todo) - 1 /\ Len(todo) \in Nat \ {0}
        /\ Head(todo) = todo[1] /\ \A i \in 1..Len(todo) - 1 : todo'[i] = todo[i + 1]
    OBVIOUS
  <1>2. 1 \in Listed /\ todo[1] \in S
    BY <1>1 DEF Listed
  <1>3. \A i \in Listed' : i + 1 \in Listed /\ todo'[i] = todo[i + 1] /\ i + 1 # 1
    BY <1>1 DEF Listed
  <1>4. \A i \in Listed : i = 1 \/ (i - 1 \in Listed' /\ todo'[i - 1] = todo[i])
    BY <1>1 DEF Listed
  <1>5. \A i, j \in Listed' : i # j => todo'[i].id # todo'[j].id
    <2> SUFFICES ASSUME NEW i \in Listed', NEW j \in Listed', i # j PROVE todo'[i].id # todo'[j].id
      OBVIOUS
    <2>1. i + 1 \in Listed /\ j + 1 \in Listed /\ i + 1 # j + 1
      BY <1>1, <1>3 DEF Listed
    <2> QED BY <1>3, <2>1
  <1> QED BY <1>1, <1>2, <1>3, <1>4, <1>5

LEMMA CopyInit == ASSUME Copy!Init PROVE CopyInv
  <1>1. /\ parent \in [Folders -> Copy!Places] /\ place \in [Files -> Copy!Places] /\ step = "idle" /\ todo = <<>>
        /\ DOMAIN tree = {} /\ copies = {} /\ edited = {} /\ early = {}
    BY DEF Copy!Init
  <1>2. Listed = {}
    BY <1>1 DEF Listed
  <1>3. IsFiniteSet({})
    BY FS_EmptySet
  <1> QED BY <1>1, <1>2, <1>3 DEF CopyInv, CopySource, CopyTodo, CopyTree, CopyFiles, CopyRest

LEMMA ListFoldersStep == ASSUME CopyInv, Copy!ListFolders PROVE CopyInv'
  <1> DEFINE S == {Copy!Row(f, parent[f]) : f \in Folders}
  <1>a. CopySource /\ CopyTodo /\ CopyTree /\ CopyFiles /\ CopyRest
    BY DEF CopyInv
  <1>b. /\ step = "idle" /\ step' = "folders" /\ todo' \in Copy!Listing(S)
        /\ UNCHANGED <<parent, place, tree, copies, edited, early>>
    BY DEF Copy!ListFolders
  <1>1. IsFiniteSet(S)
    BY RowsFinite, CopyAssumption
  <1>2. todo' \in Seq(S) /\ \A i, j \in Listed' : i # j => todo'[i] # todo'[j]
    BY <1>b, <1>1, ListingFacts DEF Listed
  <1>3. \A r \in S : r.id \in Folders /\ r.in = parent[r.id] /\ r = Copy!Row(r.id, parent[r.id]) /\ r \in [id: Folders \cup Files, in: Copy!Places]
    BY <1>a DEF CopySource, Copy!Row
  <1>4. \A i \in Listed' : todo'[i] \in S
    BY <1>2 DEF Listed
  <1> HIDE DEF S
  <1>5. todo' \in Seq([id: Folders \cup Files, in: Copy!Places])
    BY <1>2, <1>3, SeqMonotonic
  <1>6. \A i, j \in Listed' : i # j => todo'[i].id # todo'[j].id
    BY <1>2, <1>3, <1>4
  <1>7. CopyTodo'
    BY <1>a, <1>b, <1>3, <1>4, <1>5, <1>6 DEF CopyTodo
  <1>8. CopySource' /\ CopyTree' /\ CopyFiles' /\ CopyRest'
    BY <1>a, <1>b DEF CopySource, CopyTree, CopyFiles, CopyRest
  <1> QED BY <1>7, <1>8 DEF CopyInv

LEMMA CopyFolderStep == ASSUME CopyInv, Copy!CopyFolder PROVE CopyInv'
  <1> DEFINE row == todo[1]
  <1>a. CopySource /\ CopyTodo /\ CopyTree /\ CopyFiles /\ CopyRest
    BY DEF CopyInv
  <1>b. /\ step = "folders" /\ todo # <<>> /\ todo' = Tail(todo) /\ UNCHANGED <<parent, place, step, copies, edited>>
    BY DEF Copy!CopyFolder
  <1>1. /\ todo' \in Seq([id: Folders \cup Files, in: Copy!Places])
        /\ Head(todo) = row /\ 1 \in Listed /\ row \in [id: Folders \cup Files, in: Copy!Places]
        /\ \A i \in Listed' : i + 1 \in Listed /\ todo'[i] = todo[i + 1] /\ todo[i + 1].id # row.id
        /\ \A i, j \in Listed' : i # j => todo'[i].id # todo'[j].id
    BY <1>a, <1>b, TailFacts DEF CopyTodo
  <1>2. row.in \in Copy!Places /\ row.id \in Folders \ DOMAIN tree /\ (row.id \notin edited => row.in = parent[row.id])
    BY <1>a, <1>b, <1>1 DEF CopyTodo
  <1>3. /\ DOMAIN tree' = DOMAIN tree \cup {row.id}
        /\ tree'[row.id] = Copy!Mapped(row.in)
        /\ \A f \in DOMAIN tree : f # row.id => tree'[f] = tree[f]
        /\ early' = IF row.in \in Copy!Places \ (DOMAIN tree \cup {Root}) THEN early \cup {row.id} ELSE early
    BY <1>1 DEF Copy!CopyFolder
  <1> HIDE DEF row
  <1>4. CopyTodo'
    <2>1. ASSUME NEW i \in Listed'
          PROVE /\ todo'[i].id \in Folders \ DOMAIN tree'
                /\ todo'[i].id \notin edited => todo'[i].in = parent[todo'[i].id]
      <3>1. PICK j \in Listed : todo'[i] = todo[j] /\ todo[j].id # row.id
        BY <1>1
      <3> QED BY <1>a, <1>b, <1>3, <3>1 DEF CopyTodo
    <2> QED BY <1>b, <1>1, <2>1 DEF CopyTodo
  <1>5. CopyTree'
    BY <1>a, <1>b, <1>1, <1>2, <1>3, CopyAssumption DEF CopyTree, Copy!Mapped, Copy!Places
  <1>6. CopySource' /\ CopyFiles' /\ CopyRest'
    BY <1>a, <1>b DEF CopySource, CopyFiles, CopyRest
  <1> QED BY <1>4, <1>5, <1>6 DEF CopyInv

LEMMA ListFilesStep == ASSUME CopyInv, Copy!ListFiles PROVE CopyInv'
  <1> DEFINE S == {Copy!Row(y, place[y]) : y \in DOMAIN place}
  <1>a. CopySource /\ CopyTodo /\ CopyTree /\ CopyFiles /\ CopyRest
    BY DEF CopyInv
  <1>b. /\ step = "folders" /\ step' = "files" /\ todo' \in Copy!Listing(S)
        /\ UNCHANGED <<parent, place, tree, copies, edited, early>>
    BY DEF Copy!ListFiles
  <1>1. IsFiniteSet(S)
    <2>1. IsFiniteSet(DOMAIN place)
      BY <1>a, CopyAssumption, FS_Subset DEF CopySource
    <2> QED BY <2>1, RowsFinite
  <1>2. /\ todo' \in Seq(S) /\ \A i, j \in Listed' : i # j => todo'[i] # todo'[j]
        /\ Len(todo') = MaxPage \/ \A r \in S : \E i \in Listed' : todo'[i] = r
    BY ZenonT(40), <1>b, <1>1, ListingFacts DEF Listed
  <1>3. \A r \in S : /\ r.id \in DOMAIN place /\ r.in = place[r.id] /\ r = Copy!Row(r.id, place[r.id])
                     /\ r \in [id: Folders \cup Files, in: Copy!Places]
    BY <1>a DEF CopySource, Copy!Row
  <1>4. \A i \in Listed' : todo'[i] \in S
    BY <1>2 DEF Listed
  <1>5. \A y \in DOMAIN place : \E r \in S : r.id = y
    <2> SUFFICES ASSUME NEW y \in DOMAIN place PROVE \E r \in S : r.id = y
      OBVIOUS
    <2>1. Copy!Row(y, place[y]) \in S
      OBVIOUS
    <2>2. Copy!Row(y, place[y]).id = y
      BY DEF Copy!Row
    <2> QED BY <2>1, <2>2
  <1> HIDE DEF S
  <1>6. todo' \in Seq([id: Folders \cup Files, in: Copy!Places])
    BY <1>2, <1>3, SeqMonotonic
  <1>7. \A i, j \in Listed' : i # j => todo'[i].id # todo'[j].id
    BY <1>2, <1>3, <1>4
  <1>8. copies = {} /\ Cardinality(copies) = 0
    BY <1>a, <1>b, FS_EmptySet DEF CopyFiles
  <1>9. CopyTodo'
    BY <1>a, <1>b, <1>3, <1>4, <1>6, <1>7, <1>8 DEF CopyTodo, CopySource
  <1>10. CopyRest'
    <2>1. CASE Len(todo') = MaxPage
      BY <1>a, <1>b, <1>8, <2>1, CopyAssumption DEF CopyRest
    <2>2. CASE \A r \in S : \E i \in Listed' : todo'[i] = r
      <3>1. \A y \in Files \ edited : \E i \in Listed' : todo'[i].id = y
        BY <1>a, <1>5, <2>2 DEF CopySource
      <3> QED BY <1>a, <1>b, <3>1 DEF CopyRest
    <2> QED BY <1>2, <2>1, <2>2
  <1>11. CopySource' /\ CopyTree' /\ CopyFiles'
    BY <1>a, <1>b, <1>8 DEF CopySource, CopyTree, CopyFiles
  <1> QED BY <1>9, <1>10, <1>11 DEF CopyInv

LEMMA CopyFileStep == ASSUME CopyInv, Copy!CopyFile PROVE CopyInv'
  <1> DEFINE row == todo[1]
             in == Copy!Mapped(row.in)
             new == [of |-> row.id, in |-> in, path |-> Copy!FreePath(in, row.id), bytes |-> row.id \in DOMAIN place]
  <1>a. CopySource /\ CopyTodo /\ CopyTree /\ CopyFiles /\ CopyRest
    BY DEF CopyInv
  <1>b. /\ step = "files" /\ todo # <<>> /\ todo' = Tail(todo)
        /\ UNCHANGED <<parent, place, step, tree, edited, early>>
    BY DEF Copy!CopyFile
  <1>1. /\ todo' \in Seq([id: Folders \cup Files, in: Copy!Places])
        /\ Len(todo') = Len(todo) - 1 /\ Len(todo) \in Nat
        /\ Head(todo) = row /\ 1 \in Listed
        /\ \A i \in Listed' : i + 1 \in Listed /\ todo'[i] = todo[i + 1] /\ todo[i + 1].id # row.id
        /\ \A i \in Listed : i = 1 \/ (i - 1 \in Listed' /\ todo'[i - 1] = todo[i])
        /\ \A i, j \in Listed' : i # j => todo'[i].id # todo'[j].id
    BY <1>a, <1>b, TailFacts DEF CopyTodo
  <1>2. /\ row.id \in Files /\ \A c \in copies : c.of # row.id
        /\ row.id \notin edited => row.id \in DOMAIN place /\ row.in = place[row.id]
    BY <1>a, <1>b, <1>1 DEF CopyTodo
  <1>3. copies' = copies \cup {new}
    BY <1>1 DEF Copy!CopyFile
  <1>4. /\ new.of = row.id /\ new.in = in /\ new.bytes = (row.id \in DOMAIN place)
        /\ new.path \in {<<in, "name">>, <<in, "name", row.id>>}
        /\ new.path = <<in, "name">> => \A c \in copies : ~(c.path = new.path /\ c.bytes)
    BY DEF Copy!FreePath, Copy!OnDisk
  <1>5. \A c \in copies : c.path # new.path \/ c.of \notin DOMAIN place
    <2> SUFFICES ASSUME NEW c \in copies, c.path = new.path, c.of \in DOMAIN place PROVE FALSE
      OBVIOUS
    <2>1. c.bytes /\ c.path \in {<<c.in, "name">>, <<c.in, "name", c.of>>} /\ c.of # row.id
      BY <1>a, <1>2 DEF CopyFiles
    <2>2. new.path = <<in, "name", row.id>>
      BY <1>4, <2>1
    <2> QED BY <2>1, <2>2
  <1>6. in = Copy!Mapped(row.in)
    OBVIOUS
  <1> HIDE DEF new, in, row
  <1>7. CopyTodo'
    <2>1. ASSUME NEW i \in Listed'
          PROVE /\ todo'[i].id \in Files /\ \A c \in copies' : c.of # todo'[i].id
                /\ todo'[i].id \notin edited =>
                     todo'[i].id \in DOMAIN place /\ todo'[i].in = place[todo'[i].id]
      <3>1. PICK j \in Listed : todo'[i] = todo[j] /\ todo[j].id # row.id
        BY <1>1
      <3> QED BY <1>a, <1>b, <1>3, <1>4, <3>1 DEF CopyTodo
    <2> QED BY <1>b, <1>1, <2>1 DEF CopyTodo
  <1>8. CopyFiles'
    <2>1. \A c \in copies' :
            /\ c.of \in Files
            /\ c.of \notin edited' => c.in = Copy!Mapped(place[c.of])' /\ c.bytes
            /\ ~c.bytes => c.of \notin DOMAIN place'
            /\ c.path \in {<<c.in, "name">>, <<c.in, "name", c.of>>}
      BY <1>a, <1>b, <1>2, <1>3, <1>4, <1>6 DEF CopyFiles, Copy!Mapped
    <2>2. \A c, d \in copies' : c # d =>
            c.of # d.of /\ (c.path # d.path \/ c.of \notin DOMAIN place' \/ d.of \notin DOMAIN place')
      BY <1>a, <1>b, <1>2, <1>3, <1>4, <1>5 DEF CopyFiles
    <2> QED BY <1>b, <2>1, <2>2 DEF CopyFiles
  <1>9. CopyRest'
    <2>1. new \notin copies
      BY <1>2, <1>4
    <2>2. IsFiniteSet(copies') /\ Cardinality(copies') = Cardinality(copies) + 1 /\ Cardinality(copies) \in Nat
      BY <1>a, <1>3, <2>1, FS_AddElement, FS_CardinalityType DEF CopyRest
    <2>3. ASSUME Cardinality(copies) + Len(todo) = MaxPage PROVE Cardinality(copies') + Len(todo') = MaxPage
      BY <1>1, <2>2, <2>3
    <2>4. ASSUME \A y \in Files \ edited : (\E c \in copies : c.of = y) \/ (\E i \in Listed : todo[i].id = y)
          PROVE \A y \in Files \ edited : (\E c \in copies' : c.of = y) \/ (\E i \in Listed' : todo'[i].id = y)
      <3> SUFFICES ASSUME NEW y \in Files \ edited, NEW i \in Listed, todo[i].id = y
                   PROVE (\E c \in copies' : c.of = y) \/ (\E j \in Listed' : todo'[j].id = y)
        BY <1>3, <2>4
      <3>1. CASE i = 1
        BY <1>3, <1>4, <3>1 DEF row
      <3>2. CASE i # 1
        BY <1>1, <3>2
      <3> QED BY <3>1, <3>2
    <2> QED BY <1>a, <1>b, <2>2, <2>3, <2>4 DEF CopyRest
  <1>10. CopySource' /\ CopyTree'
    BY <1>a, <1>b DEF CopySource, CopyTree
  <1> QED BY <1>7, <1>8, <1>9, <1>10 DEF CopyInv

\* The source is edited: what is left to do, or done, is of rows that were not.
LEMMA EditStep ==
  ASSUME CopyInv, NEW what \in Folders \cup Files, Copy!Edit(what), CopySource',
         \A f \in Folders \ {what} : parent'[f] = parent[f],
         DOMAIN place' \subseteq DOMAIN place,
         \A y \in DOMAIN place \ {what} : y \in DOMAIN place' /\ place'[y] = place[y]
  PROVE CopyInv'
  <1>a. CopySource /\ CopyTodo /\ CopyTree /\ CopyFiles /\ CopyRest
    BY DEF CopyInv
  <1>b. /\ step # "idle" /\ edited' = edited \cup {what} /\ UNCHANGED <<step, todo, tree, copies, early>>
        /\ Listed' = Listed
    BY DEF Copy!Edit, Listed
  <1>1. \A f \in Folders \ edited' : parent'[f] = parent[f] /\ f \notin edited
    BY <1>b
  <1>2. \A y \in Files \ edited' : y \in DOMAIN place /\ y \in DOMAIN place' /\ place'[y] = place[y] /\ y \notin edited
    BY <1>a, <1>b DEF CopySource
  <1>3. CopyTodo'
    BY <1>a, <1>b, <1>1, <1>2 DEF CopyTodo
  <1>4. CopyTree'
    BY <1>a, <1>b, <1>1 DEF CopyTree
  <1>5. CopyFiles'
    <2>1. \A c \in copies' :
            /\ c.of \in Files
            /\ c.of \notin edited' => c.in = Copy!Mapped(place[c.of])' /\ c.bytes
            /\ ~c.bytes => c.of \notin DOMAIN place'
            /\ c.path \in {<<c.in, "name">>, <<c.in, "name", c.of>>}
      BY <1>a, <1>b, <1>2 DEF CopyFiles, Copy!Mapped
    <2>2. \A c, d \in copies' : c # d =>
            c.of # d.of /\ (c.path # d.path \/ c.of \notin DOMAIN place' \/ d.of \notin DOMAIN place')
      BY <1>a, <1>b DEF CopyFiles
    <2> QED BY <1>a, <1>b, <2>1, <2>2 DEF CopyFiles
  <1>6. CopyRest'
    BY <1>a, <1>b DEF CopyRest
  <1> QED BY <1>3, <1>4, <1>5, <1>6 DEF CopyInv

LEMMA CopyStep == ASSUME CopyInv, [Copy!Next]_copy PROVE CopyInv'
  <1>a. CopySource
    BY DEF CopyInv
  <1>1. ASSUME NEW f \in Folders, NEW to \in Copy!Places, Copy!MoveFolder(f, to) PROVE CopyInv'
    <2>1. parent' = [parent EXCEPT ![f] = to] /\ Copy!Edit(f) /\ UNCHANGED place
      BY <1>1 DEF Copy!MoveFolder
    <2>2. CopySource' /\ \A g \in Folders \ {f} : parent'[g] = parent[g]
      BY <1>a, <2>1 DEF CopySource, Copy!Edit
    <2> QED BY <2>1, <2>2, EditStep
  <1>2. ASSUME NEW y \in Files, NEW to \in Copy!Places, Copy!MoveFile(y, to) PROVE CopyInv'
    <2>1. y \in DOMAIN place /\ place' = [place EXCEPT ![y] = to] /\ Copy!Edit(y) /\ UNCHANGED parent
      BY <1>2 DEF Copy!MoveFile
    <2>2. DOMAIN place' = DOMAIN place /\ place'[y] = to /\ \A z \in DOMAIN place \ {y} : place'[z] = place[z]
      BY <2>1
    <2>3. CopySource'
      BY <1>a, <2>1, <2>2 DEF CopySource, Copy!Edit
    <2> QED BY <2>1, <2>2, <2>3, EditStep
  <1>3. ASSUME NEW y \in Files, Copy!DeleteFile(y) PROVE CopyInv'
    <2>1. place' = [z \in DOMAIN place \ {y} |-> place[z]] /\ Copy!Edit(y) /\ UNCHANGED parent
      BY <1>3 DEF Copy!DeleteFile
    <2>2. DOMAIN place' = DOMAIN place \ {y} /\ \A z \in DOMAIN place \ {y} : place'[z] = place[z]
      BY <2>1
    <2>3. CopySource'
      BY <1>a, <2>1, <2>2 DEF CopySource, Copy!Edit
    <2> QED BY <2>1, <2>2, <2>3, EditStep
  <1>4. CASE UNCHANGED copy
    <2>1. CopySource' /\ CopyTodo'
      BY <1>4 DEF copy, CopyInv, CopySource, CopyTodo, Listed
    <2>2. CopyTree' /\ CopyFiles' /\ CopyRest'
      BY <1>4 DEF copy, CopyInv, CopyTree, CopyFiles, CopyRest, Listed, Copy!Mapped
    <2> QED BY <2>1, <2>2 DEF CopyInv
  <1> QED BY <1>1, <1>2, <1>3, <1>4, ListFoldersStep, CopyFolderStep, ListFilesStep, CopyFileStep DEF Copy!Next

LEMMA CopyShows == ASSUME CopyInv PROVE Copy!CopyFaithful /\ Copy!TypeOK
  <1>a. CopySource /\ CopyTodo /\ CopyTree /\ CopyFiles /\ CopyRest
    BY DEF CopyInv
  <1>1. Copy!TypeOK
    <2>1. \A i \in DOMAIN todo : todo[i] \in [id: Folders \cup Files, in: Copy!Places]
      <3>1. todo \in Seq([id: Folders \cup Files, in: Copy!Places])
        BY <1>a DEF CopyTodo
      <3> QED BY <3>1, SequenceItems
    <2> QED BY <1>a, <2>1 DEF Copy!TypeOK, CopySource, CopyTree
  <1>2. Copy!Cardinality(copies) = Cardinality(copies)
    BY DEF Copy!Cardinality, Cardinality
  <1>3. ASSUME step = "files", todo = <<>>
        PROVE Files \ edited \subseteq {c.of : c \in copies} \/ Copy!Cardinality(copies) = MaxPage
    <2>1. Listed = {} /\ Len(todo) = 0 /\ Cardinality(copies) \in Nat
      BY <1>a, <1>3, FS_CardinalityType DEF Listed, CopyRest
    <2> QED BY <1>a, <1>2, <1>3, <2>1 DEF CopyRest
  <1> QED BY <1>a, <1>1, <1>3 DEF Copy!CopyFaithful, CopyTree, CopyFiles

-----------------------------------------------------------------------------
(* The rate limiter *)

\* Whom the log names was accepted, and is in the table with that hit, unless a check
\* since then evicted it; that check ended a crowded window.
RateTyped ==
  /\ time \in 0..MaxTime
  /\ DOMAIN hits \subseteq Keys /\ IsFiniteSet(DOMAIN hits)
  /\ \A k \in DOMAIN hits : hits[k] \subseteq 1..time /\ \A u \in hits[k] : log[u] = k
  /\ log \in [Rate!Times -> Keys \cup {NoKey}]
  /\ \A u \in Rate!Times : u > time => log[u] = NoKey

CrowdedAfter(u) == \E v \in Rate!Times : u < v /\ v <= time /\ Rate!Crowded(v)
Known(u) == log[u] \in DOMAIN hits /\ u \in hits[log[u]]
HitsKept == \A u \in Rate!Times : log[u] # NoKey /\ Rate!Within(time, u) => Known(u) \/ CrowdedAfter(u)

\* A window that begins with low has more than Limit hits of a client only if one was crowded.
HitsFrom(k, low) == {u \in Rate!Times : low <= u /\ log[u] = k}
Limited ==
  \A k \in Keys, low \in Rate!Times :
    low + Window > time /\ Cardinality(HitsFrom(k, low)) > Limit => CrowdedAfter(low)

RateInv == RateTyped /\ HitsKept /\ Limited

LEMMA TimesFinite == ASSUME NEW S \in SUBSET Rate!Times PROVE IsFiniteSet(S) /\ Cardinality(S) \in Nat
  <1>1. IsFiniteSet(Rate!Times)
    BY FS_Interval, RateAssumption DEF Rate!Times, Rate!Bounds
  <1> QED BY <1>1, FS_Subset, FS_CardinalityType

LEMMA RateInit == ASSUME Rate!Init PROVE RateInv
  <1>1. time = 0 /\ DOMAIN hits = {} /\ \A u \in Rate!Times : log[u] = NoKey
    BY DEF Rate!Init
  <1>2. RateTyped
    BY <1>1, FS_EmptySet, RateAssumption DEF Rate!Init, RateTyped, Rate!Bounds
  <1>3. HitsKept
    BY <1>1 DEF HitsKept
  <1>4. Limited
    <2> SUFFICES ASSUME NEW k \in Keys, NEW low \in Rate!Times PROVE ~(Cardinality(HitsFrom(k, low)) > Limit)
      BY DEF Limited
    <2>1. HitsFrom(k, low) = {}
      BY <1>1, RateAssumption DEF HitsFrom, Rate!Bounds
    <2>2. Cardinality(HitsFrom(k, low)) = 0
      BY <2>1, FS_EmptySet
    <2> QED BY <2>2, RateAssumption DEF Rate!Bounds
  <1> QED BY <1>2, <1>3, <1>4 DEF RateInv

\* What a window holds that has ended does not change.
LEMMA CrowdedStays ==
  ASSUME RateTyped, time' \in Nat, time' >= time, \A u \in Rate!Times : u <= time => log'[u] = log[u],
         NEW v \in Rate!Times, v <= time, Rate!Crowded(v)
  PROVE Rate!Crowded(v)'
  <1> DEFINE ended == {u \in Rate!Times : Rate!Within(v, u)}
  <1>1. \A u \in ended : u <= time
    BY RateAssumption DEF Rate!Within, Rate!Times, RateTyped, Rate!Bounds
  <1>2. {log'[t] : t \in ended} = {log[t] : t \in ended}
    BY <1>1
  <1>3. Rate!Crowded(v) = (Cardinality({log[t] : t \in ended} \ {NoKey}) > MaxKeys)
    BY DEF Rate!Crowded, Rate!Cardinality, Cardinality
  <1>4. Rate!Crowded(v)' = (Cardinality({log'[t] : t \in ended} \ {NoKey}) > MaxKeys)
    BY DEF Rate!Crowded, Rate!Cardinality, Cardinality, Rate!Within, Rate!Times
  <1> QED BY <1>2, <1>3, <1>4

LEMMA PassStep == ASSUME RateInv, Rate!Pass PROVE RateInv'
  <1>1. RateTyped /\ time \in Nat /\ time' = time + 1 /\ time < MaxTime /\ hits' = hits /\ log' = log
    BY DEF RateInv, RateTyped, Rate!Pass
  <1>2. RateTyped'
    BY <1>1, RateAssumption DEF RateTyped, Rate!Times, Rate!Bounds
  <1>3. ASSUME NEW u \in Rate!Times, CrowdedAfter(u) PROVE CrowdedAfter(u)'
    BY <1>1, <1>3, CrowdedStays DEF CrowdedAfter, Rate!Times
  <1>4. HitsKept'
    <2> SUFFICES ASSUME NEW u \in Rate!Times, log[u] # NoKey, Rate!Within(time + 1, u)
                 PROVE Known(u) \/ CrowdedAfter(u)'
      BY <1>1 DEF HitsKept, Known, Rate!Within, Rate!Times
    <2>1. u <= time
      BY <1>1 DEF RateTyped, Rate!Times
    <2>2. Rate!Within(time, u)
      BY <1>1, <2>1, RateAssumption DEF Rate!Within, Rate!Times, Rate!Bounds
    <2> QED BY <1>3, <2>2 DEF RateInv, HitsKept
  <1>5. Limited'
    <2> SUFFICES ASSUME NEW k \in Keys, NEW low \in Rate!Times, low + Window > time', 
                        Cardinality(HitsFrom(k, low)') > Limit
                 PROVE CrowdedAfter(low)'
      BY DEF Limited, Rate!Times
    <2>1. HitsFrom(k, low)' = HitsFrom(k, low)
      BY <1>1 DEF HitsFrom, Rate!Times
    <2>2. low + Window > time
      BY <1>1, RateAssumption DEF Rate!Times, Rate!Bounds
    <2> QED BY <1>3, <2>1, <2>2 DEF RateInv, Limited
  <1> QED BY <1>2, <1>4, <1>5 DEF RateInv

\* Whoever is evicted leaves a crowded window behind: the clients that it made room for.
LEMMA EvictedFromCrowd ==
  ASSUME RateTyped, NEW key \in Keys, Rate!Request(key), NEW next \in Rate!Times, next = time + 1,
         log' = [log EXCEPT ![next] = key],
         NEW k \in DOMAIN hits, k \notin Rate!Room(key, next), Rate!Fresh(k, next) # {}
  PROVE Rate!Crowded(next)'
  <1> DEFINE live == {l \in DOMAIN hits : Rate!Fresh(l, next) # {}}
             older == {l \in live : Rate!Oldest(l) < Rate!Oldest(k)}
             seen == {log'[t] : t \in {u \in Rate!Times : Rate!Within(next, u)}} \ {NoKey}
  <1>1. next \in Rate!Times /\ time \in Nat
    BY DEF RateTyped
  <1>2. key \notin DOMAIN hits /\ k \notin Rate!Kept(next) /\ k \in live
    BY DEF Rate!Room
  <1>3. IsFiniteSet(live) /\ IsFiniteSet(older)
    BY FS_Subset DEF RateTyped
  <1>4. Cardinality(live) \in Nat /\ Cardinality(older) \in Nat /\ MaxKeys \in Nat
    BY <1>3, FS_CardinalityType, RateAssumption DEF Rate!Bounds
  <1>5. ~(Cardinality(older) >= Cardinality(live) + 1 - MaxKeys)
    BY <1>2 DEF Rate!Kept, Rate!Cardinality, Cardinality
  <1>6. Cardinality(live) >= MaxKeys
    BY <1>4, <1>5
  <1>7. Cardinality(live \cup {key}) = Cardinality(live) + 1 /\ IsFiniteSet(live \cup {key})
    BY <1>2, <1>3, FS_AddElement
  <1>8. live \cup {key} \subseteq seen
    <2>1. ASSUME NEW l \in live PROVE l \in seen
      <3>1. PICK u \in Rate!Fresh(l, next) : TRUE
        OBVIOUS
      <3>2. u \in hits[l] /\ Rate!Within(next, u)
        BY <3>1 DEF Rate!Fresh
      <3>3. u \in Rate!Times /\ u <= time /\ log[u] = l /\ l # NoKey
        BY <3>2, <1>1, RateAssumption DEF RateTyped, Rate!Times, Rate!Bounds
      <3>4. log'[u] = l
        BY <3>3, <1>1 DEF RateTyped, Rate!Times
      <3> QED BY <3>2, <3>3, <3>4
    <2>2. Rate!Within(next, next)
      <3>1. PICK u \in Rate!Fresh(k, next) : TRUE
        OBVIOUS
      <3>2. u \in hits[k] /\ Rate!Within(next, u)
        BY <3>1 DEF Rate!Fresh
      <3> QED BY <3>2, <1>1, RateAssumption DEF Rate!Within, RateTyped, Rate!Bounds
    <2>3. log'[next] = key /\ key # NoKey
      BY <1>1, RateAssumption DEF RateTyped, Rate!Bounds
    <2> QED BY <2>1, <2>2, <2>3, <1>1
  <1>9. IsFiniteSet(seen)
    <2> DEFINE times == {u \in Rate!Times : Rate!Within(next, u)}
    <2>1. IsFiniteSet(times)
      BY TimesFinite
    <2>2. [t \in times |-> log'[t]] \in Surjection(times, {log'[t] : t \in times})
      BY DEF Surjection
    <2>3. IsFiniteSet({log'[t] : t \in times})
      BY <2>1, <2>2, FS_Surjection
    <2> QED BY <2>3, FS_Subset
  <1>10. Cardinality(seen) > MaxKeys
    BY <1>4, <1>6, <1>7, <1>8, <1>9, FS_Subset, FS_CardinalityType
  <1>11. Rate!Crowded(next)' = (Cardinality(seen) > MaxKeys)
    BY DEF Rate!Crowded, Rate!Cardinality, Cardinality, Rate!Within, Rate!Times
  <1> QED BY <1>10, <1>11

LEMMA RequestStep == ASSUME RateInv, NEW key \in Keys, Rate!Request(key) PROVE RateInv'
  <1> DEFINE next == time + 1
             fresh == Rate!Fresh(key, next)
             accepted == Rate!Cardinality(fresh) < Limit
             room == IF accepted THEN Rate!Room(key, next) ELSE DOMAIN hits
  <1>1. RateTyped /\ time \in Nat /\ time' = next /\ next \in Rate!Times
    BY RateAssumption DEF RateInv, RateTyped, Rate!Request, Rate!Times, Rate!Bounds
  <1>2. /\ hits' = [k \in room \cup {key} |-> IF k = key THEN fresh \cup (IF accepted THEN {next} ELSE {}) ELSE hits[k]]
        /\ log' = IF accepted THEN [log EXCEPT ![next] = key] ELSE log
    BY DEF Rate!Request
  <1>3. log[next] = NoKey /\ \A u \in Rate!Times : u # next => log'[u] = log[u]
    BY <1>1, <1>2 DEF RateTyped
  <1>4. room \subseteq DOMAIN hits
    BY DEF Rate!Room, Rate!Kept
  <1>5. \A u \in fresh : key \in DOMAIN hits /\ u \in hits[key]
    BY DEF Rate!Fresh
  <1>6. RateTyped'
    <2>1. log' \in [Rate!Times -> Keys \cup {NoKey}] /\ \A u \in Rate!Times : u > next => log'[u] = NoKey
      BY <1>1, <1>2 DEF RateTyped, Rate!Times
    <2>2. IsFiniteSet(room \cup {key})
      BY <1>1, <1>4, FS_Subset, FS_AddElement DEF RateTyped
    <2>3. ASSUME NEW k \in room \cup {key}, NEW u \in hits'[k]
          PROVE u \in 1..next /\ log'[u] = k
      <3>1. CASE u = next /\ k = key /\ accepted
        BY <3>1, <1>1, <1>2 DEF RateTyped, Rate!Times
      <3>2. CASE k \in DOMAIN hits /\ u \in hits[k]
        BY <3>2, <1>1, <1>3, RateAssumption DEF RateTyped, Rate!Times, Rate!Bounds
      <3> QED BY <3>1, <3>2, <1>1, <1>2, <1>4, <1>5 DEF RateTyped
    <2>4. DOMAIN hits' = room \cup {key} /\ DOMAIN hits \subseteq Keys
      BY <1>1, <1>2 DEF RateTyped
    <2>5. next \in 0..MaxTime
      BY <1>1, RateAssumption DEF Rate!Times, Rate!Bounds
    <2> QED BY <1>1, <1>4, <2>1, <2>2, <2>3, <2>4, <2>5 DEF RateTyped, Rate!Times
  <1>7. ASSUME NEW u \in Rate!Times, CrowdedAfter(u) PROVE CrowdedAfter(u)'
    <2>1. PICK v \in Rate!Times : u < v /\ v <= time /\ Rate!Crowded(v)
      BY <1>7 DEF CrowdedAfter
    <2>2. Rate!Crowded(v)'
      BY <1>1, <1>3, <2>1, CrowdedStays DEF Rate!Times
    <2> QED BY <1>1, <2>1, <2>2 DEF CrowdedAfter, Rate!Times
  <1>8. HitsKept'
    <2> SUFFICES ASSUME NEW u \in Rate!Times, log'[u] # NoKey, Rate!Within(next, u)
                 PROVE Known(u)' \/ CrowdedAfter(u)'
      BY <1>1 DEF HitsKept, Rate!Within, Rate!Times
    <2>1. CASE u = next
      BY <2>1, <1>1, <1>2, <1>3 DEF Known, RateTyped
    <2>2. CASE u # next
      <3>1. u <= time /\ log'[u] = log[u] /\ Rate!Within(time, u)
        BY <2>2, <1>1, <1>3, RateAssumption DEF Rate!Within, Rate!Times, Rate!Bounds
      <3>2. Known(u) \/ CrowdedAfter(u)
        BY <3>1 DEF RateInv, HitsKept
      <3>3. CASE Known(u) /\ log[u] = key
        BY <3>1, <3>3, <1>2 DEF Known, Rate!Fresh
      <3>4. CASE Known(u) /\ log[u] # key /\ log[u] \in room
        BY <3>1, <3>4, <1>2 DEF Known
      <3>5. CASE Known(u) /\ log[u] # key /\ log[u] \notin room
        <4>1. accepted /\ log[u] \in DOMAIN hits /\ log[u] \notin Rate!Room(key, next)
          BY <3>5 DEF Known
        <4>2. Rate!Fresh(log[u], next) # {}
          BY <3>5 DEF Known, Rate!Fresh
        <4>3. \E v \in Rate!Times : v = next /\ Rate!Crowded(v)'
          <5>1. PICK v \in Rate!Times : v = time + 1
            BY <1>1
          <5>2. Rate!Crowded(v)'
            BY <1>1, <1>2, <4>1, <4>2, <5>1, EvictedFromCrowd
          <5> QED BY <5>1, <5>2
        <4> QED BY <4>3, <3>1, <1>1 DEF CrowdedAfter, Rate!Times
      <3> QED BY <3>2, <3>3, <3>4, <3>5, <1>7
    <2> QED BY <2>1, <2>2
  <1>9. Limited'
    <2> SUFFICES ASSUME NEW k \in Keys, NEW low \in Rate!Times, low + Window > next,
                        Cardinality(HitsFrom(k, low)') > Limit
                 PROVE CrowdedAfter(low)'
      BY <1>1 DEF Limited, Rate!Times
    <2>1. low + Window > time
      BY <1>1, RateAssumption DEF Rate!Times, Rate!Bounds
    <2>2. IsFiniteSet(HitsFrom(k, low)) /\ Cardinality(HitsFrom(k, low)) \in Nat /\ Limit \in Nat
      BY TimesFinite, RateAssumption DEF HitsFrom, Rate!Bounds
    <2>3. CASE HitsFrom(k, low)' = HitsFrom(k, low)
      BY <2>1, <2>3, <1>7 DEF RateInv, Limited
    <2>4. CASE HitsFrom(k, low)' # HitsFrom(k, low)
      <3>1. accepted /\ k = key /\ HitsFrom(k, low)' = HitsFrom(k, low) \cup {next} /\ next \notin HitsFrom(k, low)
        BY <2>4, <1>1, <1>2, <1>3, RateAssumption DEF HitsFrom, RateTyped, Rate!Times, Rate!Bounds
      <3>2. Cardinality(HitsFrom(k, low)') = Cardinality(HitsFrom(k, low)) + 1
        BY <2>2, <3>1, FS_AddElement
      <3>3. Cardinality(HitsFrom(k, low)) >= Limit
        BY <2>2, <3>2
      <3>4. fresh \subseteq Rate!Times
        BY <1>1, <1>5, RateAssumption DEF RateTyped, Rate!Times, Rate!Bounds
      <3>5. Cardinality(fresh) < Limit /\ IsFiniteSet(fresh)
        BY <3>1, <3>4, TimesFinite DEF Rate!Cardinality, Cardinality
      <3>6. ~(HitsFrom(k, low) \subseteq fresh)
        BY <2>2, <3>3, <3>5, FS_Subset, FS_CardinalityType
      <3>7. PICK u \in HitsFrom(k, low) : u \notin fresh
        BY <3>6
      <3>8. u \in Rate!Times /\ low <= u /\ log[u] = key /\ key # NoKey
        BY <3>1, <3>7, RateAssumption DEF HitsFrom, Rate!Bounds
      <3>9. u <= time /\ Rate!Within(time, u) /\ Rate!Within(next, u)
        BY <3>8, <1>1, RateAssumption DEF Rate!Within, Rate!Times, RateTyped, Rate!Bounds
      <3>10. ~Known(u)
        BY <3>7, <3>8, <3>9 DEF Known, Rate!Fresh
      <3>11. CrowdedAfter(u)
        BY <3>8, <3>9, <3>10 DEF RateInv, HitsKept
      <3>12. CrowdedAfter(low)
        BY <3>8, <3>11, RateAssumption DEF CrowdedAfter, Rate!Times, Rate!Bounds
      <3> QED BY <3>12, <1>7
    <2> QED BY <2>3, <2>4
  <1> QED BY <1>6, <1>8, <1>9 DEF RateInv

LEMMA RateStep == ASSUME RateInv, [Rate!Next]_rate PROVE RateInv'
  <1>1. CASE Rate!Next
    BY <1>1, PassStep, RequestStep DEF Rate!Next
  <1>2. CASE UNCHANGED rate
    <2>1. time' = time /\ hits' = hits /\ log' = log
      BY <1>2 DEF rate
    <2>2. ASSUME NEW v \in Rate!Times PROVE Rate!Crowded(v)' = Rate!Crowded(v)
      BY <2>1 DEF Rate!Crowded, Rate!Cardinality, Cardinality, Rate!Within, Rate!Times
    <2>3. RateTyped'
      BY <2>1 DEF RateInv, RateTyped, Rate!Times
    <2>4. ASSUME NEW u \in Rate!Times PROVE CrowdedAfter(u)' = CrowdedAfter(u)
      BY <2>1, <2>2 DEF CrowdedAfter, Rate!Times
    <2>5. HitsKept'
      BY <2>1, <2>4 DEF RateInv, HitsKept, Known, Rate!Within, Rate!Times
    <2>6. Limited'
      BY <2>1, <2>4 DEF RateInv, Limited, HitsFrom, Rate!Times
    <2> QED BY <2>3, <2>5, <2>6 DEF RateInv
  <1> QED BY <1>1, <1>2

LEMMA RateShows == ASSUME RateInv PROVE Rate!LimitUnlessCrowded
  <1> SUFFICES ASSUME NEW k \in Keys, Rate!Cardinality(Rate!Accepted(k, time)) > Limit
               PROVE \E v \in Rate!Times : Rate!Within(time, v) /\ Rate!Crowded(v)
    BY DEF Rate!LimitUnlessCrowded
  <1> DEFINE low == IF time > Window THEN time + 1 - Window ELSE 1
             accepted == Rate!Accepted(k, time)
  <1>1. RateTyped /\ time \in Nat /\ time <= MaxTime /\ Limit \in Nat /\ Window \in Nat /\ MaxTime \in Nat
    BY RateAssumption DEF RateInv, RateTyped, Rate!Bounds
  <1>2. IsFiniteSet(accepted) /\ Cardinality(accepted) \in Nat /\ Cardinality(accepted) > Limit
    BY TimesFinite DEF Rate!Accepted, Rate!Cardinality, Cardinality
  <1>3. accepted # {}
    BY <1>1, <1>2, FS_EmptySet
  <1>4. low \in Rate!Times /\ low + Window > time
    BY <1>1, <1>3 DEF Rate!Accepted, Rate!Within, Rate!Times
  <1>5. accepted \subseteq HitsFrom(k, low)
    BY <1>1 DEF Rate!Accepted, Rate!Within, Rate!Times, HitsFrom
  <1>6. Cardinality(HitsFrom(k, low)) > Limit
    <2>1. IsFiniteSet(HitsFrom(k, low)) /\ Cardinality(HitsFrom(k, low)) \in Nat
      BY TimesFinite DEF HitsFrom
    <2> QED BY <1>1, <1>2, <1>5, <2>1, FS_Subset
  <1>7. CrowdedAfter(low)
    BY <1>4, <1>6 DEF RateInv, Limited
  <1> QED BY <1>1, <1>4, <1>7 DEF CrowdedAfter, Rate!Within, Rate!Times

-----------------------------------------------------------------------------
(* The search of one query *)

RagShape ==
  [pc: {"idle", "search", "sources", "done", "refused"}, scope: Seq(Folders), k: 1..MaxTopK, threshold: 1..MaxScore,
   answers: Seq((SUBSET Docs) \cup {Rag!Pending, Rag!Failed}), results: Seq(Docs), named: SUBSET Docs]
RagTyped ==
  /\ path \in [Docs -> Folders] /\ folder \in [Docs -> Folders]
  /\ indexed \subseteq fileRows /\ fileRows \subseteq Docs
  /\ score \in [Docs -> 1..MaxScore]
  /\ q \in RagShape
  /\ q.scope # <<>> => DOMAIN q.answers \subseteq DOMAIN q.scope

\* A search answered with k documents of its folder that no other one there exceeds, or
\* with all of them.
InAnswer(i, d) == q.scope = <<>> \/ path[d] = q.scope[i]
AnswersAreBest ==
  \A i \in Rag!Answered :
    /\ q.answers[i] \subseteq Docs /\ \A d \in q.answers[i] : InAnswer(i, d)
    /\ \A d \in indexed \ q.answers[i] :
         InAnswer(i, d) => Cardinality(q.answers[i]) = q.k /\ \A e \in q.answers[i] : score[e] >= score[d]

Results == {q.results[i] : i \in DOMAIN q.results}
ResultsAreScoped ==
  q.pc \in {"sources", "done"} =>
    \A d \in Results : q.scope = <<>> \/ \E i \in DOMAIN q.scope : path[d] = q.scope[i]

RagInv == RagTyped /\ AnswersAreBest /\ ResultsAreScoped /\ Rag!ScopedAnswer

LEMMA SmallerOfTwo == ASSUME NEW m \in Nat, NEW n \in Nat PROVE Rag!Min({m, n}) = IF m <= n THEN m ELSE n
  <1> DEFINE small == IF m <= n THEN m ELSE n
  <1>1. small \in {m, n} /\ \A y \in {m, n} : small <= y
    OBVIOUS
  <1>2. \A z \in {m, n} : (\A y \in {m, n} : z <= y) => z = small
    OBVIOUS
  <1> QED BY <1>1, <1>2 DEF Rag!Min
LEMMA LargerOfTwo == ASSUME NEW m \in Nat, NEW n \in Nat PROVE Rag!Max({m, n}) = IF m >= n THEN m ELSE n
  <1> DEFINE large == IF m >= n THEN m ELSE n
  <1>1. large \in {m, n} /\ \A y \in {m, n} : large >= y
    OBVIOUS
  <1>2. \A z \in {m, n} : (\A y \in {m, n} : z >= y) => z = large
    OBVIOUS
  <1> QED BY <1>1, <1>2 DEF Rag!Max

LEMMA ConstantSequence == ASSUME NEW S, NEW e \in S, NEW n \in Nat PROVE [i \in 1..n |-> e] \in Seq(S)
  OBVIOUS

LEMMA DocsFinite == ASSUME NEW S \in SUBSET Docs PROVE IsFiniteSet(S) /\ Cardinality(S) \in Nat
  <1>1. IsFiniteSet(Docs)
    BY RagAssumption DEF Rag!Bounds, Rag!IsFiniteSet, IsFiniteSet
  <1> QED BY <1>1, FS_Subset, FS_CardinalityType

LEMMA RagInit == ASSUME Rag!Init PROVE RagInv
  <1>1. q = Rag!Idle /\ q.pc = "idle" /\ q.answers = <<>> /\ q.results = <<>> /\ q.scope = <<>>
    BY DEF Rag!Init, Rag!Idle
  <1>2. q \in RagShape
    BY <1>1, RagAssumption DEF Rag!Idle, RagShape, Rag!Bounds
  <1>3. RagTyped
    BY <1>1, <1>2 DEF Rag!Init, RagTyped
  <1>4. Rag!Answered = {}
    BY <1>1 DEF Rag!Answered
  <1> QED BY <1>1, <1>3, <1>4 DEF RagInv, AnswersAreBest, ResultsAreScoped, Rag!ScopedAnswer

LEMMA BeginStep ==
  ASSUME RagInv, NEW mode, NEW ids \in Seq(Folders), NEW k \in Int, NEW threshold \in 1..MaxScore,
         Rag!Begin(mode, ids, k, threshold)
  PROVE RagInv'
  <1> DEFINE scope == SubSeq(ids, 1, Rag!Min({Len(ids), MaxScope}))
             asked == [Rag!Idle EXCEPT !.scope = scope, !.k = Rag!Clamp(k), !.threshold = threshold]
             pending == [i \in 1..Rag!Max({1, Len(scope)}) |-> Rag!Pending]
  <1>1. /\ RagTyped
        /\ path' = path /\ folder' = folder /\ fileRows' = fileRows /\ indexed' = indexed /\ score' = score
    BY DEF RagInv, Rag!Begin
  <1>2. scope \in Seq(Folders)
    <2>1. Len(ids) \in Nat /\ MaxScope \in Nat
      BY RagAssumption DEF Rag!Bounds
    <2> QED BY <2>1, SmallerOfTwo
  <1>3. /\ pending \in Seq((SUBSET Docs) \cup {Rag!Pending, Rag!Failed})
        /\ \A i \in DOMAIN pending : pending[i] = Rag!Pending
        /\ scope # <<>> => DOMAIN pending \subseteq DOMAIN scope
    <2> HIDE DEF scope
    <2>1. Len(scope) \in Nat /\ (scope # <<>> => Len(scope) >= 1) /\ DOMAIN scope = 1..Len(scope)
      BY <1>2, EmptySeq
    <2>2. Rag!Max({1, Len(scope)}) = IF 1 >= Len(scope) THEN 1 ELSE Len(scope)
      BY <2>1, LargerOfTwo
    <2>3. Rag!Max({1, Len(scope)}) \in Nat
      BY <2>1, <2>2
    <2>4. pending \in Seq((SUBSET Docs) \cup {Rag!Pending, Rag!Failed})
      <3>1. PICK n \in Nat : n = Rag!Max({1, Len(scope)})
        BY <2>3
      <3>2. Rag!Pending \in (SUBSET Docs) \cup {Rag!Pending, Rag!Failed}
        OBVIOUS
      <3>3. [i \in 1..n |-> Rag!Pending] \in Seq((SUBSET Docs) \cup {Rag!Pending, Rag!Failed})
        BY <3>2, ConstantSequence
      <3> QED BY <3>1, <3>3
    <2> QED BY <2>1, <2>2, <2>4
  <1>4. Rag!Clamp(k) \in 1..MaxTopK
    BY RagAssumption DEF Rag!Clamp, Rag!Bounds
  <1>5. /\ asked.answers = <<>> /\ asked.results = <<>> /\ asked.scope = scope /\ asked.k = Rag!Clamp(k)
        /\ asked.threshold = threshold /\ asked.named = {} /\ asked.pc = "idle"
        /\ asked = [asked EXCEPT !.pc = asked.pc]
    BY DEF Rag!Idle
  <1>6. asked \in RagShape
    <2>1. <<>> \in Seq(Docs) /\ <<>> \in Seq((SUBSET Docs) \cup {Rag!Pending, Rag!Failed})
      BY EmptySeq
    <2> HIDE DEF scope
    <2> QED BY <1>2, <1>4, <2>1 DEF RagShape, Rag!Idle
  <1>7. \/ q' = [asked EXCEPT !.pc = "done"]
        \/ q' = [asked EXCEPT !.pc = "search", !.answers = pending]
    BY DEF Rag!Begin, Rag!Idle
  <1> HIDE DEF asked, pending, scope
  <1>8. /\ q' \in RagShape /\ q'.results = <<>> /\ q'.scope = scope /\ q'.pc # "sources"
        /\ q'.answers \in {<<>>, pending}
    BY <1>3, <1>5, <1>6, <1>7 DEF RagShape
  <1>9. Rag!Answered' = {}
    BY <1>3, <1>8 DEF Rag!Answered
  <1>10. RagTyped'
    BY SMTT(30), <1>1, <1>3, <1>8 DEF RagTyped, RagShape
  <1>11. q'.k \in Nat /\ Len(q'.results) = 0 /\ DOMAIN q'.results = {}
    BY <1>8, <1>10 DEF RagTyped, RagShape
  <1>12. Results' = {}
    BY <1>11 DEF Results
  <1>13. Rag!ScopedAnswer'
    <2>1. \A d : ~Rag!Searched(d)'
      BY <1>9 DEF Rag!Searched
    <2>2. Rag!ToSet(q'.results) = {}
      BY <1>11 DEF Rag!ToSet
    <2> QED BY <1>11, <2>1, <2>2 DEF Rag!ScopedAnswer
  <1> QED BY <1>9, <1>10, <1>12, <1>13 DEF RagInv, AnswersAreBest, ResultsAreScoped

LEMMA SearchStep == ASSUME RagInv, NEW i \in DOMAIN q.answers, Rag!Search(i) PROVE RagInv'
  <1>1. /\ RagTyped /\ q.pc = "search"
        /\ path' = path /\ folder' = folder /\ fileRows' = fileRows /\ indexed' = indexed /\ score' = score
    BY DEF RagInv, Rag!Search
  <1>2. PICK answer \in Rag!Best(Rag!Under(i), q.k) \cup {Rag!Failed} : q' = [q EXCEPT !.answers[i] = answer]
    BY DEF Rag!Search
  <1>3. answer \in (SUBSET Docs) \cup {Rag!Pending, Rag!Failed}
    <2>1. answer \in SUBSET Rag!Under(i) \/ answer = Rag!Failed
      BY Zenon DEF Rag!Best
    <2>2. Rag!Under(i) \subseteq Docs
      BY <1>1 DEF Rag!Under, RagTyped
    <2> QED BY <2>1, <2>2
  <1>4. q \in RagShape /\ q.answers \in Seq((SUBSET Docs) \cup {Rag!Pending, Rag!Failed})
    BY <1>1 DEF RagTyped, RagShape
  <1>5. [q.answers EXCEPT ![i] = answer] \in Seq((SUBSET Docs) \cup {Rag!Pending, Rag!Failed})
    BY <1>3, <1>4
  <1>6. /\ q' \in RagShape /\ q'.pc = "search" /\ q'.scope = q.scope /\ q'.k = q.k
        /\ q'.answers = [q.answers EXCEPT ![i] = answer]
    BY <1>1, <1>2, <1>4, <1>5 DEF RagShape
  <1>7. RagTyped'
    BY <1>1, <1>4, <1>6 DEF RagTyped
  <1>8. ASSUME answer # Rag!Failed
        PROVE /\ answer \subseteq Docs /\ \A d \in answer : InAnswer(i, d)
              /\ \A d \in indexed \ answer :
                   InAnswer(i, d) => Cardinality(answer) = q.k /\ \A e \in answer : score[e] >= score[d]
    <2> DEFINE under == Rag!Under(i)
    <2>1. answer \subseteq under /\ under \subseteq Docs /\ \A d \in indexed : d \in under <=> InAnswer(i, d)
      BY <1>1, <1>2, <1>8 DEF Rag!Best, Rag!Under, InAnswer, RagTyped
    <2>2. /\ Cardinality(answer) = Rag!Min({q.k, Cardinality(under)})
          /\ \A e \in answer, d \in under \ answer : score[e] >= score[d]
      BY <1>2, <1>8 DEF Rag!Best, Rag!Cardinality, Cardinality
    <2>3. /\ Cardinality(answer) \in Nat /\ Cardinality(under) \in Nat /\ IsFiniteSet(under)
          /\ IsFiniteSet(answer) /\ q.k \in Nat
      BY <1>4, <2>1, DocsFinite DEF RagShape
    <2>4. answer # under => Cardinality(answer) < Cardinality(under)
      BY <2>1, <2>3, FS_Subset
    <2>5. answer # under => Cardinality(answer) = q.k
      BY <2>2, <2>3, <2>4, SmallerOfTwo
    <2>6. \A d \in answer : InAnswer(i, d)
      BY <2>1 DEF Rag!Under
    <2>7. ASSUME NEW d \in indexed \ answer, InAnswer(i, d)
          PROVE Cardinality(answer) = q.k /\ \A e \in answer : score[e] >= score[d]
      BY <2>1, <2>2, <2>5, <2>7
    <2> QED BY <2>1, <2>6, <2>7
  <1>9. AnswersAreBest'
    <2> SUFFICES ASSUME NEW j \in Rag!Answered'
                 PROVE /\ q'.answers[j] \subseteq Docs /\ \A d \in q'.answers[j] : InAnswer(j, d)
                       /\ \A d \in indexed \ q'.answers[j] :
                            InAnswer(j, d) => /\ Cardinality(q'.answers[j]) = q.k
                                              /\ \A e \in q'.answers[j] : score[e] >= score[d]
      BY <1>1, <1>6 DEF AnswersAreBest, InAnswer
    <2>1. CASE j = i
      BY <1>4, <1>6, <1>8, <2>1 DEF Rag!Answered
    <2>2. CASE j # i
      <3>1. j \in Rag!Answered /\ q'.answers[j] = q.answers[j]
        BY <1>4, <1>6, <2>2 DEF Rag!Answered
      <3> QED BY <3>1 DEF RagInv, AnswersAreBest
    <2> QED BY <2>1, <2>2
  <1> QED BY <1>6, <1>7, <1>9 DEF RagInv, ResultsAreScoped, Rag!ScopedAnswer

LEMMA FirstFew ==
  ASSUME NEW S, NEW r \in Seq(S), NEW m \in Nat, m <= Len(r)
  PROVE /\ SubSeq(r, 1, m) \in Seq(S) /\ Len(SubSeq(r, 1, m)) = m /\ DOMAIN SubSeq(r, 1, m) = 1..m
        /\ \A i \in 1..m : SubSeq(r, 1, m)[i] = r[i]
  OBVIOUS

\* A list of a finite set without repetitions that is as long as the set is large has all of it.
LEMMA WholeList ==
  ASSUME NEW S, IsFiniteSet(S), NEW r \in [1..Cardinality(S) -> S],
         \A i, j \in DOMAIN r : i < j => r[i] # r[j]
  PROVE r \in Seq(S) /\ Len(r) = Cardinality(S) /\ \A d \in S : \E i \in 1..Len(r) : r[i] = d
  <1> DEFINE n == Cardinality(S)
             T == {r[i] : i \in 1..n}
  <1>1. n \in Nat
    BY FS_CardinalityType
  <1>2. r \in Seq(S) /\ Len(r) = n
    BY <1>1
  <1>3. T \subseteq S /\ r \in Surjection(1..n, T) /\ r \in Injection(1..n, T)
    BY <1>1 DEF Injection, Surjection, IsInjective
  <1>4. IsFiniteSet(1..n) /\ Cardinality(1..n) = n
    BY <1>1, FS_Interval
  <1>5. Cardinality(T) = Cardinality(1..n)
    <2> DEFINE I == 1..n
    <2>1. r \in Surjection(I, T) /\ r \in Injection(I, T) /\ IsFiniteSet(I)
      BY <1>3, <1>4
    <2>2. Cardinality(T) = Cardinality(I)
      <3> HIDE DEF I, T
      <3> QED BY <2>1, FS_Surjection
    <2> QED BY <2>2
  <1>6. T = S
    BY <1>3, <1>4, <1>5, FS_Subset
  <1> QED BY <1>2, <1>6

\* A set whose members all come before a position of a list has fewer members.
LEMMA FewerBefore ==
  ASSUME NEW S, NEW r \in Seq(S), NEW m \in 1..Len(r), NEW T, \A d \in T : \E i \in 1..m - 1 : r[i] = d
  PROVE IsFiniteSet(T) /\ Cardinality(T) < m
  <1> DEFINE before == 1..m - 1
             named == {r[i] : i \in before}
  <1>1. IsFiniteSet(before) /\ Cardinality(before) = m - 1
    BY FS_Interval
  <1>2. [i \in before |-> r[i]] \in Surjection(before, named)
    BY DEF Surjection
  <1>3. IsFiniteSet(named) /\ Cardinality(named) <= m - 1
    BY <1>1, <1>2, FS_Surjection
  <1>4. T \subseteq named
    OBVIOUS
  <1> QED BY <1>3, <1>4, FS_Subset, FS_CardinalityType

LEMMA MergeStep == ASSUME RagInv, Rag!Merge PROVE RagInv'
  <1> DEFINE found == Rag!Found
             threshold == q.threshold
  <1>1. /\ RagTyped /\ AnswersAreBest /\ q.pc = "search"
        /\ path' = path /\ folder' = folder /\ fileRows' = fileRows /\ indexed' = indexed /\ score' = score
    BY DEF RagInv, Rag!Merge
  <1>2. PICK r \in Rag!Ranked(found) :
          q' = [q EXCEPT !.pc = "sources", !.results = SubSeq(r, 1, Rag!Min({Len(r), q.k}))]
    BY DEF Rag!Merge
  <1>3. q \in RagShape /\ q.k \in Nat /\ q.k > 0 /\ q.threshold \in Int
    BY <1>1 DEF RagTyped, RagShape
  <1>4. /\ found \subseteq Docs /\ \A d \in found : score[d] >= threshold
        /\ \A d \in found : \E i \in Rag!Answered : InAnswer(i, d)
        /\ \A i \in Rag!Answered : \A d \in q.answers[i] : score[d] >= threshold => d \in found
    BY <1>1 DEF Rag!Found, AnswersAreBest
  <1>5. IsFiniteSet(found) /\ Cardinality(found) \in Nat
    BY <1>4, DocsFinite
  <1>6. /\ r \in [1..Cardinality(found) -> found]
        /\ \A i, j \in DOMAIN r : i < j => r[i] # r[j] /\ score[r[i]] >= score[r[j]]
    BY <1>2 DEF Rag!Ranked, Rag!Listed, Rag!Cardinality, Cardinality
  <1>7. r \in Seq(found) /\ Len(r) = Cardinality(found) /\ \A d \in found : \E i \in 1..Len(r) : r[i] = d
    BY <1>5, <1>6, WholeList
  <1>7a. \A i, j \in 1..Len(r) : i < j => r[i] # r[j] /\ score[r[i]] >= score[r[j]]
    BY <1>6, <1>7
  <1> DEFINE m == IF Len(r) <= q.k THEN Len(r) ELSE q.k
             first == SubSeq(r, 1, m)
  <1>8. m \in Nat /\ m <= Len(r) /\ m <= q.k /\ Rag!Min({Len(r), q.k}) = m
    BY <1>3, <1>7, SmallerOfTwo
  <1>9. first \in Seq(found) /\ Len(first) = m /\ DOMAIN first = 1..m /\ \A i \in 1..m : first[i] = r[i]
    <2> HIDE DEF m, found
    <2> QED BY <1>7, <1>8, FirstFew
  <1>10. first \in Seq(Docs)
    BY <1>4, <1>9
  <1> HIDE DEF first, m, found
  <1>11. /\ q' \in RagShape /\ q'.pc = "sources" /\ q'.results = first /\ q'.scope = q.scope /\ q'.k = q.k
         /\ q'.threshold = q.threshold /\ q'.answers = q.answers
    BY <1>2, <1>3, <1>8, <1>10 DEF RagShape, first
  <1>12. RagTyped'
    BY <1>1, <1>11 DEF RagTyped
  <1>13. Rag!Answered' = Rag!Answered
    BY <1>11 DEF Rag!Answered
  <1>14. AnswersAreBest'
    BY <1>1, <1>11, <1>13 DEF AnswersAreBest, InAnswer
  <1>15. \A i \in 1..m : first[i] \in found
    BY <1>9
  <1>16. Results' = {first[i] : i \in 1..m} /\ Rag!ToSet(first) = {first[i] : i \in 1..m}
    BY <1>9, <1>11 DEF Results, Rag!ToSet
  <1>17. ResultsAreScoped'
    BY <1>1, <1>4, <1>11, <1>15, <1>16 DEF ResultsAreScoped, InAnswer, RagTyped, Rag!Answered
  <1>18. ASSUME NEW d \in indexed, \A i \in 1..m : first[i] # d, Rag!Searched(d), score[d] >= threshold
         PROVE m = q.k /\ \A i \in 1..m : score[first[i]] >= score[d]
    <2>1. PICK a \in Rag!Answered : InAnswer(a, d)
      BY <1>18 DEF Rag!Searched, InAnswer
    <2>2. CASE d \in q.answers[a]
      <3>1. PICK j \in 1..Len(r) : r[j] = d
        BY <1>4, <1>7, <1>18, <2>2
      <3>2. j > m
        BY <1>8, <1>9, <1>18, <3>1
      <3>3. m = q.k
        BY <1>3, <1>7, <3>2 DEF m
      <3> QED BY <1>7a, <1>7, <1>9, <3>1, <3>2, <3>3
    <2>3. CASE d \notin q.answers[a]
      <3>1. /\ Cardinality(q.answers[a]) = q.k /\ q.answers[a] \subseteq Docs
            /\ \A e \in q.answers[a] : score[e] >= score[d]
        BY <1>1, <2>1, <2>3 DEF AnswersAreBest
      <3>2. score[d] \in Int /\ \A e \in Docs : score[e] \in Int
        BY <1>1 DEF RagTyped
      <3>3. q.answers[a] \subseteq found
        BY <1>3, <1>4, <1>18, <3>1, <3>2
      <3>4. q.k <= Len(r)
        BY <1>5, <1>7, <3>1, <3>3, FS_Subset
      <3>5. m = q.k
        BY <1>3, <1>7, <3>4 DEF m
      <3>6. ASSUME NEW i \in 1..m, score[first[i]] < score[d] PROVE FALSE
        <4>1. i \in 1..Len(r) /\ first[i] = r[i] /\ r[i] \in Docs
          BY <1>4, <1>7, <1>8, <1>9
        <4>2. ASSUME NEW e \in q.answers[a] PROVE \E j \in 1..i - 1 : r[j] = e
          <5>1. PICK j \in 1..Len(r) : r[j] = e
            BY <1>7, <3>3
          <5>2. score[r[j]] > score[r[i]]
            BY <3>1, <3>2, <3>6, <4>1, <5>1
          <5>3. score[r[j]] \in Int /\ score[r[i]] \in Int /\ j # i
            BY <3>1, <3>2, <4>1, <5>1, <5>2
          <5>4. ~(i < j)
            BY <1>7a, <4>1, <5>1, <5>2, <5>3
          <5>5. j < i
            BY <4>1, <5>1, <5>3, <5>4
          <5> QED BY <5>1, <5>5
        <4>3. Cardinality(q.answers[a]) < i
          BY <1>7, <4>1, <4>2, FewerBefore
        <4> QED BY <1>8, <3>1, <3>5, <4>3
      <3>7. \A i \in 1..m : first[i] \in Docs
        BY <1>4, <1>15
      <3> QED BY <3>2, <3>5, <3>6, <3>7
    <2> QED BY <2>2, <2>3
  <1>19. ASSUME NEW d \in {first[i] : i \in 1..m}
         PROVE score[d] >= threshold /\ (q.scope = <<>> \/ folder[d] \in Rag!ToSet(q.scope) \/ folder[d] # path[d])
    <2>1. d \in Docs /\ score[d] >= threshold
      BY <1>4, <1>15
    <2>2. q.scope = <<>> \/ \E i \in DOMAIN q.scope : path[d] = q.scope[i]
      BY <1>1, <1>11, <1>16, <1>17 DEF ResultsAreScoped
    <2> QED BY <2>1, <2>2 DEF Rag!ToSet
  <1>20. \A i, j \in 1..m : i < j => first[i] # first[j] /\ score[first[i]] >= score[first[j]]
    BY <1>7a, <1>7, <1>8, <1>9
  <1>21. \A d : Rag!Searched(d)' = Rag!Searched(d)
    BY <1>1, <1>11, <1>13 DEF Rag!Searched
  <1>22. Rag!ScopedAnswer'
    BY <1>1, <1>8, <1>9, <1>11, <1>16, <1>18, <1>19, <1>20, <1>21 DEF Rag!ScopedAnswer
  <1> QED BY <1>12, <1>14, <1>17, <1>22 DEF RagInv

LEMMA SourcesStep == ASSUME RagInv, Rag!Sources PROVE RagInv'
  <1>1. /\ RagTyped /\ q.pc = "sources" /\ q \in RagShape
        /\ path' = path /\ folder' = folder /\ fileRows' = fileRows /\ indexed' = indexed /\ score' = score
    BY DEF RagInv, RagTyped, Rag!Sources
  <1>2. /\ q' = [q EXCEPT !.pc = "done", !.named = Rag!ToSet(q.results) \cap fileRows]
        /\ Rag!ToSet(q.results) \cap fileRows \in SUBSET Docs
    BY <1>1 DEF Rag!Sources, RagTyped
  <1>3. /\ q' \in RagShape /\ q'.pc = "done" /\ q'.results = q.results /\ q'.scope = q.scope /\ q'.k = q.k
        /\ q'.threshold = q.threshold /\ q'.answers = q.answers /\ q'.named = Rag!ToSet(q.results) \cap fileRows
    BY <1>1, <1>2 DEF RagShape
  <1>4. Rag!Answered' = Rag!Answered
    BY <1>3 DEF Rag!Answered
  <1>5. RagTyped' /\ AnswersAreBest'
    BY <1>1, <1>3, <1>4 DEF RagInv, RagTyped, AnswersAreBest, InAnswer
  <1>6. ResultsAreScoped'
    <2>1. Results' = Results
      BY <1>3 DEF Results
    <2>2. \A d \in Results : q.scope = <<>> \/ \E i \in DOMAIN q.scope : path[d] = q.scope[i]
      BY <1>1 DEF RagInv, ResultsAreScoped
    <2> QED BY <1>1, <1>3, <2>1, <2>2 DEF ResultsAreScoped
  <1>7. \A d : Rag!Searched(d)' = Rag!Searched(d)
    BY <1>1, <1>3, <1>4 DEF Rag!Searched
  <1>8. Rag!ScopedAnswer'
    BY <1>1, <1>3, <1>7 DEF RagInv, RagTyped, Rag!ScopedAnswer, Rag!ToSet
  <1> QED BY <1>5, <1>6, <1>8 DEF RagInv

\* Moving a file changes the folder of its row, and deleting it leaves fewer documents.
LEMMA FilesStep ==
  ASSUME RagInv, path' = path, score' = score, q' = q, indexed' \subseteq indexed, indexed' \subseteq fileRows',
         fileRows' \subseteq Docs, folder' \in [Docs -> Folders]
  PROVE RagInv'
  <1>1. Rag!Answered' = Rag!Answered /\ \A d : Rag!Searched(d)' = Rag!Searched(d)
    BY DEF Rag!Answered, Rag!Searched
  <1>2. RagTyped' /\ AnswersAreBest' /\ ResultsAreScoped'
    BY <1>1 DEF RagInv, RagTyped, AnswersAreBest, InAnswer, ResultsAreScoped, Results
  <1>3. Rag!ScopedAnswer'
    <2> SUFFICES ASSUME q.pc \in {"sources", "done"} PROVE Rag!ScopedAnswer'
      BY DEF Rag!ScopedAnswer
    <2>1. \A d \in Rag!ToSet(q.results) : q.scope = <<>> \/ path[d] \in Rag!ToSet(q.scope)
      BY DEF RagInv, ResultsAreScoped, Results, Rag!ToSet
    <2>2. \A d \in Rag!ToSet(q.results) :
            q.scope = <<>> \/ folder'[d] \in Rag!ToSet(q.scope) \/ folder'[d] # path[d]
      BY <2>1
    <2> QED BY <1>1, <2>2 DEF RagInv, Rag!ScopedAnswer
  <1> QED BY <1>2, <1>3 DEF RagInv

LEMMA RagStep == ASSUME RagInv, [Rag!Next]_rag PROVE RagInv'
  <1>1. ASSUME NEW mode, NEW ids \in Rag!SeqOf(Folders, MaxScope + 1), NEW k \in 0..MaxTopK + 1,
               NEW threshold \in 1..MaxScore, Rag!Begin(mode, ids, k, threshold)
        PROVE RagInv'
    <2>1. ids \in Seq(Folders)
      BY RagAssumption DEF Rag!SeqOf, Rag!Bounds
    <2> QED BY <1>1, <2>1, BeginStep
  <1>2. CASE Rag!Refuse
    <2>1. /\ q.pc = "idle" /\ q \in RagShape /\ q' = [q EXCEPT !.pc = "refused"]
          /\ path' = path /\ folder' = folder /\ fileRows' = fileRows /\ indexed' = indexed /\ score' = score
      BY <1>2 DEF RagInv, RagTyped, Rag!Refuse
    <2>2. /\ q' \in RagShape /\ q'.pc = "refused" /\ q'.scope = q.scope /\ q'.answers = q.answers
          /\ q'.k = q.k
      BY <2>1 DEF RagShape
    <2>3. Rag!Answered' = Rag!Answered
      BY <2>2 DEF Rag!Answered
    <2> QED BY <2>1, <2>2, <2>3
            DEF RagInv, RagTyped, AnswersAreBest, InAnswer, ResultsAreScoped, Rag!ScopedAnswer
  <1>3. CASE Rag!Merge
    BY <1>3, MergeStep
  <1>4. CASE Rag!Sources
    BY <1>4, SourcesStep
  <1>5. ASSUME NEW i \in DOMAIN q.answers, Rag!Search(i) PROVE RagInv'
    BY <1>5, SearchStep
  <1>6. ASSUME NEW d \in Docs, Rag!RemoveIndex(d) PROVE RagInv'
    BY <1>6, FilesStep DEF RagInv, RagTyped, Rag!RemoveIndex, Rag!Change
  <1>7. ASSUME NEW d \in Docs, Rag!DropRow(d) PROVE RagInv'
    BY <1>7, FilesStep DEF RagInv, RagTyped, Rag!DropRow
  <1>8. ASSUME NEW d \in Docs, NEW f \in Folders, Rag!MoveFile(d, f) PROVE RagInv'
    <2>1. folder' \in [Docs -> Folders]
      BY <1>8 DEF RagInv, RagTyped, Rag!MoveFile
    <2> QED BY <1>8, <2>1, FilesStep DEF RagInv, RagTyped, Rag!MoveFile, Rag!Change
  <1>9. CASE UNCHANGED rag
    BY <1>9, FilesStep DEF rag, RagInv, RagTyped
  <1> QED BY <1>1, <1>2, <1>3, <1>4, <1>5, <1>6, <1>7, <1>8, <1>9 DEF Rag!Next

-----------------------------------------------------------------------------
(* The binding of an agent *)

LEMMA LeastOf == ASSUME NEW S, S \subseteq Nat, S # {} PROVE \E m \in S : \A n \in S : m <= n
  <1> DEFINE R == OpToRel(<, Nat)
  <1>1. IsWellFoundedOn(R, Nat)
    BY NatLessThanWellFounded, Zenon
  <1>2. \A n, m \in Nat : n < m => <<n, m>> \in R
    BY Zenon DEF OpToRel
  <1> HIDE DEF R
  <1>3. PICK m \in S : \A n \in S : ~(<<n, m>> \in R)
    BY <1>1, WFMin
  <1>4. \A n \in S : ~(n < m)
    BY <1>2, <1>3
  <1> QED BY <1>3, <1>4

AskedShape ==
  [pc: {"idle", "find", "update", "create", "delete", "getChat", "getProject", "done"}, kind: {"set", "remove"},
   scope: Binding!Scopes, agent: Agents \cup {NoAgent}, row: Binding!Ids \cup {Binding!NoId},
   told: Agents \cup {NoAgent}, alone: BOOLEAN]
BindingTyped ==
  /\ DOMAIN bindings \subseteq Binding!Ids
  /\ \A r \in DOMAIN bindings : bindings[r] \in [scope: Binding!Scopes, agent: Agents \cup {NoAgent}]
  /\ chatRow \in BOOLEAN /\ contested \subseteq Binding!Scopes
  /\ setting \in [Tasks -> AskedShape]

\* What a call came by, and that the row it holds, if it is still there, is of its scope.
CallOnItsWay(c) ==
  /\ setting[c].pc \in {"update", "create", "getChat", "getProject"} => setting[c].kind = "set"
  /\ setting[c].pc = "update" => setting[c].agent # NoAgent
  /\ setting[c].pc = "delete" => setting[c].kind = "remove"
  /\ setting[c].row \in DOMAIN bindings => bindings[setting[c].row].scope = setting[c].scope

\* Of two calls on a scope one is over and forgotten, or neither is alone.
NotAlone(c, d) ==
  setting[c].scope = setting[d].scope /\ ~Binding!Ended(d) =>
    setting[c].pc = "idle" \/ (~Binding!Ended(c) /\ ~setting[c].alone)

\* On a scope that is not contested there is at most one set_binding and at most one row,
\* and no row while one is about to be created.
Setting(c, scope) == setting[c].scope = scope /\ setting[c].kind = "set" /\ ~Binding!Ended(c)
Sole(scope) ==
  scope \notin contested =>
    /\ \A c, d \in Tasks : Setting(c, scope) /\ Setting(d, scope) => c = d
    /\ \A r, s \in Binding!OfScope(scope) : r = s
    /\ \A c \in Tasks : setting[c].pc = "create" /\ setting[c].scope = scope => Binding!OfScope(scope) = {}

\* How far a call that nothing overlapped has got.
Holds(c) == \E r \in Binding!Lookup(setting[c].scope) : bindings[r].agent = setting[c].agent
CallAlone(c) ==
  /\ setting[c].alone =>
       /\ setting[c].pc = "update" => setting[c].row \in Binding!Lookup(setting[c].scope)
       /\ setting[c].pc = "create" => Binding!OfScope(setting[c].scope) = {}
       /\ setting[c].pc \in {"getChat", "getProject"} /\ setting[c].agent # NoAgent => Holds(c)
       /\ setting[c].pc = "getProject" /\ setting[c].agent # NoAgent => setting[c].scope = "project"
       /\ setting[c].pc = "delete" => setting[c].row \in Binding!OfScope(setting[c].scope)
  /\ setting[c].pc = "done" /\ setting[c].kind = "set" /\ setting[c].agent # NoAgent =>
       setting[c].told = setting[c].agent
  /\ setting[c].pc = "done" /\ setting[c].kind = "remove" /\ setting[c].scope \notin contested =>
       Binding!OfScope(setting[c].scope) = {}

BindingInv ==
  /\ BindingTyped
  /\ \A c \in Tasks : CallOnItsWay(c) /\ CallAlone(c)
  /\ \A c, d \in Tasks : c # d => NotAlone(c, d)
  /\ \A scope \in Binding!Scopes : Sole(scope)

LEMMA LookupFacts ==
  ASSUME BindingTyped, NEW scope
  PROVE /\ Binding!Lookup(scope) \subseteq Binding!OfScope(scope)
        /\ \A r, s \in Binding!Lookup(scope) : r = s
        /\ Binding!Lookup(scope) = {} => Binding!OfScope(scope) = {}
  <1>1. Binding!OfScope(scope) \subseteq Nat
    BY BindingAssumption DEF BindingTyped, Binding!OfScope, Binding!Ids
  <1>2. \A r, s \in Binding!Lookup(scope) : r = s
    BY <1>1 DEF Binding!Lookup, Binding!FirstOf
  <1>3. ASSUME Binding!Lookup(scope) = {} PROVE Binding!OfScope(scope) = {}
    BY <1>1, <1>3, LeastOf DEF Binding!Lookup, Binding!FirstOf
  <1>4. Binding!Lookup(scope) \subseteq Binding!OfScope(scope)
    BY DEF Binding!Lookup, Binding!FirstOf
  <1> QED BY <1>2, <1>3, <1>4

LEMMA BindingInit == ASSUME Binding!Init PROVE BindingInv
  <1>1. Binding!Idle \in AskedShape
    BY DEF Binding!Idle, AskedShape, Binding!Scopes
  <1>2. BindingTyped
    BY <1>1 DEF Binding!Init, BindingTyped
  <1>3. \A c \in Tasks : setting[c] = Binding!Idle
    BY DEF Binding!Init
  <1>4. DOMAIN bindings = {} /\ \A scope : Binding!OfScope(scope) = {}
    BY DEF Binding!Init, Binding!OfScope
  <1>5. \A c \in Tasks : CallOnItsWay(c) /\ CallAlone(c)
    BY <1>3, <1>4 DEF CallOnItsWay, CallAlone, Binding!Idle
  <1>6. \A c, d \in Tasks : NotAlone(c, d)
    BY <1>3 DEF NotAlone, Binding!Idle
  <1>7. \A scope : Sole(scope)
    BY <1>3, <1>4 DEF Sole, Setting, Binding!Ended, Binding!Idle
  <1> QED BY <1>2, <1>5, <1>6, <1>7 DEF BindingInv

\* A step of a call that changes rows of its scope only, and of the calls itself only,
\* keeps what was said of the other calls.
SameRows(scope) ==
  /\ Binding!OfScope(scope)' = Binding!OfScope(scope)
  /\ \A r \in Binding!OfScope(scope) : bindings'[r] = bindings[r]

LEMMA SameLookup ==
  ASSUME BindingTyped, NEW scope, SameRows(scope)
  PROVE /\ Binding!Lookup(scope)' = Binding!Lookup(scope)
        /\ \A r \in Binding!Lookup(scope) : bindings'[r] = bindings[r]
  BY DEF SameRows, Binding!Lookup, Binding!FirstOf

LEMMA CallStep ==
  ASSUME BindingInv, NEW c \in Tasks, ~Binding!Ended(c), NEW mine, mine = setting[c].scope,
         BindingTyped', contested' = contested,
         setting' = [setting EXCEPT ![c] = setting'[c]],
         \/ setting'[c] = Binding!Idle
         \/ /\ setting'[c].scope = setting[c].scope /\ setting'[c].kind = setting[c].kind
            /\ setting'[c].alone = setting[c].alone
            /\ setting'[c].pc = "done" => setting[c].alone,
         \A scope : scope # mine => SameRows(scope),
         \A d \in Tasks : setting[d].row \in DOMAIN bindings' => setting[d].row \in DOMAIN bindings,
         \A r \in DOMAIN bindings' \cap DOMAIN bindings : bindings'[r].scope = bindings[r].scope,
         CallOnItsWay(c)', CallAlone(c)',
         Sole(mine)'
  PROVE BindingInv'
  <1>1. BindingTyped /\ \A d \in Tasks \ {c} : setting'[d] = setting[d]
    BY DEF BindingInv, BindingTyped
  <1>2. ASSUME NEW d \in Tasks PROVE CallOnItsWay(d)'
    BY <1>1, <1>2 DEF BindingInv, CallOnItsWay, BindingTyped
  <1>3. ASSUME NEW d \in Tasks PROVE CallAlone(d)'
    <2>1. CASE d = c
      BY <2>1
    <2>2. CASE d # c /\ setting[d].scope # setting[c].scope
      <3> DEFINE scope == setting[d].scope
      <3>1. SameRows(scope) /\ Binding!Lookup(scope)' = Binding!Lookup(scope)
            /\ \A r \in Binding!Lookup(scope) : bindings'[r] = bindings[r]
        BY <1>1, <2>2, SameLookup
      <3>2. setting'[d] = setting[d] /\ Binding!OfScope(scope)' = Binding!OfScope(scope)
        BY <1>1, <2>2, <3>1 DEF SameRows
      <3>3. CallAlone(d)
        BY DEF BindingInv
      <3> QED BY <3>1, <3>2, <3>3 DEF CallAlone, Holds
    <2>3. CASE d # c /\ setting[d].scope = setting[c].scope
      <3>1. setting[d].pc = "idle" \/ (~Binding!Ended(d) /\ ~setting[d].alone)
        BY <2>3 DEF BindingInv, NotAlone
      <3> QED BY <1>1, <2>3, <3>1 DEF CallAlone, Binding!Ended
    <2> QED BY <2>1, <2>2, <2>3
  <1>4. ASSUME NEW d \in Tasks, NEW e \in Tasks, d # e PROVE NotAlone(d, e)'
    <2>1. NotAlone(d, e) /\ NotAlone(e, d)
      BY <1>4 DEF BindingInv
    <2>2. CASE d = c
      BY <1>1, <1>4, <2>1, <2>2 DEF NotAlone, Binding!Ended, Binding!Idle
    <2>3. CASE e = c
      BY <1>1, <1>4, <2>1, <2>3 DEF NotAlone, Binding!Ended, Binding!Idle
    <2>4. CASE d # c /\ e # c
      BY <1>1, <2>1, <2>4 DEF NotAlone, Binding!Ended
    <2> QED BY <2>2, <2>3, <2>4
  <1>5. ASSUME NEW scope \in Binding!Scopes PROVE Sole(scope)'
    <2>1. CASE scope = mine
      BY <2>1
    <2>2. CASE scope # mine
      <3>1. Binding!OfScope(scope)' = Binding!OfScope(scope) /\ Sole(scope)
        BY <2>2 DEF SameRows, BindingInv
      <3>2. setting'[c] = Binding!Idle \/ setting'[c].scope # scope
        BY <2>2
      <3> QED BY <1>1, <3>1, <3>2 DEF Sole, Setting, Binding!Ended, Binding!Idle
    <2> QED BY <2>1, <2>2
  <1> QED BY <1>2, <1>3, <1>4, <1>5 DEF BindingInv

\* What a step of one call gives the types.
LEMMA BindingTypes ==
  ASSUME BindingTyped, NEW c \in Tasks, contested' = contested, chatRow' = chatRow,
         DOMAIN bindings' \subseteq Binding!Ids,
         \A r \in DOMAIN bindings' : bindings'[r] \in [scope: Binding!Scopes, agent: Agents \cup {NoAgent}],
         NEW z \in AskedShape, setting' = [setting EXCEPT ![c] = z]
  PROVE BindingTyped' /\ setting'[c] = z /\ setting' = [setting EXCEPT ![c] = setting'[c]]
  BY DEF BindingTyped

LEMMA ShapeSteps ==
  ASSUME NEW z \in AskedShape
  PROVE /\ \A p \in {"update", "create", "delete", "getChat", "getProject"} : [z EXCEPT !.pc = p] \in AskedShape
        /\ \A p \in {"update", "delete", "getChat"}, r \in Binding!Ids \cup {Binding!NoId} :
             [z EXCEPT !.pc = p, !.row = r] \in AskedShape
        /\ \A a \in Agents \cup {NoAgent} :
             [z EXCEPT !.pc = "done", !.told = a, !.row = Binding!NoId] \in AskedShape
        /\ Binding!Idle \in AskedShape
  BY DEF AskedShape, Binding!Idle, Binding!Scopes

\* A step that leaves the rows alone.
LEMMA SameAll == ASSUME bindings' = bindings PROVE \A scope : SameRows(scope) /\ Binding!Lookup(scope)' = Binding!Lookup(scope)
  BY DEF SameRows, Binding!OfScope, Binding!Lookup, Binding!FirstOf

LEMMA NewScope ==
  ASSUME NEW c, NEW mine, setting'[c].scope = mine
  PROVE /\ Binding!Lookup(setting[c].scope)' = Binding!Lookup(mine)'
        /\ Binding!OfScope(setting[c].scope)' = Binding!OfScope(mine)'
  BY DEF Binding!Lookup, Binding!OfScope, Binding!FirstOf

\* What an answer says: nothing when the call was not alone.
Answered(c, z, a) ==
  \/ z = Binding!Idle
  \/ setting[c].alone /\ z = [setting[c] EXCEPT !.pc = "done", !.told = a, !.row = Binding!NoId]
LEMMA AnswerStep ==
  ASSUME BindingTyped, NEW c \in Tasks, NEW a \in Agents \cup {NoAgent}, Binding!Answer(c, a)
  PROVE \E z \in AskedShape : setting' = [setting EXCEPT ![c] = z] /\ Answered(c, z, a)
  <1>1. setting[c] \in AskedShape
    BY DEF BindingTyped
  <1> DEFINE z == IF ~setting[c].alone THEN Binding!Idle
                  ELSE [setting[c] EXCEPT !.pc = "done", !.told = a, !.row = Binding!NoId]
  <1>2. z \in AskedShape
    BY <1>1, ShapeSteps
  <1>3. setting' = [setting EXCEPT ![c] = z]
    BY DEF Binding!Answer
  <1> QED BY <1>2, <1>3 DEF Answered

\* The facts that each step of a call begins with.
LEMMA CallFacts ==
  ASSUME BindingInv, NEW c \in Tasks, ~Binding!Ended(c)
  PROVE /\ BindingTyped /\ setting[c] \in AskedShape /\ CallOnItsWay(c) /\ CallAlone(c)
        /\ setting[c].scope \in Binding!Scopes /\ Sole(setting[c].scope)
  BY DEF BindingInv, BindingTyped, AskedShape

LEMMA FindStep == ASSUME BindingInv, NEW c \in Tasks, Binding!Find(c) PROVE BindingInv'
  <1> SUFFICES ASSUME NEW mine, mine = setting[c].scope PROVE BindingInv'
    OBVIOUS
  <1> DEFINE found == Binding!Lookup(mine)
             next == IF setting[c].kind = "remove" THEN "delete"
                     ELSE IF setting[c].agent = NoAgent THEN "getChat" ELSE "update"
             row(r) == IF next = "getChat" THEN Binding!NoId ELSE r
  <1>1. /\ ~Binding!Ended(c) /\ setting[c].pc = "find" /\ bindings' = bindings /\ chatRow' = chatRow
        /\ contested' = contested
    BY DEF Binding!Find, Binding!At, Binding!Ended
  <1>2. /\ BindingTyped /\ setting[c] \in AskedShape /\ CallOnItsWay(c) /\ CallAlone(c)
        /\ mine \in Binding!Scopes /\ Sole(mine)
    BY <1>1, CallFacts
  <1>3. /\ found \subseteq Binding!OfScope(mine) /\ (found = {} => Binding!OfScope(mine) = {})
        /\ Binding!OfScope(mine) \subseteq Binding!Ids
    BY <1>2, LookupFacts DEF Binding!OfScope, BindingTyped
  <1>4. PICK z \in AskedShape :
          /\ setting' = [setting EXCEPT ![c] = z]
          /\ \/ found = {} /\ setting[c].kind = "set" /\ z = [setting[c] EXCEPT !.pc = "create"]
             \/ found = {} /\ setting[c].kind = "remove" /\ Answered(c, z, NoAgent)
             \/ \E r \in found : z = [setting[c] EXCEPT !.pc = next, !.row = row(r)]
    <2>1. CASE found = {} /\ setting[c].kind = "set" /\ Binding!Goto(c, "create")
      BY <1>2, <2>1, ShapeSteps DEF Binding!Goto
    <2>2. CASE found = {} /\ setting[c].kind = "remove" /\ Binding!Answer(c, NoAgent)
      BY <1>2, <2>2, AnswerStep
    <2>3. CASE \E r \in found : setting' = [setting EXCEPT ![c].pc = next, ![c].row = row(r)]
      <3>1. PICK r \in found : setting' = [setting EXCEPT ![c].pc = next, ![c].row = row(r)]
        BY <2>3
      <3>2. [setting[c] EXCEPT !.pc = next, !.row = row(r)] \in AskedShape
        BY <1>2, <1>3, ShapeSteps
      <3>3. setting' = [setting EXCEPT ![c] = [setting[c] EXCEPT !.pc = next, !.row = row(r)]]
        BY <1>2, <3>1 DEF BindingTyped
      <3> QED BY <3>2, <3>3
    <2> QED BY <2>1, <2>2, <2>3 DEF Binding!Find
  <1>5. BindingTyped' /\ setting'[c] = z /\ setting' = [setting EXCEPT ![c] = setting'[c]]
    BY <1>1, <1>2, <1>4, BindingTypes DEF BindingTyped
  <1>6. \/ z = Binding!Idle
        \/ /\ z.kind = setting[c].kind /\ z.scope = mine /\ z.agent = setting[c].agent /\ z.alone = setting[c].alone
           /\ \/ z.pc = "create" /\ z.kind = "set" /\ found = {} /\ z.row = setting[c].row
              \/ z.pc = "done" /\ z.kind = "remove" /\ found = {} /\ z.row = Binding!NoId /\ setting[c].alone
              \/ z.pc = next /\ \E r \in found : z.row = row(r)
    BY <1>2, <1>4 DEF Answered, AskedShape
  <1>7. /\ Binding!OfScope(mine)' = Binding!OfScope(mine) /\ Binding!Lookup(mine)' = found
        /\ \A scope : SameRows(scope)
    BY <1>1, SameAll DEF SameRows
  <1>8. CallOnItsWay(c)'
    <2>1. CASE z = Binding!Idle
      BY <1>1, <1>2, <1>5, <2>1 DEF CallOnItsWay, Binding!Idle, Binding!NoId, Binding!Ids, BindingTyped
    <2>2. CASE z # Binding!Idle
      BY <1>1, <1>2, <1>3, <1>5, <1>6, <2>2
      DEF CallOnItsWay, Binding!NoId, Binding!Ids, BindingTyped, AskedShape, Binding!OfScope
    <2> QED BY <2>1, <2>2
  <1>9. CallAlone(c)'
    <2>1. CASE z = Binding!Idle
      BY <1>5, <2>1 DEF CallAlone, Binding!Idle
    <2>2. CASE z # Binding!Idle
      <3>1. /\ Binding!Lookup(setting[c].scope)' = found
            /\ Binding!OfScope(setting[c].scope)' = Binding!OfScope(mine)
        BY <1>5, <1>6, <1>7, <2>2, NewScope
      <3> HIDE DEF found
      <3>2. CASE z.pc = "create" \/ z.pc = "done"
        BY <1>3, <1>5, <1>6, <2>2, <3>1, <3>2 DEF CallAlone
      <3>3. CASE z.pc = next
        BY <1>1, <1>2, <1>3, <1>5, <1>6, <2>2, <3>1, <3>3 DEF CallAlone, AskedShape
      <3> QED BY <1>6, <2>2, <3>2, <3>3
    <2> QED BY <2>1, <2>2
  <1>10. Sole(mine)'
    <2> SUFFICES ASSUME mine \notin contested PROVE Sole(mine)'
      BY <1>1 DEF Sole
    <2>1. \A d \in Tasks : setting'[d] = IF d = c THEN z ELSE setting[d]
      BY <1>2, <1>4 DEF BindingTyped
    <2>2. z = Binding!Idle \/ (z.kind = setting[c].kind /\ z.scope = mine)
      BY <1>6
    <2>3. z.pc = "create" => Binding!OfScope(mine) = {}
      BY <1>3, <1>6 DEF Binding!Idle
    <2> QED BY <1>1, <1>2, <1>7, <2>1, <2>2, <2>3 DEF Sole, Setting, Binding!Ended, Binding!Idle
  <1> QED BY <1>1, <1>5, <1>6, <1>7, <1>8, <1>9, <1>10, CallStep

\* No other set_binding on a scope that is not contested comes to a row or its creation.
LEMMA SoleStep ==
  ASSUME BindingInv, NEW c \in Tasks, ~Binding!Ended(c), NEW mine, mine = setting[c].scope, Sole(mine),
         NEW z \in AskedShape, setting' = [setting EXCEPT ![c] = z], contested' = contested,
         z = Binding!Idle \/ (z.kind = setting[c].kind /\ z.scope = mine),
         z.pc # "create" \/ Binding!OfScope(mine)' = {},
         \/ Binding!OfScope(mine)' \subseteq Binding!OfScope(mine)
         \/ /\ setting[c].pc = "create" /\ setting[c].kind = "set" /\ z.pc # "create"
            /\ \E id : Binding!OfScope(mine)' \subseteq Binding!OfScope(mine) \cup {id}
  PROVE Sole(mine)'
  <1> SUFFICES ASSUME mine \notin contested PROVE Sole(mine)'
    BY DEF Sole
  <1>1. \A d \in Tasks : setting'[d] = IF d = c THEN z ELSE setting[d]
    BY DEF BindingInv, BindingTyped
  <1>2. \A d \in Tasks : Setting(d, mine)' => Setting(d, mine)
    BY <1>1 DEF Setting, Binding!Ended, Binding!Idle
  <1>3. \A r, s \in Binding!OfScope(mine)' : r = s
    BY DEF Sole
  <1>4. ASSUME NEW d \in Tasks, setting'[d].pc = "create", setting'[d].scope = mine
        PROVE Binding!OfScope(mine)' = {}
    <2>1. CASE d = c
      BY <1>1, <1>4, <2>1
    <2>2. CASE d # c /\ Binding!OfScope(mine)' \subseteq Binding!OfScope(mine)
      BY <1>1, <1>4, <2>2 DEF Sole
    <2>3. CASE d # c /\ setting[c].pc = "create" /\ setting[c].kind = "set"
      BY <1>1, <1>4, <2>3 DEF BindingInv, CallOnItsWay, Sole, Setting, Binding!Ended
    <2> QED BY <2>1, <2>2, <2>3
  <1> QED BY <1>2, <1>3, <1>4 DEF Sole

LEMMA UpdateStep == ASSUME BindingInv, NEW c \in Tasks, Binding!Update(c) PROVE BindingInv'
  <1> SUFFICES ASSUME NEW mine, mine = setting[c].scope PROVE BindingInv'
    OBVIOUS
  <1> DEFINE z == [setting[c] EXCEPT !.pc = "getChat", !.row = Binding!NoId]
             row == setting[c].row
  <1>1. /\ ~Binding!Ended(c) /\ setting[c].pc = "update" /\ chatRow' = chatRow /\ contested' = contested
        /\ bindings' = [r \in DOMAIN bindings |->
                         IF r = row THEN [bindings[r] EXCEPT !.agent = setting[c].agent] ELSE bindings[r]]
    BY DEF Binding!Update, Binding!At, Binding!Ended
  <1>2. /\ BindingTyped /\ setting[c] \in AskedShape /\ CallOnItsWay(c) /\ CallAlone(c)
        /\ mine \in Binding!Scopes /\ Sole(mine)
    BY <1>1, CallFacts
  <1>3. z \in AskedShape /\ setting' = [setting EXCEPT ![c] = z]
    <2>1. z \in AskedShape
      BY <1>2, ShapeSteps
    <2>2. setting' = [setting EXCEPT ![c] = z]
      BY <1>2 DEF Binding!Update, BindingTyped
    <2> QED BY <2>1, <2>2
  <1>4. /\ DOMAIN bindings' = DOMAIN bindings
        /\ \A r \in DOMAIN bindings :
             /\ bindings'[r].scope = bindings[r].scope
             /\ r # row => bindings'[r] = bindings[r]
             /\ r = row => bindings'[r].agent = setting[c].agent
             /\ bindings'[r] \in [scope: Binding!Scopes, agent: Agents \cup {NoAgent}]
    <2>1. ASSUME NEW r \in DOMAIN bindings
          PROVE /\ bindings'[r].scope = bindings[r].scope
                /\ r # row => bindings'[r] = bindings[r]
                /\ r = row => bindings'[r].agent = setting[c].agent
                /\ bindings'[r] \in [scope: Binding!Scopes, agent: Agents \cup {NoAgent}]
      <3>1. bindings[r] \in [scope: Binding!Scopes, agent: Agents \cup {NoAgent}] /\ setting[c].agent \in Agents \cup {NoAgent}
        BY <1>2 DEF BindingTyped, AskedShape
      <3> QED BY <1>1, <3>1
    <2> QED BY <1>1, <2>1
  <1>5. BindingTyped' /\ setting'[c] = z /\ setting' = [setting EXCEPT ![c] = setting'[c]]
    <2> HIDE DEF z
    <2> QED BY <1>1, <1>2, <1>3, <1>4, BindingTypes DEF BindingTyped
  <1>6. /\ z.kind = setting[c].kind /\ z.scope = mine /\ z.agent = setting[c].agent /\ z.alone = setting[c].alone
        /\ z.pc = "getChat" /\ z.row = Binding!NoId
    BY <1>2 DEF AskedShape
  <1> HIDE DEF z
  <1>7. \A scope : Binding!OfScope(scope)' = Binding!OfScope(scope)
    BY <1>4 DEF Binding!OfScope
  <1>8. Binding!Lookup(mine)' = Binding!Lookup(mine)
    BY <1>7 DEF Binding!Lookup, Binding!FirstOf
  <1>9. \A scope : scope # mine => SameRows(scope)
    BY <1>2, <1>4, <1>7 DEF SameRows, Binding!OfScope, CallOnItsWay
  <1>10. CallOnItsWay(c)'
    BY <1>1, <1>2, <1>5, <1>6 DEF CallOnItsWay, BindingTyped, Binding!NoId, Binding!Ids
  <1>11. CallAlone(c)'
    <2>1. setting[c].alone => \E r \in Binding!Lookup(mine) : bindings'[r].agent = setting[c].agent
      BY <1>1, <1>2, <1>4 DEF CallAlone, Binding!Lookup, Binding!FirstOf, Binding!OfScope
    <2>2. Binding!Lookup(setting[c].scope)' = Binding!Lookup(mine)
      BY <1>5, <1>6, <1>8, NewScope
    <2> QED BY <1>5, <1>6, <2>1, <2>2 DEF CallAlone, Holds
  <1>12. Sole(mine)'
    BY <1>1, <1>2, <1>3, <1>6, <1>7, SoleStep
  <1> QED BY <1>1, <1>4, <1>5, <1>6, <1>9, <1>10, <1>11, <1>12, CallStep

LEMMA CreateStep == ASSUME BindingInv, NEW c \in Tasks, Binding!Create(c) PROVE BindingInv'
  <1> SUFFICES ASSUME NEW mine, mine = setting[c].scope PROVE BindingInv'
    OBVIOUS
  <1>1. /\ ~Binding!Ended(c) /\ setting[c].pc = "create" /\ chatRow' = chatRow /\ contested' = contested
    BY DEF Binding!Create, Binding!At, Binding!Ended
  <1>2. /\ BindingTyped /\ setting[c] \in AskedShape /\ CallOnItsWay(c) /\ CallAlone(c)
        /\ mine \in Binding!Scopes /\ Sole(mine)
    BY <1>1, CallFacts
  <1>3. CASE setting' = [setting EXCEPT ![c] = Binding!Idle] /\ bindings' = bindings
    <2>1. Binding!Idle \in AskedShape
      BY <1>2, ShapeSteps
    <2>2. BindingTyped' /\ setting'[c] = Binding!Idle /\ setting' = [setting EXCEPT ![c] = setting'[c]]
      BY <1>1, <1>2, <1>3, <2>1, BindingTypes DEF BindingTyped
    <2>3. \A scope : SameRows(scope) /\ Binding!OfScope(scope)' = Binding!OfScope(scope)
      BY <1>3, SameAll DEF SameRows
    <2>4. CallOnItsWay(c)' /\ CallAlone(c)'
      BY <1>2, <1>3, <2>2 DEF CallOnItsWay, CallAlone, Binding!Idle, Binding!NoId, Binding!Ids, BindingTyped
    <2>5. Sole(mine)'
      <3>1. Binding!Idle.pc # "create"
        BY DEF Binding!Idle
      <3> QED BY <1>1, <1>2, <1>3, <2>1, <2>3, <3>1, SoleStep
    <2> QED BY <1>1, <1>3, <2>2, <2>3, <2>4, <2>5, CallStep
  <1>4. CASE Binding!Goto(c, "getChat") /\ \E id \in Binding!FirstOf(Binding!Free) :
               bindings' = [r \in DOMAIN bindings \cup {id} |->
                              IF r = id THEN [scope |-> setting[c].scope, agent |-> setting[c].agent] ELSE bindings[r]]
    <2> DEFINE z == [setting[c] EXCEPT !.pc = "getChat"]
    <2>1. PICK id \in Binding!FirstOf(Binding!Free) :
            bindings' = [r \in DOMAIN bindings \cup {id} |->
                           IF r = id THEN [scope |-> mine, agent |-> setting[c].agent] ELSE bindings[r]]
      BY <1>4
    <2>2. id \in Binding!Ids /\ (\A r \in DOMAIN bindings : r < id) /\ \A d \in Tasks : setting[d].row # id
      BY <2>1 DEF Binding!FirstOf, Binding!Free
    <2>3. id \notin DOMAIN bindings
      BY <2>2 DEF Binding!Ids
    <2>4. z \in AskedShape /\ setting' = [setting EXCEPT ![c] = z]
      <3>1. z \in AskedShape
        BY <1>2, ShapeSteps
      <3>2. setting' = [setting EXCEPT ![c] = z]
        BY <1>2, <1>4 DEF Binding!Goto, BindingTyped
      <3> QED BY <3>1, <3>2
    <2>5. /\ DOMAIN bindings' = DOMAIN bindings \cup {id} /\ bindings'[id].scope = mine
          /\ bindings'[id].agent = setting[c].agent /\ \A r \in DOMAIN bindings : bindings'[r] = bindings[r]
          /\ bindings'[id] \in [scope: Binding!Scopes, agent: Agents \cup {NoAgent}]
      BY <1>2, <2>1, <2>3 DEF AskedShape
    <2>6. z.kind = setting[c].kind /\ z.scope = mine /\ z.agent = setting[c].agent /\ z.alone = setting[c].alone
          /\ z.pc = "getChat" /\ z.row = setting[c].row
      BY <1>2 DEF AskedShape
    <2> HIDE DEF z
    <2>7. BindingTyped' /\ setting'[c] = z /\ setting' = [setting EXCEPT ![c] = setting'[c]]
      <3>1. /\ DOMAIN bindings' \subseteq Binding!Ids
            /\ \A r \in DOMAIN bindings' : bindings'[r] \in [scope: Binding!Scopes, agent: Agents \cup {NoAgent}]
        BY <1>2, <2>2, <2>5 DEF BindingTyped
      <3> QED BY <1>1, <1>2, <2>4, <3>1, BindingTypes
    <2>8. /\ Binding!OfScope(mine)' = Binding!OfScope(mine) \cup {id}
          /\ \A scope : scope # mine => Binding!OfScope(scope)' = Binding!OfScope(scope)
      BY <2>3, <2>5 DEF Binding!OfScope
    <2>9. \A scope : scope # mine => SameRows(scope)
      BY <2>5, <2>8 DEF SameRows, Binding!OfScope
    <2>10. CallOnItsWay(c)'
      BY <1>1, <1>2, <2>2, <2>3, <2>5, <2>6, <2>7 DEF CallOnItsWay
    <2>11. CallAlone(c)'
      <3>1. Binding!Lookup(setting[c].scope)' = Binding!Lookup(mine)'
        BY <2>6, <2>7, NewScope
      <3>2. ASSUME setting[c].alone PROVE Binding!Lookup(mine)' = {id}
        <4>1. Binding!OfScope(mine)' = {id}
          BY <1>1, <1>2, <2>8, <3>2 DEF CallAlone
        <4> QED BY <2>2, <4>1 DEF Binding!Lookup, Binding!FirstOf, Binding!Ids
      <3> QED BY <2>5, <2>6, <2>7, <3>1, <3>2 DEF CallAlone, Holds
    <2>12. Sole(mine)'
      <3>1. \E i : Binding!OfScope(mine)' \subseteq Binding!OfScope(mine) \cup {i}
        BY <2>8
      <3>2. setting[c].kind = "set"
        BY <1>1, <1>2 DEF CallOnItsWay
      <3> QED BY <1>1, <1>2, <2>4, <2>6, <3>1, <3>2, SoleStep
    <2> QED BY <1>1, <2>2, <2>5, <2>6, <2>7, <2>9, <2>10, <2>11, <2>12, CallStep
  <1> QED BY <1>3, <1>4 DEF Binding!Create

\* get_binding, once the row is as it was asked for.
LEMMA ReadStep ==
  ASSUME BindingInv, NEW c \in Tasks, setting[c].pc \in {"getChat", "getProject"},
         bindings' = bindings, chatRow' = chatRow, contested' = contested,
         NEW mine, mine = setting[c].scope, NEW a,
         setting[c].alone /\ setting[c].agent # NoAgent => a = setting[c].agent,
         NEW z \in AskedShape, setting' = [setting EXCEPT ![c] = z],
         \/ Answered(c, z, a)
         \/ /\ z = [setting[c] EXCEPT !.pc = "getProject"]
            /\ setting[c].alone /\ setting[c].agent # NoAgent => mine = "project"
  PROVE BindingInv'
  <1>1. ~Binding!Ended(c)
    BY DEF Binding!Ended
  <1>2. /\ BindingTyped /\ setting[c] \in AskedShape /\ CallOnItsWay(c) /\ CallAlone(c)
        /\ mine \in Binding!Scopes /\ Sole(mine)
    BY <1>1, CallFacts
  <1>3. BindingTyped' /\ setting'[c] = z /\ setting' = [setting EXCEPT ![c] = setting'[c]]
    BY <1>2, BindingTypes DEF BindingTyped
  <1>4. \/ z = Binding!Idle
        \/ /\ z.kind = setting[c].kind /\ z.scope = mine /\ z.agent = setting[c].agent /\ z.alone = setting[c].alone
           /\ \/ z.pc = "getProject" /\ z.row = setting[c].row
                 /\ (setting[c].alone /\ setting[c].agent # NoAgent => mine = "project")
              \/ z.pc = "done" /\ z.row = Binding!NoId /\ setting[c].alone /\ z.told = a
    BY <1>2 DEF Answered, AskedShape
  <1>5. \A scope : SameRows(scope) /\ Binding!OfScope(scope)' = Binding!OfScope(scope)
    BY SameAll DEF SameRows
  <1>6. Binding!Lookup(mine)' = Binding!Lookup(mine)
    BY SameAll
  <1>7. CallOnItsWay(c)'
    <2>1. CASE z = Binding!Idle
      BY <1>2, <1>3, <2>1 DEF CallOnItsWay, Binding!Idle, Binding!NoId, Binding!Ids, BindingTyped
    <2>2. CASE z # Binding!Idle
      BY <1>2, <1>3, <1>4, <2>2 DEF CallOnItsWay, Binding!NoId, Binding!Ids, BindingTyped
    <2> QED BY <2>1, <2>2
  <1>8. CallAlone(c)'
    <2>1. CASE z = Binding!Idle
      BY <1>3, <2>1 DEF CallAlone, Binding!Idle
    <2>2. CASE z # Binding!Idle
      <3>1. Binding!Lookup(setting[c].scope)' = Binding!Lookup(mine)
        BY <1>3, <1>4, <1>6, <2>2, NewScope
      <3>2. setting[c].alone /\ setting[c].agent # NoAgent =>
              \E r \in Binding!Lookup(mine) : bindings[r].agent = setting[c].agent
        BY <1>2 DEF CallAlone, Holds
      <3>3. setting[c].kind = "set"
        BY <1>2 DEF CallOnItsWay
      <3>4. CASE z.pc = "getProject"
        BY <1>3, <1>4, <2>2, <3>1, <3>2, <3>4 DEF CallAlone, Holds
      <3>5. CASE z.pc = "done"
        BY <1>3, <1>4, <2>2, <3>3, <3>5 DEF CallAlone
      <3> QED BY <1>4, <2>2, <3>4, <3>5
    <2> QED BY <2>1, <2>2
  <1>9. Sole(mine)'
    <2>1. z.pc # "create" /\ (z = Binding!Idle \/ (z.kind = setting[c].kind /\ z.scope = mine))
      BY <1>4 DEF Binding!Idle
    <2> QED BY <1>1, <1>2, <1>5, <2>1, SoleStep
  <1> QED BY <1>1, <1>3, <1>4, <1>5, <1>7, <1>8, <1>9, CallStep

LEMMA GetChatStep == ASSUME BindingInv, NEW c \in Tasks, Binding!GetChat(c) PROVE BindingInv'
  <1> SUFFICES ASSUME NEW mine, mine = setting[c].scope PROVE BindingInv'
    OBVIOUS
  <1>1. setting[c].pc = "getChat" /\ bindings' = bindings /\ chatRow' = chatRow /\ contested' = contested
    BY DEF Binding!GetChat, Binding!At
  <1>2. BindingTyped /\ setting[c] \in AskedShape /\ CallAlone(c)
    BY <1>1, CallFacts DEF Binding!Ended
  <1>3. setting[c].alone /\ setting[c].agent # NoAgent =>
          \E s \in Binding!Lookup(mine) : bindings[s].agent = setting[c].agent
    BY <1>1, <1>2 DEF CallAlone, Holds
  <1>4. ASSUME mine = "chat", NEW r \in Binding!Lookup("chat"), Binding!Answer(c, bindings[r].agent) PROVE BindingInv'
    <2>1. setting[c].alone /\ setting[c].agent # NoAgent => bindings[r].agent = setting[c].agent
      BY <1>2, <1>3, <1>4, LookupFacts
    <2>2. bindings[r].agent \in Agents \cup {NoAgent}
      BY <1>2, <1>4 DEF BindingTyped, Binding!Lookup, Binding!FirstOf, Binding!OfScope
    <2>3. PICK z \in AskedShape : setting' = [setting EXCEPT ![c] = z] /\ Answered(c, z, bindings[r].agent)
      BY <1>2, <1>4, <2>2, AnswerStep
    <2> QED BY <1>1, <2>1, <2>3, ReadStep
  <1>5. ASSUME ~(mine = "chat" /\ Binding!Lookup("chat") # {}), Binding!Goto(c, "getProject") PROVE BindingInv'
    <2> DEFINE z == [setting[c] EXCEPT !.pc = "getProject"]
    <2>1. z \in AskedShape
      BY <1>2, ShapeSteps
    <2>2. setting' = [setting EXCEPT ![c] = z]
      BY <1>2, <1>5 DEF Binding!Goto, BindingTyped
    <2>3. setting[c].alone /\ setting[c].agent # NoAgent => mine = "project"
      BY <1>2, <1>3, <1>5 DEF AskedShape, Binding!Scopes
    <2> QED BY <1>1, <2>1, <2>2, <2>3, ReadStep
  <1> QED BY <1>4, <1>5 DEF Binding!GetChat

LEMMA GetProjectStep == ASSUME BindingInv, NEW c \in Tasks, Binding!GetProject(c) PROVE BindingInv'
  <1> SUFFICES ASSUME NEW mine, mine = setting[c].scope PROVE BindingInv'
    OBVIOUS
  <1>1. setting[c].pc = "getProject" /\ bindings' = bindings /\ chatRow' = chatRow /\ contested' = contested
    BY DEF Binding!GetProject, Binding!At
  <1>2. BindingTyped /\ setting[c] \in AskedShape /\ CallAlone(c)
    BY <1>1, CallFacts DEF Binding!Ended
  <1>3. setting[c].alone /\ setting[c].agent # NoAgent =>
          \E s \in Binding!Lookup("project") : bindings[s].agent = setting[c].agent
    BY <1>1, <1>2 DEF CallAlone, Holds
  <1>4. ASSUME NEW r \in Binding!Lookup("project"), Binding!Answer(c, bindings[r].agent) PROVE BindingInv'
    <2>1. setting[c].alone /\ setting[c].agent # NoAgent => bindings[r].agent = setting[c].agent
      BY <1>2, <1>3, <1>4, LookupFacts
    <2>2. bindings[r].agent \in Agents \cup {NoAgent}
      BY <1>2, <1>4 DEF BindingTyped, Binding!Lookup, Binding!FirstOf, Binding!OfScope
    <2>3. PICK z \in AskedShape : setting' = [setting EXCEPT ![c] = z] /\ Answered(c, z, bindings[r].agent)
      BY <1>2, <1>4, <2>2, AnswerStep
    <2> QED BY <1>1, <2>1, <2>3, ReadStep
  <1>5. ASSUME Binding!Lookup("project") = {}, Binding!Answer(c, NoAgent) PROVE BindingInv'
    <2>1. ~(setting[c].alone /\ setting[c].agent # NoAgent)
      BY <1>3, <1>5
    <2>2. PICK z \in AskedShape : setting' = [setting EXCEPT ![c] = z] /\ Answered(c, z, NoAgent)
      BY <1>2, <1>5, AnswerStep
    <2> QED BY <1>1, <2>1, <2>2, ReadStep
  <1> QED BY <1>4, <1>5 DEF Binding!GetProject

LEMMA RemoveRowStep == ASSUME BindingInv, NEW c \in Tasks, Binding!Delete(c) PROVE BindingInv'
  <1> SUFFICES ASSUME NEW mine, mine = setting[c].scope PROVE BindingInv'
    OBVIOUS
  <1> DEFINE row == setting[c].row
  <1>1. /\ ~Binding!Ended(c) /\ setting[c].pc = "delete" /\ chatRow' = chatRow /\ contested' = contested
        /\ bindings' = [r \in DOMAIN bindings \ {row} |-> bindings[r]]
    BY DEF Binding!Delete, Binding!At, Binding!Ended
  <1>2. /\ BindingTyped /\ setting[c] \in AskedShape /\ CallOnItsWay(c) /\ CallAlone(c)
        /\ mine \in Binding!Scopes /\ Sole(mine)
    BY <1>1, CallFacts
  <1>3. PICK z \in AskedShape : setting' = [setting EXCEPT ![c] = z] /\ Answered(c, z, NoAgent)
    BY <1>2, AnswerStep DEF Binding!Delete
  <1>4. DOMAIN bindings' = DOMAIN bindings \ {row} /\ \A r \in DOMAIN bindings' : bindings'[r] = bindings[r]
    BY <1>1
  <1>5. BindingTyped' /\ setting'[c] = z /\ setting' = [setting EXCEPT ![c] = setting'[c]]
    <2>1. /\ DOMAIN bindings' \subseteq Binding!Ids
          /\ \A r \in DOMAIN bindings' : bindings'[r] \in [scope: Binding!Scopes, agent: Agents \cup {NoAgent}]
      BY <1>2, <1>4 DEF BindingTyped
    <2> QED BY <1>1, <1>2, <1>3, <2>1, BindingTypes
  <1>6. \/ z = Binding!Idle
        \/ /\ z.kind = setting[c].kind /\ z.scope = mine /\ z.alone = setting[c].alone
           /\ z.pc = "done" /\ z.row = Binding!NoId /\ setting[c].alone
    BY <1>2, <1>3 DEF Answered, AskedShape
  <1>7. \A scope : Binding!OfScope(scope)' = Binding!OfScope(scope) \ {row}
    BY <1>4 DEF Binding!OfScope
  <1>8. \A scope : scope # mine => SameRows(scope)
    BY <1>2, <1>4, <1>7 DEF SameRows, Binding!OfScope, CallOnItsWay
  <1>9. CallOnItsWay(c)'
    <2>1. z.row = Binding!NoId /\ z.pc \in {"idle", "done"}
      BY <1>6 DEF Binding!Idle
    <2> QED BY <1>5, <2>1 DEF CallOnItsWay, Binding!NoId, Binding!Ids, BindingTyped
  <1>10. CallAlone(c)'
    <2>1. CASE z = Binding!Idle
      BY <1>5, <2>1 DEF CallAlone, Binding!Idle
    <2>2. CASE z # Binding!Idle
      <3>1. Binding!OfScope(setting[c].scope)' = Binding!OfScope(mine) \ {row}
        BY <1>5, <1>6, <1>7, <2>2, NewScope
      <3>2. setting[c].kind = "remove"
        BY <1>1, <1>2 DEF CallOnItsWay
      <3>3. row \in Binding!OfScope(mine)
        BY <1>1, <1>2, <1>6, <2>2 DEF CallAlone
      <3>4. mine \notin contested => Binding!OfScope(mine) \ {row} = {}
        BY <1>2, <3>3 DEF Sole
      <3> QED BY <1>1, <1>5, <1>6, <2>2, <3>1, <3>2, <3>4 DEF CallAlone
    <2> QED BY <2>1, <2>2
  <1>11. Sole(mine)'
    <2>1. z.pc # "create" /\ (z = Binding!Idle \/ (z.kind = setting[c].kind /\ z.scope = mine))
      BY <1>6 DEF Binding!Idle
    <2> QED BY <1>1, <1>2, <1>3, <1>7, <2>1, SoleStep
  <1> QED BY <1>1, <1>4, <1>5, <1>6, <1>8, <1>9, <1>10, <1>11, CallStep

LEMMA BeginCallStep ==
  ASSUME BindingInv, NEW c \in Tasks, NEW kind \in {"set", "remove"}, NEW scope \in Binding!Scopes,
         NEW agent \in Agents \cup {NoAgent}, Binding!Begin(c, kind, scope, agent)
  PROVE BindingInv'
  <1> DEFINE same == {d \in Tasks \ {c} : setting[d].scope = scope}
             running == {d \in same : ~Binding!Ended(d)}
             asked == [Binding!Idle EXCEPT !.pc = "find", !.kind = kind, !.scope = scope, !.agent = agent,
                                           !.alone = running = {}]
  <1>1. /\ BindingTyped /\ bindings' = bindings /\ chatRow' = chatRow /\ Binding!Ended(c)
        /\ contested' = IF kind = "set" /\ \E d \in running : setting[d].kind = "set"
                           THEN contested \cup {scope} ELSE contested
    BY DEF BindingInv, Binding!Begin
  <1>2. setting' = [d \in Tasks |-> CASE d = c -> asked
                                       [] d \in running -> [setting[d] EXCEPT !.alone = FALSE]
                                       [] d \in same \ running -> Binding!Idle
                                       [] OTHER -> setting[d]]
    BY DEF Binding!Begin
  <1>3. /\ asked.pc = "find" /\ asked.kind = kind /\ asked.scope = scope /\ asked.agent = agent
        /\ asked.row = Binding!NoId /\ asked.alone = (running = {}) /\ asked \in AskedShape
    <2>1. (running = {}) \in BOOLEAN
      OBVIOUS
    <2> QED BY <2>1 DEF Binding!Idle, AskedShape, Binding!Scopes
  <1> HIDE DEF asked
  <1>4. setting'[c] = asked
    BY <1>2
  <1>5. ASSUME NEW d \in running
        PROVE /\ setting'[d] \in AskedShape /\ setting'[d].pc = setting[d].pc /\ setting'[d].kind = setting[d].kind
              /\ setting'[d].scope = scope /\ setting'[d].row = setting[d].row /\ ~setting'[d].alone
              /\ setting'[d].agent = setting[d].agent
    <2>1. setting[d] \in AskedShape /\ setting'[d] = [setting[d] EXCEPT !.alone = FALSE]
      BY <1>1, <1>2 DEF BindingTyped
    <2> QED BY <2>1 DEF AskedShape
  <1>6. \A d \in same \ running : setting'[d] = Binding!Idle
    BY <1>2
  <1>7. \A d \in Tasks \ (same \cup {c}) : setting'[d] = setting[d]
    BY <1>2
  <1>8. BindingTyped'
    <2>1. \A d \in Tasks : setting'[d] \in AskedShape
      BY <1>1, <1>3, <1>4, <1>5, <1>6, <1>7, ShapeSteps DEF BindingTyped
    <2>2. setting' \in [Tasks -> AskedShape]
      BY <1>2, <2>1
    <2> QED BY <1>1, <2>2 DEF BindingTyped
  <1>9. \A s : Binding!OfScope(s)' = Binding!OfScope(s) /\ Binding!Lookup(s)' = Binding!Lookup(s)
    BY <1>1, SameAll DEF SameRows
  <1>10. ASSUME NEW d \in Tasks PROVE CallOnItsWay(d)'
    <2>1. CallOnItsWay(d)
      BY DEF BindingInv
    <2>2. Binding!NoId \notin DOMAIN bindings
      BY <1>1 DEF BindingTyped, Binding!NoId, Binding!Ids
    <2>3. CASE d = c
      BY <1>1, <1>3, <1>4, <2>2, <2>3 DEF CallOnItsWay
    <2>4. CASE d \in running
      BY <1>1, <1>5, <2>1, <2>4 DEF CallOnItsWay, Binding!Ended
    <2>5. CASE d \in same \ running
      BY <1>1, <1>6, <2>2, <2>5 DEF CallOnItsWay, Binding!Idle
    <2>6. CASE d \notin same \cup {c}
      BY <1>1, <1>7, <2>1, <2>6 DEF CallOnItsWay
    <2> QED BY <2>3, <2>4, <2>5, <2>6
  <1>11. ASSUME NEW d \in Tasks PROVE CallAlone(d)'
    <2>1. CallAlone(d)
      BY DEF BindingInv
    <2>2. CASE d = c
      BY <1>3, <1>4, <2>2 DEF CallAlone
    <2>3. CASE d \in running
      BY <1>5, <2>3 DEF CallAlone, Binding!Ended
    <2>4. CASE d \in same \ running
      BY <1>6, <2>4 DEF CallAlone, Binding!Idle
    <2>5. CASE d \notin same \cup {c}
      <3>1. /\ Binding!Lookup(setting[d].scope)' = Binding!Lookup(setting[d].scope)
            /\ Binding!OfScope(setting[d].scope)' = Binding!OfScope(setting[d].scope)
        <4> SUFFICES ASSUME NEW s, s = setting[d].scope
                     PROVE /\ Binding!Lookup(setting[d].scope)' = Binding!Lookup(s)
                           /\ Binding!OfScope(setting[d].scope)' = Binding!OfScope(s)
          OBVIOUS
        <4> QED BY <1>7, <1>9, <2>5, NewScope
      <3>2. contested \subseteq contested'
        BY <1>1
      <3> QED BY <1>1, <1>7, <2>1, <2>5, <3>1, <3>2 DEF CallAlone, Holds
    <2> QED BY <2>2, <2>3, <2>4, <2>5
  <1>12. ASSUME NEW d \in Tasks, NEW e \in Tasks, d # e PROVE NotAlone(d, e)'
    <2> SUFFICES ASSUME setting'[d].scope = setting'[e].scope, setting'[e].pc \notin {"idle", "done"},
                        setting'[d].pc # "idle"
                 PROVE setting'[d].pc # "done" /\ ~setting'[d].alone
      BY DEF NotAlone, Binding!Ended
    <2>1. d \notin same \ running /\ e \notin same \ running
      BY <1>6 DEF Binding!Idle
    <2>2. CASE d = c
      <3>1. e \in running
        BY <1>3, <1>4, <1>7, <1>12, <2>1, <2>2
      <3> QED BY <1>3, <1>4, <2>2, <3>1
    <2>3. CASE d \in running
      BY <1>5, <2>3 DEF Binding!Ended
    <2>4. CASE d \notin same \cup {c}
      <3>1. e \notin same \cup {c}
        BY <1>3, <1>4, <1>5, <1>7, <1>12, <2>1, <2>4
      <3>2. NotAlone(d, e)
        BY <1>12 DEF BindingInv
      <3> QED BY <1>7, <2>4, <3>1, <3>2 DEF NotAlone, Binding!Ended
    <2> QED BY <2>1, <2>2, <2>3, <2>4
  <1>13. ASSUME NEW s \in Binding!Scopes PROVE Sole(s)'
    <2> SUFFICES ASSUME s \notin contested' PROVE Sole(s)'
      BY DEF Sole
    <2>1. Sole(s) /\ s \notin contested
      BY <1>1 DEF BindingInv
    <2>2. \A d \in Tasks \ {c} : Setting(d, s)' => Setting(d, s)
      BY <1>5, <1>6, <1>7 DEF Setting, Binding!Ended, Binding!Idle
    <2>3. ASSUME Setting(c, s)', NEW d \in Tasks \ {c}, Setting(d, s) PROVE FALSE
      <3>1. s = scope /\ kind = "set"
        BY <1>3, <1>4, <2>3 DEF Setting
      <3>2. d \in running /\ setting[d].kind = "set"
        BY <2>3, <3>1 DEF Setting
      <3> QED BY <1>1, <3>1, <3>2
    <2>4. \A d \in Tasks : setting'[d].pc = "create" /\ setting'[d].scope = s =>
            setting[d].pc = "create" /\ setting[d].scope = s
      BY <1>3, <1>4, <1>5, <1>6, <1>7 DEF Binding!Idle
    <2> QED BY <1>9, <2>1, <2>2, <2>3, <2>4 DEF Sole
  <1> QED BY <1>8, <1>10, <1>11, <1>12, <1>13 DEF BindingInv

LEMMA DeleteChatStep == ASSUME BindingInv, Binding!DeleteChat PROVE BindingInv'
  <1>1. /\ BindingTyped /\ chatRow' = FALSE /\ contested' = contested
        /\ bindings' = [r \in Binding!OfScope("project") |-> bindings[r]]
        /\ setting' = [c \in Tasks |-> IF setting[c].scope = "project" THEN setting[c]
                                       ELSE IF Binding!Ended(c) THEN Binding!Idle ELSE [setting[c] EXCEPT !.alone = FALSE]]
    BY DEF BindingInv, Binding!DeleteChat
  <1>2. ASSUME NEW d \in Tasks
        PROVE /\ setting'[d] \in AskedShape
              /\ \/ setting[d].scope = "project" /\ setting'[d] = setting[d]
                 \/ setting[d].scope = "chat" /\ Binding!Ended(d) /\ setting'[d] = Binding!Idle
                 \/ /\ setting[d].scope = "chat" /\ ~Binding!Ended(d) /\ ~setting'[d].alone
                    /\ setting'[d].pc = setting[d].pc /\ setting'[d].kind = setting[d].kind
                    /\ setting'[d].scope = setting[d].scope /\ setting'[d].row = setting[d].row
                    /\ setting'[d].agent = setting[d].agent
    <2>1. setting[d] \in AskedShape
      BY <1>1 DEF BindingTyped
    <2>2. [setting[d] EXCEPT !.alone = FALSE] \in AskedShape
      BY <2>1 DEF AskedShape
    <2>3. CASE setting[d].scope = "project"
      BY <1>1, <2>1, <2>3
    <2>4. CASE setting[d].scope = "chat" /\ Binding!Ended(d)
      <3>1. Binding!Idle \in AskedShape
        BY <2>1, ShapeSteps
      <3>2. setting'[d] = Binding!Idle
        BY <1>1, <2>4
      <3> QED BY <2>4, <3>1, <3>2
    <2>5. CASE setting[d].scope = "chat" /\ ~Binding!Ended(d)
      <3>1. setting'[d] = [setting[d] EXCEPT !.alone = FALSE]
        BY <1>1, <2>5
      <3> QED BY <2>1, <2>2, <2>5, <3>1 DEF AskedShape
    <2> QED BY <2>1, <2>3, <2>4, <2>5 DEF AskedShape, Binding!Scopes
  <1>3. /\ DOMAIN bindings' = Binding!OfScope("project") /\ DOMAIN bindings' \subseteq DOMAIN bindings
        /\ \A r \in DOMAIN bindings' : bindings'[r] = bindings[r]
    BY <1>1 DEF Binding!OfScope
  <1>4. /\ SameRows("project") /\ Binding!OfScope("chat")' = {}
        /\ Binding!OfScope("project")' = Binding!OfScope("project")
        /\ Binding!Lookup("project")' = Binding!Lookup("project")
    BY <1>3 DEF SameRows, Binding!OfScope, Binding!Lookup, Binding!FirstOf
  <1>5. BindingTyped'
    <2>1. setting' \in [Tasks -> AskedShape]
      BY <1>1, <1>2
    <2> QED BY <1>1, <1>3, <2>1 DEF BindingTyped
  <1>6. ASSUME NEW d \in Tasks PROVE CallOnItsWay(d)'
    <2>1. CallOnItsWay(d)
      BY DEF BindingInv
    <2>2. Binding!NoId \notin DOMAIN bindings'
      BY <1>5 DEF BindingTyped, Binding!NoId, Binding!Ids
    <2>3. CASE setting'[d] = Binding!Idle
      BY <2>2, <2>3 DEF CallOnItsWay, Binding!Idle
    <2>4. CASE setting'[d] # Binding!Idle
      BY <1>2, <1>3, <2>1, <2>4 DEF CallOnItsWay, Binding!Ended
    <2> QED BY <2>3, <2>4
  <1>7. ASSUME NEW d \in Tasks PROVE CallAlone(d)'
    <2>1. CallAlone(d)
      BY DEF BindingInv
    <2>2. CASE setting[d].scope = "project" /\ setting'[d] = setting[d]
      <3>1. /\ Binding!Lookup(setting[d].scope)' = Binding!Lookup("project")
            /\ Binding!OfScope(setting[d].scope)' = Binding!OfScope("project")
        BY <1>4, <2>2, NewScope
      <3>2. \A r \in Binding!Lookup("project") : bindings'[r] = bindings[r]
        BY <1>3 DEF Binding!Lookup, Binding!FirstOf
      <3> QED BY ZenonT(40), <1>1, <2>1, <2>2, <3>1, <3>2 DEF CallAlone, Holds
    <2>3. CASE setting'[d] = Binding!Idle
      BY <2>3 DEF CallAlone, Binding!Idle
    <2>4. CASE ~Binding!Ended(d) /\ ~setting'[d].alone /\ setting'[d].pc = setting[d].pc
      BY <2>4 DEF CallAlone, Binding!Ended
    <2> QED BY <1>2, <2>2, <2>3, <2>4
  <1>8. ASSUME NEW d \in Tasks, NEW e \in Tasks, d # e PROVE NotAlone(d, e)'
    <2> SUFFICES ASSUME setting'[d].scope = setting'[e].scope, setting'[e].pc \notin {"idle", "done"},
                        setting'[d].pc # "idle"
                 PROVE setting'[d].pc # "done" /\ ~setting'[d].alone
      BY DEF NotAlone, Binding!Ended
    <2>1. setting'[d] # Binding!Idle /\ setting'[e] # Binding!Idle
      BY DEF Binding!Idle
    <2>2. CASE setting[d].scope = "project" /\ setting'[d] = setting[d]
      <3>1. setting[e].scope = "project" /\ setting'[e] = setting[e]
        BY <1>2, <2>1, <2>2
      <3>2. NotAlone(d, e)
        BY <1>8 DEF BindingInv
      <3> QED BY <2>2, <3>1, <3>2 DEF NotAlone, Binding!Ended
    <2>3. CASE setting[d].scope = "chat"
      BY <1>2, <2>1, <2>3 DEF Binding!Ended
    <2> QED BY <1>2, <2>2, <2>3
  <1>9. ASSUME NEW s \in Binding!Scopes PROVE Sole(s)'
    <2> SUFFICES ASSUME s \notin contested PROVE Sole(s)'
      BY <1>1 DEF Sole
    <2>1. Sole(s)
      BY DEF BindingInv
    <2>2. \A d \in Tasks : Setting(d, s)' => Setting(d, s)
      BY <1>2 DEF Setting, Binding!Ended, Binding!Idle
    <2>3. \A d \in Tasks : setting'[d].pc = "create" /\ setting'[d].scope = s =>
            setting[d].pc = "create" /\ setting[d].scope = s
      BY <1>2 DEF Binding!Idle
    <2>4. Binding!OfScope(s)' \subseteq Binding!OfScope(s)
      BY <1>4 DEF Binding!Scopes
    <2> QED BY <2>1, <2>2, <2>3, <2>4 DEF Sole
  <1> QED BY <1>5, <1>6, <1>7, <1>8, <1>9 DEF BindingInv

LEMMA BindingStep == ASSUME BindingInv, [Binding!Next]_binding PROVE BindingInv'
  <1>1. ASSUME NEW c \in Tasks, NEW scope \in Binding!Scopes, NEW agent \in Agents \cup {NoAgent},
               Binding!Begin(c, "set", scope, agent)
        PROVE BindingInv'
    BY <1>1, BeginCallStep
  <1>2. ASSUME NEW c \in Tasks, NEW scope \in Binding!Scopes, Binding!Begin(c, "remove", scope, NoAgent)
        PROVE BindingInv'
    BY <1>2, BeginCallStep
  <1>3. ASSUME NEW c \in Tasks,
               \/ Binding!Find(c) \/ Binding!Update(c) \/ Binding!Create(c) \/ Binding!GetChat(c)
               \/ Binding!GetProject(c) \/ Binding!Delete(c)
        PROVE BindingInv'
    BY <1>3, FindStep, UpdateStep, CreateStep, GetChatStep, GetProjectStep, RemoveRowStep
  <1>4. CASE Binding!DeleteChat
    BY <1>4, DeleteChatStep
  <1>5. CASE UNCHANGED binding
    BY <1>5 DEF binding, BindingInv, BindingTyped, CallOnItsWay, CallAlone, Holds, NotAlone, Sole, Setting, Binding!Ended,
                Binding!OfScope, Binding!Lookup, Binding!FirstOf
  <1> QED BY <1>1, <1>2, <1>3, <1>4, <1>5 DEF Binding!Next

LEMMA BindingShows == ASSUME BindingInv PROVE Binding!AskedIsDone /\ Binding!TypeOK
  <1>1. Binding!AskedIsDone
    BY DEF BindingInv, CallAlone, Binding!AskedIsDone, Binding!At
  <1>2. Binding!TypeOK
    BY DEF BindingInv, BindingTyped, AskedShape, Binding!TypeOK
  <1> QED BY <1>1, <1>2

-----------------------------------------------------------------------------
(* The types of the parts *)

\* The row that get_instructions reads is there, also when overlapping saves of several
\* clients inserted more than one: timestamps are bounded, so one is the last.
LEMMA NewestRow ==
  ASSUME History!TypeOK
  PROVE History!Newest \in Rows \cup {NoRow} /\ History!Current \in Texts
  <1>1. CASE History!Present = {}
    BY <1>1, HistoryAssumption DEF History!Newest, History!Current, History!Distinct
  <1>2. CASE History!Present # {}
    <2> DEFINE Gaps == {MaxWrites - stamp[r] : r \in History!Present}
    <2>1. History!Present \subseteq Rows /\ MaxWrites \in Nat /\ \A r \in Rows : stamp[r] \in 0..MaxWrites
      BY HistoryAssumption DEF History!Present, History!Bounds, History!TypeOK
    <2>2. Gaps \subseteq Nat /\ Gaps # {}
      BY <1>2, <2>1
    <2>3. PICK m \in Gaps : \A n \in Gaps : m <= n
      BY <2>2, LeastOf
    <2>4. PICK r \in History!Present : m = MaxWrites - stamp[r]
      BY <2>3
    <2>5. ASSUME NEW s \in History!Present PROVE stamp[s] <= stamp[r]
      <3>1. MaxWrites - stamp[s] \in Gaps /\ stamp[s] \in Nat /\ stamp[r] \in Nat
        BY <2>1
      <3>2. MaxWrites - stamp[r] <= MaxWrites - stamp[s]
        BY <2>3, <2>4, <3>1
      <3> QED BY <2>1, <3>1, <3>2
    <2>6. History!Newest \in History!Present
      BY <1>2, <2>5 DEF History!Newest
    <2>7. History!Newest \in Rows /\ table[History!Newest] \in Texts
      BY <2>6 DEF History!Present, History!TypeOK
    <2> QED BY <2>7, HistoryAssumption DEF History!Current, History!Distinct
  <1> QED BY <1>1, <1>2

LEMMA HistoryTyped == ASSUME History!TypeOK, [History!Next]_history PROVE History!TypeOK'
  <1>a. /\ Empty \in Texts /\ Absent \notin Texts /\ NoRow \notin Rows
        /\ MaxWrites \in Nat /\ MaxSnaps \in Nat
    BY HistoryAssumption DEF History!Distinct, History!Bounds
  <1>b. History!Idle \in History!Calls
    BY <1>a DEF History!Idle, History!Calls
  <1>c. /\ table \in [Rows -> Texts \cup {Absent}] /\ stamp \in [Rows -> 0..MaxWrites] /\ used \subseteq Rows
        /\ snaps \in [Texts -> 0..MaxSnaps] /\ save \in [Clients -> History!Calls] /\ now \in 0..MaxWrites
        /\ History!Newest \in Rows \cup {NoRow} /\ History!Current \in Texts
    BY NewestRow DEF History!TypeOK
  <1>0. CASE UNCHANGED history
    BY <1>0 DEF history, History!TypeOK
  <1>1. ASSUME NEW c \in Clients, NEW text \in Texts, History!SaveBegin(c, text) PROVE History!TypeOK'
    <2>1. ASSUME NEW z \in History!Calls PROVE [z EXCEPT !.pc = "existing", !.new = text] \in History!Calls
      BY <1>1 DEF History!Calls
    <2> QED BY <1>1, <1>b, <1>c, <2>1 DEF History!SaveBegin, History!TypeOK
  <1>2. ASSUME NEW c \in Clients, NEW text \in Texts, History!DeleteSnapshot(c, text) PROVE History!TypeOK'
    BY <1>2, <1>a, <1>c DEF History!DeleteSnapshot, History!TypeOK
  <1>3. ASSUME NEW c \in Clients, History!ReadExisting(c) PROVE History!TypeOK'
    <2> DEFINE next == IF History!Current \in {Empty, save[c].new} THEN "find" ELSE "snap"
    <2>1. /\ save' = [save EXCEPT ![c].old = History!Current, ![c].pc = next]
          /\ UNCHANGED <<table, stamp, used, snaps, now>>
      BY <1>3 DEF History!ReadExisting
    <2>2. ASSUME NEW z \in History!Calls PROVE [z EXCEPT !.old = History!Current, !.pc = next] \in History!Calls
      BY <1>c DEF History!Calls
    <2>3. save' = [save EXCEPT ![c] = [save[c] EXCEPT !.old = History!Current, !.pc = next]]
      BY <1>c, <2>1
    <2>4. save' \in [Clients -> History!Calls]
      BY <1>c, <2>2, <2>3
    <2> QED BY <1>c, <2>1, <2>4 DEF History!TypeOK
  <1>4. ASSUME NEW c \in Clients, History!Snapshot(c) PROVE History!TypeOK'
    <2>1. /\ snaps[save[c].old] < MaxSnaps /\ snaps' = [snaps EXCEPT ![save[c].old] = @ + 1]
          /\ save' = [save EXCEPT ![c].pc = "find"] /\ UNCHANGED <<table, stamp, used, now>>
      BY <1>4 DEF History!Snapshot, History!Goto
    <2>2. save' \in [Clients -> History!Calls] /\ save[c].old \in Texts
      <3>1. save[c] \in History!Calls /\ \A z \in History!Calls :
              [z EXCEPT !.pc = "find"] \in History!Calls /\ z.old \in Texts
        BY <1>c DEF History!Calls
      <3>2. save' = [save EXCEPT ![c] = [save[c] EXCEPT !.pc = "find"]]
        BY <1>c, <2>1
      <3> QED BY <1>c, <3>1, <3>2
    <2>3. snaps' \in [Texts -> 0..MaxSnaps]
      BY <1>a, <1>c, <2>1, <2>2
    <2> QED BY <1>c, <2>1, <2>2, <2>3 DEF History!TypeOK
  <1>5. ASSUME NEW c \in Clients, History!FindRow(c) PROVE History!TypeOK'
    <2>1. /\ now < MaxWrites /\ now' = now + 1 /\ UNCHANGED <<table, stamp, used, snaps>>
          /\ save' = [save EXCEPT ![c].pc = "write", ![c].row = History!Newest, ![c].now = now + 1]
      BY <1>5 DEF History!FindRow
    <2>2. now' \in 0..MaxWrites
      BY <1>a, <1>c, <2>1
    <2>3. save' \in [Clients -> History!Calls]
      <3>1. ASSUME NEW z \in History!Calls, NEW n \in 0..MaxWrites
            PROVE [z EXCEPT !.pc = "write", !.row = History!Newest, !.now = n] \in History!Calls
        BY <1>c, <3>1 DEF History!Calls
      <3>2. save' = [save EXCEPT ![c] = [save[c] EXCEPT !.pc = "write", !.row = History!Newest, !.now = now']]
        BY <1>c, <2>1
      <3> QED BY <1>c, <2>2, <3>1, <3>2
    <2> QED BY <1>c, <2>1, <2>2, <2>3 DEF History!TypeOK
  <1>6. ASSUME NEW c \in Clients, History!UpdateRow(c) \/ History!InsertRow(c) PROVE History!TypeOK'
    <2>1. save' = [save EXCEPT ![c] = History!Idle] /\ UNCHANGED <<snaps, now>>
      BY <1>6 DEF History!UpdateRow, History!InsertRow, History!End
    <2>2. save[c].new \in Texts /\ save[c].now \in 0..MaxWrites /\ save[c].row \in Rows \cup {NoRow}
      BY <1>c DEF History!Calls
    <2>3. /\ used' \subseteq Rows
          /\ \/ UNCHANGED <<table, stamp>>
             \/ \E r \in Rows : table' = [table EXCEPT ![r] = save[c].new] /\ stamp' = [stamp EXCEPT ![r] = save[c].now]
      BY <1>6, <1>c, <2>2 DEF History!UpdateRow, History!InsertRow, History!WriteTo, History!Present
    <2>4. table' \in [Rows -> Texts \cup {Absent}] /\ stamp' \in [Rows -> 0..MaxWrites]
      BY <1>c, <2>2, <2>3
    <2> QED BY <1>b, <1>c, <2>1, <2>3, <2>4 DEF History!TypeOK
  <1>7. ASSUME NEW c \in Clients, History!Clear(c) PROVE History!TypeOK'
    BY <1>7, <1>c DEF History!Clear, History!TypeOK
  <1>8. CASE History!Crash
    BY <1>8, <1>b, <1>c DEF History!Crash, History!TypeOK
  <1> QED BY <1>0, <1>1, <1>2, <1>3, <1>4, <1>5, <1>6, <1>7, <1>8
          DEF History!Next, History!RestoreBegin

\* What TypeOK says of times is that they are no later than the clock, or TTL later.
LEMMA TokenTyped ==
  ASSUME CacheInv, clock \in 1..MaxClock
  PROVE Token!TypeOK
  <1>1. TTL \in Nat /\ MaxClock \in Nat
    BY TokenAssumption DEF Token!Bounds
  <1>2. /\ lastValid \in 0..MaxClock /\ lastBad \in 0..MaxClock /\ valid \in BOOLEAN
        /\ \A t \in Tasks : task[t] \in VerifyType /\ task[t].now \in 0..MaxClock
    BY <1>1 DEF CacheInv, CacheTyped, Past, VerifyType
  <1>3. pos \in 0..MaxClock + TTL /\ neg \in 0..MaxClock + TTL
    BY <1>1, <1>2 DEF CacheInv, CacheTyped, EntriesExpire
  <1>4. task \in [Tasks -> [pc: {"idle", "sent", "answered", "accepted", "denied"}, now: 0..MaxClock,
                            how: {"none", "cache", "valid", "invalid"}]]
    BY <1>2 DEF CacheInv, CacheTyped, VerifyType
  <1> QED BY <1>2, <1>3, <1>4 DEF Token!TypeOK

LEMMA ClockStep ==
  ASSUME Token!Bounds, clock \in 1..MaxClock, [Token!Next]_token
  PROVE clock' \in 1..MaxClock
  <1>1. clock' = clock \/ (clock < MaxClock /\ clock' = clock + 1)
    BY DEF Token!Next, Token!Begin, Token!IdentityAnswers, Token!Accept, Token!Deny, Token!Tick, Token!Revoke, token
  <1> QED BY <1>1 DEF Token!Bounds

\* The eviction leaves a place free: the clients it keeps and those that are older than the
\* oldest of them are different ones, and of the latter there are as many as there are too many.
LEMMA KeptFew ==
  ASSUME MaxKeys > 0, RateTyped, NEW next
  PROVE Cardinality(Rate!Kept(next)) <= MaxKeys - 1 /\ IsFiniteSet(Rate!Kept(next))
  <1> DEFINE live == {l \in DOMAIN hits : Rate!Fresh(l, next) # {}}
             older(k) == {l \in live : Rate!Oldest(l) < Rate!Oldest(k)}
             kept == Rate!Kept(next)
  <1>1. kept = {k \in live : Cardinality(older(k)) >= Cardinality(live) + 1 - MaxKeys}
    BY DEF Rate!Kept, Rate!Cardinality, Cardinality
  <1>2. IsFiniteSet(live) /\ IsFiniteSet(kept) /\ \A k \in live : IsFiniteSet(older(k))
    <2>1. IsFiniteSet(live)
      BY FS_Subset DEF RateTyped
    <2>2. kept \subseteq live /\ \A k \in live : older(k) \subseteq live
      BY <1>1
    <2> HIDE DEF live, kept, older
    <2> QED BY <2>1, <2>2, FS_Subset
  <1>3. /\ Cardinality(live) \in Nat /\ Cardinality(kept) \in Nat
        /\ \A k \in live : Cardinality(older(k)) \in Nat
    <2> HIDE DEF live, kept, older
    <2> QED BY <1>2, FS_CardinalityType
  <1>4. MaxKeys \in Nat
    BY RateAssumption DEF Rate!Bounds
  <1>5. \A k \in live : Rate!Oldest(k) \in Nat
    <2> SUFFICES ASSUME NEW k \in live PROVE Rate!Oldest(k) \in Nat
      OBVIOUS
    <2>1. hits[k] \subseteq Nat /\ hits[k] # {}
      BY DEF RateTyped, Rate!Fresh
    <2>2. \E m \in hits[k] : \A n \in hits[k] : m <= n
      BY <2>1, LeastOf
    <2>3. Rate!Oldest(k) \in hits[k]
      BY <2>2 DEF Rate!Oldest, Rate!Min
    <2> QED BY <2>1, <2>3
  <1>6. ASSUME kept = {} PROVE Cardinality(kept) <= MaxKeys - 1
    BY <1>4, <1>6, FS_EmptySet
  <1>7. ASSUME kept # {} PROVE Cardinality(kept) <= MaxKeys - 1
    <2> DEFINE ages == {Rate!Oldest(k) : k \in kept}
    <2>1. ages \subseteq Nat /\ ages # {}
      BY <1>1, <1>5, <1>7
    <2>2. PICK k \in kept : \A l \in kept : Rate!Oldest(k) <= Rate!Oldest(l)
      <3>1. PICK m \in ages : \A n \in ages : m <= n
        BY <2>1, LeastOf
      <3> QED BY <3>1
    <2>3. k \in live /\ Cardinality(older(k)) >= Cardinality(live) + 1 - MaxKeys /\ kept \subseteq live
      BY <1>1
    <2>4. kept \cap older(k) = {}
      <3>1. \A l \in kept : ~(Rate!Oldest(l) < Rate!Oldest(k))
        BY <1>5, <2>2, <2>3
      <3> QED BY <3>1
    <2>5. older(k) \subseteq live
      OBVIOUS
    <2> HIDE DEF live, kept, older
    <2>6. IsFiniteSet(older(k)) /\ IsFiniteSet(kept)
      BY <1>2, <2>3
    <2>7. Cardinality(kept \cup older(k)) = Cardinality(kept) + Cardinality(older(k)) - Cardinality(kept \cap older(k))
      BY <2>6, FS_Union
    <2>8. Cardinality(kept \cap older(k)) = 0
      BY <2>4, FS_EmptySet
    <2>9. Cardinality(kept \cup older(k)) <= Cardinality(live)
      BY <1>2, <2>3, <2>5, FS_Subset
    <2> QED BY <1>3, <1>4, <2>3, <2>7, <2>8, <2>9
  <1> QED BY <1>2, <1>6, <1>7

TableFits == Cardinality(DOMAIN hits) <= MaxKeys

\* Only a client that is not in the table makes it grow, and a full table makes room first.
\* (With a limit of 0 it is entered although it is refused, and without making room.)
LEMMA TableStep ==
  ASSUME Limit > 0, MaxKeys > 0, RateInv, TableFits, [Rate!Next]_rate
  PROVE TableFits'
  <1>0. /\ RateTyped /\ MaxKeys \in Nat /\ Limit \in Nat /\ IsFiniteSet(DOMAIN hits)
        /\ Cardinality(DOMAIN hits) \in Nat
    BY FS_CardinalityType, RateAssumption DEF RateInv, RateTyped, Rate!Bounds
  <1>1. CASE UNCHANGED rate \/ Rate!Pass
    BY <1>1 DEF TableFits, rate, Rate!Pass
  <1>2. ASSUME NEW key \in Keys, Rate!Request(key) PROVE TableFits'
    <2> DEFINE next == time + 1
               fresh == Rate!Fresh(key, next)
               accepted == Cardinality(fresh) < Limit
               room == IF accepted THEN Rate!Room(key, next) ELSE DOMAIN hits
    <2>1. DOMAIN hits' = room \cup {key}
      BY <1>2 DEF Rate!Request, Rate!Cardinality, Cardinality
    <2>2. CASE key \in DOMAIN hits
      <3>1. room = DOMAIN hits
        BY <2>2 DEF Rate!Room
      <3>2. DOMAIN hits' = DOMAIN hits
        BY <2>1, <2>2, <3>1
      <3> QED BY <3>2 DEF TableFits
    <2>3. CASE key \notin DOMAIN hits
      <3>1. fresh = {}
        BY <2>3 DEF Rate!Fresh
      <3>2. accepted
        BY <1>0, <3>1, FS_EmptySet
      <3>3. CASE Cardinality(DOMAIN hits) >= MaxKeys
        <4>1. room = Rate!Kept(next)
          BY <2>3, <3>2, <3>3 DEF Rate!Room, Rate!Cardinality, Cardinality
        <4>2. IsFiniteSet(room) /\ Cardinality(room) \in Nat /\ Cardinality(room) <= MaxKeys - 1
          BY <1>0, <4>1, KeptFew, FS_CardinalityType
        <4>3. Cardinality(room \cup {key}) <= Cardinality(room) + 1
          <5> HIDE DEF room
          <5> QED BY <4>2, FS_AddElement
        <4>4. Cardinality(room \cup {key}) <= MaxKeys
          <5>1. IsFiniteSet(room \cup {key}) /\ Cardinality(room \cup {key}) \in Nat
            <6> HIDE DEF room
            <6> QED BY <4>2, FS_AddElement, FS_CardinalityType
          <5> HIDE DEF room
          <5> QED BY <1>0, <4>2, <4>3, <5>1
        <4> HIDE DEF room
        <4> QED BY <2>1, <4>4 DEF TableFits
      <3>4. CASE ~(Cardinality(DOMAIN hits) >= MaxKeys)
        <4>1. room = DOMAIN hits
          BY <3>2, <3>4 DEF Rate!Room, Rate!Cardinality, Cardinality
        <4>2. Cardinality(DOMAIN hits \cup {key}) <= Cardinality(DOMAIN hits) + 1
          BY SMTT(30), <1>0, FS_AddElement
        <4>3. Cardinality(DOMAIN hits \cup {key}) \in Nat
          BY <1>0, FS_AddElement, FS_CardinalityType
        <4>4. Cardinality(DOMAIN hits \cup {key}) <= MaxKeys
          BY <1>0, <3>4, <4>2, <4>3
        <4> HIDE DEF room
        <4> QED BY <2>1, <4>1, <4>4 DEF TableFits
      <3> QED BY <3>3, <3>4
    <2> QED BY <2>2, <2>3
  <1> QED BY <1>1, <1>2 DEF Rate!Next

LEMMA RateTypes == ASSUME RateInv, TableFits PROVE Rate!TypeOK
  BY DEF RateInv, RateTyped, TableFits, Rate!TypeOK, Rate!Cardinality, Cardinality

\* A query searches the folders it was asked for up to a cap.
ScopeCapped == Len(q.scope) <= MaxScope /\ changes \in 0..MaxChanges

LEMMA ScopeStep == ASSUME RagInv, ScopeCapped, [Rag!Next]_rag PROVE ScopeCapped'
  <1>0. q \in RagShape /\ MaxScope \in Nat /\ MaxChanges \in Nat
    BY RagAssumption DEF RagInv, RagTyped, Rag!Bounds
  <1>1. ASSUME NEW mode, NEW ids \in Seq(Folders), NEW k, NEW threshold, Rag!Begin(mode, ids, k, threshold)
        PROVE ScopeCapped'
    <2> DEFINE scope == SubSeq(ids, 1, Rag!Min({Len(ids), MaxScope}))
    <2>1. Rag!Min({Len(ids), MaxScope}) = IF Len(ids) <= MaxScope THEN Len(ids) ELSE MaxScope
      BY <1>0, SmallerOfTwo
    <2>2. Len(scope) <= MaxScope
      BY <1>0, <2>1, FirstFew
    <2>3. q'.scope = scope /\ changes' = changes
      BY <1>1 DEF Rag!Begin, Rag!Idle
    <2> QED BY <2>2, <2>3 DEF ScopeCapped
  <1>2. CASE Rag!Refuse \/ Rag!Merge \/ Rag!Sources \/ \E i \in DOMAIN q.answers : Rag!Search(i)
    <2>1. q'.scope = q.scope /\ changes' = changes
      BY <1>0, <1>2 DEF Rag!Refuse, Rag!Merge, Rag!Sources, Rag!Search, RagShape
    <2> QED BY <2>1 DEF ScopeCapped
  <1>3. ASSUME NEW d \in Docs, Rag!RemoveIndex(d) \/ Rag!DropRow(d) \/ \E f \in Folders : Rag!MoveFile(d, f)
        PROVE ScopeCapped'
    BY <1>0, <1>3 DEF Rag!RemoveIndex, Rag!DropRow, Rag!MoveFile, Rag!Change, ScopeCapped
  <1>4. CASE UNCHANGED rag
    BY <1>4 DEF rag, ScopeCapped
  <1>5. \A ids \in Rag!SeqOf(Folders, MaxScope + 1) : ids \in Seq(Folders)
    BY <1>0 DEF Rag!SeqOf
  <1> QED BY <1>1, <1>2, <1>3, <1>4, <1>5 DEF Rag!Next

LEMMA RagTypes == ASSUME RagInv, ScopeCapped PROVE Rag!TypeOK
  <1>1. RagTyped /\ q \in RagShape /\ MaxScope \in Nat
    BY RagAssumption DEF RagInv, RagTyped, Rag!Bounds
  <1>2. q.scope \in Rag!SeqOf(Folders, MaxScope)
    <2>1. q.scope \in [1..Len(q.scope) -> Folders] /\ Len(q.scope) \in 0..MaxScope
      BY <1>1 DEF RagShape, ScopeCapped
    <2> QED BY <2>1 DEF Rag!SeqOf
  <1>3. \A i \in DOMAIN q.answers : q.answers[i] \in {Rag!Pending, Rag!Failed} \/ q.answers[i] \subseteq Docs
    <2>1. q.answers \in Seq((SUBSET Docs) \cup {Rag!Pending, Rag!Failed})
      BY <1>1 DEF RagShape
    <2> QED BY <2>1
  <1>4. Rag!ToSet(q.results) \subseteq Docs
    <2>1. q.results \in Seq(Docs)
      BY <1>1 DEF RagShape
    <2> QED BY <2>1 DEF Rag!ToSet
  <1> QED BY <1>1, <1>2, <1>3, <1>4 DEF Rag!TypeOK, RagTyped, RagShape, ScopeCapped

LEMMA CopyTypes == ASSUME CopyInv PROVE Copy!TypeOK
  <1>1. \A i \in DOMAIN todo : todo[i] \in [id: Folders \cup Files, in: Copy!Places]
    BY SequenceItems DEF CopyInv, CopyTodo
  <1> QED BY <1>1 DEF CopyInv, CopySource, CopyTree, Copy!TypeOK

\* What makes the parts' own types inductive, each with the part's invariant.
TypesInv ==
  /\ part \in {"artifacts", "history", "gateway", "token", "binding", "stream", "rate", "rag", "copy", "attachment"}
  /\ History!TypeOK
  /\ Runs("token") => clock \in 1..MaxClock
  /\ Runs("rate") => TableFits
  /\ Runs("rag") => ScopeCapped
-----------------------------------------------------------------------------
(* The parts together *)

\* Artifacts and references are as their Init says while another part runs.
ServiceInv ==
  /\ SagaInv
  /\ Runs("gateway") => RetryInv
  /\ Runs("token") => CacheInv
  /\ Runs("stream") => ExchangeInv
  /\ Runs("attachment") => AttachmentInv
  /\ Runs("copy") => CopyInv
  /\ Runs("rate") => RateInv
  /\ Runs("rag") => RagInv
  /\ Runs("binding") => BindingInv

\* What a step of the service is to each part.
LEMMA ServiceSteps ==
  ASSUME [ServiceNext]_serviceVars
  PROVE /\ part' = part /\ [History!Next]_history /\ [Next]_vars
        /\ Runs("gateway") => [Gateway!Next]_gateway
        /\ Runs("token") => [Token!Next]_token
        /\ Runs("stream") => [Stream!Next]_stream
        /\ Runs("attachment") => [Attachment!Next]_attachment
        /\ Runs("copy") => [Copy!Next]_copy
        /\ Runs("rate") => [Rate!Next]_rate
        /\ Runs("rag") => [Rag!Next]_rag
        /\ Runs("binding") => [Binding!Next]_binding
  <1>1. part' = part
    BY DEF ServiceNext, serviceVars
  <1>2. [History!Next]_history
    BY DEF ServiceNext, serviceVars
  <1>3. [Next]_vars
    BY DEF ServiceNext, serviceVars
  <1>4. Runs("gateway") => [Gateway!Next]_gateway
    BY DEF ServiceNext, RestNext, serviceVars, rest, Runs
  <1>5. Runs("token") => [Token!Next]_token
    BY DEF ServiceNext, RestNext, serviceVars, rest, Runs
  <1>6. Runs("stream") => [Stream!Next]_stream
    BY DEF ServiceNext, RestNext, serviceVars, rest, Runs
  <1>7. Runs("attachment") => [Attachment!Next]_attachment
    BY DEF ServiceNext, RestNext, serviceVars, rest, Runs
  <1>8. Runs("copy") => [Copy!Next]_copy
    BY DEF ServiceNext, RestNext, serviceVars, rest, Runs
  <1>9. Runs("rate") => [Rate!Next]_rate
    BY DEF ServiceNext, RestNext, serviceVars, rest, Runs
  <1>10. Runs("rag") => [Rag!Next]_rag
    BY DEF ServiceNext, RestNext, serviceVars, rest, Runs
  <1>11. Runs("binding") => [Binding!Next]_binding
    BY DEF ServiceNext, RestNext, serviceVars, rest, Runs
  <1> QED BY <1>1, <1>2, <1>3, <1>4, <1>5, <1>6, <1>7, <1>8, <1>9, <1>10, <1>11

LEMMA ServiceStarts == ASSUME ServiceInit PROVE ServiceInv
  BY SagaInit, RetryInit, ExchangeInit, AttachmentInit, CopyInit, RateInit, RagInit, BindingInit, CacheInit, TokenAssumption, StreamAssumption
  DEF ServiceInit, ServiceInv

LEMMA ServiceKeeps == ASSUME ServiceInv, [ServiceNext]_serviceVars PROVE ServiceInv'
  <1>1. Runs("gateway")' => RetryInv'
    BY ServiceSteps, RetryStep DEF ServiceInv, Runs
  <1>2. Runs("token")' => CacheInv'
    BY ServiceSteps, TokenAssumption, CacheStep DEF ServiceInv, Runs
  <1>3. Runs("stream")' => ExchangeInv'
    BY ServiceSteps, StreamAssumption, ExchangeStep DEF ServiceInv, Runs
  <1>4. Runs("attachment")' => AttachmentInv'
    BY ServiceSteps, AttachmentStep DEF ServiceInv, Runs
  <1>5. Runs("copy")' => CopyInv'
    BY ServiceSteps, CopyStep DEF ServiceInv, Runs
  <1>6. Runs("rate")' => RateInv'
    BY ServiceSteps, RateStep DEF ServiceInv, Runs
  <1>7. Runs("rag")' => RagInv'
    BY ServiceSteps, RagStep DEF ServiceInv, Runs
  <1>8. Runs("binding")' => BindingInv'
    BY ServiceSteps, BindingStep DEF ServiceInv, Runs
  <1>9. SagaInv'
    BY ServiceSteps, SagaStep DEF ServiceInv
  <1> QED BY <1>1, <1>2, <1>3, <1>4, <1>5, <1>6, <1>7, <1>8, <1>9 DEF ServiceInv

LEMMA ServiceAlways == ServiceSpec => []ServiceInv
  <1>1. ServiceInit => ServiceInv
    BY ServiceStarts
  <1>2. ServiceInv /\ [ServiceNext]_serviceVars => ServiceInv'
    BY ServiceKeeps
  <1> QED BY <1>1, <1>2, PTL DEF ServiceSpec

LEMMA TypesStart == ASSUME ServiceInit, MaxKeys > 0 PROVE TypesInv
  <1>1. History!TypeOK
    BY HistoryAssumption
    DEF ServiceInit, History!Init, History!TypeOK, History!Distinct, History!Bounds, History!Calls, History!Idle
  <1>2. ASSUME Runs("token") PROVE clock \in 1..MaxClock
    BY <1>2, TokenAssumption DEF ServiceInit, Token!Init, Token!Bounds
  <1>3. ASSUME Runs("rate") PROVE TableFits
    <2>1. DOMAIN hits = {}
      BY <1>3 DEF ServiceInit, Rate!Init
    <2> QED BY <2>1, FS_EmptySet, RateAssumption DEF TableFits, Rate!Bounds
  <1>4. ASSUME Runs("rag") PROVE ScopeCapped
    <2>1. Len(q.scope) = 0 /\ changes = 0
      BY <1>4 DEF ServiceInit, Rag!Init, Rag!Idle
    <2> QED BY <2>1, RagAssumption DEF ScopeCapped, Rag!Bounds
  <1> QED BY <1>1, <1>2, <1>3, <1>4 DEF ServiceInit, TypesInv

LEMMA TypesStay ==
  ASSUME Limit > 0, MaxKeys > 0, ServiceInv, TypesInv, [ServiceNext]_serviceVars
  PROVE TypesInv'
  <1>1. History!TypeOK'
    BY ServiceSteps, HistoryTyped DEF TypesInv
  <1>2. Runs("token")' => (clock \in 1..MaxClock)'
    BY ServiceSteps, ClockStep, TokenAssumption DEF TypesInv, Runs
  <1>3. Runs("rate")' => TableFits'
    BY ServiceSteps, TableStep DEF ServiceInv, TypesInv, Runs
  <1>4. Runs("rag")' => ScopeCapped'
    BY ServiceSteps, ScopeStep DEF ServiceInv, TypesInv, Runs
  <1> QED BY ServiceSteps, <1>1, <1>2, <1>3, <1>4 DEF TypesInv

\* The state of every part has its type, for any number of clients, calls and times: in
\* particular the rate limiter never remembers more than RATE_MAX_IPS clients, if neither
\* that nor the limit is 0 (_RateLimiter.check and _evict), a query never searches more than
\* RAG_MAX_FOLDER_SCOPE folders, and a cached decision is never kept longer than the TTL.
THEOREM PartIsTyped == ASSUME Limit > 0, MaxKeys > 0 PROVE ServiceSpec => []PartTyped
  <1>1. ServiceInit => ServiceInv /\ TypesInv
    BY ServiceStarts, TypesStart
  <1>2. ServiceInv /\ TypesInv /\ [ServiceNext]_serviceVars => ServiceInv' /\ TypesInv'
    BY ServiceKeeps, TypesStay
  <1>3. ASSUME ServiceInv, TypesInv PROVE PartTyped
    <2>1. TypeOK /\ History!TypeOK
      BY <1>3 DEF ServiceInv, TypesInv, SagaInv
    <2>2. /\ Runs("gateway") => Gateway!TypeOK
          /\ Runs("stream") => Stream!TypeOK
          /\ Runs("attachment") => Attachment!TypeOK
      BY <1>3 DEF ServiceInv, RetryInv, ExchangeInv, AttachmentInv
    <2>3. /\ Runs("token") => Token!TypeOK
          /\ Runs("rate") => Rate!TypeOK
          /\ Runs("rag") => Rag!TypeOK
          /\ Runs("copy") => Copy!TypeOK
          /\ Runs("binding") => Binding!TypeOK
      BY <1>3, TokenTyped, RateTypes, RagTypes, CopyTypes, BindingShows DEF ServiceInv, TypesInv
    <2>4. part \in {"artifacts", "history", "gateway", "token", "binding", "stream", "rate", "rag", "copy", "attachment"}
      BY <1>3 DEF TypesInv
    <2> QED BY <2>1, <2>2, <2>3, <2>4 DEF PartTyped, Runs
  <1>4. ServiceInv /\ TypesInv => PartTyped
    BY <1>3
  <1> QED BY <1>1, <1>2, <1>4, PTL DEF ServiceSpec

\* Whatever else the service runs: a reference stands for an artifact that was moved, and a
\* moved artifact has one, a call on its way or was removed (migrate_artifact,
\* remove_artifact and ProjectManager.delete).
THEOREM ReferencesMatch == ServiceSpec => [](TrackedInKb /\ NothingUntracked)
  <1>1. SagaInv => TrackedInKb /\ NothingUntracked
    BY DEF SagaInv, TypeOK, ArtifactOk, KeptInKb, KeptTracked, TrackedInKb, NothingUntracked
  <1>2. ServiceInv => TrackedInKb /\ NothingUntracked
    BY <1>1 DEF ServiceInv
  <1> QED BY <1>2, ServiceAlways, PTL

\* A token accepted from identity_verify's cache was valid less than TTL ago, and one
\* denied from it failed a verification less than TTL ago, whatever verifications
\* overlap, however long their answers take and whenever the token is revoked.
THEOREM CacheIsRecent == ServiceSpec => []DecidedRecently
  <1>1. ServiceInv => DecidedRecently
    BY DEF ServiceInv, DecidedRecently, CacheInv
  <1> QED BY <1>1, ServiceAlways, PTL

\* However answers of the gateway are lost or late, a POST takes effect at most once more
\* than answers to it were lost (GatewayClient._request).
THEOREM EffectsCounted == ServiceSpec => []EffectsAccounted
  <1>1. ASSUME ServiceInv PROVE EffectsAccounted
    BY <1>1 DEF ServiceInv, RetryInv, EffectsAccounted, Gateway!EffectsAccounted, Gateway!TypeOK, Gateway!Kinds,
                Gateway!MaxRetries
  <1>2. ServiceInv => EffectsAccounted
    BY <1>1
  <1> QED BY <1>2, ServiceAlways, PTL

\* However many tokens a reply has, whenever upstream fails and whenever the client goes,
\* "done" is written to a client only when its chat keeps what was written before
\* (chat_stream of both front ends).
THEOREM DoneIsStored == ServiceSpec => []DoneMeansStored
  <1>1. ServiceInv => DoneMeansStored
    BY DEF ServiceInv, ExchangeInv, DoneMeansStored
  <1> QED BY <1>1, ServiceAlways, PTL

\* For any number of calls, chats, projects and attachments: what a chat's row names is
\* there, and no bytes stay behind, but for the cases RowsMatchBytes lists
\* (ChatManager.add_temp_attachment, delete_temp_attachment, move_chat, delete_chat and
\* ProjectManager.delete).
THEOREM AttachmentsMatch == ServiceSpec => []RowsMatchBytes
  <1>1. ASSUME ServiceInv PROVE RowsMatchBytes
    BY <1>1, AttachmentShows DEF ServiceInv, RowsMatchBytes
  <1>2. ServiceInv => RowsMatchBytes
    BY <1>1
  <1> QED BY <1>2, ServiceAlways, PTL

\* However the source of a copy is edited meanwhile and however the folders are listed:
\* what was not edited is copied once, into the copy of its folder, under its own path
\* (ProjectManager._copy_project_content).
THEOREM CopiesAreFaithful == ServiceSpec => []CopyFaithful
  <1>1. ServiceInv => CopyFaithful
    BY CopyShows DEF ServiceInv, CopyFaithful
  <1> QED BY <1>1, ServiceAlways, PTL

\* For any number of clients, any limit and any window: a client gets more than its limit
\* of requests within a window only after more than RATE_MAX_IPS clients asked
\* (_RateLimiter.check and _evict).
THEOREM LimitIsKept == ServiceSpec => []LimitUnlessCrowded
  <1>1. ServiceInv => LimitUnlessCrowded
    BY RateShows DEF ServiceInv, LimitUnlessCrowded
  <1> QED BY <1>1, ServiceAlways, PTL

\* A request that the limiter does not count, and what it takes to be refused.
Refused(key) == Rate!Request(key) /\ time' \notin hits'[key]
RefusedAtLimit ==
  Runs("rate") => \A key \in Keys : Refused(key) => Cardinality(Rate!Accepted(key, time')) >= Limit

LEMMA RefusalStep == ASSUME RateTyped, NEW key \in Keys, Refused(key)
                     PROVE Cardinality(Rate!Accepted(key, time')) >= Limit
  <1> DEFINE fresh == Rate!Fresh(key, time')
  <1>1. time \in Nat /\ time' = time + 1 /\ time' \in Rate!Times
    BY RateAssumption DEF Refused, Rate!Request, RateTyped, Rate!Times, Rate!Bounds
  <1>2. ~(Cardinality(fresh) < Limit)
    BY <1>1 DEF Refused, Rate!Request, Rate!Cardinality, Cardinality
  <1>3. fresh \subseteq Rate!Accepted(key, time')
    <2> SUFFICES ASSUME NEW u \in fresh PROVE u \in Rate!Accepted(key, time')
      OBVIOUS
    <2>1. key \in DOMAIN hits /\ u \in hits[key] /\ Rate!Within(time', u)
      BY DEF Rate!Fresh
    <2>2. u \in 1..time /\ log[u] = key
      BY <2>1 DEF RateTyped
    <2> QED BY <1>1, <2>1, <2>2, RateAssumption DEF Rate!Accepted, Rate!Times, Rate!Bounds
  <1>4. Rate!Accepted(key, time') \subseteq Rate!Times /\ fresh \subseteq Rate!Times
    BY <1>3 DEF Rate!Accepted
  <1>5. /\ IsFiniteSet(Rate!Accepted(key, time'))
        /\ Cardinality(Rate!Accepted(key, time')) \in Nat /\ Cardinality(fresh) \in Nat
    BY <1>4, TimesFinite
  <1>6. Cardinality(fresh) <= Cardinality(Rate!Accepted(key, time'))
    BY <1>3, <1>5, FS_Subset
  <1> QED BY <1>2, <1>5, <1>6, RateAssumption DEF Rate!Bounds

\* And nobody is refused early: a request that the limiter does not count was preceded, in
\* the window it falls into, by Limit accepted requests of the same client, whatever the
\* evictions forgot and however long ago the client's hits were trimmed (_RateLimiter.check).
THEOREM RefusalsAreDue == ServiceSpec => [][RefusedAtLimit]_serviceVars
  <1>1. ServiceInv /\ [ServiceNext]_serviceVars => [RefusedAtLimit]_serviceVars
    BY RefusalStep DEF RefusedAtLimit, ServiceInv, RateInv
  <1> QED BY <1>1, ServiceAlways, PTL DEF ServiceSpec

\* For any folders, documents and scores, in whatever order the searches of a query answer
\* and whichever fail: what is returned is the best of what the folders that answered
\* found, each document once, with sources that were there (RAGCoordinator.query,
\* _merge_results and _to_sources).
THEOREM AnswerIsScoped == ServiceSpec => []ScopedAnswer
  <1>1. ServiceInv => ScopedAnswer
    BY DEF ServiceInv, RagInv, ScopedAnswer
  <1> QED BY <1>1, ServiceAlways, PTL

\* For any number of calls, agents and rows, and whatever runs on the other scope: a
\* set_binding that no call on its scope overlapped answers with the agent it was asked
\* for, and such a remove_binding leaves no row of its scope, unless two set_binding calls
\* had created two (AgentBinder.set_binding, get_binding and remove_binding).
THEOREM BindingsAreDone == ServiceSpec => []AskedIsDone
  <1>1. ServiceInv => AskedIsDone
    BY BindingShows DEF ServiceInv, AskedIsDone
  <1> QED BY <1>1, ServiceAlways, PTL

\* A client that waits for each answer gets at most one row of instructions, whatever it
\* saves, restores and clears and whenever the daemon dies (InstructionEngine.save).
THEOREM OneClientOneRow == ASSUME NEW c \in Clients, Clients = {c} PROVE ServiceSpec => []OneRow
  <1>1. ASSUME ServiceInit PROVE HistoryInv(c)
    BY <1>1, HistoryInit DEF ServiceInit
  <1>2. ASSUME HistoryInv(c), [ServiceNext]_serviceVars PROVE HistoryInv(c)'
    BY <1>2, ServiceSteps, HistoryStep
  <1>3. ASSUME HistoryInv(c) PROVE OneRow
    <2>1. \A r, s \in History!Present : r = s
      BY <1>3 DEF HistoryInv, OnlyRow, History!Present
    <2>2. CASE History!Present = {}
      <3>1. Cardinality(History!Present) = 0
        BY <2>2, FS_EmptySet
      <3> QED BY <3>1 DEF OneRow, History!OneRow, History!Cardinality, Cardinality
    <2>3. CASE History!Present # {}
      <3>1. PICK r \in History!Present : History!Present = {r}
        BY <2>1, <2>3
      <3>2. Cardinality(History!Present) = 1
        BY <3>1, FS_Singleton
      <3> QED BY <3>2 DEF OneRow, History!OneRow, History!Cardinality, Cardinality
    <2> QED BY <2>2, <2>3
  <1>4. /\ ServiceInit => HistoryInv(c)
        /\ HistoryInv(c) /\ [ServiceNext]_serviceVars => HistoryInv(c)'
        /\ HistoryInv(c) => OneRow
    BY <1>1, <1>2, <1>3
  <1> QED BY <1>4, PTL DEF ServiceSpec

\* For such a client the instructions implement the abstract versioned text: they are
\* never overwritten before a snapshot holds their content.
THEOREM OneClientVersions == ASSUME NEW c \in Clients, Clients = {c} PROVE ServiceSpec => VersionedSpec
  <1>1. ASSUME ServiceInit PROVE HistoryInv(c) /\ History!Versioned!TextInit
    <2>1. HistoryInv(c) /\ History!Init
      BY <1>1, HistoryInit DEF ServiceInit
    <2>2. History!Current = Empty
      BY <2>1, HistoryReads DEF HistoryInv, History!Init
    <2>3. \A text \in Texts : ~(snaps[text] > 0)
      BY <2>1 DEF History!Init
    <2> QED BY <2>1, <2>2, <2>3 DEF History!Versioned!TextInit
  <1>2. ASSUME HistoryInv(c), [ServiceNext]_serviceVars
        PROVE HistoryInv(c)' /\ [History!Versioned!TextNext]_(History!Versioned!textVars)
    <2>1. HistoryInv(c)' /\ TextStep
      BY <1>2, ServiceSteps, HistoryStep
    <2> QED BY <2>1
            DEF TextStep, HistoryKept, History!Versioned!TextNext, History!Versioned!textVars, History!Versioned!Keep,
                History!Versioned!Overwrite, History!Versioned!Erase, History!Versioned!Forget
  <1>3. /\ ServiceInit => HistoryInv(c) /\ History!Versioned!TextInit
        /\ HistoryInv(c) /\ [ServiceNext]_serviceVars =>
             HistoryInv(c)' /\ [History!Versioned!TextNext]_(History!Versioned!textVars)
    BY <1>1, <1>2
  <1> QED BY <1>3, PTL DEF ServiceSpec, VersionedSpec, History!VersionedSpec, History!Versioned!TextSpec

\* Whatever else the service runs: an artifact nothing disturbed has the custody of
\* ArtifactCustody (migrate_artifact, remove_artifact and ProjectManager.delete).
THEOREM CustodyIsKept == ServiceSpec => CustodySpec
  <1>1. ServiceInit => Custody!Init
    BY CustodyInit DEF ServiceInit
  <1>2. ServiceInv /\ [ServiceNext]_serviceVars => [Custody!Next]_(Custody!custody)
    BY ServiceSteps, CustodyStep DEF ServiceInv
  <1> QED BY <1>1, <1>2, ServiceAlways, PTL DEF ServiceSpec, CustodySpec, Custody!Spec
===============================================================================
