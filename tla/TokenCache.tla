------------------------------ MODULE TokenCache ------------------------------
(***************************************************************************)
(* GatewayClient.identity_verify and identity_verify_sync for one token:   *)
(* overlapping verifications, the positive and the negative cache, and an  *)
(* identity service that may revoke the token while an answer is under     *)
(* way.                                                                    *)
(***************************************************************************)
EXTENDS Naturals

CONSTANTS
  Tasks,    \* requests that may overlap
  TTL,      \* IDENTITY_VERIFY_CACHE_TTL
  MaxTime   \* bound: ticks of the clock

Bounds == TTL \in Nat /\ MaxTime \in Nat \ {0}

VARIABLES
  task,     \* per request: its step, the time it took first, how it was decided
  pos,      \* when the entry in _verify_cache expires, 0 without one
  neg,      \* the same for _verify_neg_cache
  clock,
  valid,    \* the identity service accepts the token
  lastValid,\* when it last did
  lastBad   \* when a verification last failed

vars == <<task, pos, neg, clock, valid, lastValid, lastBad>>

Idle == [pc |-> "idle", now |-> 0, how |-> "none"]

TypeOK ==
  /\ task \in [Tasks -> [pc: {"idle", "sent", "answered", "accepted", "denied"}, now: 0..MaxTime,
                         how: {"none", "cache", "valid", "invalid"}]]
  /\ pos \in 0..MaxTime + TTL /\ neg \in 0..MaxTime + TTL
  /\ clock \in 1..MaxTime /\ lastValid \in 0..MaxTime /\ lastBad \in 0..MaxTime
  /\ valid \in BOOLEAN

Init ==
  /\ task = [t \in Tasks |-> Idle]
  /\ pos = 0 /\ neg = 0
  /\ clock = 1 /\ valid \in BOOLEAN
  /\ lastValid = IF valid THEN 1 ELSE 0
  /\ lastBad = 0

-----------------------------------------------------------------------------

Goto(t, pc, how) == task' = [task EXCEPT ![t].pc = pc, ![t].how = how]

\* The positive entry is looked at first.
Begin(t) ==
  /\ task[t].pc \notin {"sent", "answered"}
  /\ LET as(pc, how) == task' = [task EXCEPT ![t] = [pc |-> pc, now |-> clock, how |-> how]] IN
       CASE pos > clock -> as("accepted", "cache")
         [] pos <= clock /\ neg > clock -> as("denied", "cache")
         [] OTHER -> as("sent", "none")
  /\ UNCHANGED <<pos, neg, clock, valid, lastValid, lastBad>>

\* The identity service decides; its answer arrives later.
IdentityAnswers(t) ==
  /\ task[t].pc = "sent"
  /\ Goto(t, "answered", IF valid THEN "valid" ELSE "invalid")
  /\ lastBad' = IF valid THEN lastBad ELSE clock
  /\ UNCHANGED <<pos, neg, clock, valid, lastValid>>

\* Mutant of Accept: the entry expires TTL after the answer arrived.
AcceptLate(t) ==
  /\ task[t].pc = "answered" /\ task[t].how = "valid"
  /\ Goto(t, "accepted", "valid")
  /\ pos' = clock + TTL
  /\ neg' = 0
  /\ UNCHANGED <<clock, valid, lastValid, lastBad>>

\* The entry expires TTL after the request began; a success removes the denial.
Accept(t) ==
  /\ task[t].pc = "answered" /\ task[t].how = "valid"
  /\ Goto(t, "accepted", "valid")
  /\ pos' = task[t].now + TTL
  /\ neg' = 0
  /\ UNCHANGED <<clock, valid, lastValid, lastBad>>

\* A refusal, or an error or a timeout at any time, is remembered as a denial.
Deny(t) ==
  /\ task[t].pc \in {"sent", "answered"}
  /\ Goto(t, "denied", "invalid")
  /\ neg' = task[t].now + TTL
  /\ lastBad' = IF task[t].how = "invalid" THEN lastBad ELSE clock
  /\ UNCHANGED <<pos, clock, valid, lastValid>>

Tick ==
  /\ clock < MaxTime
  /\ clock' = clock + 1
  /\ lastValid' = IF valid THEN clock + 1 ELSE lastValid
  /\ UNCHANGED <<task, pos, neg, valid, lastBad>>

\* The token is revoked, or issued again.
Revoke ==
  /\ valid' = ~valid
  /\ lastValid' = IF valid THEN lastValid ELSE clock
  /\ UNCHANGED <<task, pos, neg, clock, lastBad>>

Next ==
  \/ \E t \in Tasks : Begin(t) \/ IdentityAnswers(t) \/ Accept(t) \/ Deny(t)
  \/ Tick \/ Revoke

Spec == Init /\ [][Next]_vars

-----------------------------------------------------------------------------

\* "a verified token is reused for a few seconds": whatever verifications overlap and
\* however long an answer takes, a token accepted from the cache was valid less than
\* TTL ago, and one denied from the cache failed a verification less than TTL ago.
DecidedRecently ==
  \A t \in Tasks : task[t].how = "cache" =>
    task[t].now < (IF task[t].pc = "accepted" THEN lastValid ELSE lastBad) + TTL
==============================================================================
