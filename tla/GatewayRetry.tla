----------------------------- MODULE GatewayRetry -----------------------------
(***************************************************************************)
(* The retry loop of GatewayClient._request and artifacts_call, one call   *)
(* after the other, with the effects of its requests upstream.  A request  *)
(* may fail before or after it took effect.                                *)
(***************************************************************************)
EXTENDS Naturals

VARIABLE req   \* state of the loop, effects, and answers lost after an effect

MaxRetries == 3
Kinds == {"idempotent", "post", "artifacts"}
Idle == [pc |-> "idle", kind |-> "post", attempt |-> 0, effects |-> 0, lost |-> 0]

TypeOK ==
  req \in [pc: {"idle", "send", "ok", "error", "escaped"}, kind: Kinds, attempt: 0..MaxRetries,
           effects: 0..MaxRetries + 1, lost: 0..MaxRetries + 1]

Init == req = Idle

Sending == req.pc = "send"
End(pc, effects) == req' = [req EXCEPT !.pc = pc, !.effects = @ + effects]

\* The next attempt, or the error once the retries are exhausted.
Retry(effects, lost) ==
  LET more == req.attempt < MaxRetries IN
  req' = [req EXCEPT !.effects = @ + effects, !.lost = @ + lost,
                     !.pc = IF more THEN "send" ELSE "error",
                     !.attempt = IF more THEN @ + 1 ELSE @]

Request(kind) == ~Sending /\ req' = [Idle EXCEPT !.pc = "send", !.kind = kind]

Answered == Sending /\ End("ok", 1)

\* The answer is no JSON, which escapes as ValueError, or carries a JSON-RPC error.
AnsweredBadly ==
  /\ Sending
  /\ \/ End("escaped", 1)
     \/ req.kind = "artifacts" /\ \E e \in 0..1 : End("error", e)

StatusRefused == Sending /\ End("error", 0)

\* Mutant of StatusRetryable: any method is sent again.
StatusRetried == Sending /\ \E e \in 0..1 : Retry(e, 0)

\* 429 or 5xx, after which the effect is unknown.
StatusRetryable ==
  /\ Sending
  /\ \E e \in 0..1 : IF req.kind = "idempotent" THEN Retry(e, 0) ELSE End("error", e)

\* A timeout or a broken connection: sent again whatever the method, although the
\* request may have taken effect.
TransportError == Sending /\ \E e \in 0..1 : Retry(e, e)

Next ==
  \/ \E kind \in Kinds : Request(kind)
  \/ Answered \/ AnsweredBadly \/ StatusRefused \/ StatusRetryable \/ TransportError

\* "Prevents duplicate KB/doc creation": a POST takes effect at most once more than
\* answers to it were lost, and a call that returned took effect.
EffectsAccounted ==
  /\ req.kind # "idempotent" => req.effects <= req.lost + 1
  /\ req.pc = "ok" => req.effects > 0
==============================================================================
