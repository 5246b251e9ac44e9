---------------------------- MODULE StreamExchange ----------------------------
(***************************************************************************)
(* The reply of the model on its way to the client and into the chat:      *)
(* event_stream of the REST route, the second half of _msg_stream of the   *)
(* daemon, and chat_completions_stream which both read.  Tokens are        *)
(* counted; a client goes away for good.                                   *)
(***************************************************************************)
EXTENDS Naturals

CONSTANT MaxTokens   \* bound: tokens of one reply

VARIABLES
  x,        \* the exchange: its front end, step and counts of tokens
  client,   \* here, or gone
  upstream  \* how the stream ended: not yet, read to its end, failed, or slow before that

vars == <<x, client, upstream>>

NoMessage == MaxTokens + 1   \* no assistant message
Exchange(front, want) ==
  [front |-> front, want |-> want, pc |-> "read", taken |-> 0, sent |-> 0, stored |-> NoMessage, told |-> {}]

TypeOK ==
  /\ x \in [front: {"rest", "rpc"}, want: BOOLEAN, pc: {"read", "store", "cancel", "end"},
            taken: 0..MaxTokens, sent: 0..MaxTokens, stored: 0..NoMessage,
            told: SUBSET {"error", "done", "cancelled", "reply"}]
  /\ client \in {"here", "gone"}
  /\ upstream \in {"open", "complete", "failed", "slow"}

Init ==
  /\ x \in {Exchange("rest", TRUE)} \cup {Exchange("rpc", want) : want \in BOOLEAN}
  /\ client = "here" /\ upstream = "open"

-----------------------------------------------------------------------------

Rest == x.front = "rest"
Reading == x.pc = "read" /\ upstream = "open"
Gone == client = "gone"
Goto(step) == x' = [x EXCEPT !.pc = step]
EndWith(event) == x' = [x EXCEPT !.pc = "end", !.told = @ \cup {event}]

Begin ==
  /\ x.pc = "end"
  /\ x' \in {Exchange("rest", TRUE)} \cup {Exchange("rpc", want) : want \in BOOLEAN}
  /\ client' = "here" /\ upstream' = "open"

\* An emit to a client that is gone fails once the connection is known to be lost.
Emits == IF x.want THEN {TRUE, ~Gone} ELSE {FALSE}
Took(want, emitted) ==
  x' = [x EXCEPT !.taken = @ + 1, !.want = want, !.sent = IF emitted THEN @ + 1 ELSE @]

\* Mutant of Token: after an emit that failed the next one is tried.
TokenKeepsWant ==
  /\ Reading /\ x.taken < MaxTokens
  /\ IF Rest /\ Gone THEN Goto("cancel") ELSE \E emitted \in Emits : Took(x.want, emitted)
  /\ UNCHANGED <<client, upstream>>

\* A chunk with text: the route looks whether its client is there and then yields, the
\* daemon stops emitting, not reading, once an emit failed.
Token ==
  /\ Reading /\ x.taken < MaxTokens
  /\ IF Rest /\ Gone THEN Goto("cancel") ELSE \E emitted \in Emits : Took(emitted, emitted)
  /\ UNCHANGED <<client, upstream>>

\* Two seconds without a chunk: wait_for cancels the pending __anext__ and with it the
\* generator, whose next __anext__ is its end.
Slow ==
  /\ Reading /\ Rest
  /\ Goto(IF Gone THEN "cancel" ELSE "store")
  /\ upstream' = "slow"
  /\ UNCHANGED client

\* [DONE], or the end of the body.
Complete ==
  /\ Reading
  /\ Goto("store")
  /\ upstream' = "complete"
  /\ UNCHANGED client

\* A chunk that says "error": the route tells it and stops, the daemon finds no text in it.
ErrorChunk ==
  /\ Reading /\ Rest
  /\ IF Gone THEN Goto("cancel") ELSE x' = [x EXCEPT !.pc = "store", !.told = @ \cup {"error"}]
  /\ upstream' = "failed"
  /\ UNCHANGED client

\* A chunk whose list of choices is empty raises IndexError.
BadChunk ==
  /\ Reading
  /\ IF Rest /\ Gone THEN Goto("cancel") ELSE EndWith("error")
  /\ upstream' = "failed"
  /\ UNCHANGED client

\* GatewayError: the daemon keeps what it has.
Fails ==
  /\ Reading
  /\ IF Rest \/ x.taken = 0 THEN EndWith("error") ELSE Goto("store")
  /\ upstream' = "failed"
  /\ UNCHANGED client

\* add_message, unless there is no text, and the last event; it fails when the chat was
\* deleted meanwhile.
Store ==
  /\ x.pc = "store"
  /\ \/ x.taken = 0 /\ EndWith(IF Rest THEN "done" ELSE "error")
     \/ x.taken > 0 /\ EndWith("error")
     \/ /\ x.taken > 0
        /\ x' = [x EXCEPT !.pc = "end", !.stored = x.taken,
                          !.told = @ \cup (IF x.want THEN {"done"} ELSE {})
                                     \cup (IF Rest THEN {} ELSE {"reply"})]
  /\ UNCHANGED <<client, upstream>>

Cancel == x.pc = "cancel" /\ EndWith("cancelled") /\ UNCHANGED <<client, upstream>>

ClientGoes ==
  /\ client = "here" /\ x.pc # "end"
  /\ client' = "gone"
  /\ UNCHANGED <<x, upstream>>

\* The server cancels the route of a client that is gone; the daemon's handler goes on.
Abandon ==
  /\ Rest /\ Gone /\ x.pc # "end"
  /\ Goto("end")
  /\ UNCHANGED <<client, upstream>>

Next ==
  \/ Begin \/ Token \/ Slow \/ Complete \/ ErrorChunk \/ BadChunk \/ Fails
  \/ Store \/ Cancel \/ ClientGoes \/ Abandon

Spec == Init /\ [][Next]_vars

-----------------------------------------------------------------------------

\* When "done" is written to a client, the message its chat keeps had been written to it
\* token by token (no message if there was no text), whatever failed before; and the
\* daemon answers with a message only if it is stored.
DoneMeansStored ==
  /\ "done" \in x.told => x.sent = x.taken /\ x.stored = IF x.taken = 0 THEN NoMessage ELSE x.sent
  /\ "reply" \in x.told => x.stored = x.taken

\* "REST SSE chat now mirrors daemon", which "waits for the full reply": a reply that is
\* stored and done without an error of the model was read to its end.
WholeReply == "done" \in x.told /\ upstream # "failed" => upstream = "complete"
==============================================================================
