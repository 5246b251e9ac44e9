----------------------------- MODULE ChatHistory ------------------------------
(***************************************************************************)
(* The messages of chats: ChatManager's add_message, delete_message,       *)
(* create_snapshot, restore_snapshot, fork_chat and delete_chat, and the   *)
(* exchange with the model that the daemon's _msg_stream runs (question,   *)
(* prompt, reply).  Calls are coroutines; one action is one transaction of *)
(* ProjectStore or one answer of the gateway.                              *)
(*                                                                         *)
(* A message is known by the order in which it was said; a copy of it made *)
(* by a restore or a fork keeps its number.  Every transaction that writes *)
(* messages stamps all of them with the one time it took.                  *)
(***************************************************************************)
EXTENDS Naturals, Sequences, FiniteSets

CONSTANTS
  Tasks,        \* coroutines that may run at the same time
  Chats,        \* ids of chats rows, each used at most once
  Snaps,        \* ids of chat_snapshots rows, each used at most once
  NoChat,
  NoSnap,
  SnapshotCap,  \* SNAPSHOT_MAX_MESSAGES
  ForkCap,      \* FORK_MAX_MESSAGES
  HistoryLimit, \* CHAT_HISTORY_LIMIT
  PageSize,     \* MAX_PAGE_SIZE
  MaxSaid,      \* bound: messages said
  MaxWrites     \* bound: transactions that write messages

ASSUME Distinct == NoChat \notin Chats /\ NoSnap \notin Snaps
ASSUME Caps == {SnapshotCap, ForkCap, HistoryLimit, PageSize} \subseteq Nat \ {0}
ASSUME Bounds == MaxSaid \in Nat /\ MaxWrites \in Nat

VARIABLES
  chats,     \* chats that have a row
  usedChats, \* ids handed out
  table,     \* per chat its messages rows, by created_at, then by rowid
  snaps,     \* chat_snapshots: chat and messages of each
  usedSnaps,
  said,      \* messages said so far
  clock,     \* times taken so far
  call,      \* per coroutine: next step and what it holds
  shaken     \* coroutines whose chat lost messages, or was copied into, since
             \* they began

vars == <<chats, usedChats, table, snaps, usedSnaps, said, clock, call, shaken>>

Messages == 1..MaxSaid
Rows == [msg: Messages, at: 1..MaxWrites]
Absent == [chat |-> NoChat, msgs |-> <<>>]

Idle == [pc |-> "idle", chat |-> NoChat, dest |-> NoChat, snap |-> NoSnap,
         msgs |-> <<>>, from |-> 0, to |-> 0]
Calls == [pc: {"idle", "dump", "keep", "branch", "count", "copy", "restore", "prompt", "reply"},
          chat: Chats \cup {NoChat}, dest: Chats \cup {NoChat}, snap: Snaps \cup {NoSnap},
          msgs: Seq(Messages), from: Nat, to: Nat]

TypeOK ==
  /\ chats \subseteq usedChats
  /\ usedChats \subseteq Chats
  /\ table \in [Chats -> Seq(Rows)]
  /\ \A c \in Chats : c \notin chats => table[c] = <<>>
  /\ \A c \in Chats : \A i, j \in DOMAIN table[c] : i < j => table[c][i].at <= table[c][j].at
  /\ snaps \in [Snaps -> [chat: Chats \cup {NoChat}, msgs: Seq(Messages)]]
  /\ usedSnaps \subseteq Snaps
  /\ \A s \in Snaps : snaps[s].chat \in chats \cup {NoChat}
  /\ said \in 0..MaxSaid
  /\ clock \in 0..MaxWrites
  /\ call \in [Tasks -> Calls]
  /\ shaken \subseteq Tasks

Init ==
  /\ chats = {}
  /\ usedChats = {}
  /\ table = [c \in Chats |-> <<>>]
  /\ snaps = [s \in Snaps |-> Absent]
  /\ usedSnaps = {}
  /\ said = 0
  /\ clock = 0
  /\ call = [t \in Tasks |-> Idle]
  /\ shaken = {}

-----------------------------------------------------------------------------
(* Helpers *)

At(t, step) == call[t].pc = step
Chat(t) == call[t].chat
Goto(t, step) == call' = [call EXCEPT ![t].pc = step]
End(t) == call' = [call EXCEPT ![t] = Idle]

Start(t, c, step) ==
  /\ call[t] = Idle
  /\ call' = [call EXCEPT ![t] = [Idle EXCEPT !.pc = step, !.chat = c]]
  /\ shaken' = shaken \ {t}

Smaller(m, n) == IF m < n THEN m ELSE n
LastOf(s, n) == SubSeq(s, Len(s) - Smaller(n, Len(s)) + 1, Len(s))
Said(rows) == [i \in DOMAIN rows |-> rows[i].msg]

\* list_messages without keep_recent: ORDER BY created_at ASC, rows of the same
\* time in the order they were inserted.
Listing(c) == Said(table[c])

\* "ORDER BY created_at DESC LIMIT n", and the result once more by created_at:
\* idx_messages_created is walked backwards, and so rows of the same time come
\* out last inserted first.
Recent(c, n) ==
  LET rows == LastOf(table[c], n)
      before(i) == Cardinality({j \in DOMAIN rows : rows[j].at < rows[i].at})
      upTo(i) == Cardinality({j \in DOMAIN rows : rows[j].at <= rows[i].at})
  IN  [i \in DOMAIN rows |-> rows[before(i) + upTo(i) + 1 - i].msg]

\* The messages ms, stamped with the present time.
Stamped(ms) == [i \in DOMAIN ms |-> [msg |-> ms[i], at |-> clock + 1]]
Tick == clock < MaxWrites /\ clock' = clock + 1

\* create_message.
Say(c) ==
  /\ said < MaxSaid
  /\ said' = said + 1
  /\ Tick
  /\ table' = [table EXCEPT ![c] = @ \o Stamped(<<said + 1>>)]

\* Chat c loses messages, or a fork's messages come in between.
Shakes(c) == shaken \cup {t \in Tasks : call[t] # Idle /\ c \in {Chat(t), call[t].dest}}
ShakesCallers(c) == shaken \cup {t \in Tasks : call[t] # Idle /\ c = Chat(t)}

-----------------------------------------------------------------------------
(* create_chat, add_message, delete_message, delete_chat, delete_snapshot *)

CreateChat(t, c) ==
  /\ call[t] = Idle
  /\ c \notin usedChats
  /\ usedChats' = usedChats \cup {c}
  /\ chats' = chats \cup {c}
  /\ UNCHANGED <<table, snaps, usedSnaps, said, clock, call, shaken>>

AddMessage(t, c) ==
  /\ call[t] = Idle
  /\ c \in chats
  /\ Say(c)
  /\ UNCHANGED <<chats, usedChats, snaps, usedSnaps, call, shaken>>

DeleteMessage(t, c, i) ==
  /\ call[t] = Idle
  /\ table' = [table EXCEPT ![c] = SubSeq(@, 1, i - 1) \o SubSeq(@, i + 1, Len(@))]
  /\ shaken' = Shakes(c)
  /\ UNCHANGED <<chats, usedChats, snaps, usedSnaps, said, clock, call>>

\* Mutant of DeleteChat: the messages stay behind.
DeleteChatOnly(t, c) ==
  /\ call[t] = Idle
  /\ c \in chats
  /\ chats' = chats \ {c}
  /\ snaps' = [s \in Snaps |-> IF snaps[s].chat = c THEN Absent ELSE snaps[s]]
  /\ shaken' = Shakes(c)
  /\ UNCHANGED <<usedChats, table, usedSnaps, said, clock, call>>

\* ON DELETE CASCADE takes the messages and the snapshots.
DeleteChat(t, c) ==
  /\ call[t] = Idle
  /\ c \in chats
  /\ chats' = chats \ {c}
  /\ table' = [table EXCEPT ![c] = <<>>]
  /\ snaps' = [s \in Snaps |-> IF snaps[s].chat = c THEN Absent ELSE snaps[s]]
  /\ shaken' = Shakes(c)
  /\ UNCHANGED <<usedChats, usedSnaps, said, clock, call>>

DeleteSnapshot(t, s) ==
  /\ call[t] = Idle
  /\ snaps[s] # Absent
  /\ snaps' = [snaps EXCEPT ![s] = Absent]
  /\ UNCHANGED <<chats, usedChats, table, usedSnaps, said, clock, call, shaken>>

-----------------------------------------------------------------------------
(* create_snapshot, by itself or as the first part of fork_chat; its        *)
(* message_count column, which nothing reads back, is left out              *)

SnapshotBegin(t, c) ==
  /\ c \in chats
  /\ Start(t, c, "dump")
  /\ UNCHANGED <<chats, usedChats, table, snaps, usedSnaps, said, clock>>

\* A fork holds the id of the chat it will make from the start.
ForkBegin(t, c, d) ==
  /\ c \in chats
  /\ d \notin usedChats
  /\ usedChats' = usedChats \cup {d}
  /\ call[t] = Idle
  /\ call' = [call EXCEPT ![t] = [Idle EXCEPT !.pc = "dump", !.chat = c, !.dest = d]]
  /\ shaken' = shaken \ {t}
  /\ UNCHANGED <<chats, table, snaps, usedSnaps, said, clock>>

Dump(t) ==
  /\ At(t, "dump")
  /\ call' = [call EXCEPT ![t].pc = "keep", ![t].msgs = Recent(Chat(t), SnapshotCap)]
  /\ UNCHANGED <<chats, usedChats, table, snaps, usedSnaps, said, clock, shaken>>

\* The foreign key rejects the snapshot of a chat that is gone.
KeepSnapshot(t) ==
  /\ At(t, "keep")
  /\ IF Chat(t) \in chats
       THEN /\ \E s \in Snaps \ usedSnaps :
                 /\ usedSnaps' = usedSnaps \cup {s}
                 /\ snaps' = [snaps EXCEPT ![s] = [chat |-> Chat(t), msgs |-> call[t].msgs]]
            /\ IF call[t].dest = NoChat THEN End(t)
               ELSE call' = [call EXCEPT ![t].pc = "branch", ![t].msgs = <<>>]
       ELSE End(t) /\ UNCHANGED <<snaps, usedSnaps>>
  /\ UNCHANGED <<chats, usedChats, table, said, clock, shaken>>

-----------------------------------------------------------------------------
(* The rest of fork_chat *)

Branch(t) ==
  /\ At(t, "branch")
  /\ chats' = chats \cup {call[t].dest}
  /\ Goto(t, "count")
  /\ UNCHANGED <<usedChats, table, snaps, usedSnaps, said, clock, shaken>>

\* total, truncated and offset.
Count(t) ==
  /\ At(t, "count")
  /\ LET total == Len(table[Chat(t)]) IN
       call' = [call EXCEPT ![t].pc = "copy", ![t].to = total,
                            ![t].from = total - Smaller(ForkCap, total)]
  /\ UNCHANGED <<chats, usedChats, table, snaps, usedSnaps, said, clock, shaken>>

\* The page list_messages returns for the offset.
Page(t) ==
  LET rows == table[Chat(t)]
  IN  SubSeq(Listing(Chat(t)), call[t].from + 1, Smaller(call[t].from + PageSize, Len(rows)))

\* Mutant of CopyPage: the offset advances by the size that was asked for, which
\* list_messages has cut to PageSize.
CopyPageStrides(t) ==
  /\ At(t, "copy")
  /\ call[t].from < call[t].to
  /\ Page(t) # <<>> /\ call[t].dest \in chats
  /\ Tick
  /\ table' = [table EXCEPT ![call[t].dest] = @ \o Stamped(Page(t))]
  /\ call' = [call EXCEPT ![t].from = @ + PageSize + 1]
  /\ shaken' = ShakesCallers(call[t].dest)
  /\ UNCHANGED <<chats, usedChats, snaps, usedSnaps, said>>

\* One page is read and inserted; the foreign key rejects it when the new chat
\* is gone.
CopyPage(t) ==
  /\ At(t, "copy")
  /\ call[t].from < call[t].to
  /\ IF Page(t) # <<>> /\ call[t].dest \in chats
       THEN /\ Tick
            /\ table' = [table EXCEPT ![call[t].dest] = @ \o Stamped(Page(t))]
            /\ call' = [call EXCEPT ![t].from = @ + Len(Page(t))]
            /\ shaken' = ShakesCallers(call[t].dest)
       ELSE End(t) /\ UNCHANGED <<table, clock, shaken>>
  /\ UNCHANGED <<chats, usedChats, snaps, usedSnaps, said>>

ForkDone(t) ==
  /\ At(t, "copy")
  /\ call[t].from >= call[t].to
  /\ End(t)
  /\ UNCHANGED <<chats, usedChats, table, snaps, usedSnaps, said, clock, shaken>>

-----------------------------------------------------------------------------
(* restore_snapshot *)

\* Mutant of RestoreBegin: the chat is the one the request names.
RestoreBeginAsked(t, s) ==
  /\ snaps[s] # Absent
  /\ call[t] = Idle
  /\ \E c \in chats :
       call' = [call EXCEPT ![t] = [Idle EXCEPT !.pc = "restore", !.chat = c, !.msgs = snaps[s].msgs, !.snap = s]]
  /\ shaken' = shaken \ {t}
  /\ UNCHANGED <<chats, usedChats, table, snaps, usedSnaps, said, clock>>

RestoreBegin(t, s) ==
  /\ snaps[s] # Absent
  /\ call[t] = Idle
  /\ call' = [call EXCEPT ![t] = [Idle EXCEPT !.pc = "restore", !.chat = snaps[s].chat,
                                              !.msgs = snaps[s].msgs, !.snap = s]]
  /\ shaken' = shaken \ {t}
  /\ UNCHANGED <<chats, usedChats, table, snaps, usedSnaps, said, clock>>

\* replace_chat_messages: delete and insert in one transaction.
Restore(t) ==
  /\ At(t, "restore")
  /\ IF Chat(t) \in chats
       THEN /\ Tick
            /\ table' = [table EXCEPT ![Chat(t)] = Stamped(call[t].msgs)]
            /\ shaken' = Shakes(Chat(t))
       ELSE UNCHANGED <<table, clock, shaken>>
  /\ End(t)
  /\ UNCHANGED <<chats, usedChats, snaps, usedSnaps, said>>

-----------------------------------------------------------------------------
(* _msg_stream *)

\* The question is added; its number is kept in "to".
Ask(t, c) ==
  /\ c \in chats
  /\ call[t] = Idle
  /\ Say(c)
  /\ call' = [call EXCEPT ![t] = [Idle EXCEPT !.pc = "prompt", !.chat = c, !.to = said + 1]]
  /\ shaken' = shaken \ {t}
  /\ UNCHANGED <<chats, usedChats, snaps, usedSnaps>>

\* Mutant of ReadPrompt: list_messages without keep_recent, the oldest messages.
ReadPromptOldest(t) ==
  /\ At(t, "prompt")
  /\ LET all == Listing(Chat(t)) IN
       call' = [call EXCEPT ![t].pc = "reply",
                            ![t].msgs = SubSeq(all, 1, Smaller(HistoryLimit, Len(all)))]
  /\ UNCHANGED <<chats, usedChats, table, snaps, usedSnaps, said, clock, shaken>>

\* After the system prompt and the retrieval, the history is read.
ReadPrompt(t) ==
  /\ At(t, "prompt")
  /\ call' = [call EXCEPT ![t].pc = "reply", ![t].msgs = Recent(Chat(t), HistoryLimit)]
  /\ UNCHANGED <<chats, usedChats, table, snaps, usedSnaps, said, clock, shaken>>

\* The model's answer, or what of it had arrived when the stream broke.
Reply(t) ==
  /\ At(t, "reply")
  /\ Chat(t) \in chats
  /\ Say(Chat(t))
  /\ End(t)
  /\ UNCHANGED <<chats, usedChats, snaps, usedSnaps, shaken>>

\* Nothing arrived, or the chat is gone: an error, and the question stays.
NoReply(t) ==
  /\ At(t, "reply")
  /\ End(t)
  /\ UNCHANGED <<chats, usedChats, table, snaps, usedSnaps, said, clock, shaken>>

-----------------------------------------------------------------------------

Step(t) ==
  \/ Dump(t) \/ KeepSnapshot(t)
  \/ Branch(t) \/ Count(t) \/ CopyPage(t) \/ ForkDone(t)
  \/ Restore(t)
  \/ ReadPrompt(t) \/ Reply(t) \/ NoReply(t)

Next ==
  \E t \in Tasks :
    \/ \E c \in Chats :
         \/ CreateChat(t, c) \/ AddMessage(t, c) \/ DeleteChat(t, c)
         \/ \E i \in DOMAIN table[c] : DeleteMessage(t, c, i)
         \/ SnapshotBegin(t, c) \/ Ask(t, c)
         \/ \E d \in Chats : ForkBegin(t, c, d)
    \/ \E s \in Snaps : DeleteSnapshot(t, s) \/ RestoreBegin(t, s)
    \/ Step(t)

Spec == Init /\ [][Next]_vars

-----------------------------------------------------------------------------
(* Properties *)

\* A fork that has copied every page holds the most recent messages of its
\* source, all of them up to ForkCap, in their order, whatever was said in
\* either chat meanwhile: no page is skipped or copied twice.
ForkComplete ==
  \A t \in Tasks :
    At(t, "copy") /\ call[t].from >= call[t].to /\ t \notin shaken =>
      LET source == SubSeq(Listing(Chat(t)), 1, call[t].to)
          fork == LastOf(source, ForkCap)
          dest == Listing(call[t].dest)
          copies == {p \in DOMAIN dest : \E i \in DOMAIN source : dest[p] = source[i]}
      IN  \E place \in [DOMAIN fork -> copies] :
            /\ \A i, j \in DOMAIN fork : i < j => place[i] < place[j]
            /\ \A i \in DOMAIN fork : dest[place[i]] = fork[i]
            /\ copies = {place[i] : i \in DOMAIN fork}

\* The question a reply answers is in its prompt, unless the limit's worth of
\* messages was said after it or the chat was shaken meanwhile; nothing
\* older comes after it.
QuestionInPrompt ==
  \A t \in Tasks :
    At(t, "reply") /\ t \notin shaken =>
      LET p == call[t].msgs
          after == {i \in DOMAIN p : p[i] > call[t].to}
      IN  \/ Cardinality(after) = HistoryLimit
          \/ /\ p[Len(p) - Cardinality(after)] = call[t].to
             /\ \A i \in after : i > Len(p) - Cardinality(after)

\* project_store.py: "the caller (LLM history feed) gets chronological order with
\* the newest tail".
PromptChronological ==
  \A t \in Tasks :
    At(t, "reply") => \A i, j \in DOMAIN call[t].msgs : i < j => call[t].msgs[i] < call[t].msgs[j]

-----------------------------------------------------------------------------
(* Where messages get to: ChatFlow *)

MessagesOf(ms) == {ms[i] : i \in DOMAIN ms}
Shows(c) == MessagesOf(Listing(c))
Knows(c) == UNION {MessagesOf(call[t].msgs) : t \in {u \in Tasks : Chat(u) = c}}
Keeps(c) == UNION {MessagesOf(snaps[s].msgs) : s \in {r \in Snaps : snaps[r].chat = c}}
Promised(c) == \E t \in Tasks : call[t].dest = c /\ call[t].pc \in {"dump", "keep", "branch"}

PhaseOf(c) ==
  CASE c \in chats -> "open"
    [] c \notin usedChats /\ c \notin chats -> "unused"
    [] c \in usedChats \ chats /\ Promised(c) -> "promised"
    [] c \in usedChats \ chats /\ ~Promised(c) -> "gone"

ChatPhases == [c \in Chats |-> PhaseOf(c)]
Shown == [c \in Chats |-> Shows(c)]
Held == [c \in Chats |-> Shows(c) \cup Keeps(c) \cup Knows(c)]
Forked == [c \in Chats |-> {Chat(t) : t \in {u \in Tasks : call[u].dest = c}}]

Flow == INSTANCE ChatFlow WITH phase <- ChatPhases, shows <- Shown, holds <- Held, sources <- Forked

\* Whatever snapshots, restores, forks and exchanges overlap, a message gets from one chat
\* to another only by the fork that makes the other, and a deleted chat shows nothing again.
FlowSpec == Flow!Spec
===============================================================================
