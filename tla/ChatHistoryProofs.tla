-------------------------- MODULE ChatHistoryProofs ---------------------------
(***************************************************************************)
(* Chats for any number of calls, chats, messages and snapshots, any caps  *)
(* and any page size: the types, the prompt of an exchange, the copy of a  *)
(* fork, and the chats that messages get to.  The second and the third are *)
(* about a call whose chats were only added to since it began; the         *)
(* invariant of each says how the rows it looks at lie among those that    *)
(* came later.                                                             *)
(***************************************************************************)
EXTENDS ChatHistory, FiniteSetTheorems, SequenceTheorems, TLAPS

-----------------------------------------------------------------------------
(* Types *)

CountsOk ==
  /\ chats \subseteq usedChats /\ usedChats \subseteq Chats
  /\ said \in 0..MaxSaid /\ clock \in 0..MaxWrites /\ shaken \subseteq Tasks

\* Rows are stamped with times that have passed, in order, and their messages were said.
Sorted(rows) == \A i, j \in DOMAIN rows : i < j => rows[i].at <= rows[j].at
RowsOk(rows) == \A i \in DOMAIN rows : rows[i].at <= clock /\ rows[i].msg <= said
TablesOk ==
  /\ table \in [Chats -> Seq(Rows)]
  /\ \A c \in Chats : c \notin chats => table[c] = <<>>
  /\ \A c \in Chats : Sorted(table[c]) /\ RowsOk(table[c])

\* So were the messages of snapshots, and those that calls hold.
Heard(ms) == \A i \in DOMAIN ms : ms[i] <= said
SnapsOk ==
  /\ snaps \in [Snaps -> [chat: Chats \cup {NoChat}, msgs: Seq(Messages)]]
  /\ usedSnaps \subseteq Snaps
  /\ \A s \in Snaps : snaps[s].chat \in chats \cup {NoChat} /\ Heard(snaps[s].msgs)

\* A call that has begun has a chat; a fork has an id of its own, which is that of no
\* chat before the fork branches.
Dest(t) == call[t].dest
CallOk(t) ==
  /\ Heard(call[t].msgs)
  /\ call[t].pc \notin {"idle", "restore"} => Chat(t) \in usedChats
  /\ call[t].pc \in {"branch", "count", "copy"} => Dest(t) # NoChat
  /\ Dest(t) # NoChat => Dest(t) \in usedChats /\ Dest(t) # Chat(t)
  /\ Dest(t) # NoChat /\ call[t].pc \in {"dump", "keep", "branch"} => Dest(t) \notin chats
CallsOk ==
  /\ call \in [Tasks -> Calls]
  /\ \A t \in Tasks : CallOk(t)
  /\ \A t, u \in Tasks : t # u /\ Dest(t) # NoChat => Dest(t) # Dest(u)

ChatTyped == CountsOk /\ TablesOk /\ SnapsOk /\ CallsOk

LEMMA TypedShows == ASSUME ChatTyped PROVE TypeOK
  BY DEF ChatTyped, CountsOk, TablesOk, SnapsOk, CallsOk, TypeOK, Sorted

LEMMA TypedInit == ASSUME Init PROVE ChatTyped
  <1>1. CountsOk
    BY Bounds DEF Init, CountsOk
  <1>2. <<>> \in Seq(Rows) /\ <<>> \in Seq(Messages) /\ DOMAIN <<>> = {}
    OBVIOUS
  <1>3. TablesOk
    BY <1>2 DEF Init, TablesOk, Sorted, RowsOk
  <1>4. SnapsOk
    BY <1>2 DEF Init, SnapsOk, Absent, Heard
  <1>5. Idle \in Calls
    BY <1>2 DEF Idle, Calls
  <1>6. CallsOk
    BY <1>2, <1>5 DEF Init, CallsOk, CallOk, Heard, Idle, Chat, Dest
  <1> QED BY <1>1, <1>3, <1>4, <1>6 DEF ChatTyped

-----------------------------------------------------------------------------
(* The operators on rows *)

LEMMA SizeOfFirst == ASSUME NEW n \in Nat PROVE IsFiniteSet(1..n) /\ Cardinality(1..n) = n
  BY FS_Interval

LEMMA SizeWithin == ASSUME NEW n \in Nat, NEW S \in SUBSET (1..n) PROVE Cardinality(S) \in 0..n
  <1>1. IsFiniteSet(1..n) /\ Cardinality(1..n) = n
    BY SizeOfFirst
  <1>2. IsFiniteSet(S) /\ Cardinality(S) <= n
    BY <1>1, FS_Subset
  <1>3. Cardinality(S) \in Nat
    BY <1>2, FS_CardinalityType
  <1> QED BY <1>2, <1>3

LEMMA SizeBeyond ==
  ASSUME NEW n \in Nat, NEW k \in 0..n, NEW S \in SUBSET (1..n), 1..k \subseteq S
  PROVE Cardinality(S) \in k..n
  <1>1. IsFiniteSet(1..n) /\ Cardinality(1..k) = k
    BY SizeOfFirst
  <1>2. IsFiniteSet(S)
    BY <1>1, FS_Subset
  <1>3. k <= Cardinality(S)
    BY <1>1, <1>2, FS_Subset
  <1> QED BY <1>3, SizeWithin

LEMMA SaidFacts ==
  ASSUME NEW rows \in Seq(Rows)
  PROVE /\ Said(rows) \in Seq(Messages) /\ Len(Said(rows)) = Len(rows) /\ DOMAIN rows = 1..Len(rows)
        /\ \A i \in 1..Len(rows) : Said(rows)[i] = rows[i].msg /\ rows[i] \in Rows
  <1> DEFINE n == Len(rows)
  <1>1. n \in Nat /\ DOMAIN rows = 1..n /\ \A i \in 1..n : rows[i] \in Rows
    OBVIOUS
  <1>2. \A i \in 1..n : rows[i].msg \in Messages
    BY <1>1 DEF Rows
  <1>3. Said(rows) = [i \in 1..n |-> rows[i].msg]
    BY <1>1 DEF Said
  <1> HIDE DEF n
  <1>4. [i \in 1..n |-> rows[i].msg] \in Seq(Messages) /\ Len([i \in 1..n |-> rows[i].msg]) = n
    BY <1>1, <1>2
  <1> QED BY <1>1, <1>3, <1>4 DEF n

LEMMA StampedFacts ==
  ASSUME NEW ms \in Seq(Messages), clock \in 0..MaxWrites, clock < MaxWrites
  PROVE /\ Stamped(ms) \in Seq(Rows) /\ Len(Stamped(ms)) = Len(ms)
        /\ \A i \in 1..Len(ms) : Stamped(ms)[i] = [msg |-> ms[i], at |-> clock + 1] /\ ms[i] \in Messages
  <1> DEFINE n == Len(ms)
  <1>1. n \in Nat /\ DOMAIN ms = 1..n /\ \A i \in 1..n : ms[i] \in Messages
    OBVIOUS
  <1>2. \A i \in 1..n : [msg |-> ms[i], at |-> clock + 1] \in Rows
    BY <1>1, Bounds DEF Rows
  <1>3. Stamped(ms) = [i \in 1..n |-> [msg |-> ms[i], at |-> clock + 1]]
    BY <1>1 DEF Stamped
  <1> HIDE DEF n
  <1>4. /\ [i \in 1..n |-> [msg |-> ms[i], at |-> clock + 1]] \in Seq(Rows)
        /\ Len([i \in 1..n |-> [msg |-> ms[i], at |-> clock + 1]]) = n
    BY <1>1, <1>2
  <1> QED BY <1>1, <1>3, <1>4 DEF n

LEMMA LastFacts ==
  ASSUME NEW S, NEW s \in Seq(S), NEW n \in Nat
  PROVE LET k == Smaller(n, Len(s)) IN
        /\ k \in 0..Len(s) /\ LastOf(s, n) \in Seq(S) /\ Len(LastOf(s, n)) = k
        /\ \A i \in 1..k : LastOf(s, n)[i] = s[Len(s) - k + i]
  <1> DEFINE k == Smaller(n, Len(s))
             low == Len(s) - k + 1
  <1>1. k \in 0..Len(s) /\ low \in Int /\ low >= 1 /\ Len(s) \in Nat
    BY DEF Smaller
  <1>2. \A i \in low..Len(s) : s[i] \in S
    BY <1>1
  <1>3. LastOf(s, n) = SubSeq(s, low, Len(s))
    BY DEF LastOf
  <1> HIDE DEF k, low
  <1>4. /\ LastOf(s, n) \in Seq(S) /\ Len(LastOf(s, n)) = IF low <= Len(s) THEN Len(s) - low + 1 ELSE 0
        /\ \A i \in 1..(Len(s) - low + 1) : LastOf(s, n)[i] = s[low + i - 1]
    BY <1>1, <1>2, <1>3, SubSeqProperties
  <1>5. Len(s) - low + 1 = k
    BY <1>1 DEF low
  <1>6. Len(LastOf(s, n)) = k
    BY <1>1, <1>4, <1>5
  <1>7. \A i \in 1..k : LastOf(s, n)[i] = s[Len(s) - k + i]
    BY <1>1, <1>4, <1>5 DEF low
  <1> QED BY <1>1, <1>4, <1>6, <1>7 DEF k

\* Where the row comes from that Recent puts at place i: within the rows of its time, in
\* reverse.
Earlier(rows, i) == {j \in DOMAIN rows : rows[j].at < rows[i].at}
NotLater(rows, i) == {j \in DOMAIN rows : rows[j].at <= rows[i].at}
Turned(rows, i) == Cardinality(Earlier(rows, i)) + Cardinality(NotLater(rows, i)) + 1 - i

LEMMA TurnedFacts ==
  ASSUME NEW rows \in Seq(Rows), Sorted(rows), NEW i \in 1..Len(rows)
  PROVE /\ Turned(rows, i) \in 1..Len(rows)
        /\ \A k \in 1..Len(rows) : rows[i].at < rows[k].at => Turned(rows, i) < k
        /\ (\A j \in 1..Len(rows) : j # i => rows[j].at # rows[i].at) => Turned(rows, i) = i
  <1> DEFINE n == Len(rows)
             b == Cardinality(Earlier(rows, i))
             u == Cardinality(NotLater(rows, i))
  <1>a. n \in Nat /\ DOMAIN rows = 1..n /\ \A j \in 1..n : rows[j] \in Rows
    BY SaidFacts
  <1>1. n \in Nat /\ DOMAIN rows = 1..n /\ \A j \in 1..n : rows[j].at \in Nat
    BY <1>a, Bounds DEF Rows
  <1>2. \A j, k \in 1..n : j < k => rows[j].at <= rows[k].at
    BY <1>1 DEF Sorted
  <1>3. i \in 1..n
    OBVIOUS
  <1> HIDE DEF n
  <1>4. Earlier(rows, i) \in SUBSET (1..(i - 1))
    BY <1>1, <1>2, <1>3 DEF Earlier
  <1>5. b \in 0..(i - 1)
    BY <1>3, <1>4, SizeWithin
  <1>6. NotLater(rows, i) \in SUBSET (1..n) /\ 1..i \subseteq NotLater(rows, i)
    BY <1>1, <1>2, <1>3 DEF NotLater
  <1>7. u \in i..n
    BY <1>1, <1>3, <1>6, SizeBeyond
  <1>8. ASSUME NEW k \in 1..n, rows[i].at < rows[k].at PROVE u <= k - 1
    <2>1. i < k
      BY <1>1, <1>2, <1>3, <1>8
    <2>2. NotLater(rows, i) \in SUBSET (1..(k - 1))
      BY <1>1, <1>2, <1>3, <1>8 DEF NotLater
    <2>3. u \in 0..(k - 1)
      BY <1>1, <2>2, SizeWithin
    <2> QED BY <1>1, <2>3
  <1>9. ASSUME \A j \in 1..n : j # i => rows[j].at # rows[i].at PROVE b = i - 1 /\ u = i
    <2>1. Earlier(rows, i) = 1..(i - 1)
      BY <1>1, <1>2, <1>3, <1>9 DEF Earlier
    <2>2. NotLater(rows, i) = 1..i
      BY <1>1, <1>2, <1>3, <1>9 DEF NotLater
    <2> QED BY <1>3, <2>1, <2>2, SizeOfFirst
  <1>10. Turned(rows, i) = b + u + 1 - i
    BY DEF Turned
  <1> HIDE DEF b, u
  <1>11. b + u + 1 - i \in 1..n /\ b + u + 1 - i <= u
    BY <1>1, <1>3, <1>5, <1>7
  <1>12. \A k \in 1..n : rows[i].at < rows[k].at => b + u + 1 - i < k
    BY <1>1, <1>3, <1>5, <1>7, <1>8
  <1>13. (\A j \in 1..n : j # i => rows[j].at # rows[i].at) => b + u + 1 - i = i
    BY <1>3, <1>9
  <1> QED BY <1>10, <1>11, <1>12, <1>13 DEF n

\* What Recent returns, row by row.
LEMMA RecentFacts ==
  ASSUME TablesOk, NEW c \in Chats, NEW n \in Nat, NEW rows, rows = LastOf(table[c], n)
  PROVE /\ rows \in Seq(Rows) /\ Sorted(rows) /\ RowsOk(rows) /\ Len(rows) = Smaller(n, Len(table[c]))
        /\ Recent(c, n) = [i \in 1..Len(rows) |-> rows[Turned(rows, i)].msg]
        /\ Recent(c, n) \in Seq(Messages) /\ Len(Recent(c, n)) = Len(rows) /\ Heard(Recent(c, n))
  <1> DEFINE all == table[c]
             k == Smaller(n, Len(all))
  <1>1. all \in Seq(Rows) /\ Sorted(all) /\ RowsOk(all)
    BY DEF TablesOk
  <1>2. k \in 0..Len(all) /\ Len(all) \in Nat /\ DOMAIN all = 1..Len(all)
    BY <1>1 DEF Smaller
  <1>3. rows \in Seq(Rows) /\ Len(rows) = k /\ \A i \in 1..k : rows[i] = all[Len(all) - k + i]
    BY <1>1, LastFacts
  <1>4. DOMAIN rows = 1..k
    BY <1>3
  <1> HIDE DEF all, k
  <1>a. \A i \in 1..k : Len(all) - k + i \in DOMAIN all
    BY <1>2
  <1>b. \A i, j \in 1..k : i < j => Len(all) - k + i < Len(all) - k + j
    BY <1>2
  <1>c. Sorted(rows)
    BY <1>1, <1>3, <1>4, <1>a, <1>b DEF Sorted
  <1>5. Sorted(rows) /\ RowsOk(rows)
    BY <1>1, <1>3, <1>4, <1>a, <1>c DEF RowsOk
  <1>6. Recent(c, n) = [i \in 1..k |-> rows[Turned(rows, i)].msg]
    BY <1>4 DEF Recent, Turned, Earlier, NotLater
  <1>7. \A i \in 1..k : Turned(rows, i) \in 1..k
    BY <1>3, <1>5, TurnedFacts
  <1>8. \A i \in 1..k : rows[i].msg \in Messages /\ rows[i].msg <= said
    BY <1>3, <1>4, <1>5, SaidFacts DEF RowsOk, Rows
  <1> DEFINE p == [i \in 1..k |-> rows[Turned(rows, i)].msg]
  <1>9. \A i \in 1..k : p[i] \in Messages /\ p[i] <= said
    BY <1>7, <1>8
  <1>10. p \in Seq(Messages) /\ Len(p) = k /\ DOMAIN p = 1..k
    BY <1>2, <1>9
  <1>11. Heard(p)
    BY <1>9, <1>10 DEF Heard
  <1> QED BY <1>3, <1>5, <1>6, <1>10, <1>11 DEF k, all

-----------------------------------------------------------------------------
(* What a step does to the rest *)

\* The next message is said in chat c, at a time of its own.
Spoken(c) ==
  /\ Len(table'[c]) = Len(table[c]) + 1 /\ said' = said + 1
  /\ \A i \in 1..Len(table[c]) : table'[c][i] = table[c][i]
  /\ table'[c][Len(table[c]) + 1] = [msg |-> said + 1, at |-> clock + 1]
  /\ \A b \in Chats \ {c} : table'[b] = table[b]

\* Chat c changes in another way, which shakes all other calls that work on it.
Shook(t, c) ==
  /\ \A b \in Chats \ {c} : table'[b] = table[b]
  /\ \A u \in Tasks \ {t} : call[u].pc # "idle" /\ c \in {Chat(u), Dest(u)} => u \in shaken'

Others(t) ==
  /\ \A u \in Tasks \ {t} : call'[u] = call[u] /\ (u \in shaken => u \in shaken')
  /\ \/ table' = table
     \/ \E c \in Chats : Spoken(c)
     \/ \E c \in Chats : Shook(t, c)

\* Nothing that a step of another call does not touch gets untrue.
LEMMA TablesSame ==
  ASSUME CountsOk, TablesOk, CountsOk', UNCHANGED table, chats \subseteq chats', said <= said', clock <= clock'
  PROVE TablesOk'
  <1>1. \A c \in Chats : \A i \in DOMAIN table[c] : table[c][i].at \in Nat /\ table[c][i].msg \in Nat
    <2>1. \A c \in Chats : table[c] \in Seq(Rows)
      BY DEF TablesOk
    <2>2. \A c \in Chats : \A i \in DOMAIN table[c] : table[c][i] \in Rows
      BY <2>1
    <2> QED BY <2>2, Bounds DEF Rows, Messages
  <1>2. ASSUME NEW c \in Chats, NEW i \in DOMAIN table[c]
        PROVE table[c][i].at <= clock' /\ table[c][i].msg <= said'
    BY <1>1, <1>2, Bounds DEF TablesOk, RowsOk, CountsOk
  <1> QED BY <1>2 DEF TablesOk, RowsOk, Sorted

LEMMA SnapsSame ==
  ASSUME CountsOk, SnapsOk, CountsOk', UNCHANGED <<snaps, usedSnaps>>, chats \subseteq chats', said <= said'
  PROVE SnapsOk'
  <1>1. \A s \in Snaps : snaps[s].msgs \in Seq(Messages)
    BY DEF SnapsOk
  <1>2. \A s \in Snaps : \A i \in DOMAIN snaps[s].msgs : snaps[s].msgs[i] \in Messages
    BY <1>1
  <1>3. ASSUME NEW s \in Snaps PROVE Heard(snaps[s].msgs)'
    BY <1>2, Bounds DEF SnapsOk, Heard, CountsOk, Messages
  <1> QED BY <1>3 DEF SnapsOk

LEMMA CallStays ==
  ASSUME CountsOk, CallsOk, CountsOk', NEW u \in Tasks, call'[u] = call[u], said <= said', usedChats \subseteq usedChats',
         Dest(u) # NoChat /\ call[u].pc \in {"dump", "keep", "branch"} => Dest(u) \notin chats'
  PROVE CallOk(u)'
  <1>1. call[u].msgs \in Seq(Messages)
    BY DEF CallsOk, Calls
  <1>2. \A i \in DOMAIN call[u].msgs : call[u].msgs[i] \in Messages
    BY <1>1
  <1>3. Heard(call[u].msgs)'
    BY <1>2, Bounds DEF CallsOk, CallOk, Heard, CountsOk, Messages
  <1> QED BY <1>3 DEF CallsOk, CallOk, Chat, Dest

LEMMA CallsMove ==
  ASSUME CountsOk, CallsOk, CountsOk', NEW t \in Tasks, call' \in [Tasks -> Calls], \A u \in Tasks \ {t} : call'[u] = call[u],
         CallOk(t)', said <= said', usedChats \subseteq usedChats', chats' \subseteq chats,
         call'[t].dest \in {NoChat, Dest(t)} \/ (call'[t].dest \notin usedChats)
  PROVE CallsOk'
  <1>1. \A u \in Tasks : CallOk(u)
    BY DEF CallsOk
  <1>2. \A u \in Tasks \ {t} : CallOk(u)'
    BY <1>1, CallStays DEF CallOk
  <1>3. ASSUME NEW u \in Tasks, NEW v \in Tasks, u # v, Dest(u)' # NoChat PROVE Dest(u)' # Dest(v)'
    <2>1. \A w \in Tasks \ {t} : Dest(w)' = Dest(w) /\ (Dest(w) # NoChat => Dest(w) \in usedChats)
      BY <1>1 DEF Dest, CallOk
    <2> QED BY <1>3, <2>1 DEF Dest, CallsOk
  <1> QED BY <1>1, <1>2, <1>3 DEF CallsOk

LEMMA CallsSame ==
  ASSUME CountsOk, CallsOk, CountsOk', UNCHANGED call, said <= said', usedChats \subseteq usedChats',
         \A u \in Tasks : Dest(u) # NoChat /\ call[u].pc \in {"dump", "keep", "branch"} => Dest(u) \notin chats'
  PROVE CallsOk'
  <1>1. \A u \in Tasks : CallOk(u)'
    BY CallStays
  <1> QED BY <1>1 DEF CallsOk, Dest

\* Rows put at the end of a chat.
LEMMA AddRows ==
  ASSUME CountsOk, TablesOk, NEW c \in chats, NEW ms \in Seq(Messages), clock < MaxWrites, clock' = clock + 1,
         said' \in Nat, said <= said', \A i \in DOMAIN ms : ms[i] <= said', UNCHANGED chats,
         table' = [table EXCEPT ![c] = @ \o Stamped(ms)]
  PROVE /\ TablesOk' /\ c \in Chats /\ Len(table'[c]) = Len(table[c]) + Len(ms)
        /\ \A i \in 1..Len(table[c]) : table'[c][i] = table[c][i]
        /\ \A i \in 1..Len(ms) : table'[c][Len(table[c]) + i] = [msg |-> ms[i], at |-> clock + 1]
        /\ \A b \in Chats \ {c} : table'[b] = table[b]
  <1> DEFINE rows == table[c]
             new == Stamped(ms)
             both == rows \o new
             m == Len(rows)
             n == Len(ms)
  <1>1. c \in Chats /\ clock \in 0..MaxWrites /\ clock \in Nat /\ said \in Nat
    BY Bounds DEF CountsOk
  <1>2. table'[c] = both /\ \A b \in Chats \ {c} : table'[b] = table[b]
    BY <1>1 DEF TablesOk
  <1>3. rows \in Seq(Rows) /\ Sorted(rows) /\ RowsOk(rows)
    BY <1>1 DEF TablesOk
  <1>4. new \in Seq(Rows) /\ Len(new) = n /\ n \in Nat /\ DOMAIN ms = 1..n
        /\ \A i \in 1..n : new[i] = [msg |-> ms[i], at |-> clock + 1]
    BY <1>1, StampedFacts
  <1>5. m \in Nat /\ DOMAIN rows = 1..m /\ \A i \in 1..m : rows[i] \in Rows
    BY <1>3
  <1>6. \A i \in 1..m : rows[i].at \in Nat /\ rows[i].msg \in Nat
    BY <1>5, Bounds DEF Rows, Messages
  <1> HIDE DEF new
  <1>7. both \in Seq(Rows) /\ Len(both) = m + n /\ \A i \in 1..(m + n) : both[i] = IF i <= m THEN rows[i] ELSE new[i - m]
    <2>1. /\ both \in Seq(Rows) /\ Len(both) = Len(rows) + Len(new)
          /\ \A i \in 1..Len(rows) + Len(new) : both[i] = IF i <= Len(rows) THEN rows[i] ELSE new[i - Len(rows)]
      BY <1>3, <1>4, ConcatProperties, Zenon
    <2> QED BY <1>4, <2>1
  <1> HIDE DEF rows, both, m, n
  <1>8. DOMAIN both = 1..(m + n)
    BY <1>7
  <1>9. \A i \in 1..m : both[i] = rows[i]
    BY <1>4, <1>5, <1>7
  <1>10. \A i \in 1..n : both[m + i] = [msg |-> ms[i], at |-> clock + 1]
    BY <1>4, <1>5, <1>7
  <1>11. \A i \in 1..(m + n) : i \in 1..m \/ (i - m \in 1..n /\ i = m + (i - m))
    BY <1>4, <1>5
  <1>12. \A i \in 1..m : rows[i].at <= clock /\ rows[i].msg <= said
    BY <1>3, <1>5 DEF RowsOk
  <1>13. \A i \in 1..m : both[i].at <= clock /\ both[i].at <= clock' /\ both[i].msg <= said' /\ both[i].at \in Nat
    BY <1>1, <1>6, <1>9, <1>12
  <1>14. \A i \in 1..n : both[m + i].at = clock + 1 /\ both[m + i].msg <= said'
    <2>1. \A i \in 1..n : ms[i] <= said'
      BY <1>4
    <2>2. \A i \in 1..n : both[m + i].at = clock + 1 /\ both[m + i].msg = ms[i]
      <3> SUFFICES ASSUME NEW i \in 1..n PROVE both[m + i].at = clock + 1 /\ both[m + i].msg = ms[i]
        OBVIOUS
      <3>1. PICK r : r = both[m + i]
        OBVIOUS
      <3>2. r = [msg |-> ms[i], at |-> clock + 1]
        BY <1>10, <3>1
      <3>3. r.msg = ms[i] /\ r.at = clock + 1
        BY <3>2
      <3> QED BY <3>1, <3>3
    <2> QED BY <2>1, <2>2
  <1>15. \A i \in 1..(m + n) : both[i].at <= clock' /\ both[i].msg <= said'
    BY <1>1, <1>11, <1>13, <1>14
  <1>16. \A i, j \in 1..(m + n) : i < j => both[i].at <= both[j].at
    <2> SUFFICES ASSUME NEW i \in 1..(m + n), NEW j \in 1..(m + n), i < j PROVE both[i].at <= both[j].at
      OBVIOUS
    <2>1. CASE j \in 1..m
      BY <1>3, <1>5, <1>9, <2>1 DEF Sorted
    <2>2. CASE j \notin 1..m
      <3>1. both[j].at = clock + 1
        BY <1>11, <1>14, <2>2
      <3>2. both[i].at <= clock \/ both[i].at = clock + 1
        BY <1>11, <1>13, <1>14
      <3>3. i \in 1..m => both[i].at \in Nat
        BY <1>13
      <3> QED BY <1>1, <1>11, <1>14, <3>1, <3>2, <3>3
    <2> QED BY <2>1, <2>2
  <1>17. Sorted(both)
    BY <1>8, <1>16 DEF Sorted
  <1>18. RowsOk(table[c])'
    BY <1>2, <1>8, <1>15 DEF RowsOk
  <1>19. ASSUME NEW b \in Chats \ {c} PROVE RowsOk(table[b])'
    <2>1. table'[b] = table[b] /\ table[b] \in Seq(Rows) /\ RowsOk(table[b])
      BY <1>2, <1>19 DEF TablesOk
    <2>2. \A i \in DOMAIN table[b] : table[b][i] \in Rows
      BY <2>1
    <2>3. \A i \in DOMAIN table[b] : table[b][i].at \in Nat /\ table[b][i].msg \in Nat
      BY <2>2, Bounds DEF Rows, Messages
    <2> QED BY <1>1, <2>1, <2>3 DEF RowsOk
  <1>20. table' \in [Chats -> Seq(Rows)]
    BY <1>2, <1>7, <1>1 DEF TablesOk, both, rows, new
  <1>21. TablesOk'
    <2>1. \A b \in Chats : Sorted(table[b])'
      BY <1>1, <1>2, <1>17 DEF TablesOk, Sorted
    <2>2. \A b \in Chats : RowsOk(table[b])'
      BY <1>18, <1>19
    <2>3. \A b \in Chats : b \notin chats' => table'[b] = <<>>
      BY <1>2 DEF TablesOk
    <2> QED BY <1>20, <2>1, <2>2, <2>3 DEF TablesOk
  <1> QED BY <1>1, <1>2, <1>4, <1>7, <1>9, <1>10, <1>21 DEF rows, m, n

LEMMA SaySpeaks ==
  ASSUME CountsOk, TablesOk, NEW c \in chats, Say(c), UNCHANGED chats
  PROVE /\ TablesOk' /\ Spoken(c) /\ c \in Chats
        /\ said' = said + 1 /\ said' \in 0..MaxSaid /\ clock' \in 0..MaxWrites /\ clock <= clock'
        /\ table[c] \in Seq(Rows) /\ said \in Nat
  <1> DEFINE ms == <<said + 1>>
  <1>1. said \in Nat /\ clock \in Nat /\ said < MaxSaid /\ said' = said + 1 /\ clock < MaxWrites /\ clock' = clock + 1
    BY Bounds DEF CountsOk, Say, Tick
  <1>2. ms \in Seq(Messages) /\ Len(ms) = 1 /\ ms[1] = said + 1 /\ DOMAIN ms = {1}
    BY <1>1, Bounds DEF Messages
  <1>3. table' = [table EXCEPT ![c] = @ \o Stamped(ms)]
    BY DEF Say
  <1> HIDE DEF ms
  <1>4. \A i \in DOMAIN ms : ms[i] <= said'
    BY <1>1, <1>2
  <1>5. /\ TablesOk' /\ c \in Chats /\ Len(table'[c]) = Len(table[c]) + 1
        /\ \A i \in 1..Len(table[c]) : table'[c][i] = table[c][i]
        /\ \A i \in 1..1 : table'[c][Len(table[c]) + i] = [msg |-> ms[i], at |-> clock + 1]
        /\ \A b \in Chats \ {c} : table'[b] = table[b]
    <2>1. said' \in Nat /\ said <= said'
      BY <1>1
    <2>2. /\ TablesOk' /\ c \in Chats /\ Len(table'[c]) = Len(table[c]) + Len(ms)
          /\ \A i \in 1..Len(table[c]) : table'[c][i] = table[c][i]
          /\ \A i \in 1..Len(ms) : table'[c][Len(table[c]) + i] = [msg |-> ms[i], at |-> clock + 1]
          /\ \A b \in Chats \ {c} : table'[b] = table[b]
      BY <1>1, <1>2, <1>3, <1>4, <2>1, AddRows, Zenon
    <2> QED BY <1>2, <2>2
  <1>6. Spoken(c)
    BY <1>1, <1>2, <1>5 DEF Spoken
  <1>7. table[c] \in Seq(Rows)
    BY <1>5 DEF TablesOk
  <1> QED BY <1>1, <1>5, <1>6, <1>7, Bounds

-----------------------------------------------------------------------------
(* Every step keeps the types, and what it does to the rest *)

Kept(t) == ChatTyped' /\ Others(t)

LEMMA CountsNat == ASSUME CountsOk PROVE said \in Nat /\ clock \in Nat /\ said <= said /\ clock <= clock
  BY Bounds DEF CountsOk

\* A step that notes something in the record of its call.
LEMMA Noted ==
  ASSUME ChatTyped, NEW t \in Tasks, call' \in [Tasks -> Calls], \A u \in Tasks \ {t} : call'[u] = call[u],
         CallOk(t)', UNCHANGED <<chats, usedChats, table, said, clock>>, call'[t].dest \in {NoChat, Dest(t)},
         shaken' = shaken \/ shaken' = shaken \ {t}, SnapsOk'
  PROVE Kept(t)
  <1>1. CountsOk /\ TablesOk /\ CallsOk /\ said <= said' /\ clock <= clock'
    BY CountsNat DEF ChatTyped
  <1>2. CountsOk'
    BY <1>1 DEF CountsOk
  <1>3. TablesOk'
    BY <1>1, <1>2, TablesSame
  <1>4. CallsOk'
    BY <1>1, <1>2, CallsMove
  <1>5. Others(t)
    BY DEF Others
  <1> QED BY <1>2, <1>3, <1>4, <1>5 DEF Kept, ChatTyped

LEMMA SnapsUnchanged ==
  ASSUME ChatTyped, UNCHANGED <<chats, snaps, usedSnaps, said>> PROVE SnapsOk'
  BY DEF ChatTyped, SnapsOk, Heard

LEMMA IdleOk == ASSUME NEW t, call'[t] = Idle PROVE CallOk(t)' /\ Idle \in Calls /\ call'[t].dest = NoChat
  <1>1. <<>> \in Seq(Messages) /\ DOMAIN <<>> = {}
    OBVIOUS
  <1>2. Idle \in Calls
    BY <1>1 DEF Idle, Calls
  <1> QED BY <1>1, <1>2 DEF CallOk, Idle, Heard, Chat, Dest

LEMMA EndIdles == ASSUME ChatTyped, NEW t \in Tasks, End(t)
  PROVE /\ call' \in [Tasks -> Calls] /\ call'[t] = Idle /\ \A u \in Tasks \ {t} : call'[u] = call[u]
        /\ CallOk(t)' /\ call'[t].dest \in {NoChat, Dest(t)}
  <1>1. Idle \in Calls /\ call \in [Tasks -> Calls]
    BY IdleOk DEF ChatTyped, CallsOk, Idle, Calls
  <1>2. call' \in [Tasks -> Calls] /\ call'[t] = Idle /\ \A u \in Tasks \ {t} : call'[u] = call[u]
    BY <1>1 DEF End
  <1> QED BY <1>2, IdleOk

LEMMA CreateChatStep == ASSUME ChatTyped, NEW t \in Tasks, NEW c \in Chats, CreateChat(t, c) PROVE Kept(t)
  <1>1. CountsOk /\ TablesOk /\ SnapsOk /\ CallsOk /\ said <= said /\ clock <= clock
    BY CountsNat DEF ChatTyped
  <1>2. /\ c \notin usedChats /\ usedChats' = usedChats \cup {c} /\ chats' = chats \cup {c}
        /\ UNCHANGED <<table, snaps, usedSnaps, said, clock, call, shaken>>
    BY DEF CreateChat
  <1>3. CountsOk'
    BY <1>1, <1>2 DEF CountsOk
  <1>4. TablesOk'
    BY <1>1, <1>2, <1>3, TablesSame
  <1>5. SnapsOk'
    BY <1>1, <1>2, <1>3, SnapsSame
  <1>6. \A u \in Tasks : Dest(u) # NoChat /\ call[u].pc \in {"dump", "keep", "branch"} => Dest(u) \notin chats'
    BY <1>1, <1>2 DEF CallsOk, CallOk
  <1>7. CallsOk'
    BY <1>1, <1>2, <1>3, <1>6, CallsSame
  <1>8. Others(t)
    BY <1>2 DEF Others
  <1> QED BY <1>3, <1>4, <1>5, <1>7, <1>8 DEF Kept, ChatTyped

\* What Say and the step around it leave alone.
LEMMA SayKeeps ==
  ASSUME ChatTyped, NEW t \in Tasks, NEW c \in chats, Say(c), UNCHANGED <<chats, usedChats, snaps, usedSnaps>>,
         call' \in [Tasks -> Calls], \A u \in Tasks \ {t} : call'[u] = call[u],
         CallOk(t)', call'[t].dest \in {NoChat, Dest(t)}, shaken' = shaken \/ shaken' = shaken \ {t}
  PROVE Kept(t)
  <1>1. CountsOk /\ TablesOk /\ SnapsOk /\ CallsOk
    BY DEF ChatTyped
  <1>2. /\ TablesOk' /\ Spoken(c) /\ c \in Chats /\ said' \in 0..MaxSaid /\ clock' \in 0..MaxWrites
        /\ said' = said + 1 /\ said \in Nat
    BY <1>1, SaySpeaks
  <1>3. CountsOk' /\ said <= said'
    BY <1>1, <1>2 DEF CountsOk
  <1>4. SnapsOk'
    BY <1>1, <1>3, SnapsSame
  <1>5. CallsOk'
    BY <1>1, <1>3, CallsMove
  <1>6. Others(t)
    BY <1>2 DEF Others
  <1> QED BY <1>2, <1>3, <1>4, <1>5, <1>6 DEF Kept, ChatTyped

LEMMA AddMessageStep == ASSUME ChatTyped, NEW t \in Tasks, NEW c \in Chats, AddMessage(t, c) PROVE Kept(t)
  <1>1. c \in chats /\ Say(c) /\ UNCHANGED <<chats, usedChats, snaps, usedSnaps, call, shaken>> /\ call[t] = Idle
    BY DEF AddMessage
  <1>2. call' \in [Tasks -> Calls] /\ \A u \in Tasks \ {t} : call'[u] = call[u]
    BY <1>1 DEF ChatTyped, CallsOk
  <1>3. CallOk(t)' /\ call'[t].dest \in {NoChat, Dest(t)}
    BY <1>1, IdleOk
  <1> QED BY <1>1, <1>2, <1>3, SayKeeps

\* A step that takes rows from a chat, or replaces them.
LEMMA ShookKeeps ==
  ASSUME ChatTyped, NEW t \in Tasks, NEW c \in Chats, \A b \in Chats \ {c} : table'[b] = table[b],
         Shakes(c) = shaken', CountsOk', said <= said', TablesOk', SnapsOk', CallsOk',
         \A u \in Tasks \ {t} : call'[u] = call[u]
  PROVE Kept(t)
  <1>1. \A u \in Tasks \ {t} : call[u].pc # "idle" /\ c \in {Chat(u), Dest(u)} => u \in shaken'
    BY DEF Shakes, Dest, Chat, Idle
  <1>2. \A u \in Tasks : u \in shaken => u \in shaken'
    BY DEF Shakes
  <1>3. Others(t)
    BY <1>1, <1>2 DEF Others, Shook
  <1> QED BY <1>3 DEF Kept, ChatTyped

LEMMA ShakesTyped == ASSUME CountsOk, NEW c PROVE Shakes(c) \subseteq Tasks
  BY DEF CountsOk, Shakes

\* A sequence of rows without row i.
LEMMA WithoutRow ==
  ASSUME NEW rows \in Seq(Rows), NEW i \in 1..Len(rows),
         NEW both, both = SubSeq(rows, 1, i - 1) \o SubSeq(rows, i + 1, Len(rows))
  PROVE /\ both \in Seq(Rows) /\ Len(both) = Len(rows) - 1
        /\ \A j \in 1..Len(both) : both[j] = rows[IF j < i THEN j ELSE j + 1]
  <1> DEFINE n == Len(rows)
             left == SubSeq(rows, 1, i - 1)
             right == SubSeq(rows, i + 1, n)
  <1>1. n \in Nat /\ \A j \in 1..n : rows[j] \in Rows
    OBVIOUS
  <1> HIDE DEF n
  <1>2. left \in Seq(Rows) /\ Len(left) = i - 1 /\ \A j \in 1..(i - 1) : left[j] = rows[j]
    <2>1. \A j \in 1..(i - 1) : rows[j] \in Rows
      BY <1>1 DEF n
    <2>2. /\ left \in Seq(Rows) /\ Len(left) = IF 1 <= i - 1 THEN i - 1 - 1 + 1 ELSE 0
          /\ \A j \in 1..(i - 1 - 1 + 1) : left[j] = rows[1 + j - 1]
      BY <1>1, <2>1, SubSeqProperties
    <2> QED BY <1>1, <2>2
  <1>3. right \in Seq(Rows) /\ Len(right) = n - i /\ \A j \in 1..(n - i) : right[j] = rows[i + j]
    <2>1. \A j \in (i + 1)..n : rows[j] \in Rows
      BY <1>1
    <2>2. /\ right \in Seq(Rows) /\ Len(right) = IF i + 1 <= n THEN n - (i + 1) + 1 ELSE 0
          /\ \A j \in 1..(n - (i + 1) + 1) : right[j] = rows[i + 1 + j - 1]
      BY <1>1, <2>1, SubSeqProperties
    <2> QED BY <1>1, <2>2 DEF n
  <1>4. both = left \o right
    BY DEF n
  <1> HIDE DEF left, right
  <1> DEFINE whole == left \o right
  <1>5. /\ whole \in Seq(Rows) /\ Len(whole) = Len(left) + Len(right)
        /\ \A j \in 1..Len(left) + Len(right) : whole[j] = IF j <= Len(left) THEN left[j] ELSE right[j - Len(left)]
    BY <1>2, <1>3, ConcatProperties, Zenon
  <1> HIDE DEF whole
  <1>6. Len(left) + Len(right) = n - 1 /\ i \in 1..n
    BY <1>1, <1>2, <1>3 DEF n
  <1>7. whole \in Seq(Rows) /\ Len(whole) = n - 1 /\ \A j \in 1..(n - 1) : whole[j] = rows[IF j < i THEN j ELSE j + 1]
    BY <1>1, <1>2, <1>3, <1>5, <1>6
  <1> QED BY <1>4, <1>7 DEF n, whole

LEMMA DeleteMessageStep ==
  ASSUME ChatTyped, NEW t \in Tasks, NEW c \in Chats, NEW i \in DOMAIN table[c], DeleteMessage(t, c, i)
  PROVE Kept(t)
  <1> DEFINE rows == table[c]
             n == Len(rows)
             both == SubSeq(rows, 1, i - 1) \o SubSeq(rows, i + 1, n)
  <1>1. CountsOk /\ TablesOk /\ SnapsOk /\ CallsOk /\ said <= said /\ clock <= clock
    BY CountsNat DEF ChatTyped
  <1>2. /\ table' = [table EXCEPT ![c] = both] /\ shaken' = Shakes(c)
        /\ UNCHANGED <<chats, usedChats, snaps, usedSnaps, said, clock, call>>
    BY DEF DeleteMessage
  <1>3. rows \in Seq(Rows) /\ Sorted(rows) /\ RowsOk(rows)
    BY <1>1 DEF TablesOk
  <1>4. n \in Nat /\ DOMAIN rows = 1..n /\ i \in 1..n /\ \A j \in 1..n : rows[j] \in Rows
    BY <1>3
  <1> HIDE DEF rows, n
  <1>5. both \in Seq(Rows) /\ Len(both) = n - 1
        /\ \A j \in 1..(n - 1) : both[j] = rows[IF j < i THEN j ELSE j + 1]
    <2>1. both = SubSeq(rows, 1, i - 1) \o SubSeq(rows, i + 1, Len(rows))
      BY DEF n
    <2> HIDE DEF both
    <2>2. rows \in Seq(Rows) /\ i \in 1..Len(rows)
      BY <1>3, <1>4 DEF n
    <2>3. /\ both \in Seq(Rows) /\ Len(both) = Len(rows) - 1
          /\ \A j \in 1..Len(both) : both[j] = rows[IF j < i THEN j ELSE j + 1]
      BY <2>1, <2>2, WithoutRow, Zenon
    <2> QED BY <2>3 DEF n
  <1> HIDE DEF both
  <1>6. DOMAIN both = 1..(n - 1)
    BY <1>5
  <1>7. Sorted(both)
    <2> SUFFICES ASSUME NEW j \in 1..(n - 1), NEW k \in 1..(n - 1), j < k PROVE both[j].at <= both[k].at
      BY <1>6 DEF Sorted
    <2> DEFINE jj == IF j < i THEN j ELSE j + 1
               kk == IF k < i THEN k ELSE k + 1
    <2>1. jj \in 1..n /\ kk \in 1..n /\ jj < kk
      BY <1>4
    <2>2. both[j] = rows[jj] /\ both[k] = rows[kk]
      BY <1>5
    <2> HIDE DEF jj, kk
    <2> QED BY <1>3, <1>4, <2>1, <2>2 DEF Sorted
  <1>8. \A j \in DOMAIN both : \E k \in DOMAIN rows : both[j] = rows[k]
    <2> SUFFICES ASSUME NEW j \in 1..(n - 1) PROVE \E k \in 1..n : both[j] = rows[k]
      BY <1>4, <1>6
    <2>1. (IF j < i THEN j ELSE j + 1) \in 1..n
      BY <1>4
    <2> QED BY <1>5, <2>1
  <1>9. table'[c] = both /\ \A b \in Chats \ {c} : table'[b] = table[b]
    BY <1>1, <1>2 DEF TablesOk
  <1>10. \A b \in Chats : \A j \in DOMAIN table'[b] : \E k \in DOMAIN table[b] : table'[b][j] = table[b][k]
    BY <1>8, <1>9 DEF rows
  <1>11. \A b \in Chats : RowsOk(table[b])'
    BY <1>1, <1>2, <1>10 DEF TablesOk, RowsOk
  <1>12. \A b \in Chats : Sorted(table'[b])
    BY <1>1, <1>7, <1>9 DEF TablesOk
  <1>13. c \in chats
    BY <1>1, <1>3, <1>4 DEF TablesOk, rows, n
  <1>14. table' \in [Chats -> Seq(Rows)]
    BY <1>1, <1>2, <1>5 DEF TablesOk
  <1>15. TablesOk'
    BY <1>1, <1>2, <1>9, <1>11, <1>12, <1>13, <1>14 DEF TablesOk, Sorted
  <1>16. CountsOk'
    BY <1>1, <1>2, ShakesTyped DEF CountsOk
  <1>17. SnapsOk'
    BY <1>2, SnapsUnchanged
  <1>18. CallsOk'
    BY <1>1, <1>2, <1>16, CallsSame DEF CallsOk, CallOk
  <1>19. said <= said' /\ \A u \in Tasks \ {t} : call'[u] = call[u]
    BY <1>1, <1>2
  <1> QED BY <1>2, <1>9, <1>15, <1>16, <1>17, <1>18, <1>19, ShookKeeps

LEMMA DeleteChatStep == ASSUME ChatTyped, NEW t \in Tasks, NEW c \in Chats, DeleteChat(t, c) PROVE Kept(t)
  <1>1. CountsOk /\ TablesOk /\ SnapsOk /\ CallsOk /\ said <= said /\ clock <= clock
    BY CountsNat DEF ChatTyped
  <1>2. /\ chats' = chats \ {c} /\ table' = [table EXCEPT ![c] = <<>>] /\ shaken' = Shakes(c)
        /\ snaps' = [s \in Snaps |-> IF snaps[s].chat = c THEN Absent ELSE snaps[s]]
        /\ UNCHANGED <<usedChats, usedSnaps, said, clock, call>>
    BY DEF DeleteChat
  <1>3. <<>> \in Seq(Rows) /\ <<>> \in Seq(Messages) /\ DOMAIN <<>> = {}
    OBVIOUS
  <1>4. table' \in [Chats -> Seq(Rows)] /\ table'[c] = <<>> /\ \A b \in Chats \ {c} : table'[b] = table[b]
    BY <1>1, <1>2, <1>3 DEF TablesOk
  <1>5. \A b \in Chats : Sorted(table[b])' /\ RowsOk(table[b])'
    BY <1>1, <1>2, <1>3, <1>4 DEF TablesOk, Sorted, RowsOk
  <1>6. TablesOk'
    BY <1>1, <1>2, <1>4, <1>5 DEF TablesOk
  <1>7. CountsOk'
    BY <1>1, <1>2, ShakesTyped DEF CountsOk
  <1>8. \A s \in Snaps : snaps'[s] = Absent \/ (snaps'[s] = snaps[s] /\ snaps[s].chat # c)
    BY <1>2
  <1>9. Absent \in [chat: Chats \cup {NoChat}, msgs: Seq(Messages)] /\ Absent.msgs = <<>> /\ Absent.chat = NoChat
    BY <1>3 DEF Absent
  <1>10. snaps' \in [Snaps -> [chat: Chats \cup {NoChat}, msgs: Seq(Messages)]]
    BY <1>1, <1>2, <1>9 DEF SnapsOk
  <1>11. \A s \in Snaps : snaps'[s].chat \in chats' \cup {NoChat} /\ Heard(snaps[s].msgs)'
    BY <1>1, <1>2, <1>3, <1>8, <1>9 DEF SnapsOk, Heard
  <1>12. SnapsOk'
    BY <1>1, <1>2, <1>10, <1>11 DEF SnapsOk
  <1>13. CallsOk'
    BY <1>1, <1>2, <1>7, CallsSame DEF CallsOk, CallOk
  <1>14. said <= said' /\ \A u \in Tasks \ {t} : call'[u] = call[u]
    BY <1>1, <1>2
  <1> QED BY <1>2, <1>4, <1>6, <1>7, <1>12, <1>13, <1>14, ShookKeeps

LEMMA DeleteSnapshotStep == ASSUME ChatTyped, NEW t \in Tasks, NEW s \in Snaps, DeleteSnapshot(t, s) PROVE Kept(t)
  <1>1. CountsOk /\ TablesOk /\ SnapsOk /\ CallsOk
    BY DEF ChatTyped
  <1>2. /\ snaps' = [snaps EXCEPT ![s] = Absent] /\ call[t] = Idle
        /\ UNCHANGED <<chats, usedChats, table, usedSnaps, said, clock, call, shaken>>
    BY DEF DeleteSnapshot
  <1>3. <<>> \in Seq(Messages) /\ DOMAIN <<>> = {}
    OBVIOUS
  <1>4. Absent \in [chat: Chats \cup {NoChat}, msgs: Seq(Messages)] /\ Absent.msgs = <<>> /\ Absent.chat = NoChat
    BY <1>3 DEF Absent
  <1>5. \A r \in Snaps : snaps'[r] = Absent \/ snaps'[r] = snaps[r]
    BY <1>1, <1>2 DEF SnapsOk
  <1>6. \A r \in Snaps : snaps'[r].chat \in chats' \cup {NoChat} /\ Heard(snaps[r].msgs)'
    BY <1>1, <1>2, <1>3, <1>4, <1>5 DEF SnapsOk, Heard
  <1>7. SnapsOk'
    BY <1>1, <1>2, <1>4, <1>6 DEF SnapsOk
  <1>8. CallOk(t)' /\ call'[t].dest \in {NoChat, Dest(t)} /\ call' \in [Tasks -> Calls]
        /\ \A u \in Tasks \ {t} : call'[u] = call[u]
    BY <1>1, <1>2, IdleOk DEF CallsOk
  <1> QED BY <1>2, <1>7, <1>8, Noted

\* A call writes its record.
LEMMA Writes ==
  ASSUME ChatTyped, NEW t \in Tasks, NEW r \in Calls, call' = [call EXCEPT ![t] = r]
  PROVE call'[t] = r /\ call' \in [Tasks -> Calls] /\ \A u \in Tasks \ {t} : call'[u] = call[u]
  BY DEF ChatTyped, CallsOk

\* A call that begins on a chat.
Opened(t, step, c, d, n) ==
  /\ call'[t].pc = step /\ call'[t].chat = c /\ call'[t].dest = d /\ call'[t].msgs = <<>> /\ call'[t].to = n
  /\ call' \in [Tasks -> Calls] /\ \A u \in Tasks \ {t} : call'[u] = call[u]

LEMMA OpenedOk ==
  ASSUME NEW t \in Tasks, NEW c \in usedChats', NEW n, NEW step \in {"dump", "prompt"}, Opened(t, step, c, NoChat, n)
  PROVE CallOk(t)' /\ call'[t].dest \in {NoChat, Dest(t)}
  <1>1. DOMAIN <<>> = {}
    OBVIOUS
  <1> QED BY <1>1 DEF Opened, CallOk, Heard, Chat, Dest

LEMMA SnapshotBeginStep == ASSUME ChatTyped, NEW t \in Tasks, NEW c \in Chats, SnapshotBegin(t, c) PROVE Kept(t)
  <1> DEFINE r == [Idle EXCEPT !.pc = "dump", !.chat = c]
  <1>1. /\ c \in chats /\ shaken' = shaken \ {t} /\ call' = [call EXCEPT ![t] = r]
        /\ UNCHANGED <<chats, usedChats, table, snaps, usedSnaps, said, clock>>
    BY DEF SnapshotBegin, Start
  <1>a. Idle \in Calls
    BY IdleOk DEF Idle, Calls
  <1>2. r \in Calls /\ r.pc = "dump" /\ r.chat = c /\ r.dest = NoChat /\ r.msgs = <<>> /\ r.to = 0
    BY <1>a DEF Idle, Calls
  <1> HIDE DEF r
  <1>3. Opened(t, "dump", c, NoChat, 0)
    BY <1>1, <1>2, Writes DEF Opened
  <1>4. c \in usedChats'
    BY <1>1 DEF ChatTyped, CountsOk
  <1>5. CallOk(t)' /\ call'[t].dest \in {NoChat, Dest(t)}
    BY <1>3, <1>4, OpenedOk
  <1>6. SnapsOk'
    BY <1>1, SnapsUnchanged
  <1> QED BY <1>1, <1>3, <1>5, <1>6, Noted DEF Opened

LEMMA ForkBeginStep ==
  ASSUME ChatTyped, NEW t \in Tasks, NEW c \in Chats, NEW d \in Chats, ForkBegin(t, c, d) PROVE Kept(t)
  <1> DEFINE r == [Idle EXCEPT !.pc = "dump", !.chat = c, !.dest = d]
  <1>1. /\ c \in chats /\ d \notin usedChats /\ usedChats' = usedChats \cup {d}
        /\ shaken' = shaken \ {t} /\ call' = [call EXCEPT ![t] = r]
        /\ UNCHANGED <<chats, table, snaps, usedSnaps, said, clock>>
    BY DEF ForkBegin
  <1>a. Idle \in Calls
    BY IdleOk DEF Idle, Calls
  <1>2. r \in Calls /\ r.pc = "dump" /\ r.chat = c /\ r.dest = d /\ r.msgs = <<>> /\ r.to = 0
    BY <1>a DEF Idle, Calls
  <1> HIDE DEF r
  <1>3. Opened(t, "dump", c, d, 0)
    BY <1>1, <1>2, Writes DEF Opened
  <1>4. CountsOk /\ TablesOk /\ SnapsOk /\ CallsOk /\ said <= said' /\ clock <= clock'
    BY <1>1, CountsNat DEF ChatTyped
  <1>5. c \in usedChats' /\ d \in usedChats' /\ d # c /\ d \notin chats'
    BY <1>1, <1>4 DEF CountsOk
  <1>6. DOMAIN <<>> = {}
    OBVIOUS
  <1>7. CallOk(t)'
    BY <1>3, <1>5, <1>6 DEF Opened, CallOk, Heard, Chat, Dest
  <1>8. CountsOk'
    BY <1>1, <1>4 DEF CountsOk
  <1>9. TablesOk'
    BY <1>1, <1>4, <1>8, TablesSame
  <1>10. SnapsOk'
    BY <1>1, SnapsUnchanged
  <1>11. CallsOk'
    BY <1>1, <1>3, <1>4, <1>7, <1>8, CallsMove DEF Opened
  <1>12. Others(t)
    BY <1>1, <1>3 DEF Others, Opened
  <1> QED BY <1>8, <1>9, <1>10, <1>11, <1>12 DEF Kept, ChatTyped

\* A call goes on in its record: to another step, holding other messages, at other counts.
Went(t, step) ==
  /\ call'[t].pc = step /\ call'[t].chat = Chat(t) /\ call'[t].dest = Dest(t)
  /\ call' \in [Tasks -> Calls] /\ \A u \in Tasks \ {t} : call'[u] = call[u]

\* It keeps what it had, unless it branches too early.
LEMMA WentOk ==
  ASSUME ChatTyped, NEW t \in Tasks, NEW step, Went(t, step), call[t].pc \notin {"idle", "restore"},
         Heard(call'[t].msgs), UNCHANGED <<chats, usedChats, said>>,
         step \in {"branch", "count", "copy"} => Dest(t) # NoChat,
         step \in {"dump", "keep", "branch"} => call[t].pc \in {"dump", "keep", "branch"}
  PROVE CallOk(t)' /\ call'[t].dest \in {NoChat, Dest(t)}
  <1>1. CallOk(t)
    BY DEF ChatTyped, CallsOk
  <1> QED BY <1>1 DEF Went, CallOk, Heard, Chat, Dest

LEMMA DumpStep == ASSUME ChatTyped, NEW t \in Tasks, Dump(t) PROVE Kept(t)
  <1> DEFINE ms == Recent(Chat(t), SnapshotCap)
             r == [call[t] EXCEPT !.pc = "keep", !.msgs = ms]
  <1>1. /\ At(t, "dump") /\ call' = [call EXCEPT ![t] = r]
        /\ UNCHANGED <<chats, usedChats, table, snaps, usedSnaps, said, clock, shaken>>
    BY DEF Dump
  <1>2. Chat(t) \in Chats /\ call[t] \in Calls
    BY <1>1 DEF ChatTyped, CallsOk, CallOk, CountsOk, At
  <1>3. SnapshotCap \in Nat
    BY Caps
  <1>4. ms \in Seq(Messages) /\ Heard(ms)
    BY <1>2, <1>3, RecentFacts DEF ChatTyped
  <1> HIDE DEF ms
  <1>5. r \in Calls /\ r.pc = "keep" /\ r.chat = Chat(t) /\ r.dest = Dest(t) /\ r.msgs = ms /\ r.to = call[t].to
    BY <1>2, <1>4 DEF Calls, Chat, Dest
  <1> HIDE DEF r
  <1>6. Went(t, "keep") /\ call'[t].msgs = ms
    BY <1>1, <1>5, Writes DEF Went
  <1>7. CallOk(t)' /\ call'[t].dest \in {NoChat, Dest(t)}
    BY <1>1, <1>4, <1>6, WentOk DEF At
  <1>8. SnapsOk'
    BY <1>1, SnapsUnchanged
  <1> QED BY <1>1, <1>6, <1>7, <1>8, Noted DEF Went

LEMMA ReadPromptStep ==
  ASSUME ChatTyped, NEW t \in Tasks, ReadPrompt(t)
  PROVE Kept(t) /\ call'[t].pc = "reply" /\ call'[t].msgs = Recent(Chat(t), HistoryLimit) /\ call'[t].to = call[t].to
  <1> DEFINE ms == Recent(Chat(t), HistoryLimit)
             r == [call[t] EXCEPT !.pc = "reply", !.msgs = ms]
  <1>1. /\ At(t, "prompt") /\ call' = [call EXCEPT ![t] = r]
        /\ UNCHANGED <<chats, usedChats, table, snaps, usedSnaps, said, clock, shaken>>
    BY DEF ReadPrompt
  <1>2. Chat(t) \in Chats /\ call[t] \in Calls
    BY <1>1 DEF ChatTyped, CallsOk, CallOk, CountsOk, At
  <1>3. HistoryLimit \in Nat
    BY Caps
  <1>4. ms \in Seq(Messages) /\ Heard(ms)
    BY <1>2, <1>3, RecentFacts DEF ChatTyped
  <1> HIDE DEF ms
  <1>5. r \in Calls /\ r.pc = "reply" /\ r.chat = Chat(t) /\ r.dest = Dest(t) /\ r.msgs = ms /\ r.to = call[t].to
    BY <1>2, <1>4 DEF Calls, Chat, Dest
  <1> HIDE DEF r
  <1>6. Went(t, "reply") /\ call'[t].msgs = ms /\ call'[t].to = call[t].to
    BY <1>1, <1>5, Writes DEF Went
  <1>7. CallOk(t)' /\ call'[t].dest \in {NoChat, Dest(t)}
    BY <1>1, <1>4, <1>6, WentOk DEF At
  <1>8. SnapsOk'
    BY <1>1, SnapsUnchanged
  <1>9. Kept(t)
    BY <1>1, <1>6, <1>7, <1>8, Noted DEF Went
  <1> QED BY <1>6, <1>9 DEF Went, ms

LEMMA EndKeeps ==
  ASSUME ChatTyped, NEW t \in Tasks, End(t), UNCHANGED <<chats, usedChats, table, said, clock, shaken>>, SnapsOk'
  PROVE Kept(t)
  BY EndIdles, Noted

LEMMA KeepSnapshotStep == ASSUME ChatTyped, NEW t \in Tasks, KeepSnapshot(t) PROVE Kept(t)
  <1>1. At(t, "keep") /\ UNCHANGED <<chats, usedChats, table, said, clock, shaken>>
    BY DEF KeepSnapshot
  <1>2. CASE Chat(t) \notin chats
    <2>1. End(t) /\ UNCHANGED <<snaps, usedSnaps>>
      BY <1>2 DEF KeepSnapshot
    <2>2. SnapsOk'
      BY <1>1, <2>1, SnapsUnchanged
    <2> QED BY <1>1, <2>1, <2>2, EndKeeps
  <1>3. CASE Chat(t) \in chats
    <2>1. PICK s \in Snaps \ usedSnaps :
            /\ usedSnaps' = usedSnaps \cup {s}
            /\ snaps' = [snaps EXCEPT ![s] = [chat |-> Chat(t), msgs |-> call[t].msgs]]
      BY <1>3 DEF KeepSnapshot
    <2>2. call[t] \in Calls /\ CallOk(t) /\ Chat(t) \in Chats
      BY <1>3 DEF ChatTyped, CallsOk, CountsOk
    <2>3. call[t].msgs \in Seq(Messages) /\ Heard(call[t].msgs)
      BY <2>2 DEF Calls, CallOk
    <2>4. \A u \in Snaps :
            snaps'[u] = IF u = s THEN [chat |-> Chat(t), msgs |-> call[t].msgs] ELSE snaps[u]
      BY <2>1 DEF ChatTyped, SnapsOk
    <2>5. snaps' \in [Snaps -> [chat: Chats \cup {NoChat}, msgs: Seq(Messages)]]
      BY <2>1, <2>2, <2>3 DEF ChatTyped, SnapsOk
    <2>6. \A u \in Snaps : snaps'[u].chat \in chats \cup {NoChat} /\ \A i \in DOMAIN snaps'[u].msgs : snaps'[u].msgs[i] <= said
      <3> SUFFICES ASSUME NEW u \in Snaps
                   PROVE snaps'[u].chat \in chats \cup {NoChat} /\ \A i \in DOMAIN snaps'[u].msgs : snaps'[u].msgs[i] <= said
        OBVIOUS
      <3>1. CASE u = s
        <4>1. snaps'[u].chat = Chat(t) /\ snaps'[u].msgs = call[t].msgs
          BY <2>4, <3>1
        <4> QED BY <1>3, <2>3, <4>1 DEF Heard
      <3>2. CASE u # s
        <4>1. snaps'[u] = snaps[u]
          BY <2>4, <3>2
        <4> QED BY <4>1 DEF ChatTyped, SnapsOk, Heard
      <3> QED BY <3>1, <3>2
    <2>7. SnapsOk'
      BY <1>1, <2>1, <2>5, <2>6 DEF ChatTyped, SnapsOk, Heard
    <2>8. CASE Dest(t) = NoChat
      BY <1>1, <1>3, <2>7, <2>8, EndKeeps DEF KeepSnapshot, Dest
    <2>9. CASE Dest(t) # NoChat
      <3> DEFINE r == [call[t] EXCEPT !.pc = "branch", !.msgs = <<>>]
      <3>1. call' = [call EXCEPT ![t] = r]
        BY <1>3, <2>9 DEF KeepSnapshot, Dest
      <3>2. <<>> \in Seq(Messages) /\ DOMAIN <<>> = {}
        OBVIOUS
      <3>3. r \in Calls /\ r.pc = "branch" /\ r.chat = Chat(t) /\ r.dest = Dest(t) /\ r.msgs = <<>>
        BY <2>2, <3>2 DEF Calls, Chat, Dest
      <3> HIDE DEF r
      <3>4. Went(t, "branch") /\ call'[t].msgs = <<>>
        BY <3>1, <3>3, Writes DEF Went
      <3>5. CallOk(t)' /\ call'[t].dest \in {NoChat, Dest(t)}
        BY <1>1, <2>9, <3>2, <3>4, WentOk DEF Heard, At
      <3> QED BY <1>1, <2>7, <3>4, <3>5, Noted DEF Went
    <2> QED BY <2>8, <2>9
  <1> QED BY <1>2, <1>3

\* A fork branches: its own id becomes a chat, still without messages.
LEMMA BranchStep ==
  ASSUME ChatTyped, NEW t \in Tasks, Branch(t)
  PROVE /\ Kept(t) /\ Went(t, "count") /\ table[Dest(t)] = <<>> /\ Dest(t) \in Chats
        /\ UNCHANGED <<table, shaken>>
  <1> DEFINE r == [call[t] EXCEPT !.pc = "count"]
  <1>1. /\ At(t, "branch") /\ chats' = chats \cup {Dest(t)} /\ call' = [call EXCEPT ![t] = r]
        /\ UNCHANGED <<usedChats, table, snaps, usedSnaps, said, clock, shaken>>
    BY DEF Branch, Goto, Dest
  <1>2. CountsOk /\ TablesOk /\ SnapsOk /\ CallsOk /\ said <= said' /\ clock <= clock'
    BY <1>1, CountsNat DEF ChatTyped
  <1>3. call[t] \in Calls /\ CallOk(t)
    BY <1>2 DEF CallsOk
  <1>4. r \in Calls /\ r.pc = "count" /\ r.chat = Chat(t) /\ r.dest = Dest(t) /\ r.msgs = call[t].msgs
    BY <1>3 DEF Calls, Chat, Dest
  <1> HIDE DEF r
  <1>5. Went(t, "count") /\ call'[t].msgs = call[t].msgs
    BY <1>1, <1>4, Writes DEF Went
  <1>6. Dest(t) # NoChat /\ Dest(t) \in usedChats /\ Dest(t) \notin chats /\ Dest(t) \in Chats
    BY <1>1, <1>2, <1>3 DEF CallOk, CountsOk, At
  <1>7. CountsOk'
    BY <1>1, <1>2, <1>6 DEF CountsOk
  <1>8. TablesOk'
    BY <1>1, <1>2, <1>7, TablesSame
  <1>9. SnapsOk'
    BY <1>1, <1>2, <1>7, SnapsSame
  <1>10. ASSUME NEW u \in Tasks \ {t} PROVE CallOk(u)'
    <2>1. CallOk(u) /\ call'[u] = call[u] /\ Dest(u) # Dest(t)
      BY <1>2, <1>5, <1>6 DEF CallsOk, Went
    <2>2. Dest(u) # NoChat /\ call[u].pc \in {"dump", "keep", "branch"} => Dest(u) \notin chats'
      BY <1>1, <2>1 DEF CallOk
    <2> QED BY <1>1, <1>2, <1>7, <2>1, <2>2, CallStays
  <1>11. CallOk(t)'
    BY <1>1, <1>3, <1>5, <1>6 DEF Went, CallOk, Heard, Chat, Dest, At
  <1>12. \A u \in Tasks : Dest(u)' = Dest(u)
    BY <1>5 DEF Went, Dest
  <1>13. CallsOk'
    BY <1>2, <1>5, <1>10, <1>11, <1>12 DEF CallsOk, Went
  <1>14. Others(t)
    BY <1>1, <1>5 DEF Others, Went
  <1>15. Kept(t)
    BY <1>7, <1>8, <1>9, <1>13, <1>14 DEF Kept, ChatTyped
  <1> QED BY <1>1, <1>2, <1>5, <1>6, <1>15 DEF TablesOk

LEMMA CountStep ==
  ASSUME ChatTyped, NEW t \in Tasks, Count(t)
  PROVE /\ Kept(t) /\ Went(t, "copy") /\ call'[t].to = Len(table[Chat(t)])
        /\ call'[t].from = Len(table[Chat(t)]) - Smaller(ForkCap, Len(table[Chat(t)]))
        /\ UNCHANGED <<table, shaken>>
  <1> DEFINE total == Len(table[Chat(t)])
             low == total - Smaller(ForkCap, total)
             r == [call[t] EXCEPT !.pc = "copy", !.to = total, !.from = low]
  <1>1. /\ At(t, "count") /\ call' = [call EXCEPT ![t] = r]
        /\ UNCHANGED <<chats, usedChats, table, snaps, usedSnaps, said, clock, shaken>>
    BY DEF Count
  <1>2. call[t] \in Calls /\ CallOk(t) /\ Chat(t) \in Chats
    BY <1>1 DEF ChatTyped, CallsOk, CallOk, CountsOk, At
  <1>3. table[Chat(t)] \in Seq(Rows)
    BY <1>2 DEF ChatTyped, TablesOk
  <1>4. total \in Nat
    BY <1>3
  <1> HIDE DEF total
  <1>5. low \in Nat
    BY <1>4, Caps DEF Smaller
  <1> HIDE DEF low
  <1>6. r \in Calls /\ r.pc = "copy" /\ r.chat = Chat(t) /\ r.dest = Dest(t) /\ r.msgs = call[t].msgs
        /\ r.to = total /\ r.from = low
    BY <1>2, <1>4, <1>5 DEF Calls, Chat, Dest
  <1> HIDE DEF r
  <1>7. Went(t, "copy") /\ call'[t].msgs = call[t].msgs /\ call'[t].to = total /\ call'[t].from = low
    BY <1>1, <1>6, Writes DEF Went
  <1>8. CallOk(t)' /\ call'[t].dest \in {NoChat, Dest(t)}
    BY <1>1, <1>2, <1>7, WentOk DEF CallOk, At
  <1>9. SnapsOk'
    BY <1>1, SnapsUnchanged
  <1>10. Kept(t)
    BY <1>1, <1>7, <1>8, <1>9, Noted DEF Went
  <1> QED BY <1>1, <1>7, <1>10 DEF total, low

LEMMA ForkDoneStep == ASSUME ChatTyped, NEW t \in Tasks, ForkDone(t) PROVE Kept(t)
  BY EndKeeps, SnapsUnchanged DEF ForkDone

LEMMA NoReplyStep == ASSUME ChatTyped, NEW t \in Tasks, NoReply(t) PROVE Kept(t)
  BY EndKeeps, SnapsUnchanged DEF NoReply

LEMMA ReplyStep == ASSUME ChatTyped, NEW t \in Tasks, Reply(t) PROVE Kept(t)
  <1>1. /\ Chat(t) \in chats /\ Say(Chat(t)) /\ End(t)
        /\ UNCHANGED <<chats, usedChats, snaps, usedSnaps, shaken>>
    BY DEF Reply
  <1> QED BY <1>1, EndIdles, SayKeeps

LEMMA RestoreBeginStep == ASSUME ChatTyped, NEW t \in Tasks, NEW s \in Snaps, RestoreBegin(t, s) PROVE Kept(t)
  <1> DEFINE r == [Idle EXCEPT !.pc = "restore", !.chat = snaps[s].chat, !.msgs = snaps[s].msgs, !.snap = s]
  <1>1. /\ call' = [call EXCEPT ![t] = r] /\ shaken' = shaken \ {t}
        /\ UNCHANGED <<chats, usedChats, table, snaps, usedSnaps, said, clock>>
    BY DEF RestoreBegin
  <1>2. snaps[s] \in [chat: Chats \cup {NoChat}, msgs: Seq(Messages)] /\ Heard(snaps[s].msgs)
    BY DEF ChatTyped, SnapsOk
  <1>3. Idle \in Calls
    BY IdleOk DEF Idle, Calls
  <1>4. r \in Calls /\ r.pc = "restore" /\ r.dest = NoChat /\ r.msgs = snaps[s].msgs
    BY <1>2, <1>3 DEF Idle, Calls
  <1> HIDE DEF r
  <1>5. /\ call'[t].pc = "restore" /\ call'[t].dest = NoChat /\ call'[t].msgs = snaps[s].msgs
        /\ call' \in [Tasks -> Calls] /\ \A u \in Tasks \ {t} : call'[u] = call[u]
    BY <1>1, <1>4, Writes
  <1>6. CallOk(t)' /\ call'[t].dest \in {NoChat, Dest(t)}
    BY <1>1, <1>2, <1>5 DEF CallOk, Heard, Chat, Dest
  <1>7. SnapsOk'
    BY <1>1, SnapsUnchanged
  <1> QED BY <1>1, <1>5, <1>6, <1>7, Noted

LEMMA AskStep ==
  ASSUME ChatTyped, NEW t \in Tasks, NEW c \in Chats, Ask(t, c)
  PROVE Kept(t) /\ Spoken(c) /\ Opened(t, "prompt", c, NoChat, said + 1)
  <1> DEFINE r == [Idle EXCEPT !.pc = "prompt", !.chat = c, !.to = said + 1]
  <1>1. /\ c \in chats /\ Say(c) /\ call' = [call EXCEPT ![t] = r] /\ shaken' = shaken \ {t}
        /\ UNCHANGED <<chats, usedChats, snaps, usedSnaps>>
    BY DEF Ask
  <1>2. Idle \in Calls /\ said + 1 \in Nat /\ CountsOk /\ TablesOk
    BY IdleOk, CountsNat DEF ChatTyped, Idle, Calls
  <1>3. r \in Calls /\ r.pc = "prompt" /\ r.chat = c /\ r.dest = NoChat /\ r.msgs = <<>> /\ r.to = said + 1
    BY <1>2 DEF Idle, Calls
  <1> HIDE DEF r
  <1>4. Opened(t, "prompt", c, NoChat, said + 1)
    BY <1>1, <1>3, Writes DEF Opened
  <1>5. c \in usedChats'
    BY <1>1, <1>2 DEF CountsOk
  <1>6. CallOk(t)' /\ call'[t].dest \in {NoChat, Dest(t)}
    BY <1>4, <1>5, OpenedOk
  <1>7. Kept(t)
    BY <1>1, <1>4, <1>6, SayKeeps DEF Opened
  <1>8. Spoken(c)
    BY <1>1, <1>2, SaySpeaks
  <1> QED BY <1>4, <1>7, <1>8

LEMMA RestoreStep == ASSUME ChatTyped, NEW t \in Tasks, Restore(t) PROVE Kept(t)
  <1> DEFINE c == Chat(t)
             ms == call[t].msgs
             new == Stamped(ms)
  <1>1. At(t, "restore") /\ End(t) /\ UNCHANGED <<chats, usedChats, snaps, usedSnaps, said>>
    BY DEF Restore
  <1>2. CASE c \notin chats
    <2>1. UNCHANGED <<table, clock, shaken>>
      BY <1>2 DEF Restore
    <2> QED BY <1>1, <2>1, EndKeeps, SnapsUnchanged
  <1>3. CASE c \in chats
    <2>1. clock < MaxWrites /\ clock' = clock + 1 /\ table' = [table EXCEPT ![c] = new] /\ shaken' = Shakes(c)
      BY <1>3 DEF Restore, Tick
    <2>2. CountsOk /\ TablesOk /\ SnapsOk /\ CallsOk /\ said \in Nat /\ clock \in Nat /\ said <= said
      BY CountsNat DEF ChatTyped
    <2>3. c \in Chats /\ ms \in Seq(Messages) /\ Heard(ms)
      BY <1>3, <2>2 DEF CountsOk, CallsOk, CallOk, Calls
    <2>4. /\ new \in Seq(Rows) /\ Len(new) = Len(ms) /\ DOMAIN ms = 1..Len(ms)
          /\ \A i \in 1..Len(ms) : new[i] = [msg |-> ms[i], at |-> clock + 1] /\ ms[i] \in Messages
      BY <2>1, <2>2, <2>3, StampedFacts DEF CountsOk
    <2> HIDE DEF new, ms, c
    <2>5. DOMAIN new = DOMAIN ms
      BY <2>4
    <2>6. \A i \in DOMAIN new : new[i].at = clock + 1 /\ new[i].msg = ms[i]
      <3> SUFFICES ASSUME NEW i \in DOMAIN new PROVE new[i].at = clock + 1 /\ new[i].msg = ms[i]
        OBVIOUS
      <3>1. PICK row : row = new[i]
        OBVIOUS
      <3>2. row = [msg |-> ms[i], at |-> clock + 1]
        BY <2>4, <2>5, <3>1
      <3>3. row.msg = ms[i] /\ row.at = clock + 1
        BY <3>2
      <3> QED BY <3>1, <3>3
    <2>7. CountsOk'
      BY <1>1, <2>1, <2>2, ShakesTyped, Bounds DEF CountsOk
    <2>8. table' \in [Chats -> Seq(Rows)] /\ table'[c] = new /\ \A b \in Chats \ {c} : table'[b] = table[b]
      BY <2>1, <2>2, <2>3, <2>4 DEF TablesOk
    <2>9. Sorted(table'[c]) /\ \A i \in DOMAIN table'[c] : table'[c][i].at <= clock' /\ table'[c][i].msg <= said'
      <3>1. \A i \in DOMAIN new : new[i].msg <= said
        BY <2>3, <2>5, <2>6 DEF Heard
      <3>2. \A i \in DOMAIN new : new[i].at <= clock'
        BY <2>1, <2>2, <2>6
      <3>3. Sorted(new)
        BY <2>2, <2>6 DEF Sorted
      <3> QED BY <1>1, <2>8, <3>1, <3>2, <3>3
    <2>10. ASSUME NEW b \in Chats \ {c} PROVE Sorted(table'[b]) /\ \A i \in DOMAIN table'[b] : table'[b][i].at <= clock' /\ table'[b][i].msg <= said'
      <3>1. table'[b] = table[b] /\ table[b] \in Seq(Rows) /\ RowsOk(table[b]) /\ Sorted(table[b])
        BY <2>2, <2>8 DEF TablesOk
      <3>2. \A i \in DOMAIN table[b] : table[b][i] \in Rows
        BY <3>1
      <3>3. \A i \in DOMAIN table[b] : table[b][i].at \in Nat /\ table[b][i].msg \in Nat
        BY <3>2, Bounds DEF Rows, Messages
      <3> QED BY <1>1, <2>1, <2>2, <3>1, <3>3 DEF RowsOk
    <2>11. TablesOk'
      <3>1. \A b \in Chats : Sorted(table'[b])
                           /\ \A i \in DOMAIN table'[b] : table'[b][i].at <= clock' /\ table'[b][i].msg <= said'
        BY <2>3, <2>9, <2>10
      <3>2. \A b \in Chats : b \notin chats' => table'[b] = <<>>
        BY <1>1, <1>3, <2>2, <2>8 DEF TablesOk, c
      <3> QED BY <2>8, <3>1, <3>2 DEF TablesOk, Sorted, RowsOk
    <2>12. SnapsOk'
      BY <1>1, SnapsUnchanged
    <2>13. CallsOk' /\ \A u \in Tasks \ {t} : call'[u] = call[u]
      <3>1. /\ call' \in [Tasks -> Calls] /\ \A u \in Tasks \ {t} : call'[u] = call[u]
            /\ CallOk(t)' /\ call'[t].dest \in {NoChat, Dest(t)}
        BY <1>1, EndIdles
      <3> QED BY <1>1, <2>2, <2>7, <3>1, CallsMove
    <2> QED BY <1>1, <2>1, <2>2, <2>3, <2>7, <2>8, <2>11, <2>12, <2>13, ShookKeeps
  <1> QED BY <1>2, <1>3

\* The page lies between the offset and the end of the chat.
LEMMA PageFacts ==
  ASSUME ChatTyped, NEW t \in Tasks, Chat(t) \in Chats, call[t].from \in Nat
  PROVE LET n == Len(Page(t)) IN
        /\ Page(t) \in Seq(Messages) /\ (n = 0 <=> Page(t) = <<>>)
        /\ n > 0 => call[t].from + n <= Len(table[Chat(t)]) /\ n <= PageSize
        /\ call[t].from < Len(table[Chat(t)]) => n > 0
        /\ \A i \in 1..n : Page(t)[i] = table[Chat(t)][call[t].from + i].msg /\ Page(t)[i] <= said
  <1> DEFINE rows == table[Chat(t)]
             all == Listing(Chat(t))
             low == call[t].from
             high == Smaller(low + PageSize, Len(rows))
             p == Page(t)
  <1>1. rows \in Seq(Rows) /\ RowsOk(rows)
    BY DEF ChatTyped, TablesOk
  <1>2. all \in Seq(Messages) /\ Len(all) = Len(rows) /\ DOMAIN rows = 1..Len(rows)
        /\ \A i \in 1..Len(rows) : all[i] = rows[i].msg
    BY <1>1, SaidFacts DEF Listing
  <1>3. p = SubSeq(all, low + 1, high)
    BY DEF Page
  <1>4. Len(rows) \in Nat /\ PageSize \in Nat \ {0} /\ low \in Nat
    BY <1>1, Caps
  <1> HIDE DEF p, all, low, rows
  <1>5. high \in 0..Len(rows) /\ high <= low + PageSize /\ (low < Len(rows) => high > low)
    BY <1>4 DEF Smaller
  <1> HIDE DEF high
  <1>6. \A i \in (low + 1)..high : all[i] \in Messages
    BY <1>2, <1>4, <1>5
  <1>7. /\ p \in Seq(Messages) /\ Len(p) = IF low + 1 <= high THEN high - (low + 1) + 1 ELSE 0
        /\ \A i \in 1..(high - (low + 1) + 1) : p[i] = all[low + 1 + i - 1]
    BY <1>2, <1>3, <1>4, <1>5, <1>6, SubSeqProperties
  <1>8. \A i \in 1..Len(p) : p[i] = rows[low + i].msg /\ low + i \in DOMAIN rows
    <2> SUFFICES ASSUME NEW i \in 1..Len(p) PROVE p[i] = rows[low + i].msg /\ low + i \in DOMAIN rows
      OBVIOUS
    <2>1. i \in 1..(high - (low + 1) + 1) /\ low + i \in 1..Len(rows) /\ low + 1 + i - 1 = low + i
      BY <1>4, <1>5, <1>7
    <2> QED BY <1>2, <1>7, <2>1
  <1>9. \A i \in 1..Len(p) : p[i] <= said
    BY <1>1, <1>8 DEF RowsOk
  <1>10. Len(p) \in Nat /\ (Len(p) = 0 <=> p = <<>>)
    BY <1>7
  <1>11. Len(p) > 0 => low + Len(p) <= Len(rows) /\ Len(p) <= PageSize
    BY <1>4, <1>5, <1>7
  <1>12. low < Len(rows) => Len(p) > 0
    BY <1>4, <1>5, <1>7
  <1> QED BY <1>7, <1>8, <1>9, <1>10, <1>11, <1>12 DEF p, low, rows

\* A fork copies a page: its messages come to the end of the new chat, which shakes the
\* calls that began on that chat.
Copied(t) ==
  LET d == Dest(t)
      page == Page(t)
  IN  /\ Went(t, "copy") /\ call'[t].to = call[t].to /\ call'[t].from = call[t].from + Len(page)
      /\ page # <<>> /\ d \in Chats /\ shaken \subseteq shaken'
      /\ Len(table'[d]) = Len(table[d]) + Len(page)
      /\ \A i \in 1..Len(table[d]) : table'[d][i] = table[d][i]
      /\ \A i \in 1..Len(page) : table'[d][Len(table[d]) + i].msg = page[i]
      /\ \A b \in Chats \ {d} : table'[b] = table[b]

LEMMA CopyPageStep ==
  ASSUME ChatTyped, NEW t \in Tasks, CopyPage(t)
  PROVE Kept(t) /\ Chat(t) \in Chats /\ call[t].from < call[t].to
        /\ (Copied(t) \/ (call'[t] = Idle /\ UNCHANGED <<table, shaken>>))
  <1> DEFINE d == Dest(t)
             page == Page(t)
  <1>1. At(t, "copy") /\ call[t].from < call[t].to /\ UNCHANGED <<chats, usedChats, snaps, usedSnaps, said>>
    BY DEF CopyPage
  <1>2. CountsOk /\ TablesOk /\ SnapsOk /\ CallsOk /\ said \in Nat /\ clock \in Nat /\ said <= said
    BY CountsNat DEF ChatTyped
  <1>3. call[t] \in Calls /\ CallOk(t) /\ Chat(t) \in Chats
    BY <1>1, <1>2 DEF CallsOk, CallOk, CountsOk, At
  <1>4. call[t].from \in Nat /\ d # NoChat /\ d \in Chats /\ d # Chat(t)
    BY <1>1, <1>2, <1>3 DEF CallOk, CountsOk, Calls, At
  <1>5. CASE page = <<>> \/ d \notin chats
    <2>1. End(t) /\ UNCHANGED <<table, clock, shaken>>
      BY <1>5 DEF CopyPage, Dest
    <2>2. Kept(t)
      BY <1>1, <2>1, EndKeeps, SnapsUnchanged
    <2>3. call'[t] = Idle
      BY <2>1, EndIdles
    <2> QED BY <1>1, <1>3, <2>1, <2>2, <2>3
  <1>6. CASE page # <<>> /\ d \in chats
    <2> DEFINE r == [call[t] EXCEPT !.from = @ + Len(page)]
    <2>1. /\ clock < MaxWrites /\ clock' = clock + 1 /\ table' = [table EXCEPT ![d] = @ \o Stamped(page)]
          /\ call' = [call EXCEPT ![t].from = @ + Len(page)] /\ shaken' = ShakesCallers(d)
      BY <1>6 DEF CopyPage, Dest, Tick
    <2>2. /\ page \in Seq(Messages)
          /\ \A i \in 1..Len(page) : page[i] <= said
      BY <1>3, <1>4, PageFacts
    <2>3. Len(page) \in Nat /\ DOMAIN page = 1..Len(page)
      BY <2>2
    <2>4. /\ TablesOk' /\ Len(table'[d]) = Len(table[d]) + Len(page)
          /\ \A i \in 1..Len(table[d]) : table'[d][i] = table[d][i]
          /\ \A i \in 1..Len(page) : table'[d][Len(table[d]) + i] = [msg |-> page[i], at |-> clock + 1]
          /\ \A b \in Chats \ {d} : table'[b] = table[b]
      <3>1. said' \in Nat /\ said <= said' /\ \A i \in DOMAIN page : page[i] <= said'
        BY <1>1, <1>2, <2>2, <2>3
      <3> HIDE DEF page, d
      <3> QED BY <1>1, <1>2, <1>6, <2>1, <2>2, <3>1, AddRows
    <2>5. \A i \in 1..Len(page) : table'[d][Len(table[d]) + i].msg = page[i]
      <3> SUFFICES ASSUME NEW i \in 1..Len(page) PROVE table'[d][Len(table[d]) + i].msg = page[i]
        OBVIOUS
      <3>1. PICK row : row = table'[d][Len(table[d]) + i]
        OBVIOUS
      <3>2. row = [msg |-> page[i], at |-> clock + 1]
        BY <2>4, <3>1
      <3>3. row.msg = page[i]
        BY <3>2
      <3> QED BY <3>1, <3>3
    <2> HIDE DEF page
    <2>6. r \in Calls /\ r.pc = "copy" /\ r.chat = Chat(t) /\ r.dest = Dest(t) /\ r.msgs = call[t].msgs
          /\ r.to = call[t].to /\ r.from = call[t].from + Len(page)
      BY <1>1, <1>3, <1>4, <2>3 DEF Calls, Chat, Dest, At
    <2>7. call' = [call EXCEPT ![t] = r]
      BY <2>1
    <2> HIDE DEF r
    <2>8. Went(t, "copy") /\ call'[t].msgs = call[t].msgs /\ call'[t].to = call[t].to
          /\ call'[t].from = call[t].from + Len(page)
      BY <2>6, <2>7, Writes DEF Went
    <2>9. CallOk(t)' /\ call'[t].dest \in {NoChat, Dest(t)}
      BY <1>1, <1>3, <1>4, <2>8, WentOk DEF CallOk, At
    <2>10. CountsOk' /\ shaken \subseteq shaken' /\ said <= said'
      BY <1>1, <1>2, <2>1, Bounds DEF CountsOk, ShakesCallers
    <2>11. SnapsOk'
      BY <1>1, SnapsUnchanged
    <2>12. CallsOk'
      BY <1>1, <1>2, <2>8, <2>9, <2>10, CallsMove DEF Went
    <2>13. \A u \in Tasks \ {t} : call[u].pc # "idle" /\ d \in {Chat(u), Dest(u)} => u \in shaken'
      BY <1>2, <1>4, <2>1 DEF CallsOk, ShakesCallers, Idle, Chat, Dest
    <2>14. Shook(t, d)
      BY <2>4, <2>13 DEF Shook
    <2>15. Others(t)
      BY <1>4, <2>8, <2>10, <2>14 DEF Others, Went
    <2>16. Kept(t)
      BY <2>4, <2>10, <2>11, <2>12, <2>15 DEF Kept, ChatTyped
    <2>17. Copied(t)
      BY <1>4, <1>6, <2>4, <2>5, <2>8, <2>10 DEF Copied, page
    <2> QED BY <1>1, <1>3, <2>16, <2>17
  <1> QED BY <1>5, <1>6

LEMMA EveryStep ==
  ASSUME ChatTyped, Next PROVE \E t \in Tasks : Kept(t)
  <1>1. PICK t \in Tasks :
          \/ \E c \in Chats :
               \/ CreateChat(t, c) \/ AddMessage(t, c) \/ DeleteChat(t, c)
               \/ \E i \in DOMAIN table[c] : DeleteMessage(t, c, i)
               \/ SnapshotBegin(t, c) \/ Ask(t, c)
               \/ \E d \in Chats : ForkBegin(t, c, d)
          \/ \E s \in Snaps : DeleteSnapshot(t, s) \/ RestoreBegin(t, s)
          \/ Step(t)
    BY DEF Next
  <1>2. Kept(t)
    BY <1>1, CreateChatStep, AddMessageStep, DeleteChatStep, DeleteMessageStep, SnapshotBeginStep,
       AskStep, ForkBeginStep, DeleteSnapshotStep, RestoreBeginStep, DumpStep, KeepSnapshotStep,
       BranchStep, CountStep, CopyPageStep, ForkDoneStep, RestoreStep, ReadPromptStep, ReplyStep,
       NoReplyStep DEF Step
  <1> QED BY <1>2

LEMMA Stutters == ASSUME ChatTyped, UNCHANGED vars PROVE ChatTyped'
  <1>1. CountsOk /\ TablesOk /\ SnapsOk /\ CallsOk /\ said <= said /\ clock <= clock
    BY CountsNat DEF ChatTyped
  <1>2. CountsOk'
    BY <1>1 DEF CountsOk, vars
  <1>3. TablesOk'
    BY <1>1, <1>2, TablesSame DEF vars
  <1>4. SnapsOk'
    BY SnapsUnchanged DEF vars
  <1>5. CallsOk'
    BY <1>1, <1>2, CallsSame DEF vars, CallsOk, CallOk
  <1> QED BY <1>2, <1>3, <1>4, <1>5 DEF ChatTyped

\* Chats are well-formed: messages belong to chats that exist, in the order of their times,
\* and what calls hold was said (create_message, replace_chat_messages, fork_chat).
THEOREM ChatsTyped == Spec => []TypeOK
  <1>1. ASSUME ChatTyped, [Next]_vars PROVE ChatTyped'
    BY <1>1, EveryStep, Stutters DEF Kept
  <1>2. Spec => []ChatTyped
    BY <1>1, TypedInit, PTL DEF Spec
  <1> QED BY <1>2, TypedShows, PTL

-----------------------------------------------------------------------------
(* The prompt of an exchange *)

Inside == {"prompt", "reply", "count", "copy"}

\* The steps of a call that neither exchange nor copy.
LEMMA Elsewhere ==
  ASSUME ChatTyped, NEW t \in Tasks,
         \/ \E c \in Chats :
               \/ CreateChat(t, c) \/ AddMessage(t, c) \/ DeleteChat(t, c)
               \/ \E i \in DOMAIN table[c] : DeleteMessage(t, c, i)
               \/ SnapshotBegin(t, c)
               \/ \E d \in Chats : ForkBegin(t, c, d)
         \/ \E s \in Snaps : DeleteSnapshot(t, s) \/ RestoreBegin(t, s)
         \/ Dump(t) \/ KeepSnapshot(t) \/ ForkDone(t) \/ Restore(t) \/ Reply(t) \/ NoReply(t)
  PROVE call'[t].pc \notin Inside
  <1>1. call \in [Tasks -> Calls] /\ Idle.pc = "idle"
    BY DEF ChatTyped, CallsOk, Idle
  <1>2. CASE call' = call /\ call[t] = Idle
    BY <1>1, <1>2 DEF Inside
  <1>3. CASE End(t)
    BY <1>1, <1>3 DEF End, Inside
  <1>4. ASSUME NEW c \in Chats, SnapshotBegin(t, c) \/ \E d \in Chats : ForkBegin(t, c, d)
        PROVE call'[t].pc = "dump"
    BY <1>1, <1>4 DEF SnapshotBegin, Start, ForkBegin, Idle
  <1>5. ASSUME NEW s \in Snaps, RestoreBegin(t, s) PROVE call'[t].pc = "restore"
    BY <1>1, <1>5 DEF RestoreBegin, Idle
  <1>6. ASSUME Dump(t) PROVE call'[t].pc = "keep"
    BY <1>1, <1>6 DEF Dump, Calls
  <1>7. ASSUME KeepSnapshot(t) PROVE End(t) \/ call'[t].pc = "branch"
    BY <1>1, <1>7 DEF KeepSnapshot, Calls
  <1>8. \/ (call' = call /\ call[t] = Idle) \/ End(t)
        \/ \E c \in Chats : SnapshotBegin(t, c) \/ \E d \in Chats : ForkBegin(t, c, d)
        \/ \E s \in Snaps : RestoreBegin(t, s)
        \/ Dump(t) \/ KeepSnapshot(t)
    BY DEF CreateChat, AddMessage, DeleteChat, DeleteMessage, DeleteSnapshot, ForkDone, Restore, Reply, NoReply
  <1> QED BY <1>2, <1>3, <1>4, <1>5, <1>6, <1>7, <1>8 DEF Inside

\* The question is the k-th row of its chat: those before it are older, those after it
\* came one by one.
Question(t, k) ==
  LET rows == table[Chat(t)]
  IN  /\ k \in 1..Len(rows) /\ rows[k].msg = call[t].to
      /\ \A i \in 1..Len(rows) : i < k => rows[i].msg < call[t].to
      /\ \A i \in 1..Len(rows) : i > k => rows[i].msg > call[t].to
      /\ \A i, j \in 1..Len(rows) : i < j /\ k <= j => rows[i].at < rows[j].at
Asked(t) == \E k \in 1..Len(table[Chat(t)]) : Question(t, k)

\* What QuestionInPrompt says of one call.
Answers(t) ==
  LET p == call[t].msgs
      after == {i \in DOMAIN p : p[i] > call[t].to}
  IN  \/ Cardinality(after) = HistoryLimit
      \/ /\ p[Len(p) - Cardinality(after)] = call[t].to
         /\ \A i \in after : i > Len(p) - Cardinality(after)

PromptInv ==
  \A t \in Tasks \ shaken :
    /\ call[t].pc = "prompt" => Asked(t)
    /\ call[t].pc = "reply" => Answers(t)

LEMMA PromptShows == ASSUME PromptInv PROVE QuestionInPrompt
  BY DEF PromptInv, QuestionInPrompt, Answers, At

\* A message that is said comes after all the others, in its chat and in its number.
LEMMA SpokenLast ==
  ASSUME CountsOk, TablesOk, NEW c \in Chats, Spoken(c), NEW n, n = Len(table[c])
  PROVE /\ n \in Nat /\ Len(table'[c]) = n + 1
        /\ table'[c][n + 1].msg = said + 1
        /\ \A i \in 1..n : table'[c][i] = table[c][i]
                           /\ table'[c][i].at < table'[c][n + 1].at /\ table'[c][i].msg < said + 1
  <1>1. table[c] \in Seq(Rows) /\ RowsOk(table[c])
    BY DEF TablesOk
  <1>2. n \in Nat /\ DOMAIN table[c] = 1..n
    BY <1>1
  <1>3. said \in Nat /\ clock \in Nat
    BY CountsNat
  <1>4. \A i \in 1..n : table[c][i] \in Rows
    BY <1>1, <1>2
  <1>5. \A i \in 1..n : table[c][i].at \in Nat /\ table[c][i].msg \in Nat
    BY <1>4, Bounds DEF Rows, Messages
  <1>6. \A i \in 1..n : table[c][i].at <= clock /\ table[c][i].msg <= said
    BY <1>1, <1>2 DEF RowsOk
  <1>7. PICK row : row = table'[c][n + 1]
    OBVIOUS
  <1>8. row = [msg |-> said + 1, at |-> clock + 1]
    BY <1>7 DEF Spoken
  <1>9. row.msg = said + 1 /\ row.at = clock + 1
    BY <1>8
  <1>10. \A i \in 1..n : table'[c][i] = table[c][i]
    BY DEF Spoken
  <1>11. Len(table'[c]) = n + 1
    BY DEF Spoken
  <1>12. \A i \in 1..n : table[c][i].at < clock + 1 /\ table[c][i].msg < said + 1
    BY <1>3, <1>5, <1>6
  <1> QED BY <1>2, <1>7, <1>9, <1>10, <1>11, <1>12

LEMMA AskedStays ==
  ASSUME ChatTyped, NEW t \in Tasks, Kept(t), NEW u \in Tasks \ {t}, u \notin shaken', call[u].pc = "prompt", Asked(u)
  PROVE Asked(u)'
  <1>1. CountsOk /\ TablesOk /\ CallsOk
    BY DEF ChatTyped
  <1>2. Chat(u) \in Chats /\ call'[u] = call[u] /\ Chat(u)' = Chat(u)
    BY <1>1 DEF Kept, Others, CallsOk, CallOk, CountsOk, Chat
  <1>3. CASE table'[Chat(u)] = table[Chat(u)]
    BY <1>2, <1>3 DEF Asked, Question
  <1>4. CASE Spoken(Chat(u))
    <2> DEFINE c == Chat(u)
               n == Len(table[c])
    <2>1. PICK k \in 1..n : Question(u, k)
      BY DEF Asked
    <2>2. /\ n \in Nat /\ Len(table'[c]) = n + 1
          /\ table'[c][n + 1].msg = said + 1
          /\ \A i \in 1..n : table'[c][i] = table[c][i]
                           /\ table'[c][i].at < table'[c][n + 1].at /\ table'[c][i].msg < said + 1
      BY <1>1, <1>2, <1>4, SpokenLast
    <2>3. /\ table[c][k].msg = call[u].to
          /\ \A i \in 1..n : i < k => table[c][i].msg < call[u].to
          /\ \A i \in 1..n : i > k => table[c][i].msg > call[u].to
          /\ \A i, j \in 1..n : i < j /\ k <= j => table[c][i].at < table[c][j].at
      BY <2>1 DEF Question
    <2>4. call[u].to < said + 1
      BY <2>2, <2>3
    <2>5. \A i \in 1..(n + 1) : i \in 1..n \/ i = n + 1
      BY <2>2
    <2>6. k \in 1..(n + 1) /\ k < n + 1
      BY <2>2
    <2> HIDE DEF n
    <2>a. \A i, j \in 1..(n + 1) : i < j => i \in 1..n
      BY <2>2
    <2>7. \A i, j \in 1..(n + 1) : i < j /\ k <= j => table'[c][i].at < table'[c][j].at
      <3> SUFFICES ASSUME NEW i \in 1..(n + 1), NEW j \in 1..(n + 1), i < j, k <= j
                   PROVE table'[c][i].at < table'[c][j].at
        OBVIOUS
      <3>1. i \in 1..n
        BY <2>a
      <3>2. CASE j = n + 1
        BY <2>2, <3>1, <3>2
      <3>3. CASE j \in 1..n
        BY <2>2, <2>3, <3>1, <3>3
      <3> QED BY <2>5, <3>2, <3>3
    <2>8. \A i \in 1..(n + 1) : i < k => table'[c][i].msg < call[u].to
      BY <2>2, <2>3, <2>5, <2>6
    <2>9. \A i \in 1..(n + 1) : i > k => table'[c][i].msg > call[u].to
      BY <2>2, <2>3, <2>4, <2>5
    <2>10. Question(u, k)'
      BY <1>2, <2>2, <2>3, <2>6, <2>7, <2>8, <2>9 DEF Question
    <2> QED BY <1>2, <2>2, <2>6, <2>10 DEF Asked
  <1>5. \/ table' = table
        \/ \E c \in Chats : Spoken(c)
        \/ \E c \in Chats : Shook(t, c)
    BY DEF Kept, Others
  <1>6. table'[Chat(u)] = table[Chat(u)] \/ Spoken(Chat(u))
    BY <1>2, <1>5 DEF Spoken, Shook
  <1> QED BY <1>3, <1>4, <1>6

LEMMA AskAsks ==
  ASSUME ChatTyped, NEW t \in Tasks, NEW c \in Chats, Ask(t, c) PROVE Asked(t)'
  <1>n. PICK n : n = Len(table[c])
    OBVIOUS
  <1>1. Spoken(c) /\ Chat(t)' = c /\ call'[t].to = said + 1 /\ CountsOk /\ TablesOk
    BY AskStep DEF Opened, Chat, ChatTyped
  <1>2. /\ n \in Nat /\ Len(table'[c]) = n + 1
        /\ table'[c][n + 1].msg = said + 1
        /\ \A i \in 1..n : table'[c][i] = table[c][i]
                           /\ table'[c][i].at < table'[c][n + 1].at /\ table'[c][i].msg < said + 1
    BY <1>1, <1>n, SpokenLast
  <1>3. /\ n + 1 \in 1..(n + 1)
        /\ \A i \in 1..(n + 1) : i < n + 1 => i \in 1..n
        /\ \A i \in 1..(n + 1) : ~(i > n + 1)
        /\ \A i, j \in 1..(n + 1) : i < j /\ n + 1 <= j => i \in 1..n /\ j = n + 1
    BY <1>2
  <1>4. Question(t, n + 1)'
    BY <1>1, <1>2, <1>3 DEF Question
  <1> QED BY <1>1, <1>2, <1>3, <1>4 DEF Asked

\* The last rows of a chat, put in the order of the prompt: the question stays at its
\* place, the messages after it stay behind it.
LEMMA ReadAnswers ==
  ASSUME ChatTyped, NEW t \in Tasks, ReadPrompt(t), Asked(t) PROVE Answers(t)'
  <1> DEFINE c == Chat(t)
             all == table[c]
             m == Len(all)
             to == call[t].to
             rows == LastOf(all, HistoryLimit)
             n == Len(rows)
             p == Recent(c, HistoryLimit)
             after == {i \in DOMAIN p : p[i] > to}
  <1>1. call'[t].msgs = p /\ call'[t].to = to
    BY ReadPromptStep
  <1>2. c \in Chats /\ HistoryLimit \in Nat
    BY Caps DEF ReadPrompt, At, ChatTyped, CallsOk, CallOk, CountsOk
  <1>3. TablesOk /\ all \in Seq(Rows)
    BY <1>2 DEF ChatTyped, TablesOk
  <1>4. m \in Nat /\ DOMAIN all = 1..m
    BY <1>3
  <1>5. PICK k \in 1..m : Question(t, k)
    BY DEF Asked
  <1>6. /\ all[k].msg = to
        /\ \A i \in 1..m : i < k => all[i].msg < to
        /\ \A i \in 1..m : i > k => all[i].msg > to
        /\ \A i, j \in 1..m : i < j /\ k <= j => all[i].at < all[j].at
    BY <1>5 DEF Question
  <1>7. /\ rows \in Seq(Rows) /\ Sorted(rows) /\ n = Smaller(HistoryLimit, m)
        /\ p = [i \in 1..n |-> rows[Turned(rows, i)].msg]
        /\ p \in Seq(Messages) /\ Len(p) = n
    BY <1>2, <1>3, RecentFacts
  <1>8. \A i \in 1..n : rows[i] = all[m - n + i]
    <2>1. \A i \in 1..Smaller(HistoryLimit, m) :
            LastOf(all, HistoryLimit)[i] = all[m - Smaller(HistoryLimit, m) + i]
      BY <1>2, <1>3, LastFacts
    <2> QED BY <1>7, <2>1
  <1>9. \A i \in 1..n : Turned(rows, i) \in 1..n
    BY <1>7, TurnedFacts
  <1> HIDE DEF p, rows, m, to, all, c
  <1>10. n \in Nat /\ n <= m /\ DOMAIN rows = 1..n /\ DOMAIN p = 1..n /\ (n < m => n = HistoryLimit)
    BY <1>2, <1>4, <1>7 DEF Smaller
  <1>11. \A i \in 1..n : p[i] = rows[Turned(rows, i)].msg
    BY <1>7
  <1> HIDE DEF n
  <1>12. CASE k <= m - n
    <2>1. \A i \in 1..n : m - n + i \in 1..m /\ m - n + i > k
      BY <1>4, <1>10, <1>12
    <2>2. \A i \in 1..n : rows[i].msg > to
      BY <1>6, <1>8, <2>1
    <2>3. \A i \in 1..n : p[i] > to
      BY <1>9, <1>11, <2>2
    <2>4. after = 1..n
      BY <1>10, <2>3
    <2>5. n = HistoryLimit
      BY <1>4, <1>10, <1>12
    <2>6. Cardinality(after) = HistoryLimit
      BY <1>10, <2>4, <2>5, SizeOfFirst
    <2> QED BY <1>1, <2>6 DEF Answers
  <1>13. CASE k > m - n
    <2> DEFINE q == k - (m - n)
    <2>1. q \in 1..n /\ m - n + q = k
      BY <1>4, <1>10, <1>13
    <2> HIDE DEF q
    <2>2. /\ \A i \in 1..n : m - n + i \in 1..m
          /\ \A i \in 1..n : i < q => m - n + i < k
          /\ \A i \in 1..n : i > q => m - n + i > k
          /\ \A i, j \in 1..n : i < j => m - n + i < m - n + j
      BY <1>4, <1>10, <2>1
    <2>3. /\ rows[q].msg = to
          /\ \A i \in 1..n : i < q => rows[i].msg < to
          /\ \A i \in 1..n : i > q => rows[i].msg > to
      BY <1>6, <1>8, <2>1, <2>2
    <2>4. \A i, j \in 1..n : i < j /\ q <= j => rows[i].at < rows[j].at
      <3> SUFFICES ASSUME NEW i \in 1..n, NEW j \in 1..n, i < j, q <= j PROVE rows[i].at < rows[j].at
        OBVIOUS
      <3>1. m - n + i < m - n + j /\ k <= m - n + j
        BY <1>4, <1>10, <2>1, <2>2
      <3> QED BY <1>6, <1>8, <2>2, <3>1
    <2>5. \A i \in 1..n : rows[i].at \in Nat
      <3>1. \A i \in 1..n : rows[i] \in Rows
        BY <1>7, <1>10
      <3> QED BY <3>1, Bounds DEF Rows
    <2>6. \A i \in 1..n : i < q => Turned(rows, i) \in 1..n /\ Turned(rows, i) < q
      <3> SUFFICES ASSUME NEW i \in 1..n, i < q PROVE Turned(rows, i) \in 1..n /\ Turned(rows, i) < q
        OBVIOUS
      <3>1. rows[i].at < rows[q].at
        BY <2>1, <2>4
      <3> QED BY <1>7, <1>9, <2>1, <3>1, TurnedFacts DEF n
    <2>7. ASSUME NEW i \in 1..n, i >= q PROVE Turned(rows, i) = i
      <3>1. \A j \in 1..n : j # i => j < i \/ (i < j /\ q <= j)
        BY <1>10, <2>1, <2>7
      <3>2. \A j \in 1..n : j # i => rows[j].at # rows[i].at
        BY <2>4, <2>5, <2>7, <3>1
      <3> QED BY <1>7, <3>2, TurnedFacts DEF n
    <2>8. p[q] = to
      BY <1>11, <2>1, <2>3, <2>7
    <2>9. \A i \in 1..n : i < q => p[i] < to
      BY <1>11, <2>3, <2>6
    <2>10. \A i \in 1..n : i > q => p[i] > to
      BY <1>11, <2>1, <2>3, <2>7
    <2>11. to \in Int /\ \A i \in 1..n : p[i] \in Int
      BY <1>7, <1>10, <2>1, <2>8, Bounds DEF Messages
    <2>12. after = (q + 1)..n
      <3>1. \A i \in 1..n : i < q \/ i = q \/ i > q
        BY <2>1
      <3>2. \A i \in 1..n : p[i] > to <=> i > q
        BY <2>8, <2>9, <2>10, <2>11, <3>1
      <3> QED BY <1>10, <2>1, <3>2
    <2>13. Cardinality(after) = n - q
      <3>1. q + 1 \in Int /\ n \in Int
        BY <1>10, <2>1
      <3>2. Cardinality((q + 1)..n) = IF q + 1 > n THEN 0 ELSE n - (q + 1) + 1
        BY <3>1, FS_Interval
      <3>3. Cardinality(after) = IF q + 1 > n THEN 0 ELSE n - (q + 1) + 1
        BY <2>12, <3>2
      <3> HIDE DEF after
      <3> QED BY <1>10, <2>1, <3>3
    <2>14. n - (n - q) = q /\ \A i \in (q + 1)..n : i > q
      BY <1>10, <2>1
    <2>15. p[n - Cardinality(after)] = to /\ \A i \in after : i > n - Cardinality(after)
      BY <2>8, <2>12, <2>13, <2>14
    <2> QED BY <1>1, <1>7, <2>15 DEF Answers
  <1> QED BY <1>4, <1>10, <1>12, <1>13

LEMMA PromptInit == ASSUME Init PROVE PromptInv
  BY DEF Init, PromptInv, Idle

\* Other calls' exchanges are only added to, or shaken.
LEMMA PromptStep == ASSUME ChatTyped, PromptInv, Next PROVE PromptInv'
  <1>1. PICK t \in Tasks :
          \/ \E c \in Chats :
               \/ CreateChat(t, c) \/ AddMessage(t, c) \/ DeleteChat(t, c)
               \/ \E i \in DOMAIN table[c] : DeleteMessage(t, c, i)
               \/ SnapshotBegin(t, c) \/ Ask(t, c)
               \/ \E d \in Chats : ForkBegin(t, c, d)
          \/ \E s \in Snaps : DeleteSnapshot(t, s) \/ RestoreBegin(t, s)
          \/ Step(t)
    BY DEF Next
  <1>2. Kept(t)
    BY <1>1, CreateChatStep, AddMessageStep, DeleteChatStep, DeleteMessageStep, SnapshotBeginStep,
       AskStep, ForkBeginStep, DeleteSnapshotStep, RestoreBeginStep, DumpStep, KeepSnapshotStep,
       BranchStep, CountStep, CopyPageStep, ForkDoneStep, RestoreStep, ReadPromptStep, ReplyStep,
       NoReplyStep DEF Step
  <1>3. ASSUME NEW u \in Tasks \ {t}, u \notin shaken'
        PROVE (call[u].pc = "prompt" => Asked(u))' /\ (call[u].pc = "reply" => Answers(u))'
    <2>1. call'[u] = call[u] /\ u \notin shaken
      BY <1>2, <1>3 DEF Kept, Others
    <2>2. call[u].pc = "prompt" => Asked(u)'
      BY <1>2, <1>3, <2>1, AskedStays DEF PromptInv
    <2>3. Answers(u) => Answers(u)'
      BY <2>1 DEF Answers
    <2> QED BY <2>1, <2>2, <2>3 DEF PromptInv
  <1>4. ASSUME t \notin shaken'
        PROVE (call[t].pc = "prompt" => Asked(t))' /\ (call[t].pc = "reply" => Answers(t))'
    <2>1. CASE \E c \in Chats : Ask(t, c)
      BY <2>1, AskStep, AskAsks DEF Opened
    <2>2. CASE ReadPrompt(t)
      <3>1. t \notin shaken /\ Asked(t)
        BY <1>4, <2>2 DEF ReadPrompt, At, PromptInv
      <3> QED BY <2>2, <3>1, ReadPromptStep, ReadAnswers
    <2>3. CASE Branch(t) \/ Count(t) \/ CopyPage(t)
      BY <2>3, BranchStep, CountStep, CopyPageStep DEF Went, Copied, Idle
    <2>4. CASE call'[t].pc \notin Inside
      BY <2>4 DEF Inside
    <2> QED BY <1>1, <2>1, <2>2, <2>3, <2>4, Elsewhere DEF Step
  <1> QED BY <1>3, <1>4 DEF PromptInv

\* The question a reply answers is in its prompt, where nothing older follows it
\* (daemon_server.py _msg_stream, project_store.py list_messages).
THEOREM QuestionIsInPrompt == Spec => []QuestionInPrompt
  <1> DEFINE I == ChatTyped /\ PromptInv
  <1>1. ASSUME I, [Next]_vars PROVE I'
    <2>1. CASE Next
      BY <1>1, <2>1, EveryStep, PromptStep DEF Kept
    <2>2. CASE UNCHANGED vars
      <3>1. \A t \in Tasks : (Asked(t) => Asked(t)') /\ (Answers(t) => Answers(t)')
        BY <2>2 DEF vars, Asked, Question, Answers, Chat
      <3> QED BY <1>1, <2>2, <3>1, Stutters DEF vars, PromptInv
    <2> QED BY <1>1, <2>1, <2>2
  <1>2. Init => I
    BY TypedInit, PromptInit
  <1>3. Spec => []I
    BY <1>1, <1>2, PTL DEF Spec
  <1>4. I => QuestionInPrompt
    BY PromptShows
  <1> QED BY <1>3, <1>4, PTL

-----------------------------------------------------------------------------
(* The copy of a fork *)

\* Before it counts, a fork's new chat holds none of the messages of its source.
Apart(t) ==
  \A p \in 1..Len(table[Dest(t)]) : \A i \in 1..Len(table[Chat(t)]) :
    table[Dest(t)][p].msg # table[Chat(t)][i].msg

\* The rows it has copied follow this one; "place" says where they are in the new chat,
\* whose other rows, and those the source got later, are no messages of the part that
\* was counted.
Low(t) == call[t].to - Smaller(ForkCap, call[t].to)
Copies(t) == call[t].from - Low(t)
Placed(t, place) ==
  LET rows == table[Chat(t)]
      new == table[Dest(t)]
  IN  /\ \A i, j \in 1..Copies(t) : i < j => place[i] < place[j]
      /\ \A i \in 1..Copies(t) : new[place[i]].msg = rows[Low(t) + i].msg
      /\ \A p \in 1..Len(new) :
           \/ \E i \in 1..Copies(t) : p = place[i]
           \/ \A i \in 1..call[t].to : new[p].msg # rows[i].msg
Places(t) == [1..Copies(t) -> 1..Len(table[Dest(t)])]
Counted(t) ==
  /\ call[t].to <= Len(table[Chat(t)])
  /\ Low(t) <= call[t].from /\ call[t].from <= Len(table[Chat(t)])
  /\ \A i \in 1..call[t].to : \A j \in 1..Len(table[Chat(t)]) :
       j > call[t].to => table[Chat(t)][j].msg # table[Chat(t)][i].msg
Copying(t) == Counted(t) /\ \E place \in Places(t) : Placed(t, place)

ForkInv ==
  \A t \in Tasks \ shaken :
    /\ call[t].pc = "count" => Apart(t)
    /\ call[t].pc = "copy" => Copying(t)

\* Both chats of a fork that counts or copies.
LEMMA TwoChats ==
  ASSUME ChatTyped, NEW t \in Tasks, call[t].pc \in {"count", "copy"}
  PROVE /\ Chat(t) \in Chats /\ Dest(t) \in Chats /\ Dest(t) # Chat(t)
        /\ Len(table[Chat(t)]) \in Nat /\ Len(table[Dest(t)]) \in Nat /\ call[t].from \in Nat /\ call[t].to \in Nat
        /\ \A c \in Chats : \A i \in 1..Len(table[c]) : table[c][i].msg \in Nat /\ table[c][i].msg <= said
  <1>1. CountsOk /\ TablesOk /\ CallsOk
    BY DEF ChatTyped
  <1>2. call[t] \in Calls /\ CallOk(t)
    BY <1>1 DEF CallsOk
  <1>3. Chat(t) \in Chats /\ Dest(t) \in Chats /\ Dest(t) # Chat(t)
    BY <1>1, <1>2 DEF CallOk, CountsOk
  <1>4. \A c \in Chats : table[c] \in Seq(Rows) /\ RowsOk(table[c])
    BY <1>1 DEF TablesOk
  <1>5. Len(table[Chat(t)]) \in Nat /\ Len(table[Dest(t)]) \in Nat
    BY <1>3, <1>4
  <1>6. ASSUME NEW c \in Chats, NEW i \in 1..Len(table[c]) PROVE table[c][i].msg \in Nat /\ table[c][i].msg <= said
    <2>1. table[c][i] \in Rows /\ i \in DOMAIN table[c]
      BY <1>4
    <2> QED BY <1>4, <2>1, Bounds DEF RowsOk, Rows, Messages
  <1> QED BY <1>2, <1>3, <1>5, <1>6 DEF Calls

\* What becomes of the two chats in a step of another call.
LEMMA TwoChatsMove ==
  ASSUME ChatTyped, NEW t \in Tasks, Kept(t), NEW u \in Tasks \ {t}, u \notin shaken', call[u].pc \in {"count", "copy"}
  PROVE /\ call'[u] = call[u] /\ Chat(u)' = Chat(u) /\ Dest(u)' = Dest(u)
        /\ \/ table'[Chat(u)] = table[Chat(u)] /\ table'[Dest(u)] = table[Dest(u)]
           \/ Spoken(Chat(u)) /\ table'[Dest(u)] = table[Dest(u)]
           \/ Spoken(Dest(u)) /\ table'[Chat(u)] = table[Chat(u)]
  <1>1. Chat(u) \in Chats /\ Dest(u) \in Chats /\ Dest(u) # Chat(u)
    BY TwoChats
  <1>2. call'[u] = call[u]
    BY DEF Kept, Others
  <1>3. \/ table' = table
        \/ \E c \in Chats : Spoken(c)
        \/ \E c \in Chats : Shook(t, c)
    BY DEF Kept, Others
  <1>4. ASSUME NEW c \in Chats, Spoken(c)
        PROVE \/ table'[Chat(u)] = table[Chat(u)] /\ table'[Dest(u)] = table[Dest(u)]
              \/ Spoken(Chat(u)) /\ table'[Dest(u)] = table[Dest(u)]
              \/ Spoken(Dest(u)) /\ table'[Chat(u)] = table[Chat(u)]
    BY <1>1, <1>4 DEF Spoken
  <1>5. ASSUME NEW c \in Chats, Shook(t, c)
        PROVE table'[Chat(u)] = table[Chat(u)] /\ table'[Dest(u)] = table[Dest(u)]
    BY <1>1, <1>5 DEF Shook
  <1> QED BY <1>2, <1>3, <1>4, <1>5 DEF Chat, Dest

LEMMA ApartStays ==
  ASSUME ChatTyped, NEW t \in Tasks, Kept(t), NEW u \in Tasks \ {t}, u \notin shaken', call[u].pc = "count", Apart(u)
  PROVE Apart(u)'
  <1> DEFINE c == Chat(u)
             d == Dest(u)
  <1>1. /\ c \in Chats /\ d \in Chats /\ Len(table[c]) \in Nat /\ Len(table[d]) \in Nat
        /\ \A b \in Chats : \A i \in 1..Len(table[b]) : table[b][i].msg \in Nat /\ table[b][i].msg <= said
    BY TwoChats
  <1>2. /\ Chat(u)' = c /\ Dest(u)' = d
        /\ \/ table'[c] = table[c] /\ table'[d] = table[d]
           \/ Spoken(c) /\ table'[d] = table[d]
           \/ Spoken(d) /\ table'[c] = table[c]
    BY TwoChatsMove
  <1>3. CountsOk /\ TablesOk /\ said \in Nat
    BY CountsNat DEF ChatTyped
  <1>4. \A p \in 1..Len(table[d]) : \A i \in 1..Len(table[c]) : table[d][p].msg # table[c][i].msg
    BY DEF Apart
  <1> HIDE DEF c, d
  <1>5. CASE table'[c] = table[c] /\ table'[d] = table[d]
    BY <1>2, <1>4, <1>5 DEF Apart
  <1>6. CASE Spoken(c) /\ table'[d] = table[d]
    <2> DEFINE n == Len(table[c])
    <2>1. /\ n \in Nat /\ Len(table'[c]) = n + 1 /\ table'[c][n + 1].msg = said + 1
          /\ \A i \in 1..n : table'[c][i] = table[c][i]
      BY <1>1, <1>3, <1>6, SpokenLast
    <2>2. \A i \in 1..(n + 1) : i \in 1..n \/ i = n + 1
      BY <2>1
    <2>3. \A p \in 1..Len(table[d]) : table[d][p].msg # said + 1
      BY <1>1, <1>3
    <2>4. \A i \in 1..(n + 1) : \A p \in 1..Len(table[d]) : table[d][p].msg # table'[c][i].msg
      BY <1>4, <2>1, <2>2, <2>3
    <2> QED BY <1>2, <1>6, <2>1, <2>4 DEF Apart
  <1>7. CASE Spoken(d) /\ table'[c] = table[c]
    <2> DEFINE n == Len(table[d])
    <2>1. /\ n \in Nat /\ Len(table'[d]) = n + 1 /\ table'[d][n + 1].msg = said + 1
          /\ \A i \in 1..n : table'[d][i] = table[d][i]
      BY <1>1, <1>3, <1>7, SpokenLast
    <2>2. \A i \in 1..(n + 1) : i \in 1..n \/ i = n + 1
      BY <2>1
    <2>3. \A p \in 1..Len(table[c]) : table[c][p].msg # said + 1
      BY <1>1, <1>3
    <2>4. \A p \in 1..(n + 1) : \A i \in 1..Len(table[c]) : table'[d][p].msg # table[c][i].msg
      BY <1>4, <2>1, <2>2, <2>3
    <2> QED BY <1>2, <1>7, <2>1, <2>4 DEF Apart
  <1> QED BY <1>2, <1>5, <1>6, <1>7

LEMMA CopyingStays ==
  ASSUME ChatTyped, NEW t \in Tasks, Kept(t), NEW u \in Tasks \ {t}, u \notin shaken', call[u].pc = "copy", Copying(u)
  PROVE Copying(u)'
  <1> DEFINE c == Chat(u)
             d == Dest(u)
             to == call[u].to
  <1>1. /\ c \in Chats /\ d \in Chats /\ Len(table[c]) \in Nat /\ Len(table[d]) \in Nat /\ to \in Nat
        /\ call[u].from \in Nat
        /\ \A b \in Chats : \A i \in 1..Len(table[b]) : table[b][i].msg \in Nat /\ table[b][i].msg <= said
    BY TwoChats
  <1>2. /\ Chat(u)' = c /\ Dest(u)' = d /\ call'[u] = call[u]
        /\ \/ table'[c] = table[c] /\ table'[d] = table[d]
           \/ Spoken(c) /\ table'[d] = table[d]
           \/ Spoken(d) /\ table'[c] = table[c]
    BY TwoChatsMove
  <1>3. CountsOk /\ TablesOk /\ said \in Nat
    BY CountsNat DEF ChatTyped
  <1>4. Low(u)' = Low(u) /\ Copies(u)' = Copies(u) /\ call'[u].to = to /\ call'[u].from = call[u].from
    BY <1>2 DEF Low, Copies
  <1>5. PICK place \in Places(u) : Placed(u, place)
    BY DEF Copying
  <1>6. /\ \A i, j \in 1..Copies(u) : i < j => place[i] < place[j]
        /\ \A i \in 1..Copies(u) : table[d][place[i]].msg = table[c][Low(u) + i].msg
        /\ \A p \in 1..Len(table[d]) :
             \/ \E i \in 1..Copies(u) : p = place[i]
             \/ \A i \in 1..to : table[d][p].msg # table[c][i].msg
    BY <1>5 DEF Placed
  <1>7. /\ to <= Len(table[c]) /\ Low(u) <= call[u].from /\ call[u].from <= Len(table[c])
        /\ \A i \in 1..to : \A j \in 1..Len(table[c]) : j > to => table[c][j].msg # table[c][i].msg
    BY DEF Copying, Counted
  <1>8. Low(u) \in Nat /\ Copies(u) \in Nat /\ \A i \in 1..Copies(u) : Low(u) + i \in 1..Len(table[c])
    BY <1>1, <1>7, Caps DEF Low, Copies, Smaller
  <1>9. place \in [1..Copies(u) -> 1..Len(table[d])]
    BY <1>5 DEF Places
  <1> HIDE DEF c, d, to
  <1>10. CASE table'[c] = table[c] /\ table'[d] = table[d]
    <2>1. Placed(u, place)'
      BY <1>2, <1>4, <1>6, <1>10 DEF Placed
    <2>2. Counted(u)'
      BY <1>2, <1>4, <1>7, <1>10 DEF Counted
    <2>3. place \in Places(u)'
      BY <1>2, <1>4, <1>9, <1>10 DEF Places
    <2> QED BY <2>1, <2>2, <2>3 DEF Copying
  <1>11. CASE Spoken(c) /\ table'[d] = table[d]
    <2> DEFINE n == Len(table[c])
    <2>1. /\ n \in Nat /\ Len(table'[c]) = n + 1 /\ table'[c][n + 1].msg = said + 1
          /\ \A i \in 1..n : table'[c][i] = table[c][i]
      BY <1>1, <1>3, <1>11, SpokenLast
    <2>2. \A i \in 1..to : i \in 1..n
      BY <1>1, <1>7
    <2>3. \A i \in 1..(n + 1) : i \in 1..n \/ i = n + 1
      BY <2>1
    <2>4. \A i \in 1..to : table'[c][i] = table[c][i] /\ table[c][i].msg # said + 1
      BY <1>1, <1>3, <2>1, <2>2
    <2>5. \A i \in 1..Copies(u) : table'[c][Low(u) + i] = table[c][Low(u) + i]
      BY <1>8, <2>1
    <2>6. Placed(u, place)'
      BY <1>2, <1>4, <1>6, <1>11, <2>4, <2>5 DEF Placed
    <2>7. \A i \in 1..to : \A j \in 1..(n + 1) : j > to => table'[c][j].msg # table'[c][i].msg
      BY <1>7, <2>1, <2>3, <2>4
    <2>8. to <= n + 1 /\ call[u].from <= n + 1
      BY <1>1, <1>7, <2>1
    <2>9. Counted(u)'
      BY <1>2, <1>4, <1>7, <2>1, <2>7, <2>8 DEF Counted
    <2>10. place \in Places(u)'
      BY <1>2, <1>4, <1>9, <1>11 DEF Places
    <2> QED BY <2>6, <2>9, <2>10 DEF Copying
  <1>12. CASE Spoken(d) /\ table'[c] = table[c]
    <2> DEFINE n == Len(table[d])
    <2>1. /\ n \in Nat /\ Len(table'[d]) = n + 1 /\ table'[d][n + 1].msg = said + 1
          /\ \A i \in 1..n : table'[d][i] = table[d][i]
      BY <1>1, <1>3, <1>12, SpokenLast
    <2>2. \A i \in 1..(n + 1) : i \in 1..n \/ i = n + 1
      BY <2>1
    <2>3. \A i \in 1..to : said + 1 # table[c][i].msg
      <3>1. \A i \in 1..to : i \in 1..Len(table[c])
        BY <1>1, <1>7
      <3> QED BY <1>1, <1>3, <3>1
    <2>4. \A i \in 1..Copies(u) : place[i] \in 1..n
      BY <1>9
    <2>5. \A i \in 1..Copies(u) : table'[d][place[i]].msg = table[c][Low(u) + i].msg
      BY <1>6, <2>1, <2>4
    <2>6. \A p \in 1..(n + 1) :
             \/ \E i \in 1..Copies(u) : p = place[i]
             \/ \A i \in 1..to : table'[d][p].msg # table[c][i].msg
      BY <1>6, <2>1, <2>2, <2>3
    <2>7. Placed(u, place)'
      BY <1>2, <1>4, <1>6, <1>12, <2>1, <2>5, <2>6 DEF Placed
    <2>8. Counted(u)'
      BY <1>2, <1>4, <1>7, <1>12 DEF Counted
    <2>9. place \in [1..Copies(u) -> 1..(n + 1)]
      <3>1. \A p \in 1..n : p \in 1..(n + 1)
        BY <2>1
      <3> QED BY <1>9, <3>1
    <2>10. place \in Places(u)'
      BY <1>2, <1>4, <2>1, <2>9 DEF Places
    <2> QED BY <2>7, <2>8, <2>10 DEF Copying
  <1> QED BY <1>2, <1>10, <1>11, <1>12

\* A chat that has just been made has no messages.
LEMMA BranchApart == ASSUME ChatTyped, NEW t \in Tasks, Branch(t) PROVE Apart(t)'
  <1>1. Went(t, "count") /\ table[Dest(t)] = <<>> /\ table' = table
    BY BranchStep
  <1>2. Len(<<>>) = 0 /\ 1..0 = {}
    OBVIOUS
  <1> QED BY <1>1, <1>2 DEF Went, Apart, Chat, Dest

LEMMA CountCopies == ASSUME ChatTyped, NEW t \in Tasks, Count(t), Apart(t) PROVE Copying(t)'
  <1> DEFINE c == Chat(t)
             d == Dest(t)
             n == Len(table[c])
  <1>1. /\ Went(t, "copy") /\ call'[t].to = n /\ call'[t].from = n - Smaller(ForkCap, n) /\ table' = table
    BY CountStep
  <1>2. Chat(t)' = c /\ Dest(t)' = d
    BY <1>1 DEF Went, Chat, Dest
  <1>3. call[t].pc = "count"
    BY DEF Count, At
  <1>4. n \in Nat /\ Len(table[d]) \in Nat
    BY <1>3, TwoChats
  <1>5. \A p \in 1..Len(table[d]) : \A i \in 1..n : table[d][p].msg # table[c][i].msg
    BY DEF Apart
  <1> HIDE DEF n
  <1>6. Low(t)' = n - Smaller(ForkCap, n) /\ Smaller(ForkCap, n) \in 0..n
    BY <1>1, <1>4, Caps DEF Low, Smaller
  <1>7. Copies(t)' = 0
    BY <1>1, <1>4, <1>6 DEF Copies
  <1>8. Low(t)' <= call'[t].from /\ call'[t].from <= n
    BY <1>1, <1>4, <1>6
  <1>9. \A j \in 1..n : ~(j > n)
    BY <1>4
  <1>10. Counted(t)'
    BY <1>1, <1>2, <1>4, <1>8, <1>9 DEF Counted, n
  <1> DEFINE place == [i \in {} |-> 0]
  <1>11. 1..0 = {}
    OBVIOUS
  <1>12. place \in Places(t)'
    BY <1>7, <1>11 DEF Places
  <1>13. Placed(t, place)'
    BY <1>1, <1>2, <1>5, <1>7, <1>11 DEF Placed
  <1> QED BY <1>10, <1>12, <1>13 DEF Copying

LEMMA PageCopies ==
  ASSUME ChatTyped, NEW t \in Tasks, CopyPage(t), Copied(t), Copying(t) PROVE Copying(t)'
  <1> DEFINE c == Chat(t)
             d == Dest(t)
             to == call[t].to
             page == Page(t)
             n == Len(page)
             m == Len(table[d])
             k == Copies(t)
             low == Low(t)
  <1>1. call[t].pc = "copy"
    BY DEF CopyPage, At
  <1>2. c \in Chats /\ d \in Chats /\ d # c /\ m \in Nat /\ Len(table[c]) \in Nat /\ to \in Nat /\ call[t].from \in Nat
    BY <1>1, TwoChats
  <1>3. /\ n \in Nat /\ n > 0 /\ call[t].from + n <= Len(table[c])
        /\ \A i \in 1..n : page[i] = table[c][call[t].from + i].msg
    <2>1. page # <<>> /\ page \in Seq(Messages)
      BY <1>2, PageFacts DEF Copied
    <2>2. n \in Nat /\ n > 0
      BY <2>1
    <2> QED BY <1>2, <2>2, PageFacts
  <1>4. /\ call'[t].to = to /\ call'[t].from = call[t].from + n /\ Chat(t)' = c /\ Dest(t)' = d
        /\ Len(table'[d]) = m + n /\ table'[c] = table[c]
        /\ \A i \in 1..m : table'[d][i] = table[d][i]
        /\ \A i \in 1..n : table'[d][m + i].msg = page[i]
    BY <1>2 DEF Copied, Went, Chat, Dest
  <1>5. PICK place \in Places(t) : Placed(t, place)
    BY DEF Copying
  <1>6. /\ \A i, j \in 1..k : i < j => place[i] < place[j]
        /\ \A i \in 1..k : table[d][place[i]].msg = table[c][low + i].msg
        /\ \A p \in 1..m :
             \/ \E i \in 1..k : p = place[i]
             \/ \A i \in 1..to : table[d][p].msg # table[c][i].msg
    BY <1>5 DEF Placed
  <1>7. /\ to <= Len(table[c]) /\ low <= call[t].from
        /\ \A i \in 1..to : \A j \in 1..Len(table[c]) : j > to => table[c][j].msg # table[c][i].msg
    BY DEF Copying, Counted
  <1>8. place \in [1..k -> 1..m]
    BY <1>5 DEF Places
  <1>9. low \in Nat /\ k \in Nat /\ call[t].from = low + k
    BY <1>2, <1>7, Caps DEF Low, Copies, Smaller
  <1>10. Low(t)' = low /\ Copies(t)' = k + n
    BY <1>2, <1>3, <1>4, <1>9 DEF Low, Copies
  <1> HIDE DEF c, d, to, page, n, m, k, low
  <1>n. PICK new : new = [i \in 1..(k + n) |-> IF i <= k THEN place[i] ELSE m + (i - k)]
    OBVIOUS
  <1>11. \A i \in 1..(k + n) : i \in 1..k \/ (i > k /\ i - k \in 1..n /\ k + (i - k) = i)
    BY <1>3, <1>9
  <1>12. /\ \A i \in 1..k : new[i] = place[i] /\ new[i] \in 1..m /\ i \in 1..(k + n)
         /\ \A i \in 1..n : new[k + i] = m + i /\ k + i \in 1..(k + n)
    BY <1>n, <1>3, <1>8, <1>9
  <1>13. \A i \in 1..(k + n) : new[i] \in 1..(m + n)
    BY <1>n, <1>2, <1>3, <1>8, <1>9
  <1>14. \A i, j \in 1..(k + n) : i < j => new[i] < new[j]
    <2> SUFFICES ASSUME NEW i \in 1..(k + n), NEW j \in 1..(k + n), i < j PROVE new[i] < new[j]
      OBVIOUS
    <2>1. CASE j \in 1..k
      <3>1. i \in 1..k
        BY <1>9, <2>1
      <3> QED BY <1>6, <1>12, <2>1, <3>1
    <2>2. CASE j \notin 1..k
      <3>1. new[j] = m + (j - k) /\ j > k
        BY <1>n, <1>9, <1>11, <2>2
      <3>2. CASE i \in 1..k
        <4>1. new[i] \in 1..m
          BY <1>12, <3>2
        <4> QED BY <1>2, <1>9, <3>1, <4>1
      <3>3. CASE i \notin 1..k
        <4>1. new[i] = m + (i - k)
          BY <1>n, <1>9, <1>11, <3>3
        <4> QED BY <1>2, <1>9, <3>1, <4>1
      <3> QED BY <3>2, <3>3
    <2> QED BY <2>1, <2>2
  <1>15. \A i \in 1..(k + n) : table'[d][new[i]].msg = table[c][low + i].msg
    <2> SUFFICES ASSUME NEW i \in 1..(k + n) PROVE table'[d][new[i]].msg = table[c][low + i].msg
      OBVIOUS
    <2>1. CASE i \in 1..k
      BY <1>4, <1>6, <1>12, <2>1
    <2>2. CASE i \notin 1..k
      <3>1. i - k \in 1..n /\ k + (i - k) = i
        BY <1>11, <2>2
      <3>2. new[i] = m + (i - k)
        BY <1>12, <3>1
      <3>3. table'[d][new[i]].msg = page[i - k]
        BY <1>4, <3>1, <3>2
      <3>4. call[t].from + (i - k) = low + i
        BY <1>9
      <3> QED BY <1>3, <3>1, <3>3, <3>4
    <2> QED BY <2>1, <2>2
  <1>16. \A p \in 1..(m + n) :
           \/ \E i \in 1..(k + n) : p = new[i]
           \/ \A i \in 1..to : table'[d][p].msg # table[c][i].msg
    <2> SUFFICES ASSUME NEW p \in 1..(m + n)
                 PROVE \/ \E i \in 1..(k + n) : p = new[i]
                       \/ \A i \in 1..to : table'[d][p].msg # table[c][i].msg
      OBVIOUS
    <2>1. CASE p \in 1..m
      BY <1>4, <1>6, <1>12, <2>1
    <2>2. CASE p \notin 1..m
      <3>1. p - m \in 1..n /\ m + (p - m) = p
        BY <1>2, <1>3, <2>2
      <3> QED BY <1>12, <3>1
    <2> QED BY <2>1, <2>2
  <1>17. Placed(t, new)'
    BY <1>4, <1>10, <1>14, <1>15, <1>16 DEF Placed
  <1>18. new \in [1..(k + n) -> 1..(m + n)]
    BY <1>n, <1>13
  <1>19. new \in Places(t)'
    BY <1>4, <1>10, <1>18 DEF Places
  <1>20. low <= call[t].from + n
    BY <1>2, <1>3, <1>7, <1>9
  <1>21. Counted(t)'
    BY <1>3, <1>4, <1>7, <1>10, <1>20 DEF Counted
  <1> QED BY <1>17, <1>19, <1>21 DEF Copying

LEMMA Offsets ==
  ASSUME NEW to \in Nat, NEW from \in Nat, NEW n \in 0..to, to - n <= from
  PROVE to - n \in Nat /\ from - (to - n) \in Nat /\ from = to - n + (from - (to - n)) /\ to - n + n = to
  OBVIOUS

\* The places of the copies, cut to what was counted, are those of the fork.
LEMMA ForkShows == ASSUME ChatTyped, ForkInv PROVE ForkComplete
  <1> SUFFICES ASSUME NEW t \in Tasks, At(t, "copy"), call[t].from >= call[t].to, t \notin shaken
               PROVE LET source == SubSeq(Listing(Chat(t)), 1, call[t].to)
                         fork == LastOf(source, ForkCap)
                         dest == Listing(call[t].dest)
                         copies == {p \in DOMAIN dest : \E i \in DOMAIN source : dest[p] = source[i]}
                     IN  \E place \in [DOMAIN fork -> copies] :
                           /\ \A i, j \in DOMAIN fork : i < j => place[i] < place[j]
                           /\ \A i \in DOMAIN fork : dest[place[i]] = fork[i]
                           /\ copies = {place[i] : i \in DOMAIN fork}
    BY DEF ForkComplete
  <1> DEFINE c == Chat(t)
             d == Dest(t)
             to == call[t].to
             m == Len(table[d])
             k == Copies(t)
             low == Low(t)
             source == SubSeq(Listing(c), 1, to)
             fork == LastOf(source, ForkCap)
             dest == Listing(d)
             copies == {p \in DOMAIN dest : \E i \in DOMAIN source : dest[p] = source[i]}
             n == Smaller(ForkCap, to)
  <1>1. call[t].pc = "copy" /\ Copying(t)
    BY DEF At, ForkInv
  <1>2. c \in Chats /\ d \in Chats /\ m \in Nat /\ Len(table[c]) \in Nat /\ to \in Nat /\ call[t].from \in Nat
    BY <1>1, TwoChats
  <1>3. PICK place \in Places(t) : Placed(t, place)
    BY <1>1 DEF Copying
  <1>4. /\ \A i, j \in 1..k : i < j => place[i] < place[j]
        /\ \A i \in 1..k : table[d][place[i]].msg = table[c][low + i].msg
        /\ \A p \in 1..m :
             \/ \E i \in 1..k : p = place[i]
             \/ \A i \in 1..to : table[d][p].msg # table[c][i].msg
    BY <1>3 DEF Placed
  <1>5. /\ to <= Len(table[c]) /\ low <= call[t].from /\ call[t].from <= Len(table[c])
        /\ \A i \in 1..to : \A j \in 1..Len(table[c]) : j > to => table[c][j].msg # table[c][i].msg
    BY <1>1 DEF Copying, Counted
  <1>6. place \in [1..k -> 1..m]
    BY <1>3 DEF Places
  <1>7. low \in Nat /\ k \in Nat /\ call[t].from = low + k /\ n \in 0..to /\ low + n = to
    <2>1. n \in 0..to
      BY <1>2, Caps DEF Smaller
    <2>2. low = to - n /\ k = call[t].from - low
      BY DEF Low, Copies
    <2>3. to \in Nat /\ call[t].from \in Nat /\ to - n <= call[t].from
      BY <1>2, <1>5, <2>2
    <2>4. to - n \in Nat /\ call[t].from - (to - n) \in Nat /\ call[t].from = to - n + (call[t].from - (to - n))
          /\ to - n + n = to
      BY <2>1, <2>3, Offsets
    <2> HIDE DEF low, k, n, to
    <2> QED BY <2>1, <2>2, <2>4
  <1>8. n <= k
    BY <1>2, <1>7
  <1>9. table[c] \in Seq(Rows) /\ table[d] \in Seq(Rows)
    BY <1>2 DEF ChatTyped, TablesOk
  <1>10. /\ Listing(c) \in Seq(Messages) /\ Len(Listing(c)) = Len(table[c])
         /\ \A i \in 1..Len(table[c]) : Listing(c)[i] = table[c][i].msg
    BY <1>9, SaidFacts DEF Listing
  <1>11. dest \in Seq(Messages) /\ Len(dest) = m /\ \A p \in 1..m : dest[p] = table[d][p].msg
    BY <1>9, SaidFacts DEF Listing
  <1>12. DOMAIN dest = 1..m
    BY <1>11
  <1> HIDE DEF c, d, to, m, k, low, dest
  <1>13. source \in Seq(Messages) /\ Len(source) = to /\ \A i \in 1..to : source[i] = table[c][i].msg
    <2>1. \A i \in 1..to : i \in 1..Len(table[c]) /\ Listing(c)[i] \in Messages
      BY <1>2, <1>5, <1>10
    <2>2. /\ source \in Seq(Messages) /\ Len(source) = IF 1 <= to THEN to - 1 + 1 ELSE 0
          /\ \A i \in 1..(to - 1 + 1) : source[i] = Listing(c)[1 + i - 1]
      BY <1>2, <2>1, SubSeqProperties
    <2> QED BY <1>2, <1>10, <2>1, <2>2
  <1>14. DOMAIN source = 1..to
    BY <1>13
  <1> HIDE DEF source
  <1>15. Len(fork) = n /\ fork \in Seq(Messages) /\ \A i \in 1..n : fork[i] = source[to - n + i]
    BY <1>13, Caps, LastFacts
  <1>16. DOMAIN fork = 1..n
    BY <1>15
  <1>17. \A i \in 1..n : i \in 1..k /\ to - n + i = low + i /\ low + i \in 1..to
    BY <1>2, <1>7, <1>8
  <1>18. \A i \in 1..n : fork[i] = table[c][low + i].msg
    BY <1>13, <1>15, <1>17
  <1> HIDE DEF fork, n
  <1>19. \A i \in 1..n : place[i] \in 1..m /\ dest[place[i]] = fork[i]
    BY <1>4, <1>6, <1>11, <1>17, <1>18
  <1>20. \A i \in 1..n : place[i] \in copies
    BY <1>12, <1>13, <1>14, <1>17, <1>18, <1>19
  <1>21. ASSUME NEW p \in copies PROVE \E i \in 1..n : p = place[i]
    <2>1. PICK j \in 1..to : dest[p] = source[j] /\ p \in 1..m
      BY <1>12, <1>14, <1>21
    <2>2. table[d][p].msg = table[c][j].msg
      BY <1>11, <1>13, <2>1
    <2>3. PICK i \in 1..k : p = place[i]
      BY <1>4, <2>1, <2>2
    <2>4. table[c][low + i].msg = table[c][j].msg
      BY <1>4, <2>2, <2>3
    <2>5. low + i \in 1..Len(table[c])
      BY <1>2, <1>5, <1>7
    <2>6. ~(low + i > to)
      BY <1>5, <2>4, <2>5
    <2>7. i \in 1..n
      BY <1>2, <1>7, <2>6
    <2> QED BY <2>3, <2>7
  <1> DEFINE mine == [i \in 1..n |-> place[i]]
  <1>22. mine \in [DOMAIN fork -> copies]
    BY <1>16, <1>20
  <1>23. \A i, j \in DOMAIN fork : i < j => mine[i] < mine[j]
    BY <1>4, <1>16, <1>17
  <1>24. \A i \in DOMAIN fork : dest[mine[i]] = fork[i]
    BY <1>16, <1>19
  <1>25. copies = {mine[i] : i \in DOMAIN fork}
    BY <1>16, <1>20, <1>21
  <1> HIDE DEF mine, copies
  <1>26. \E q \in [DOMAIN fork -> copies] :
           /\ \A i, j \in DOMAIN fork : i < j => q[i] < q[j]
           /\ \A i \in DOMAIN fork : dest[q[i]] = fork[i]
           /\ copies = {q[i] : i \in DOMAIN fork}
    BY <1>22, <1>23, <1>24, <1>25
  <1> QED BY <1>26 DEF copies, fork, source, dest, c, d, to, Dest

LEMMA ForkInit == ASSUME Init PROVE ForkInv
  BY DEF Init, ForkInv, Idle

LEMMA ForkStep == ASSUME ChatTyped, ForkInv, Next PROVE ForkInv'
  <1>1. PICK t \in Tasks :
          \/ \E c \in Chats :
               \/ CreateChat(t, c) \/ AddMessage(t, c) \/ DeleteChat(t, c)
               \/ \E i \in DOMAIN table[c] : DeleteMessage(t, c, i)
               \/ SnapshotBegin(t, c) \/ Ask(t, c)
               \/ \E d \in Chats : ForkBegin(t, c, d)
          \/ \E s \in Snaps : DeleteSnapshot(t, s) \/ RestoreBegin(t, s)
          \/ Step(t)
    BY DEF Next
  <1>2. Kept(t)
    BY <1>1, CreateChatStep, AddMessageStep, DeleteChatStep, DeleteMessageStep, SnapshotBeginStep,
       AskStep, ForkBeginStep, DeleteSnapshotStep, RestoreBeginStep, DumpStep, KeepSnapshotStep,
       BranchStep, CountStep, CopyPageStep, ForkDoneStep, RestoreStep, ReadPromptStep, ReplyStep,
       NoReplyStep DEF Step
  <1>3. ASSUME NEW u \in Tasks \ {t}, u \notin shaken'
        PROVE (call[u].pc = "count" => Apart(u))' /\ (call[u].pc = "copy" => Copying(u))'
    <2>1. call'[u] = call[u] /\ u \notin shaken
      BY <1>2, <1>3 DEF Kept, Others
    <2> QED BY <1>2, <1>3, <2>1, ApartStays, CopyingStays DEF ForkInv
  <1>4. ASSUME t \notin shaken'
        PROVE (call[t].pc = "count" => Apart(t))' /\ (call[t].pc = "copy" => Copying(t))'
    <2>1. CASE \E c \in Chats : Ask(t, c)
      BY <2>1, AskStep DEF Opened
    <2>2. CASE ReadPrompt(t)
      BY <2>2, ReadPromptStep
    <2>3. CASE Branch(t)
      BY <2>3, BranchStep, BranchApart DEF Went
    <2>4. CASE Count(t)
      <3>1. call[t].pc = "count" /\ t \notin shaken
        BY <1>4, <2>4, CountStep DEF Count, At
      <3> QED BY <2>4, <3>1, CountStep, CountCopies DEF Went, ForkInv
    <2>5. CASE CopyPage(t)
      <3>1. CASE call'[t] = Idle
        BY <3>1 DEF Idle
      <3>2. CASE Copied(t)
        <4>1. call[t].pc = "copy" /\ t \notin shaken
          BY <1>4, <2>5, <3>2 DEF CopyPage, At, Copied
        <4> QED BY <2>5, <3>2, <4>1, PageCopies DEF ForkInv, Copied, Went
      <3> QED BY <2>5, <3>1, <3>2, CopyPageStep
    <2>6. CASE call'[t].pc \notin Inside
      BY <2>6 DEF Inside
    <2> QED BY <1>1, <2>1, <2>2, <2>3, <2>4, <2>5, <2>6, Elsewhere DEF Step
  <1> QED BY <1>3, <1>4 DEF ForkInv

\* A fork that is done holds its source's most recent messages, once and in order
\* (chat_manager.py fork_chat).
THEOREM ForksAreComplete == Spec => []ForkComplete
  <1> DEFINE I == ChatTyped /\ ForkInv
  <1>1. ASSUME I, [Next]_vars PROVE I'
    <2>1. CASE Next
      BY <1>1, <2>1, EveryStep, ForkStep DEF Kept
    <2>2. CASE UNCHANGED vars
      <3>1. \A t \in Tasks : (Apart(t) => Apart(t)') /\ (Copying(t) => Copying(t)')
        BY <2>2 DEF vars, Apart, Copying, Counted, Places, Placed, Copies, Low, Chat, Dest
      <3> QED BY <1>1, <2>2, <3>1, Stutters DEF vars, ForkInv
    <2> QED BY <1>1, <2>1, <2>2
  <1>2. Init => I
    BY TypedInit, ForkInit
  <1>3. Spec => []I
    BY <1>1, <1>2, PTL DEF Spec
  <1>4. I => ForkComplete
    BY ForkShows
  <1> QED BY <1>3, <1>4, PTL

-----------------------------------------------------------------------------
(* Where messages get to *)

\* A snapshot's row is new, and only a fork has a second chat.
Early == {"dump", "keep", "branch"}
SnapsFresh == \A s \in Snaps \ usedSnaps : snaps[s] = Absent
ForksOnly == \A t \in Tasks : Dest(t) # NoChat => call[t].pc \in Early \cup {"count", "copy"}
FlowInv == ChatTyped /\ SnapsFresh /\ ForksOnly

LEMMA SnapsFreshStep == ASSUME FlowInv, NEW t \in Tasks, KeepSnapshot(t) PROVE SnapsFresh'
  <1>1. CASE Chat(t) \in chats
    <2>1. PICK s \in Snaps \ usedSnaps :
            /\ usedSnaps' = usedSnaps \cup {s}
            /\ snaps' = [snaps EXCEPT ![s] = [chat |-> Chat(t), msgs |-> call[t].msgs]]
      BY <1>1 DEF KeepSnapshot
    <2> QED BY <2>1 DEF SnapsFresh, FlowInv
  <1>2. CASE Chat(t) \notin chats
    BY <1>2 DEF KeepSnapshot, SnapsFresh, FlowInv
  <1> QED BY <1>1, <1>2

LEMMA ForkCalls == ASSUME ChatTyped PROVE
  \A t \in Tasks : /\ call \in [Tasks -> Calls] /\ call[t] \in Calls /\ Idle \in Calls
                   /\ Idle.dest = NoChat /\ Idle.chat = NoChat /\ Idle.msgs = <<>> /\ Idle.pc = "idle"
  <1>1. Idle \in Calls
    BY IdleOk DEF Idle, Calls
  <1> QED BY <1>1 DEF ChatTyped, CallsOk, Idle

\* How the record of a call moves on.
LEMMA Moves ==
  ASSUME ChatTyped, NEW t \in Tasks
  PROVE /\ Dump(t) => Went(t, "keep") /\ call'[t].msgs = Recent(Chat(t), SnapshotCap)
        /\ KeepSnapshot(t) => End(t) \/ (Went(t, "branch") /\ call'[t].msgs = <<>> /\ Chat(t) \in chats)
        /\ Branch(t) => Went(t, "count") /\ call'[t].msgs = call[t].msgs
        /\ Count(t) => Went(t, "copy") /\ call'[t].msgs = call[t].msgs
        /\ CopyPage(t) => \/ End(t) /\ UNCHANGED table
                          \/ Went(t, "copy") /\ call'[t].msgs = call[t].msgs /\ Copied(t) /\ Dest(t) \in chats
        /\ ReadPrompt(t) => Went(t, "reply") /\ call'[t].msgs = Recent(Chat(t), HistoryLimit)
  <1>1. call \in [Tasks -> Calls] /\ call[t] \in Calls /\ <<>> \in Seq(Messages)
    BY ForkCalls
  <1>2. ASSUME NEW r, call' = [call EXCEPT ![t] = r], call' \in [Tasks -> Calls], r.chat = Chat(t), r.dest = Dest(t)
        PROVE Went(t, r.pc) /\ call'[t] = r
    BY <1>1, <1>2 DEF Went
  <1>3. ASSUME Dump(t) PROVE Went(t, "keep") /\ call'[t].msgs = Recent(Chat(t), SnapshotCap)
    <2> DEFINE r == [call[t] EXCEPT !.pc = "keep", !.msgs = Recent(Chat(t), SnapshotCap)]
    <2>1. call' = [call EXCEPT ![t] = r] /\ call' \in [Tasks -> Calls]
      BY <1>3, DumpStep DEF Dump, Kept, ChatTyped, CallsOk
    <2>2. r.pc = "keep" /\ r.chat = Chat(t) /\ r.dest = Dest(t) /\ r.msgs = Recent(Chat(t), SnapshotCap)
      BY <1>1 DEF Calls, Chat, Dest
    <2> HIDE DEF r
    <2> QED BY <1>2, <2>1, <2>2
  <1>4. ASSUME KeepSnapshot(t), ~End(t) PROVE Went(t, "branch") /\ call'[t].msgs = <<>> /\ Chat(t) \in chats
    <2> DEFINE r == [call[t] EXCEPT !.pc = "branch", !.msgs = <<>>]
    <2>1. call' = [call EXCEPT ![t] = r] /\ call' \in [Tasks -> Calls] /\ Chat(t) \in chats
      BY <1>4, KeepSnapshotStep DEF KeepSnapshot, Kept, ChatTyped, CallsOk
    <2>2. r.pc = "branch" /\ r.chat = Chat(t) /\ r.dest = Dest(t) /\ r.msgs = <<>>
      BY <1>1 DEF Calls, Chat, Dest
    <2> HIDE DEF r
    <2> QED BY <1>2, <2>1, <2>2
  <1>5. ASSUME Branch(t) PROVE Went(t, "count") /\ call'[t].msgs = call[t].msgs
    <2>1. call' = [call EXCEPT ![t].pc = "count"]
      BY <1>5 DEF Branch, Goto
    <2> QED BY <1>1, <1>5, <2>1, BranchStep DEF Calls
  <1>6. ASSUME Count(t) PROVE Went(t, "copy") /\ call'[t].msgs = call[t].msgs
    <2> DEFINE r == [call[t] EXCEPT !.pc = "copy", !.to = Len(table[Chat(t)]),
                       !.from = Len(table[Chat(t)]) - Smaller(ForkCap, Len(table[Chat(t)]))]
    <2>1. call' = [call EXCEPT ![t] = r]
      BY <1>6 DEF Count
    <2>2. r.msgs = call[t].msgs
      BY <1>1 DEF Calls
    <2> HIDE DEF r
    <2> QED BY <1>1, <1>6, <2>1, <2>2, CountStep
  <1>7. ASSUME CopyPage(t), ~End(t) PROVE Went(t, "copy") /\ call'[t].msgs = call[t].msgs /\ Copied(t) /\ Dest(t) \in chats
    <2> DEFINE r == [call[t] EXCEPT !.from = @ + Len(Page(t))]
    <2>1. call' = [call EXCEPT ![t] = r] /\ Dest(t) \in chats /\ At(t, "copy") /\ Page(t) # <<>>
      BY <1>7 DEF CopyPage, Dest
    <2>2. r.pc = "copy" /\ r.msgs = call[t].msgs
      BY <1>1, <2>1 DEF Calls, At
    <2> HIDE DEF r
    <2>3. call'[t] = r
      BY <1>1, <2>1
    <2>4. Idle.pc # "copy"
      BY DEF Idle
    <2>5. Copied(t)
      BY <1>7, <2>2, <2>3, <2>4, CopyPageStep
    <2> QED BY <2>1, <2>2, <2>3, <2>5 DEF Copied
  <1>8. ASSUME CopyPage(t), End(t) PROVE UNCHANGED table
    <2>1. call'[t] = Idle /\ Idle.pc # "copy"
      BY <1>8, EndIdles DEF Idle
    <2> QED BY <1>8, <2>1, CopyPageStep DEF Copied, Went
  <1>9. ASSUME ReadPrompt(t) PROVE Went(t, "reply") /\ call'[t].msgs = Recent(Chat(t), HistoryLimit)
    <2> DEFINE r == [call[t] EXCEPT !.pc = "reply", !.msgs = Recent(Chat(t), HistoryLimit)]
    <2>1. call' = [call EXCEPT ![t] = r] /\ call' \in [Tasks -> Calls]
      BY <1>9, ReadPromptStep DEF ReadPrompt, Kept, ChatTyped, CallsOk
    <2>2. r.pc = "reply" /\ r.chat = Chat(t) /\ r.dest = Dest(t) /\ r.msgs = Recent(Chat(t), HistoryLimit)
      BY <1>1 DEF Calls, Chat, Dest
    <2> HIDE DEF r
    <2> QED BY <1>2, <2>1, <2>2
  <1> QED BY <1>3, <1>4, <1>5, <1>6, <1>7, <1>8, <1>9

\* How one begins: on a chat, or with the messages of a snapshot.
LEMMA Begins ==
  ASSUME ChatTyped, NEW t \in Tasks
  PROVE /\ \A c \in Chats : SnapshotBegin(t, c) => Opened(t, "dump", c, NoChat, 0)
        /\ \A c \in Chats : Ask(t, c) => Opened(t, "prompt", c, NoChat, said + 1)
        /\ \A c, d \in Chats : ForkBegin(t, c, d) => Opened(t, "dump", c, d, 0)
        /\ \A s \in Snaps : RestoreBegin(t, s) =>
             /\ call'[t].pc = "restore" /\ call'[t].dest = NoChat
             /\ call'[t].chat = snaps[s].chat /\ call'[t].msgs = snaps[s].msgs
             /\ call' \in [Tasks -> Calls] /\ \A u \in Tasks \ {t} : call'[u] = call[u]
  <1>1. Idle \in Calls
    BY ForkCalls
  <1>2. ASSUME NEW c \in Chats, SnapshotBegin(t, c) PROVE Opened(t, "dump", c, NoChat, 0)
    <2> DEFINE r == [Idle EXCEPT !.pc = "dump", !.chat = c]
    <2>1. r \in Calls /\ r.pc = "dump" /\ r.chat = c /\ r.dest = NoChat /\ r.msgs = <<>> /\ r.to = 0
      BY <1>1 DEF Idle, Calls
    <2>2. call' = [call EXCEPT ![t] = r]
      BY <1>2 DEF SnapshotBegin, Start
    <2> HIDE DEF r
    <2> QED BY <2>1, <2>2, Writes DEF Opened
  <1>3. ASSUME NEW c \in Chats, NEW d \in Chats, ForkBegin(t, c, d) PROVE Opened(t, "dump", c, d, 0)
    <2> DEFINE r == [Idle EXCEPT !.pc = "dump", !.chat = c, !.dest = d]
    <2>1. r \in Calls /\ r.pc = "dump" /\ r.chat = c /\ r.dest = d /\ r.msgs = <<>> /\ r.to = 0
      BY <1>1 DEF Idle, Calls
    <2>2. call' = [call EXCEPT ![t] = r]
      BY <1>3 DEF ForkBegin
    <2> HIDE DEF r
    <2> QED BY <2>1, <2>2, Writes DEF Opened
  <1>4. ASSUME NEW s \in Snaps, RestoreBegin(t, s)
        PROVE /\ call'[t].pc = "restore" /\ call'[t].dest = NoChat
              /\ call'[t].chat = snaps[s].chat /\ call'[t].msgs = snaps[s].msgs
              /\ call' \in [Tasks -> Calls] /\ \A u \in Tasks \ {t} : call'[u] = call[u]
    <2> DEFINE r == [Idle EXCEPT !.pc = "restore", !.chat = snaps[s].chat, !.msgs = snaps[s].msgs, !.snap = s]
    <2>1. snaps[s] \in [chat: Chats \cup {NoChat}, msgs: Seq(Messages)]
      BY DEF ChatTyped, SnapsOk
    <2>2. r \in Calls /\ r.pc = "restore" /\ r.dest = NoChat /\ r.chat = snaps[s].chat /\ r.msgs = snaps[s].msgs
      BY <1>1, <2>1 DEF Idle, Calls
    <2>3. call' = [call EXCEPT ![t] = r]
      BY <1>4 DEF RestoreBegin
    <2> HIDE DEF r
    <2> QED BY <2>2, <2>3, Writes
  <1> QED BY <1>2, <1>3, <1>4, AskStep

LEMMA ForksOnlyStep ==
  ASSUME FlowInv, Next PROVE ForksOnly'
  <1>1. PICK t \in Tasks :
          \/ \E c \in Chats :
               \/ CreateChat(t, c) \/ AddMessage(t, c) \/ DeleteChat(t, c)
               \/ \E i \in DOMAIN table[c] : DeleteMessage(t, c, i)
               \/ SnapshotBegin(t, c) \/ Ask(t, c)
               \/ \E d \in Chats : ForkBegin(t, c, d)
          \/ \E s \in Snaps : DeleteSnapshot(t, s) \/ RestoreBegin(t, s)
          \/ Step(t)
    BY DEF Next
  <1>2. ASSUME \A u \in Tasks \ {t} : call'[u] = call[u],
               call'[t].dest = NoChat \/ call'[t].pc \in Early \cup {"count", "copy"}
        PROVE ForksOnly'
    BY <1>2 DEF FlowInv, ForksOnly, Dest
  <1>3. CASE call' = call
    BY <1>3 DEF FlowInv, ForksOnly, Dest
  <1>4. CASE End(t)
    BY <1>2, <1>4, EndIdles, ForkCalls DEF FlowInv
  <1>5. ASSUME \/ \E c \in Chats : SnapshotBegin(t, c) \/ Ask(t, c) \/ \E d \in Chats : ForkBegin(t, c, d)
               \/ \E s \in Snaps : RestoreBegin(t, s)
        PROVE ForksOnly'
    <2>1. ChatTyped
      BY DEF FlowInv
    <2> QED BY <1>2, <1>5, <2>1, Begins DEF Opened, Early
  <1>6. ASSUME ~End(t), Dump(t) \/ KeepSnapshot(t) \/ Branch(t) \/ Count(t) \/ CopyPage(t)
        PROVE ForksOnly'
    <2>1. ChatTyped
      BY DEF FlowInv
    <2>2. \E step \in {"keep", "branch", "count", "copy"} : Went(t, step)
      BY <1>6, <2>1, Moves
    <2> QED BY <1>2, <2>2 DEF Went, Early
  <1>7. ASSUME ReadPrompt(t) PROVE ForksOnly'
    <2>1. Went(t, "reply")
      BY <1>7, Moves DEF FlowInv
    <2>2. Dest(t) = NoChat
      BY <1>7 DEF FlowInv, ForksOnly, ReadPrompt, At, Early
    <2> QED BY <1>2, <2>1, <2>2 DEF Went
  <1>8. \/ call' = call \/ End(t)
        \/ \E c \in Chats : SnapshotBegin(t, c) \/ Ask(t, c) \/ \E d \in Chats : ForkBegin(t, c, d)
        \/ \E s \in Snaps : RestoreBegin(t, s)
        \/ Dump(t) \/ KeepSnapshot(t) \/ Branch(t) \/ Count(t) \/ CopyPage(t) \/ ReadPrompt(t)
    BY <1>1 DEF CreateChat, AddMessage, DeleteChat, DeleteMessage, DeleteSnapshot, ForkDone, Restore, Reply,
                NoReply, Step
  <1> QED BY <1>3, <1>4, <1>5, <1>6, <1>7, <1>8

\* The invariant of this section.
LEMMA FlowInvStep == ASSUME FlowInv, [Next]_vars PROVE FlowInv'
  <1>1. ChatTyped'
    BY EveryStep, Stutters DEF FlowInv, Kept
  <1>2. CASE UNCHANGED vars
    BY <1>1, <1>2 DEF FlowInv, SnapsFresh, ForksOnly, Dest, vars
  <1>3. CASE Next
    <2>1. ForksOnly'
      BY <1>3, ForksOnlyStep
    <2>a. PICK t \in Tasks :
            \/ \E c \in Chats :
                 \/ CreateChat(t, c) \/ AddMessage(t, c) \/ DeleteChat(t, c)
                 \/ \E i \in DOMAIN table[c] : DeleteMessage(t, c, i)
                 \/ SnapshotBegin(t, c) \/ Ask(t, c)
                 \/ \E d \in Chats : ForkBegin(t, c, d)
            \/ \E s \in Snaps : DeleteSnapshot(t, s) \/ RestoreBegin(t, s)
            \/ Step(t)
      BY <1>3 DEF Next
    <2>2. \/ KeepSnapshot(t) \/ (\E s \in Snaps : DeleteSnapshot(t, s)) \/ (\E c \in Chats : DeleteChat(t, c))
          \/ UNCHANGED <<snaps, usedSnaps>>
      BY <2>a DEF Step, CreateChat, AddMessage, DeleteMessage, SnapshotBegin, Ask, ForkBegin, RestoreBegin,
                  Dump, Branch, Count, CopyPage, ForkDone, Restore, ReadPrompt, Reply, NoReply
    <2>3. ASSUME NEW s \in Snaps, DeleteSnapshot(t, s) PROVE SnapsFresh'
      BY <2>3 DEF FlowInv, SnapsFresh, DeleteSnapshot, ChatTyped, SnapsOk
    <2>4. ASSUME NEW c \in Chats, DeleteChat(t, c) PROVE SnapsFresh'
      BY <2>4 DEF FlowInv, SnapsFresh, DeleteChat
    <2>5. SnapsFresh'
      BY <2>2, <2>3, <2>4, SnapsFreshStep DEF FlowInv, SnapsFresh
    <2> QED BY <1>1, <2>1, <2>5 DEF FlowInv
  <1> QED BY <1>2, <1>3

\* What chats show, keep and know.
LEMMA RowsShow ==
  ASSUME NEW rows \in Seq(Rows) PROVE MessagesOf(Said(rows)) = {rows[i].msg : i \in 1..Len(rows)}
  <1>1. Said(rows) \in Seq(Messages) /\ Len(Said(rows)) = Len(rows) /\ \A i \in 1..Len(rows) : Said(rows)[i] = rows[i].msg
    BY SaidFacts
  <1>2. DOMAIN Said(rows) = 1..Len(rows)
    BY <1>1
  <1> QED BY <1>1, <1>2 DEF MessagesOf

LEMMA ChatShows ==
  ASSUME TablesOk, NEW c \in Chats
  PROVE Shows(c) = {table[c][i].msg : i \in 1..Len(table[c])} /\ table[c] \in Seq(Rows)
  BY RowsShow DEF TablesOk, Shows, Listing

LEMMA ChatShowsThen ==
  ASSUME TablesOk', NEW c \in Chats
  PROVE Shows(c)' = {table'[c][i].msg : i \in 1..Len(table'[c])} /\ table'[c] \in Seq(Rows)
  BY RowsShow DEF TablesOk, Shows, Listing

LEMMA SameShown == ASSUME NEW c \in Chats, table'[c] = table[c] PROVE Shows(c)' = Shows(c)
  BY DEF Shows, Listing

\* The prompt and the dump are of messages that are listed.
LEMMA RecentShown ==
  ASSUME TablesOk, NEW c \in Chats, NEW n \in Nat PROVE MessagesOf(Recent(c, n)) \subseteq Shows(c)
  <1> DEFINE rows == LastOf(table[c], n)
  <1>1. /\ rows \in Seq(Rows) /\ Sorted(rows)
        /\ Recent(c, n) = [i \in 1..Len(rows) |-> rows[Turned(rows, i)].msg]
    BY RecentFacts
  <1>2. /\ table[c] \in Seq(Rows) /\ Len(rows) \in 0..Len(table[c])
        /\ \A i \in 1..Len(rows) : rows[i] = table[c][Len(table[c]) - Len(rows) + i]
    <2> DEFINE all == table[c]
    <2>1. all \in Seq(Rows)
      BY DEF TablesOk
    <2> HIDE DEF all
    <2>2. LET k == Smaller(n, Len(all)) IN
          /\ k \in 0..Len(all) /\ Len(LastOf(all, n)) = k
          /\ \A i \in 1..k : LastOf(all, n)[i] = all[Len(all) - k + i]
      BY <2>1, LastFacts
    <2> QED BY <2>1, <2>2 DEF all
  <1> HIDE DEF rows
  <1>3. \A i \in 1..Len(rows) : Turned(rows, i) \in 1..Len(rows)
    BY <1>1, TurnedFacts
  <1>4. \A i \in 1..Len(rows) : \E j \in 1..Len(table[c]) : rows[i].msg = table[c][j].msg
    <2> SUFFICES ASSUME NEW i \in 1..Len(rows) PROVE \E j \in 1..Len(table[c]) : rows[i].msg = table[c][j].msg
      OBVIOUS
    <2>1. Len(table[c]) - Len(rows) + i \in 1..Len(table[c])
      BY <1>2
    <2> QED BY <1>2, <2>1
  <1>5. MessagesOf(Recent(c, n)) = {rows[Turned(rows, i)].msg : i \in 1..Len(rows)}
    BY <1>1 DEF MessagesOf
  <1> QED BY <1>3, <1>4, <1>5, ChatShows

\* What a call knows changes only in the chat of the call.
LEMMA CallKnows ==
  ASSUME NEW t \in Tasks, \A u \in Tasks \ {t} : call'[u] = call[u], NEW c
  PROVE /\ Knows(c)' \subseteq Knows(c) \cup (IF call'[t].chat = c THEN MessagesOf(call'[t].msgs) ELSE {})
        /\ call[t].chat # c /\ call'[t].chat # c => Knows(c)' = Knows(c)
        /\ MessagesOf(call[t].msgs) = {} /\ MessagesOf(call'[t].msgs) = {} => Knows(c)' = Knows(c)
        /\ call'[t].chat = call[t].chat /\ call'[t].msgs = call[t].msgs => Knows(c)' = Knows(c)
        /\ call[t].chat = c => MessagesOf(call[t].msgs) \subseteq Knows(c)
  <1>1. Knows(c) = UNION {MessagesOf(call[u].msgs) : u \in {v \in Tasks : call[v].chat = c}}
    BY DEF Knows, Chat
  <1>2. Knows(c)' = UNION {MessagesOf(call'[u].msgs) : u \in {v \in Tasks : call'[v].chat = c}}
    BY DEF Knows, Chat, MessagesOf
  <1>3. \A m : m \in Knows(c) <=> \E u \in Tasks : call[u].chat = c /\ m \in MessagesOf(call[u].msgs)
    BY <1>1
  <1>4. \A m : m \in Knows(c)' <=> \E u \in Tasks : call'[u].chat = c /\ m \in MessagesOf(call'[u].msgs)
    BY <1>2
  <1>5. \A u \in Tasks : u # t => call'[u] = call[u]
    OBVIOUS
  <1>6. Knows(c)' \subseteq Knows(c) \cup (IF call'[t].chat = c THEN MessagesOf(call'[t].msgs) ELSE {})
    BY <1>3, <1>4, <1>5, Zenon
  <1>7. ASSUME call[t].chat # c, call'[t].chat # c PROVE Knows(c)' = Knows(c)
    BY <1>3, <1>4, <1>5, <1>7, Zenon
  <1>8. ASSUME MessagesOf(call[t].msgs) = {}, MessagesOf(call'[t].msgs) = {} PROVE Knows(c)' = Knows(c)
    BY <1>3, <1>4, <1>5, <1>8, Zenon
  <1>9. ASSUME call'[t].chat = call[t].chat, call'[t].msgs = call[t].msgs PROVE Knows(c)' = Knows(c)
    BY <1>3, <1>4, <1>5, <1>9, Zenon
  <1>10. ASSUME call[t].chat = c PROVE MessagesOf(call[t].msgs) \subseteq Knows(c)
    BY <1>3, <1>10
  <1> QED BY <1>6, <1>7, <1>8, <1>9, <1>10

LEMMA NothingHeld == MessagesOf(<<>>) = {} /\ MessagesOf(Idle.msgs) = {}
  <1>1. Idle.msgs = <<>> /\ DOMAIN <<>> = {}
    BY DEF Idle
  <1> QED BY <1>1 DEF MessagesOf

\* What a snapshot keeps, likewise.
LEMMA SnapKeeps ==
  ASSUME NEW s \in Snaps, \A r \in Snaps \ {s} : snaps'[r] = snaps[r], NEW c
  PROVE /\ Keeps(c)' \subseteq Keeps(c) \cup (IF snaps'[s].chat = c THEN MessagesOf(snaps'[s].msgs) ELSE {})
        /\ snaps[s].chat # c /\ snaps'[s].chat # c => Keeps(c)' = Keeps(c)
        /\ snaps[s].chat = c => MessagesOf(snaps[s].msgs) \subseteq Keeps(c)
  <1>1. \A m : m \in Keeps(c) <=> \E r \in Snaps : snaps[r].chat = c /\ m \in MessagesOf(snaps[r].msgs)
    BY DEF Keeps
  <1>2. \A m : m \in Keeps(c)' <=> \E r \in Snaps : snaps'[r].chat = c /\ m \in MessagesOf(snaps'[r].msgs)
    BY DEF Keeps, MessagesOf
  <1>3. \A r \in Snaps : r # s => snaps'[r] = snaps[r]
    OBVIOUS
  <1>4. Keeps(c)' \subseteq Keeps(c) \cup (IF snaps'[s].chat = c THEN MessagesOf(snaps'[s].msgs) ELSE {})
    BY <1>1, <1>2, <1>3, Zenon
  <1>5. ASSUME snaps[s].chat # c, snaps'[s].chat # c PROVE Keeps(c)' = Keeps(c)
    BY <1>1, <1>2, <1>3, <1>5, Zenon
  <1>6. ASSUME snaps[s].chat = c PROVE MessagesOf(snaps[s].msgs) \subseteq Keeps(c)
    BY <1>1, <1>6
  <1> QED BY <1>4, <1>5, <1>6

\* The mapped values, chat by chat, now and then.
LEMMA MappedNow ==
  /\ ChatPhases = [c \in Chats |-> ChatPhases[c]] /\ Shown = [c \in Chats |-> Shown[c]]
  /\ Held = [c \in Chats |-> Held[c]] /\ Forked = [c \in Chats |-> Forked[c]]
  /\ \A c \in Chats : /\ ChatPhases[c] = PhaseOf(c) /\ Shown[c] = Shows(c)
                      /\ Held[c] = Shows(c) \cup Keeps(c) \cup Knows(c)
                      /\ Forked[c] = {Chat(t) : t \in {u \in Tasks : call[u].dest = c}}
  BY DEF ChatPhases, Shown, Held, Forked

LEMMA MappedThen ==
  /\ ChatPhases' = [c \in Chats |-> ChatPhases'[c]] /\ Shown' = [c \in Chats |-> Shown'[c]]
  /\ Held' = [c \in Chats |-> Held'[c]] /\ Forked' = [c \in Chats |-> Forked'[c]]
  /\ \A c \in Chats : /\ ChatPhases'[c] = PhaseOf(c)' /\ Shown'[c] = Shows(c)'
                      /\ Held'[c] = Shows(c)' \cup Keeps(c)' \cup Knows(c)'
                      /\ Forked'[c] = {call'[t].chat : t \in {u \in Tasks : call'[u].dest = c}}
  <1>1. ChatPhases' = [c \in Chats |-> PhaseOf(c)'] /\ Shown' = [c \in Chats |-> Shows(c)']
    BY DEF ChatPhases, Shown
  <1>2. Held' = [c \in Chats |-> Shows(c)' \cup Keeps(c)' \cup Knows(c)']
    BY DEF Held
  <1>3. Forked' = [c \in Chats |-> {call'[t].chat : t \in {u \in Tasks : call'[u].dest = c}}]
    BY DEF Forked, Chat
  <1> QED BY <1>1, <1>2, <1>3

LEMMA HeldSame ==
  ASSUME NEW c \in Chats, Shows(c)' = Shows(c), Keeps(c)' = Keeps(c), Knows(c)' = Knows(c)
  PROVE Held'[c] = Held[c] /\ Shown'[c] = Shown[c]
  <1>1. Held[c] = Shows(c) \cup Keeps(c) \cup Knows(c) /\ Shown[c] = Shows(c)
    BY MappedNow
  <1>2. Held'[c] = Shows(c)' \cup Keeps(c)' \cup Knows(c)' /\ Shown'[c] = Shows(c)'
    BY MappedThen
  <1> QED BY <1>1, <1>2

LEMMA HeldWithin ==
  ASSUME NEW c \in Chats, NEW ms, Shows(c)' \subseteq Held[c] \cup ms, Keeps(c)' \subseteq Held[c] \cup ms,
         Knows(c)' \subseteq Held[c] \cup ms
  PROVE Held'[c] \subseteq Held[c] \cup ms
  <1>1. Held'[c] = Shows(c)' \cup Keeps(c)' \cup Knows(c)'
    BY MappedThen
  <1> QED BY <1>1

LEMMA HeldHas ==
  ASSUME NEW c \in Chats PROVE Shows(c) \subseteq Held[c] /\ Keeps(c) \subseteq Held[c] /\ Knows(c) \subseteq Held[c]
  <1>1. Held[c] = Shows(c) \cup Keeps(c) \cup Knows(c)
    BY MappedNow
  <1> QED BY <1>1

LEMMA OnlyAt ==
  ASSUME NEW S, NEW c \in S, NEW f, NEW g, f = [x \in S |-> f[x]], g = [x \in S |-> g[x]],
         \A x \in S \ {c} : g[x] = f[x]
  PROVE g = [f EXCEPT ![c] = g[c]]
  OBVIOUS

LEMMA Everywhere ==
  ASSUME NEW S, NEW f, NEW g, f = [x \in S |-> f[x]], g = [x \in S |-> g[x]], \A x \in S : g[x] = f[x]
  PROVE g = f
  OBVIOUS

\* A call that neither begins nor ends a fork, nor branches, changes no phase and no source.
LEMMA SamePhases ==
  ASSUME ChatTyped, NEW t \in Tasks, \A u \in Tasks \ {t} : call'[u] = call[u], UNCHANGED <<chats, usedChats>>,
         \/ Dest(t) = NoChat /\ call'[t].dest = NoChat
         \/ /\ call'[t].dest = Dest(t) /\ call'[t].chat = Chat(t)
            /\ call[t].pc \in Early <=> call'[t].pc \in Early
  PROVE UNCHANGED <<ChatPhases, Forked>>
  <1>1. ASSUME NEW c \in Chats PROVE Promised(c)' <=> Promised(c)
    BY Distinct DEF Promised, Early, Dest
  <1>2. ASSUME NEW c \in Chats PROVE PhaseOf(c)' = PhaseOf(c)
    BY <1>1 DEF PhaseOf
  <1>3. ASSUME NEW c \in Chats PROVE Forked'[c] = Forked[c]
    <2>1. \A x : x \in Forked[c] <=> \E u \in Tasks : call[u].dest = c /\ x = call[u].chat
      BY MappedNow DEF Chat
    <2>2. \A x : x \in Forked'[c] <=> \E u \in Tasks : call'[u].dest = c /\ x = call'[u].chat
      BY MappedThen
    <2>3. \A u \in Tasks : u # t => call'[u] = call[u]
      OBVIOUS
    <2>4. c # NoChat
      BY Distinct
    <2>5. \A u \in Tasks : \A x : call'[u].dest = c /\ x = call'[u].chat <=> call[u].dest = c /\ x = call[u].chat
      <3> SUFFICES ASSUME NEW u \in Tasks, NEW x
                   PROVE call'[u].dest = c /\ x = call'[u].chat <=> call[u].dest = c /\ x = call[u].chat
        OBVIOUS
      <3>1. CASE u # t
        BY <2>3, <3>1
      <3>2. CASE u = t
        BY <2>4, <3>2 DEF Dest, Chat
      <3> QED BY <3>1, <3>2
    <2> HIDE DEF Forked
    <2>6. \A x : x \in Forked'[c] <=> x \in Forked[c]
      BY <2>1, <2>2, <2>5
    <2> QED BY <2>6
  <1>4. \A c \in Chats : ChatPhases'[c] = ChatPhases[c] /\ Forked'[c] = Forked[c]
    BY <1>2, <1>3, MappedNow, MappedThen
  <1> QED BY <1>4, MappedNow, MappedThen, Everywhere

\* Nobody holds what was not yet said.
LEMMA Unheard ==
  ASSUME ChatTyped, NEW c \in Chats, NEW m \in Held[c] PROVE m \in Messages /\ m <= said
  <1>1. CASE m \in Shows(c)
    <2>1. table[c] \in Seq(Rows) /\ Shows(c) = {table[c][i].msg : i \in 1..Len(table[c])} /\ RowsOk(table[c])
      BY ChatShows DEF ChatTyped, TablesOk
    <2>2. \A i \in 1..Len(table[c]) : table[c][i] \in Rows /\ table[c][i].msg <= said
      BY <2>1, SaidFacts DEF RowsOk
    <2> QED BY <1>1, <2>1, <2>2 DEF Rows
  <1>2. CASE m \in Keeps(c)
    <2>1. \A s \in Snaps : snaps[s].msgs \in Seq(Messages) /\ Heard(snaps[s].msgs)
      BY DEF ChatTyped, SnapsOk
    <2>2. PICK s \in Snaps : m \in MessagesOf(snaps[s].msgs)
      BY <1>2 DEF Keeps
    <2> QED BY <2>1, <2>2 DEF MessagesOf, Heard
  <1>3. CASE m \in Knows(c)
    <2>1. \A t \in Tasks : call[t].msgs \in Seq(Messages) /\ Heard(call[t].msgs)
      BY DEF ChatTyped, CallsOk, CallOk, Calls
    <2>2. PICK t \in Tasks : m \in MessagesOf(call[t].msgs)
      BY <1>3 DEF Knows
    <2> QED BY <2>1, <2>2 DEF MessagesOf, Heard
  <1> QED BY <1>1, <1>2, <1>3, MappedNow

-----------------------------------------------------------------------------
(* Each step is a step of ChatFlow *)

\* A step within chat c.
LEMMA IsTurn ==
  ASSUME NEW c \in Chats, UNCHANGED <<ChatPhases, Forked>>, \A x \in Chats \ {c} : Held'[x] = Held[x] /\ Shown'[x] = Shown[x],
         Held'[c] \subseteq Held[c], Shown'[c] = Shown[c] \/ (c \in chats /\ Shown'[c] \subseteq Held[c])
  PROVE Flow!Turn(c)
  <1>1. Shown' = [Shown EXCEPT ![c] = Shown'[c]] /\ Held' = [Held EXCEPT ![c] = Held'[c]]
    BY MappedNow, MappedThen, OnlyAt
  <1>2. ASSUME Shown'[c] = Shown[c] PROVE Shown' = Shown
    BY <1>2, MappedNow, MappedThen, Everywhere
  <1>3. c \in chats => ChatPhases[c] = "open"
    BY MappedNow DEF PhaseOf
  <1> QED BY <1>1, <1>2, <1>3 DEF Flow!Turn, Flow!Learns

\* The next message is said in chat c, which a call may then forget.
LEMMA IsSay ==
  ASSUME ChatTyped, NEW c \in chats, UNCHANGED <<ChatPhases, Forked>>, said < MaxSaid,
         \A x \in Chats \ {c} : Held'[x] = Held[x] /\ Shown'[x] = Shown[x],
         Shown'[c] = Shown[c] \cup {said + 1}, Held'[c] \subseteq Held[c] \cup {said + 1}
  PROVE \E m \in Messages : Flow!Say(c, m)
  <1>1. c \in Chats /\ said \in Nat
    BY CountsNat DEF ChatTyped, CountsOk
  <1>2. Shown' = [Shown EXCEPT ![c] = Shown'[c]] /\ Held' = [Held EXCEPT ![c] = Held'[c]]
    BY <1>1, MappedNow, MappedThen, OnlyAt
  <1>3. ChatPhases[c] = "open"
    BY <1>1, MappedNow DEF PhaseOf
  <1>4. said + 1 \in Messages /\ \A d \in Chats : said + 1 \notin Held[d]
    BY <1>1, Unheard, Bounds DEF Messages
  <1>5. Shown' = [Shown EXCEPT ![c] = @ \cup {said + 1}]
    BY <1>2
  <1>6. Flow!Say(c, said + 1)
    BY <1>2, <1>3, <1>4, <1>5 DEF Flow!Say, Flow!Learns
  <1> QED BY <1>4, <1>6

\* A fork of t comes to an end.
LEMMA IsEndFork ==
  ASSUME ChatTyped, NEW t \in Tasks, End(t), NEW c \in Chats, NEW d \in Chats, Dest(t) = d, Chat(t) = c,
         UNCHANGED <<chats, usedChats, table, snaps>>
  PROVE Flow!EndFork(d, c)
  <1>1. /\ \A u \in Tasks \ {t} : call[u].dest # d
        /\ d \in usedChats /\ (d \in chats => call[t].pc \notin Early)
    BY Distinct DEF ChatTyped, CallsOk, CallOk, CountsOk, Dest, Early
  <1>2. call'[t] = Idle /\ \A u \in Tasks \ {t} : call'[u] = call[u]
    BY EndIdles
  <1>3. call'[t].dest = NoChat /\ MessagesOf(call'[t].msgs) = {} /\ call[t].dest = d /\ call[t].chat = c /\ d # NoChat
    BY <1>2, NothingHeld, Distinct DEF Idle, Dest, Chat
  <1>4. Forked'[d] = {} /\ c \in Forked[d]
    <2>1. \A u \in Tasks : call'[u].dest # d
      BY <1>1, <1>2, <1>3
    <2> QED BY <1>1, <1>3, <2>1, MappedNow, MappedThen DEF Chat
  <1>5. ASSUME NEW x \in Chats \ {d} PROVE Forked'[x] = Forked[x]
    <2>1. x # NoChat
      BY Distinct
    <2>2. \A y : y \in Forked[x] <=> \E u \in Tasks : call[u].dest = x /\ y = call[u].chat
      BY MappedNow DEF Chat
    <2>3. \A y : y \in Forked'[x] <=> \E u \in Tasks : call'[u].dest = x /\ y = call'[u].chat
      BY MappedThen
    <2>4. \A u \in Tasks : \A y : call'[u].dest = x /\ y = call'[u].chat <=> call[u].dest = x /\ y = call[u].chat
      <3> SUFFICES ASSUME NEW u \in Tasks, NEW y
                   PROVE call'[u].dest = x /\ y = call'[u].chat <=> call[u].dest = x /\ y = call[u].chat
        OBVIOUS
      <3>1. CASE u # t
        BY <1>2, <3>1
      <3>2. CASE u = t
        BY <1>3, <1>5, <2>1, <3>2
      <3> QED BY <3>1, <3>2
    <2>5. \A y : y \in Forked'[x] <=> y \in Forked[x]
      BY <2>2, <2>3, <2>4
    <2> QED BY <2>5
  <1>6. Forked' = [Forked EXCEPT ![d] = {}]
    BY <1>1, <1>4, <1>5, MappedNow, MappedThen, OnlyAt
  <1>7. ASSUME NEW x \in Chats \ {d} PROVE PhaseOf(x)' = PhaseOf(x)
    <2>1. Promised(x)' <=> Promised(x)
      BY <1>2, <1>3, <1>7, Distinct DEF Promised
    <2> QED BY <2>1 DEF PhaseOf
  <1>8. /\ call[t].pc \in Early => PhaseOf(d) = "promised" /\ PhaseOf(d)' = "gone"
        /\ call[t].pc \notin Early => PhaseOf(d)' = PhaseOf(d)
    <2>1. \A u \in Tasks : call'[u].dest # d
      BY <1>1, <1>2, <1>3
    <2>2. ~Promised(d)' /\ (Promised(d) <=> call[t].pc \in Early)
      BY <1>1, <1>3, <2>1 DEF Promised, Early
    <2> QED BY <1>1, <2>2 DEF PhaseOf
  <1>9. ChatPhases' = ChatPhases \/ Flow!Becomes(d, "promised", "gone")
    <2>1. CASE call[t].pc \in Early
      <3>1. ChatPhases' = [ChatPhases EXCEPT ![d] = ChatPhases'[d]]
        BY <1>1, <1>7, MappedNow, MappedThen, OnlyAt
      <3>2. ChatPhases'[d] = "gone" /\ ChatPhases[d] = "promised"
        BY <1>1, <1>8, <2>1, MappedNow, MappedThen
      <3> QED BY <3>1, <3>2 DEF Flow!Becomes
    <2>2. CASE call[t].pc \notin Early
      <3>1. \A x \in Chats : ChatPhases'[x] = ChatPhases[x]
        BY <1>7, <1>8, <2>2, MappedNow, MappedThen
      <3> QED BY <3>1, MappedNow, MappedThen, Everywhere
    <2> QED BY <2>1, <2>2
  <1>10. \A x \in Chats : Shows(x)' = Shows(x) /\ Keeps(x)' = Keeps(x)
    BY SameShown DEF Keeps
  <1>11. Shown' = Shown
    BY <1>10, MappedNow, MappedThen, Everywhere
  <1>12. \A x \in Chats \ {c} : Knows(x)' = Knows(x)
    <2>1. \A x \in Chats : call'[t].chat # x
      BY <1>2, Distinct DEF Idle
    <2> QED BY <1>2, <1>3, <2>1, CallKnows
  <1>13. Knows(c)' \subseteq Knows(c)
    BY <1>2, <1>3, CallKnows
  <1>14. Held' = [Held EXCEPT ![c] = Held'[c]] /\ Held'[c] \subseteq Held[c] \cup {}
    <2>1. \A x \in Chats \ {c} : Held'[x] = Held[x]
      BY <1>10, <1>12, HeldSame
    <2>2. Held'[c] \subseteq Held[c] \cup {}
      BY <1>10, <1>13, HeldHas, HeldWithin
    <2> QED BY <2>1, <2>2, MappedNow, MappedThen, OnlyAt
  <1>15. Flow!Learns(c, {})
    BY <1>14 DEF Flow!Learns
  <1> QED BY <1>4, <1>6, <1>9, <1>11, <1>15 DEF Flow!EndFork

\* A call within its chat, which it may forget, or learn from what the chat shows and keeps.
LEMMA IsCallTurn ==
  ASSUME ChatTyped, NEW t \in Tasks, \A u \in Tasks \ {t} : call'[u] = call[u], UNCHANGED <<chats, table, snaps>>,
         UNCHANGED <<ChatPhases, Forked>>, NEW c \in Chats, call[t].chat = c \/ MessagesOf(call[t].msgs) = {},
         call'[t].chat = c \/ MessagesOf(call'[t].msgs) = {}, MessagesOf(call'[t].msgs) \subseteq Held[c]
  PROVE Flow!Turn(c)
  <1>1. \A x \in Chats : Shows(x)' = Shows(x) /\ Keeps(x)' = Keeps(x)
    BY SameShown DEF Keeps
  <1>2. ASSUME NEW x \in Chats \ {c} PROVE Knows(x)' = Knows(x)
    <2>1. \A m : m \in Knows(x) <=> \E u \in Tasks : call[u].chat = x /\ m \in MessagesOf(call[u].msgs)
      BY DEF Knows, Chat
    <2>2. \A m : m \in Knows(x)' <=> \E u \in Tasks : call'[u].chat = x /\ m \in MessagesOf(call'[u].msgs)
      BY DEF Knows, Chat, MessagesOf
    <2>3. \A u \in Tasks : u # t => call'[u] = call[u]
      OBVIOUS
    <2>4. \A u \in Tasks : \A m : call'[u].chat = x /\ m \in MessagesOf(call'[u].msgs)
                              <=> call[u].chat = x /\ m \in MessagesOf(call[u].msgs)
      BY <1>2, <2>3
    <2>5. \A m : m \in Knows(x)' <=> m \in Knows(x)
      BY <2>1, <2>2, <2>4
    <2> QED BY <2>5
  <1>3. Knows(c)' \subseteq Knows(c) \cup MessagesOf(call'[t].msgs)
    BY CallKnows
  <1>4. \A x \in Chats \ {c} : Held'[x] = Held[x] /\ Shown'[x] = Shown[x]
    BY <1>1, <1>2, HeldSame
  <1>5. Held'[c] \subseteq Held[c] /\ Shown'[c] = Shown[c]
    <2>1. Held'[c] \subseteq Held[c] \cup {}
      BY <1>1, <1>3, HeldHas, HeldWithin
    <2> QED BY <1>1, <2>1, MappedNow, MappedThen
  <1> QED BY <1>4, <1>5, IsTurn

\* A step that touches nothing mapped.
LEMMA IsStutter ==
  ASSUME UNCHANGED <<ChatPhases, Forked>>, \A c \in Chats : Held'[c] = Held[c] /\ Shown'[c] = Shown[c]
  PROVE UNCHANGED Flow!flow
  <1>1. Held' = Held /\ Shown' = Shown
    BY MappedNow, MappedThen, Everywhere
  <1> QED BY <1>1 DEF Flow!flow

\* A call on no chat.
LEMMA IsCallStutter ==
  ASSUME ChatTyped, NEW t \in Tasks, \A u \in Tasks \ {t} : call'[u] = call[u], UNCHANGED <<chats, table, snaps>>,
         UNCHANGED <<ChatPhases, Forked>>,
         \/ call[t].chat = NoChat \/ MessagesOf(call[t].msgs) = {},
         \/ call'[t].chat = NoChat \/ MessagesOf(call'[t].msgs) = {}
  PROVE UNCHANGED Flow!flow
  <1>1. \A x \in Chats : Shows(x)' = Shows(x) /\ Keeps(x)' = Keeps(x)
    BY SameShown DEF Keeps
  <1>2. ASSUME NEW x \in Chats PROVE Knows(x)' = Knows(x)
    <2>1. \A m : m \in Knows(x) <=> \E u \in Tasks : call[u].chat = x /\ m \in MessagesOf(call[u].msgs)
      BY DEF Knows, Chat
    <2>2. \A m : m \in Knows(x)' <=> \E u \in Tasks : call'[u].chat = x /\ m \in MessagesOf(call'[u].msgs)
      BY DEF Knows, Chat, MessagesOf
    <2>3. \A u \in Tasks : u # t => call'[u] = call[u]
      OBVIOUS
    <2>4. \A u \in Tasks : \A m : call'[u].chat = x /\ m \in MessagesOf(call'[u].msgs)
                                  <=> call[u].chat = x /\ m \in MessagesOf(call[u].msgs)
      BY <2>3, Distinct
    <2>5. \A m : m \in Knows(x)' <=> m \in Knows(x)
      BY <2>1, <2>2, <2>4
    <2> QED BY <2>5
  <1> QED BY <1>1, <1>2, HeldSame, IsStutter

LEMMA CreateOpens == ASSUME ChatTyped, NEW t \in Tasks, NEW c \in Chats, CreateChat(t, c) PROVE Flow!Open(c)
  <1>1. /\ c \notin usedChats /\ c \notin chats /\ usedChats' = usedChats \cup {c} /\ chats' = chats \cup {c}
        /\ UNCHANGED <<table, snaps, call>>
    BY DEF CreateChat, ChatTyped, CountsOk
  <1>2. \A x \in Chats : Shows(x)' = Shows(x) /\ Keeps(x)' = Keeps(x) /\ Knows(x)' = Knows(x) /\ (Promised(x)' <=> Promised(x))
    BY <1>1, SameShown DEF Keeps, Knows, Promised, Chat
  <1>3. \A x \in Chats : Held'[x] = Held[x] /\ Shown'[x] = Shown[x]
    BY <1>2, HeldSame
  <1>4. Held' = Held /\ Shown' = Shown /\ Forked' = Forked
    <2>1. Forked' = Forked
      BY <1>1 DEF Forked, Chat
    <2> QED BY <1>3, <2>1, MappedNow, MappedThen, Everywhere
  <1>5. \A x \in Chats \ {c} : PhaseOf(x)' = PhaseOf(x)
    BY <1>1, <1>2 DEF PhaseOf
  <1>6. PhaseOf(c) = "unused" /\ PhaseOf(c)' = "open"
    BY <1>1 DEF PhaseOf
  <1>7. ChatPhases' = [ChatPhases EXCEPT ![c] = ChatPhases'[c]]
    BY <1>5, MappedNow, MappedThen, OnlyAt
  <1>8. ChatPhases[c] = "unused" /\ ChatPhases'[c] = "open"
    BY <1>6, MappedNow, MappedThen
  <1> QED BY <1>4, <1>7, <1>8 DEF Flow!Open, Flow!Becomes

LEMMA DeleteCloses == ASSUME ChatTyped, NEW t \in Tasks, NEW c \in Chats, DeleteChat(t, c) PROVE Flow!Close(c)
  <1>1. /\ c \in chats /\ c \in usedChats /\ chats' = chats \ {c} /\ table' = [table EXCEPT ![c] = <<>>]
        /\ snaps' = [s \in Snaps |-> IF snaps[s].chat = c THEN Absent ELSE snaps[s]] /\ UNCHANGED <<usedChats, call>>
        /\ table \in [Chats -> Seq(Rows)] /\ TablesOk'
    BY DeleteChatStep DEF DeleteChat, ChatTyped, CountsOk, TablesOk, Kept
  <1>2. \A x \in Chats : Knows(x)' = Knows(x) /\ (Promised(x)' <=> Promised(x))
    BY <1>1 DEF Knows, Promised, Chat
  <1>3. \A x \in Chats \ {c} : Shows(x)' = Shows(x)
    BY <1>1, SameShown
  <1>4. Shows(c)' = {}
    <2>1. table'[c] = <<>> /\ Len(<<>>) = 0
      BY <1>1
    <2> QED BY <1>1, <2>1, ChatShowsThen
  <1>5. Absent.chat = NoChat
    BY DEF Absent
  <1>6. ASSUME NEW x \in Chats PROVE Keeps(x)' \subseteq Keeps(x) /\ (x # c => Keeps(x)' = Keeps(x))
    <2>1. \A m : m \in Keeps(x) <=> \E r \in Snaps : snaps[r].chat = x /\ m \in MessagesOf(snaps[r].msgs)
      BY DEF Keeps
    <2>2. \A m : m \in Keeps(x)' <=> \E r \in Snaps : snaps'[r].chat = x /\ m \in MessagesOf(snaps'[r].msgs)
      BY DEF Keeps, MessagesOf
    <2>3. \A r \in Snaps : \/ snaps'[r] = snaps[r] /\ snaps[r].chat # c
                           \/ snaps'[r].chat = NoChat /\ snaps[r].chat = c
      BY <1>1, <1>5
    <2>4. x # NoChat
      BY Distinct
    <2>5. \A m : m \in Keeps(x)' => m \in Keeps(x)
      BY <2>1, <2>2, <2>3, <2>4
    <2>6. x # c => \A m : m \in Keeps(x) => m \in Keeps(x)'
      BY <2>1, <2>2, <2>3, <2>4
    <2> QED BY <2>5, <2>6
  <1>7. \A x \in Chats \ {c} : Held'[x] = Held[x] /\ Shown'[x] = Shown[x]
    BY <1>2, <1>3, <1>6, HeldSame
  <1>8. Held'[c] \subseteq Held[c] \cup {}
    BY <1>2, <1>4, <1>6, HeldHas, HeldWithin
  <1>9. Held' = [Held EXCEPT ![c] = Held'[c]] /\ Shown' = [Shown EXCEPT ![c] = Shown'[c]] /\ Shown'[c] = {}
    BY <1>4, <1>7, MappedNow, MappedThen, OnlyAt
  <1>10. \A x \in Chats \ {c} : PhaseOf(x)' = PhaseOf(x)
    BY <1>1, <1>2 DEF PhaseOf
  <1>11. PhaseOf(c) = "open" /\ PhaseOf(c)' = "gone"
    <2>1. ~Promised(c)
      BY <1>1, Distinct DEF Promised, ChatTyped, CallsOk, CallOk, Dest
    <2> QED BY <1>1, <1>2, <2>1 DEF PhaseOf
  <1>12. ChatPhases' = [ChatPhases EXCEPT ![c] = ChatPhases'[c]]
    BY <1>10, MappedNow, MappedThen, OnlyAt
  <1>13. ChatPhases[c] = "open" /\ ChatPhases'[c] = "gone"
    BY <1>11, MappedNow, MappedThen
  <1>14. Forked' = Forked
    BY <1>1 DEF Forked, Chat
  <1> QED BY <1>8, <1>9, <1>12, <1>13, <1>14 DEF Flow!Close, Flow!Becomes, Flow!Learns

\* What the new message changes (create_message).
LEMMA SayShows ==
  ASSUME ChatTyped, NEW c \in chats, Say(c), UNCHANGED <<chats, snaps>>
  PROVE /\ c \in Chats /\ said < MaxSaid
        /\ Shows(c)' = Shows(c) \cup {said + 1}
        /\ \A x \in Chats \ {c} : Shows(x)' = Shows(x)
        /\ \A x \in Chats : Keeps(x)' = Keeps(x)
  <1>1. TablesOk' /\ Spoken(c) /\ c \in Chats /\ said < MaxSaid
    BY SaySpeaks DEF ChatTyped, Say
  <1>2. \A x \in Chats \ {c} : Shows(x)' = Shows(x)
    BY <1>1, SameShown DEF Spoken
  <1>3. \A x \in Chats : Keeps(x)' = Keeps(x)
    BY DEF Keeps
  <1> DEFINE n == Len(table[c])
  <1>4. n \in Nat /\ Len(table'[c]) = n + 1 /\ \A i \in 1..n : table'[c][i] = table[c][i]
    BY <1>1, ChatShows DEF Spoken, ChatTyped
  <1>5. table'[c][n + 1].msg = said + 1
    <2>1. PICK row : row = table'[c][n + 1]
      OBVIOUS
    <2>2. row = [msg |-> said + 1, at |-> clock + 1]
      BY <1>1, <2>1 DEF Spoken
    <2>3. row.msg = said + 1
      BY <2>2
    <2> QED BY <2>1, <2>3
  <1>6. Shows(c) = {table[c][i].msg : i \in 1..n} /\ Shows(c)' = {table'[c][i].msg : i \in 1..(n + 1)}
    BY <1>1, <1>4, ChatShows, ChatShowsThen DEF ChatTyped
  <1> HIDE DEF n
  <1>7. 1..(n + 1) = 1..n \cup {n + 1}
    BY <1>4
  <1>8. Shows(c)' = Shows(c) \cup {said + 1}
    <2>1. \A m : m \in Shows(c)' <=> \E i \in 1..(n + 1) : m = table'[c][i].msg
      BY <1>6
    <2>2. \A m : m \in Shows(c) <=> \E i \in 1..n : m = table[c][i].msg
      BY <1>6
    <2>3. \A m : (\E i \in 1..(n + 1) : m = table'[c][i].msg) <=> (\E i \in 1..n : m = table[c][i].msg) \/ m = said + 1
      BY <1>4, <1>5, <1>7
    <2>4. \A m : m \in Shows(c)' <=> m \in Shows(c) \/ m = said + 1
      BY <2>1, <2>2, <2>3, Zenon
    <2> QED BY <2>4
  <1> QED BY <1>1, <1>2, <1>3, <1>8

\* add_message, the question and the reply: the caller holds nothing afterwards.
LEMMA SaySays ==
  ASSUME ChatTyped, NEW t \in Tasks, NEW c \in chats, Say(c), UNCHANGED <<chats, usedChats, snaps>>,
         \A u \in Tasks \ {t} : call'[u] = call[u], Dest(t) = NoChat, call'[t].dest = NoChat,
         call[t].chat = c \/ MessagesOf(call[t].msgs) = {}, MessagesOf(call'[t].msgs) = {}
  PROVE \E m \in Messages : Flow!Say(c, m)
  <1>1. /\ c \in Chats /\ said < MaxSaid /\ Shows(c)' = Shows(c) \cup {said + 1}
        /\ \A x \in Chats \ {c} : Shows(x)' = Shows(x)
        /\ \A x \in Chats : Keeps(x)' = Keeps(x)
    BY SayShows
  <1>2. UNCHANGED <<ChatPhases, Forked>>
    BY SamePhases
  <1>3. Knows(c)' \subseteq Knows(c)
    BY CallKnows
  <1>4. ASSUME NEW x \in Chats \ {c} PROVE Knows(x)' = Knows(x)
    <2>1. CASE call[t].chat = c
      <3>1. \A m : m \in Knows(x) <=> \E u \in Tasks : call[u].chat = x /\ m \in MessagesOf(call[u].msgs)
        BY DEF Knows, Chat
      <3>2. \A m : m \in Knows(x)' <=> \E u \in Tasks : call'[u].chat = x /\ m \in MessagesOf(call'[u].msgs)
        BY DEF Knows, Chat, MessagesOf
      <3>3. \A u \in Tasks : \A m : call'[u].chat = x /\ m \in MessagesOf(call'[u].msgs)
                                    <=> call[u].chat = x /\ m \in MessagesOf(call[u].msgs)
        BY <1>4, <2>1
      <3>4. \A m : m \in Knows(x)' <=> m \in Knows(x)
        BY <3>1, <3>2, <3>3
      <3> QED BY <3>4
    <2>2. CASE MessagesOf(call[t].msgs) = {}
      BY <2>2, CallKnows
    <2> QED BY <2>1, <2>2
  <1>5. \A x \in Chats \ {c} : Held'[x] = Held[x] /\ Shown'[x] = Shown[x]
    BY <1>1, <1>4, HeldSame
  <1>6. Held'[c] \subseteq Held[c] \cup {said + 1}
    BY <1>1, <1>3, HeldHas, HeldWithin
  <1>7. Shown'[c] = Shown[c] \cup {said + 1}
    BY <1>1, MappedNow, MappedThen
  <1> QED BY <1>1, <1>2, <1>5, <1>6, <1>7, IsSay

LEMMA AddSays == ASSUME FlowInv, NEW t \in Tasks, NEW c \in Chats, AddMessage(t, c) PROVE \E m \in Messages : Flow!Say(c, m)
  <1>1. c \in chats /\ Say(c) /\ UNCHANGED <<chats, usedChats, snaps, call>> /\ call[t] = Idle
    BY DEF AddMessage
  <1>2. Dest(t) = NoChat /\ MessagesOf(call[t].msgs) = {}
    BY <1>1, NothingHeld DEF Dest, Idle
  <1> QED BY <1>1, <1>2, SaySays DEF FlowInv, Dest

LEMMA AskSays == ASSUME FlowInv, NEW t \in Tasks, NEW c \in Chats, Ask(t, c) PROVE \E m \in Messages : Flow!Say(c, m)
  <1>1. c \in chats /\ Say(c) /\ UNCHANGED <<chats, usedChats, snaps>> /\ call[t] = Idle
    BY DEF Ask
  <1>2. Dest(t) = NoChat /\ MessagesOf(call[t].msgs) = {}
    BY <1>1, NothingHeld DEF Dest, Idle
  <1>3. Opened(t, "prompt", c, NoChat, said + 1)
    BY Begins DEF FlowInv
  <1>4. call'[t].dest = NoChat /\ MessagesOf(call'[t].msgs) = {} /\ \A u \in Tasks \ {t} : call'[u] = call[u]
    BY <1>3, NothingHeld DEF Opened
  <1> QED BY <1>1, <1>2, <1>4, SaySays DEF FlowInv

LEMMA ReplySays == ASSUME FlowInv, NEW t \in Tasks, Reply(t) PROVE \E c \in Chats : \E m \in Messages : Flow!Say(c, m)
  <1>1. Chat(t) \in chats /\ Say(Chat(t)) /\ UNCHANGED <<chats, usedChats, snaps>> /\ At(t, "reply") /\ End(t)
    BY DEF Reply
  <1>2. PICK c \in chats : c = Chat(t)
    BY <1>1
  <1>3. Dest(t) = NoChat
    BY <1>1 DEF FlowInv, ForksOnly, At, Early
  <1>4. call'[t] = Idle /\ \A u \in Tasks \ {t} : call'[u] = call[u]
    BY <1>1, EndIdles DEF FlowInv
  <1>5. call'[t].dest = NoChat /\ MessagesOf(call'[t].msgs) = {}
    BY <1>4, NothingHeld DEF Idle
  <1>6. Say(c)
    BY <1>1, <1>2
  <1>7. \E m \in Messages : Flow!Say(c, m)
    BY <1>1, <1>2, <1>3, <1>4, <1>5, <1>6, SaySays DEF FlowInv, Chat
  <1>8. c \in Chats
    BY <1>2 DEF FlowInv, ChatTyped, CountsOk
  <1> QED BY <1>7, <1>8

LEMMA DeleteTurns ==
  ASSUME ChatTyped, NEW t \in Tasks, NEW c \in Chats, NEW i \in DOMAIN table[c], DeleteMessage(t, c, i) PROVE Flow!Turn(c)
  <1>1. /\ table' = [table EXCEPT ![c] = SubSeq(@, 1, i - 1) \o SubSeq(@, i + 1, Len(@))]
        /\ UNCHANGED <<chats, usedChats, snaps, call>>
    BY DEF DeleteMessage
  <1> DEFINE rows == table[c]
             left == SubSeq(rows, 1, i - 1) \o SubSeq(rows, i + 1, Len(rows))
  <1>2. rows \in Seq(Rows) /\ c \in chats /\ table \in [Chats -> Seq(Rows)]
    BY DEF ChatTyped, TablesOk
  <1>3. i \in 1..Len(rows) /\ Len(rows) \in Nat
    BY <1>2
  <1>4. table'[c] = left /\ \A x \in Chats \ {c} : table'[x] = table[x]
    BY <1>1, <1>2
  <1>5. left \in Seq(Rows) /\ \A j \in 1..Len(left) : \E k \in 1..Len(rows) : left[j] = rows[k]
    <2> HIDE DEF rows
    <2>1. /\ left \in Seq(Rows) /\ Len(left) = Len(rows) - 1
          /\ \A j \in 1..Len(left) : left[j] = rows[IF j < i THEN j ELSE j + 1]
      BY <1>2, <1>3, WithoutRow
    <2> HIDE DEF left
    <2>2. ASSUME NEW j \in 1..Len(left) PROVE \E k \in 1..Len(rows) : left[j] = rows[k]
      <3>1. (IF j < i THEN j ELSE j + 1) \in 1..Len(rows)
        BY <1>3, <2>1
      <3> QED BY <2>1, <3>1
    <2> QED BY <2>1, <2>2
  <1> HIDE DEF left
  <1>6. MessagesOf(Said(left)) \subseteq MessagesOf(Said(rows))
    <2>1. MessagesOf(Said(left)) = {left[j].msg : j \in 1..Len(left)} /\ MessagesOf(Said(rows)) = {rows[k].msg : k \in 1..Len(rows)}
      BY <1>2, <1>5, RowsShow
    <2> HIDE DEF rows
    <2> QED BY <1>5, <2>1
  <1>7. Shows(c)' \subseteq Shows(c)
    BY <1>4, <1>6 DEF Shows, Listing
  <1>8. \A x \in Chats : Keeps(x)' = Keeps(x) /\ Knows(x)' = Knows(x) /\ (x # c => Shows(x)' = Shows(x))
    BY <1>1, <1>4, SameShown DEF Keeps, Knows, Chat
  <1>9. UNCHANGED <<ChatPhases, Forked>>
    BY <1>1, SamePhases DEF Chat, Dest
  <1>10. \A x \in Chats \ {c} : Held'[x] = Held[x] /\ Shown'[x] = Shown[x]
    BY <1>8, HeldSame
  <1>11. Held'[c] \subseteq Held[c] \cup {} /\ Shown'[c] \subseteq Held[c]
    BY <1>7, <1>8, HeldHas, HeldWithin, MappedThen
  <1> QED BY <1>2, <1>9, <1>10, <1>11, IsTurn

LEMMA DropTurns ==
  ASSUME ChatTyped, NEW t \in Tasks, NEW s \in Snaps, DeleteSnapshot(t, s)
  PROVE UNCHANGED Flow!flow \/ \E c \in Chats : Flow!Turn(c)
  <1>1. snaps' = [snaps EXCEPT ![s] = Absent] /\ UNCHANGED <<chats, usedChats, table, call>>
    BY DEF DeleteSnapshot
  <1>2. snaps'[s].chat = NoChat /\ \A r \in Snaps \ {s} : snaps'[r] = snaps[r]
    BY <1>1 DEF ChatTyped, SnapsOk, Absent
  <1>3. \A x \in Chats : Shows(x)' = Shows(x) /\ Knows(x)' = Knows(x)
    BY <1>1, SameShown DEF Knows, Chat
  <1>4. UNCHANGED <<ChatPhases, Forked>>
    BY <1>1, SamePhases DEF Chat, Dest
  <1>5. \A x \in Chats : Keeps(x)' \subseteq Keeps(x) /\ (snaps[s].chat # x => Keeps(x)' = Keeps(x))
    BY <1>2, SnapKeeps, Distinct
  <1>6. \A x \in Chats : snaps[s].chat # x => Held'[x] = Held[x] /\ Shown'[x] = Shown[x]
    BY <1>3, <1>5, HeldSame
  <1>7. CASE snaps[s].chat \notin Chats
    BY <1>4, <1>6, <1>7, IsStutter
  <1>8. CASE snaps[s].chat \in Chats
    <2>1. PICK c \in Chats : c = snaps[s].chat
      BY <1>8
    <2>2. Held'[c] \subseteq Held[c] \cup {}
      BY <1>3, <1>5, HeldHas, HeldWithin
    <2>3. Shown'[c] = Shown[c]
      BY <1>3, MappedNow, MappedThen
    <2>4. \A x \in Chats \ {c} : Held'[x] = Held[x] /\ Shown'[x] = Shown[x]
      BY <1>6, <2>1
    <2> QED BY <1>4, <2>2, <2>3, <2>4, IsTurn
  <1> QED BY <1>7, <1>8

LEMMA SnapshotStutters ==
  ASSUME ChatTyped, NEW t \in Tasks, NEW c \in Chats, SnapshotBegin(t, c) PROVE UNCHANGED Flow!flow
  <1>1. call[t] = Idle /\ UNCHANGED <<chats, usedChats, table, snaps>>
    BY DEF SnapshotBegin, Start
  <1>2. Opened(t, "dump", c, NoChat, 0)
    BY Begins
  <1>3. /\ MessagesOf(call[t].msgs) = {} /\ MessagesOf(call'[t].msgs) = {} /\ \A u \in Tasks \ {t} : call'[u] = call[u]
        /\ Dest(t) = NoChat /\ call'[t].dest = NoChat
    BY <1>1, <1>2, NothingHeld DEF Opened, Idle, Dest
  <1>4. UNCHANGED <<ChatPhases, Forked>>
    BY <1>1, <1>3, SamePhases
  <1> QED BY <1>1, <1>3, <1>4, IsCallStutter

LEMMA RestoreBeginTurns ==
  ASSUME ChatTyped, NEW t \in Tasks, NEW s \in Snaps, RestoreBegin(t, s)
  PROVE UNCHANGED Flow!flow \/ \E c \in Chats : Flow!Turn(c)
  <1>1. call[t] = Idle /\ UNCHANGED <<chats, usedChats, table, snaps>>
    BY DEF RestoreBegin
  <1>2. /\ call'[t].dest = NoChat /\ call'[t].chat = snaps[s].chat /\ call'[t].msgs = snaps[s].msgs
        /\ \A u \in Tasks \ {t} : call'[u] = call[u]
    BY Begins
  <1>3. MessagesOf(call[t].msgs) = {} /\ Dest(t) = NoChat
    BY <1>1, NothingHeld DEF Idle, Dest
  <1>4. UNCHANGED <<ChatPhases, Forked>>
    BY <1>1, <1>2, <1>3, SamePhases
  <1>5. CASE snaps[s].chat = NoChat
    BY <1>1, <1>2, <1>3, <1>4, <1>5, IsCallStutter
  <1>6. CASE snaps[s].chat # NoChat
    <2>1. snaps[s].chat \in Chats
      BY <1>6 DEF ChatTyped, SnapsOk
    <2>2. PICK c \in Chats : c = snaps[s].chat
      BY <2>1
    <2>3. MessagesOf(snaps[s].msgs) \subseteq Keeps(c)
      BY <2>2 DEF Keeps
    <2>4. MessagesOf(call'[t].msgs) \subseteq Held[c]
      BY <1>2, <2>3, HeldHas
    <2>5. Flow!Turn(c)
      BY <1>1, <1>2, <1>3, <1>4, <2>2, <2>4, IsCallTurn
    <2> QED BY <2>5
  <1> QED BY <1>5, <1>6

\* The dump of a snapshot and the prompt of an exchange read what the chat shows.
LEMMA ReadTurns ==
  ASSUME FlowInv, NEW t \in Tasks, Dump(t) \/ ReadPrompt(t) PROVE \E c \in Chats : Flow!Turn(c)
  <1>1. /\ UNCHANGED <<chats, usedChats, table, snaps>>
        /\ \/ At(t, "dump") /\ Went(t, "keep") /\ call'[t].msgs = Recent(Chat(t), SnapshotCap)
           \/ At(t, "prompt") /\ Went(t, "reply") /\ call'[t].msgs = Recent(Chat(t), HistoryLimit)
    <2>1. ChatTyped
      BY DEF FlowInv
    <2>2. CASE Dump(t)
      BY <2>1, <2>2, Moves DEF Dump
    <2>3. CASE ReadPrompt(t)
      BY <2>1, <2>3, Moves DEF ReadPrompt
    <2> QED BY <2>2, <2>3
  <1>2. PICK c \in Chats : c = Chat(t)
    BY <1>1 DEF FlowInv, ChatTyped, CallsOk, CallOk, CountsOk, At
  <1>3. SnapshotCap \in Nat /\ HistoryLimit \in Nat
    BY Caps
  <1>4. MessagesOf(call'[t].msgs) \subseteq Held[c]
    <2>1. TablesOk
      BY DEF FlowInv, ChatTyped
    <2>2. MessagesOf(Recent(c, SnapshotCap)) \subseteq Shows(c) /\ MessagesOf(Recent(c, HistoryLimit)) \subseteq Shows(c)
      BY <1>3, <2>1, RecentShown
    <2> QED BY <1>1, <1>2, <2>2, HeldHas
  <1>5. Dest(t) = NoChat \/ (call[t].pc \in Early /\ call'[t].pc \in Early)
    BY <1>1 DEF FlowInv, ForksOnly, At, Went, Early
  <1>6. /\ call'[t].dest = Dest(t) /\ call'[t].chat = Chat(t) /\ call'[t].chat = c /\ call[t].chat = c
        /\ \A u \in Tasks \ {t} : call'[u] = call[u]
    BY <1>1, <1>2 DEF Went, Chat
  <1>7. UNCHANGED <<ChatPhases, Forked>>
    BY <1>1, <1>5, <1>6, SamePhases DEF FlowInv
  <1> QED BY <1>1, <1>4, <1>6, <1>7, IsCallTurn DEF FlowInv

LEMMA NoReplyTurns == ASSUME FlowInv, NEW t \in Tasks, NoReply(t) PROVE \E c \in Chats : Flow!Turn(c)
  <1>1. At(t, "reply") /\ End(t) /\ UNCHANGED <<chats, usedChats, table, snaps>>
    BY DEF NoReply
  <1>2. PICK c \in Chats : c = call[t].chat
    BY <1>1 DEF FlowInv, ChatTyped, CallsOk, CallOk, CountsOk, At, Chat
  <1>3. call'[t] = Idle /\ \A u \in Tasks \ {t} : call'[u] = call[u]
    BY <1>1, EndIdles DEF FlowInv
  <1>4. Dest(t) = NoChat /\ call'[t].dest = NoChat /\ MessagesOf(call'[t].msgs) = {}
    BY <1>1, <1>3, NothingHeld DEF FlowInv, ForksOnly, At, Early, Idle
  <1>5. UNCHANGED <<ChatPhases, Forked>>
    BY <1>1, <1>3, <1>4, SamePhases DEF FlowInv
  <1> QED BY <1>1, <1>2, <1>3, <1>4, <1>5, IsCallTurn DEF FlowInv

\* What a restore puts into the chat was known there (replace_chat_messages).
LEMMA RestoreTurns ==
  ASSUME FlowInv, NEW t \in Tasks, Restore(t) PROVE UNCHANGED Flow!flow \/ \E c \in Chats : Flow!Turn(c)
  <1>1. At(t, "restore") /\ End(t) /\ UNCHANGED <<chats, usedChats, snaps>>
    BY DEF Restore
  <1>2. call'[t] = Idle /\ \A u \in Tasks \ {t} : call'[u] = call[u]
    BY <1>1, EndIdles DEF FlowInv
  <1>3. Dest(t) = NoChat /\ call'[t].dest = NoChat /\ MessagesOf(call'[t].msgs) = {} /\ Idle.chat = NoChat
    BY <1>1, <1>2, NothingHeld DEF FlowInv, ForksOnly, At, Early, Idle
  <1>4. UNCHANGED <<ChatPhases, Forked>>
    BY <1>1, <1>2, <1>3, SamePhases DEF FlowInv
  <1>5. CASE Chat(t) = NoChat
    <2>1. Chat(t) \notin chats
      BY <1>5, Distinct DEF FlowInv, ChatTyped, CountsOk
    <2>2. UNCHANGED table
      BY <2>1 DEF Restore
    <2> QED BY <1>1, <1>2, <1>3, <1>4, <1>5, <2>2, IsCallStutter DEF FlowInv, Chat
  <1>6. CASE Chat(t) # NoChat
    <2>1. Chat(t) \in Chats
      BY <1>6 DEF FlowInv, ChatTyped, CallsOk, Calls, Chat
    <2>2. PICK c \in Chats : c = Chat(t)
      BY <2>1
    <2>3. CASE c \notin chats
      <3>1. UNCHANGED table
        BY <2>2, <2>3 DEF Restore
      <3> QED BY <1>1, <1>2, <1>3, <1>4, <2>2, <3>1, IsCallTurn DEF FlowInv, Chat
    <2>4. CASE c \in chats
      <3>1. /\ clock < MaxWrites /\ table' = [table EXCEPT ![c] = Stamped(call[t].msgs)]
        BY <2>2, <2>4 DEF Restore, Tick
      <3>2. table \in [Chats -> Seq(Rows)] /\ call[t].msgs \in Seq(Messages) /\ clock \in 0..MaxWrites
        BY DEF FlowInv, ChatTyped, TablesOk, CallsOk, Calls, CountsOk
      <3>3. table'[c] = Stamped(call[t].msgs) /\ \A x \in Chats \ {c} : table'[x] = table[x]
        BY <3>1, <3>2
      <3>4. /\ Stamped(call[t].msgs) \in Seq(Rows) /\ Len(Stamped(call[t].msgs)) = Len(call[t].msgs)
            /\ \A i \in 1..Len(call[t].msgs) : Stamped(call[t].msgs)[i] = [msg |-> call[t].msgs[i], at |-> clock + 1]
        BY <3>1, <3>2, StampedFacts
      <3>5. Shows(c)' = MessagesOf(call[t].msgs)
        <4>1. Shows(c)' = {table'[c][i].msg : i \in 1..Len(table'[c])}
          <5>1. Shows(c)' = MessagesOf(Said(table'[c]))
            BY DEF Shows, Listing
          <5> QED BY <3>3, <3>4, <5>1, RowsShow
        <4>2. MessagesOf(call[t].msgs) = {call[t].msgs[i] : i \in 1..Len(call[t].msgs)}
          BY <3>2 DEF MessagesOf
        <4>3. \A i \in 1..Len(call[t].msgs) : table'[c][i].msg = call[t].msgs[i]
          <5> SUFFICES ASSUME NEW i \in 1..Len(call[t].msgs) PROVE table'[c][i].msg = call[t].msgs[i]
            OBVIOUS
          <5>1. table'[c][i] = [msg |-> call[t].msgs[i], at |-> clock + 1]
            BY <3>3, <3>4
          <5> QED BY <5>1
        <4> QED BY <3>3, <3>4, <4>1, <4>2, <4>3
      <3>6. Knows(c)' \subseteq Knows(c) /\ MessagesOf(call[t].msgs) \subseteq Knows(c)
        BY <1>2, <1>3, <2>2, CallKnows DEF Chat
      <3>7. \A x \in Chats : Keeps(x)' = Keeps(x) /\ (x # c => Shows(x)' = Shows(x))
        BY <1>1, <3>3, SameShown DEF Keeps
      <3>8. ASSUME NEW x \in Chats \ {c} PROVE Knows(x)' = Knows(x)
        <4>1. call[t].chat # x /\ call'[t].chat # x
          BY <1>2, <1>3, <2>2, <3>8, Distinct DEF Chat
        <4> QED BY <1>2, <4>1, CallKnows
      <3>9. \A x \in Chats \ {c} : Held'[x] = Held[x] /\ Shown'[x] = Shown[x]
        BY <3>7, <3>8, HeldSame
      <3>10. Held'[c] \subseteq Held[c] \cup {} /\ Shown'[c] \subseteq Held[c]
        BY <3>5, <3>6, <3>7, HeldHas, HeldWithin, MappedThen
      <3> QED BY <1>4, <2>4, <3>9, <3>10, IsTurn
    <2> QED BY <2>3, <2>4
  <1> QED BY <1>5, <1>6

\* fork_chat: the id is promised, the chat made, the pages copied.
LEMMA ForkPromises ==
  ASSUME ChatTyped, NEW t \in Tasks, NEW c \in Chats, NEW d \in Chats, ForkBegin(t, c, d) PROVE Flow!Promise(d, c)
  <1>1. /\ c \in chats /\ d \notin usedChats /\ d \notin chats /\ usedChats' = usedChats \cup {d} /\ call[t] = Idle
        /\ UNCHANGED <<chats, table, snaps>>
    BY DEF ForkBegin, ChatTyped, CountsOk
  <1>2. Opened(t, "dump", c, d, 0)
    BY Begins
  <1>3. /\ MessagesOf(call[t].msgs) = {} /\ MessagesOf(call'[t].msgs) = {} /\ \A u \in Tasks \ {t} : call'[u] = call[u]
        /\ call[t].dest = NoChat /\ call'[t].dest = d /\ call'[t].chat = c /\ call'[t].pc = "dump"
    BY <1>1, <1>2, NothingHeld DEF Opened, Idle
  <1>4. \A u \in Tasks : call[u].dest # d
    BY <1>1, Distinct DEF ChatTyped, CallsOk, CallOk, Dest
  <1>5. \A x \in Chats : Shows(x)' = Shows(x) /\ Keeps(x)' = Keeps(x) /\ Knows(x)' = Knows(x)
    BY <1>1, <1>3, SameShown, CallKnows DEF Keeps
  <1>6. Held' = Held /\ Shown' = Shown
    BY <1>5, HeldSame, MappedNow, MappedThen, Everywhere
  <1>7. ASSUME NEW x \in Chats \ {d}
        PROVE PhaseOf(x)' = PhaseOf(x) /\ Forked'[x] = Forked[x]
    <2>1. x # NoChat
      BY Distinct
    <2>2. \A u \in Tasks : call'[u].dest = x <=> call[u].dest = x
      BY <1>3, <1>7, <2>1
    <2>3. \A u \in Tasks : call[u].dest = x => call'[u] = call[u]
      BY <1>3, <2>1
    <2>4. Promised(x)' <=> Promised(x)
      BY <2>2, <2>3 DEF Promised
    <2>5. \A y : y \in Forked[x] <=> \E u \in Tasks : call[u].dest = x /\ y = call[u].chat
      BY MappedNow DEF Chat
    <2>6. \A y : y \in Forked'[x] <=> \E u \in Tasks : call'[u].dest = x /\ y = call'[u].chat
      BY MappedThen
    <2>7. \A y : y \in Forked'[x] <=> y \in Forked[x]
      BY <2>2, <2>3, <2>5, <2>6
    <2>8. PhaseOf(x)' = PhaseOf(x)
      BY <1>1, <1>7, <2>4 DEF PhaseOf
    <2> QED BY <2>7, <2>8
  <1>8. Forked'[d] = {c}
    <2>1. \A u \in Tasks : call'[u].dest = d <=> u = t
      BY <1>3, <1>4
    <2> QED BY <1>3, <2>1, MappedThen
  <1>9. PhaseOf(d) = "unused" /\ PhaseOf(d)' = "promised" /\ PhaseOf(c) = "open"
    <2>1. Promised(d)'
      BY <1>3 DEF Promised
    <2> QED BY <1>1, <2>1 DEF PhaseOf
  <1>10. ChatPhases' = [ChatPhases EXCEPT ![d] = ChatPhases'[d]] /\ Forked' = [Forked EXCEPT ![d] = {c}]
    BY <1>7, <1>8, MappedNow, MappedThen, OnlyAt
  <1>11. ChatPhases[d] = "unused" /\ ChatPhases'[d] = "promised" /\ ChatPhases[c] = "open"
    BY <1>9, MappedNow, MappedThen
  <1> QED BY <1>6, <1>10, <1>11 DEF Flow!Promise, Flow!Becomes

\* A call that forks: its two chats.
LEMMA Forking ==
  ASSUME ChatTyped, NEW t \in Tasks, Dest(t) # NoChat, call[t].pc \notin {"idle", "restore"}
  PROVE \E c, d \in Chats : c = Chat(t) /\ d = Dest(t) /\ c # d
  BY DEF ChatTyped, CallsOk, CallOk, CountsOk

LEMMA BranchBegins == ASSUME ChatTyped, NEW t \in Tasks, Branch(t) PROVE \E d \in Chats : Flow!Begin(d)
  <1>1. At(t, "branch") /\ chats' = chats \cup {call[t].dest} /\ UNCHANGED <<usedChats, table, snaps>>
    BY DEF Branch
  <1>2. PICK d \in Chats : d = call[t].dest
    BY <1>1, Forking DEF ChatTyped, CallsOk, CallOk, At, Dest
  <1>3. Went(t, "count") /\ call'[t].msgs = call[t].msgs
    BY Moves
  <1>4. /\ call'[t].pc = "count" /\ call'[t].chat = call[t].chat /\ call'[t].dest = call[t].dest
        /\ \A u \in Tasks \ {t} : call'[u] = call[u]
    BY <1>3 DEF Went, Chat, Dest
  <1>5. d \in usedChats /\ d \notin chats
    BY <1>1, <1>2, Distinct DEF ChatTyped, CallsOk, CallOk, At, Dest
  <1>6. \A x \in Chats : Shows(x)' = Shows(x) /\ Keeps(x)' = Keeps(x) /\ Knows(x)' = Knows(x)
    BY <1>1, <1>3, <1>4, SameShown, CallKnows DEF Keeps
  <1>7. Held' = Held /\ Shown' = Shown
    BY <1>6, HeldSame, MappedNow, MappedThen, Everywhere
  <1>8. Forked' = Forked
    <2>1. \A x \in Chats : Forked'[x] = Forked[x]
      <3> SUFFICES ASSUME NEW x \in Chats PROVE Forked'[x] = Forked[x]
        OBVIOUS
      <3>1. \A u \in Tasks : call'[u].dest = call[u].dest /\ call'[u].chat = call[u].chat
        BY <1>4
      <3>2. Forked[x] = {call[u].chat : u \in {v \in Tasks : call[v].dest = x}}
        BY MappedNow DEF Chat
      <3>3. Forked'[x] = {call'[u].chat : u \in {v \in Tasks : call'[v].dest = x}}
        BY MappedThen
      <3> QED BY <3>1, <3>2, <3>3
    <2> QED BY <2>1, MappedNow, MappedThen, Everywhere
  <1>9. ASSUME NEW x \in Chats \ {d} PROVE PhaseOf(x)' = PhaseOf(x)
    <2>1. Promised(x)' <=> Promised(x)
      BY <1>2, <1>4, <1>9 DEF Promised
    <2> QED BY <1>1, <1>2, <1>9, <2>1 DEF PhaseOf
  <1>10. PhaseOf(d) = "promised" /\ PhaseOf(d)' = "open"
    <2>1. Promised(d)
      BY <1>1, <1>2 DEF Promised, At
    <2> QED BY <1>1, <1>2, <1>5, <2>1 DEF PhaseOf
  <1>11. ChatPhases' = [ChatPhases EXCEPT ![d] = ChatPhases'[d]]
    BY <1>9, MappedNow, MappedThen, OnlyAt
  <1>12. ChatPhases[d] = "promised" /\ ChatPhases'[d] = "open"
    BY <1>10, MappedNow, MappedThen
  <1> QED BY <1>7, <1>8, <1>11, <1>12 DEF Flow!Begin, Flow!Becomes

LEMMA CountStutters == ASSUME ChatTyped, NEW t \in Tasks, Count(t) PROVE UNCHANGED Flow!flow
  <1>1. At(t, "count") /\ UNCHANGED <<chats, usedChats, table, snaps>>
    BY DEF Count
  <1>2. Went(t, "copy") /\ call'[t].msgs = call[t].msgs
    BY Moves
  <1>3. UNCHANGED <<ChatPhases, Forked>>
    BY <1>1, <1>2, SamePhases DEF Went, At, Early
  <1>4. \A x \in Chats : Shows(x)' = Shows(x) /\ Keeps(x)' = Keeps(x) /\ Knows(x)' = Knows(x)
    BY <1>1, <1>2, SameShown, CallKnows DEF Keeps, Went, Chat
  <1> QED BY <1>3, <1>4, HeldSame, IsStutter

LEMMA DoneEnds == ASSUME ChatTyped, NEW t \in Tasks, ForkDone(t) PROVE \E c, d \in Chats : Flow!EndFork(d, c)
  <1>1. At(t, "copy") /\ End(t) /\ UNCHANGED <<chats, usedChats, table, snaps>>
    BY DEF ForkDone
  <1>2. PICK c \in Chats, d \in Chats : c = Chat(t) /\ d = Dest(t)
    BY <1>1, Forking DEF ChatTyped, CallsOk, CallOk, At
  <1> QED BY <1>1, <1>2, IsEndFork

\* The page is what the source shows when it is read.
LEMMA CopyCopies ==
  ASSUME ChatTyped, NEW t \in Tasks, CopyPage(t) PROVE \E c, d \in Chats : Flow!Copy(d, c) \/ Flow!EndFork(d, c)
  <1>1. At(t, "copy") /\ UNCHANGED <<chats, usedChats, snaps>>
    BY DEF CopyPage
  <1>2. PICK c \in Chats, d \in Chats : c = Chat(t) /\ d = Dest(t) /\ c # d
    BY <1>1, Forking DEF ChatTyped, CallsOk, CallOk, At
  <1>3. CASE End(t) /\ UNCHANGED table
    <2>1. Flow!EndFork(d, c)
      BY <1>1, <1>2, <1>3, IsEndFork
    <2> QED BY <2>1
  <1>4. CASE Went(t, "copy") /\ call'[t].msgs = call[t].msgs /\ Copied(t) /\ Dest(t) \in chats
    <2> DEFINE page == Page(t)
               n == Len(table[d])
    <2>1. call[t].from \in Nat /\ Chat(t) \in Chats
      BY <1>2 DEF ChatTyped, CallsOk, Calls
    <2>2. /\ page \in Seq(Messages)
          /\ Len(page) > 0 => call[t].from + Len(page) <= Len(table[c])
          /\ \A i \in 1..Len(page) : page[i] = table[c][call[t].from + i].msg
      BY <1>2, <2>1, PageFacts
    <2>3. table[c] \in Seq(Rows) /\ table[d] \in Seq(Rows) /\ TablesOk /\ TablesOk'
      BY CopyPageStep DEF ChatTyped, TablesOk, Kept
    <2>4. /\ Len(table'[d]) = n + Len(page) /\ \A i \in 1..n : table'[d][i] = table[d][i]
          /\ \A i \in 1..Len(page) : table'[d][n + i].msg = page[i]
          /\ \A b \in Chats \ {d} : table'[b] = table[b]
      BY <1>2, <1>4 DEF Copied
    <2>5. MessagesOf(page) \subseteq Shows(c)
      <3>1. MessagesOf(page) = {page[i] : i \in 1..Len(page)} /\ Len(page) \in Nat
        BY <2>2 DEF MessagesOf
      <3> HIDE DEF page
      <3>2. \A i \in 1..Len(page) : call[t].from + i \in 1..Len(table[c])
        BY <2>1, <2>2, <2>3, <3>1
      <3> QED BY <2>2, <2>3, <3>1, <3>2, ChatShows
    <2>6. Shows(d)' = Shows(d) \cup MessagesOf(page)
      <3>1. MessagesOf(page) = {page[i] : i \in 1..Len(page)} /\ Len(page) \in Nat /\ n \in Nat
        BY <2>2, <2>3 DEF MessagesOf
      <3>2. Shows(d)' = {table'[d][i].msg : i \in 1..(n + Len(page))} /\ Shows(d) = {table[d][i].msg : i \in 1..n}
        BY <2>3, <2>4, ChatShows, ChatShowsThen
      <3> HIDE DEF page, n
      <3>3. ASSUME NEW m \in Shows(d)' PROVE m \in Shows(d) \cup MessagesOf(page)
        <4>1. PICK i \in 1..(n + Len(page)) : m = table'[d][i].msg
          BY <3>2, <3>3
        <4>2. CASE i <= n
          BY <2>4, <3>1, <3>2, <4>1, <4>2
        <4>3. CASE i > n
          <5>1. i - n \in 1..Len(page) /\ n + (i - n) = i
            BY <3>1, <4>1, <4>3
          <5>2. m = page[i - n]
            BY <2>4, <4>1, <5>1
          <5> QED BY <3>1, <5>1, <5>2
        <4> QED BY <3>1, <4>1, <4>2, <4>3
      <3>4. ASSUME NEW m \in Shows(d) PROVE m \in Shows(d)'
        <4>1. PICK i \in 1..n : m = table[d][i].msg
          BY <3>2, <3>4
        <4>2. i \in 1..(n + Len(page)) /\ table'[d][i] = table[d][i]
          BY <2>4, <3>1, <4>1
        <4> QED BY <3>2, <4>1, <4>2
      <3>5. ASSUME NEW m \in MessagesOf(page) PROVE m \in Shows(d)'
        <4>1. PICK i \in 1..Len(page) : m = page[i]
          BY <3>1, <3>5
        <4>2. n + i \in 1..(n + Len(page)) /\ table'[d][n + i].msg = m
          BY <2>4, <3>1, <4>1
        <4> QED BY <3>2, <4>2
      <3> QED BY <3>3, <3>4, <3>5
    <2> HIDE DEF page, n
    <2>7. \A x \in Chats : Keeps(x)' = Keeps(x) /\ (x # d => Shows(x)' = Shows(x))
      BY <1>1, <2>4, SameShown DEF Keeps
    <2>8. \A x \in Chats : Knows(x)' = Knows(x)
      BY <1>4, CallKnows DEF Went, Chat
    <2>9. UNCHANGED <<ChatPhases, Forked>>
      BY <1>1, <1>4, SamePhases DEF Went, At, Early
    <2>10. \A x \in Chats \ {d} : Held'[x] = Held[x] /\ Shown'[x] = Shown[x]
      BY <2>7, <2>8, HeldSame
    <2>11. Shown' = [Shown EXCEPT ![d] = Shown'[d]] /\ Held' = [Held EXCEPT ![d] = Held'[d]]
      BY <2>10, MappedNow, MappedThen, OnlyAt
    <2>12. Shown'[d] = Shown[d] \cup MessagesOf(page) /\ MessagesOf(page) \subseteq Shown[c]
      BY <2>5, <2>6, MappedNow, MappedThen
    <2>13. Held'[d] = Held[d] \cup MessagesOf(page)
      <3>1. Held'[d] = Shows(d)' \cup Keeps(d)' \cup Knows(d)' /\ Held[d] = Shows(d) \cup Keeps(d) \cup Knows(d)
        BY MappedNow, MappedThen
      <3> QED BY <2>6, <2>7, <2>8, <3>1
    <2>14. ChatPhases[d] = "open" /\ c \in Forked[d]
      BY <1>2, <1>4, MappedNow DEF PhaseOf, Dest, Chat
    <2>15. Shown' = [Shown EXCEPT ![d] = @ \cup MessagesOf(page)] /\ Held' = [Held EXCEPT ![d] = @ \cup MessagesOf(page)]
      BY <2>11, <2>12, <2>13
    <2>16. Flow!Copy(d, c)
      BY <2>9, <2>12, <2>14, <2>15 DEF Flow!Copy
    <2> QED BY <2>16
  <1> QED BY <1>3, <1>4, Moves

\* What a snapshot keeps its caller read in its chat.
LEMMA KeepTurns ==
  ASSUME FlowInv, NEW t \in Tasks, KeepSnapshot(t)
  PROVE \E c \in Chats : Flow!Turn(c) \/ \E d \in Chats : Flow!EndFork(d, c)
  <1>1. At(t, "keep") /\ UNCHANGED <<chats, usedChats, table>> /\ ChatTyped
    BY DEF KeepSnapshot, FlowInv
  <1>2. PICK c \in Chats : c = Chat(t)
    BY <1>1 DEF ChatTyped, CallsOk, CallOk, CountsOk, At
  <1>3. Idle.dest = NoChat /\ Idle.chat = NoChat
    BY DEF Idle
  <1>4. CASE c \notin chats
    <2>1. End(t) /\ UNCHANGED snaps
      BY <1>2, <1>4 DEF KeepSnapshot
    <2>2. call'[t] = Idle /\ \A u \in Tasks \ {t} : call'[u] = call[u]
      BY <1>1, <2>1, EndIdles
    <2>3. CASE Dest(t) = NoChat
      <3>1. UNCHANGED <<ChatPhases, Forked>>
        BY <1>1, <1>3, <2>2, <2>3, SamePhases
      <3>2. Flow!Turn(c)
        BY <1>1, <1>2, <2>1, <2>2, <3>1, NothingHeld, IsCallTurn DEF Chat
      <3> QED BY <3>2
    <2>4. CASE Dest(t) # NoChat
      <3>1. PICK d \in Chats : d = Dest(t)
        BY <1>1, <2>4 DEF ChatTyped, CallsOk, Calls, Dest
      <3>2. Flow!EndFork(d, c)
        BY <1>1, <1>2, <2>1, <3>1, IsEndFork
      <3> QED BY <3>2
    <2> QED BY <2>3, <2>4
  <1>5. CASE c \in chats
    <2>1. PICK s \in Snaps \ usedSnaps :
            /\ snaps' = [snaps EXCEPT ![s] = [chat |-> Chat(t), msgs |-> call[t].msgs]]
      BY <1>2, <1>5 DEF KeepSnapshot
    <2>2. snaps[s] = Absent /\ Absent.chat = NoChat /\ snaps \in [Snaps -> [chat: Chats \cup {NoChat}, msgs: Seq(Messages)]]
      BY DEF FlowInv, SnapsFresh, Absent, ChatTyped, SnapsOk
    <2> DEFINE kept == [chat |-> Chat(t), msgs |-> call[t].msgs]
    <2>3. kept.chat = Chat(t) /\ kept.msgs = call[t].msgs
      OBVIOUS
    <2> HIDE DEF kept
    <2>4. snaps'[s] = kept /\ \A r \in Snaps \ {s} : snaps'[r] = snaps[r]
      BY <2>1, <2>2 DEF kept
    <2>5. snaps[s].chat = NoChat /\ snaps'[s].chat = c /\ snaps'[s].msgs = call[t].msgs
      BY <1>2, <2>2, <2>3, <2>4
    <2>6. /\ \A u \in Tasks \ {t} : call'[u] = call[u]
          /\ call'[t].chat \in {c, NoChat} /\ MessagesOf(call'[t].msgs) = {}
          /\ UNCHANGED <<ChatPhases, Forked>>
      <3>1. CASE Dest(t) = NoChat
        <4>1. End(t)
          BY <1>2, <1>5, <3>1 DEF KeepSnapshot, Dest
        <4>2. call'[t] = Idle /\ \A u \in Tasks \ {t} : call'[u] = call[u]
          BY <1>1, <4>1, EndIdles
        <4>3. UNCHANGED <<ChatPhases, Forked>>
          BY <1>1, <1>3, <3>1, <4>2, SamePhases
        <4> QED BY <1>3, <4>2, <4>3, NothingHeld
      <3>2. CASE Dest(t) # NoChat
        <4>1. ~End(t)
          <5>1. call' = [call EXCEPT ![t].pc = "branch", ![t].msgs = <<>>]
            BY <1>2, <1>5, <3>2 DEF KeepSnapshot, Dest
          <5>2. call'[t].dest = Dest(t)
            BY <1>1, <5>1, ForkCalls DEF Dest, Calls
          <5> QED BY <1>1, <1>3, <3>2, <5>2, EndIdles
        <4>2. Went(t, "branch") /\ call'[t].msgs = <<>>
          BY <1>1, <4>1, Moves
        <4>3. UNCHANGED <<ChatPhases, Forked>>
          BY <1>1, <4>2, SamePhases DEF Went, At, Early
        <4> QED BY <1>2, <4>2, <4>3, NothingHeld DEF Went
      <3> QED BY <3>1, <3>2
    <2>7. \A x \in Chats : x # NoChat
      BY Distinct
    <2>8. \A x \in Chats \ {c} : Knows(x)' = Knows(x) /\ Keeps(x)' = Keeps(x)
      <3> SUFFICES ASSUME NEW x \in Chats \ {c} PROVE Knows(x)' = Knows(x) /\ Keeps(x)' = Keeps(x)
        OBVIOUS
      <3>1. call[t].chat # x /\ call'[t].chat # x
        BY <1>2, <2>6, <2>7 DEF Chat
      <3>2. snaps[s].chat # x /\ snaps'[s].chat # x
        BY <2>5, <2>7
      <3> QED BY <2>4, <2>6, <3>1, <3>2, CallKnows, SnapKeeps
    <2>9. Knows(c)' \subseteq Knows(c) /\ MessagesOf(call[t].msgs) \subseteq Knows(c)
      BY <1>2, <2>6, CallKnows DEF Chat
    <2>10. Keeps(c)' \subseteq Keeps(c) \cup MessagesOf(call[t].msgs)
      BY <2>4, <2>5, SnapKeeps
    <2>11. \A x \in Chats : Shows(x)' = Shows(x)
      BY <1>1, SameShown
    <2>12. \A x \in Chats \ {c} : Held'[x] = Held[x] /\ Shown'[x] = Shown[x]
      BY <2>8, <2>11, HeldSame
    <2>13. Held'[c] \subseteq Held[c] \cup {} /\ Shown'[c] = Shown[c]
      <3>1. Held'[c] \subseteq Held[c] \cup {}
        BY <2>9, <2>10, <2>11, HeldHas, HeldWithin
      <3> QED BY <2>11, <3>1, MappedNow, MappedThen
    <2>14. Flow!Turn(c)
      BY <2>6, <2>12, <2>13, IsTurn
    <2> QED BY <2>14
  <1> QED BY <1>4, <1>5

LEMMA FlowInit == ASSUME Init PROVE FlowInv /\ Flow!Init
  <1>1. ChatTyped
    BY TypedInit
  <1>2. FlowInv
    BY <1>1 DEF Init, FlowInv, SnapsFresh, ForksOnly, Dest, Idle
  <1>3. \A c \in Chats : table[c] = <<>>
    BY DEF Init
  <1>4. \A c \in Chats : Shows(c) = {}
    <2> SUFFICES ASSUME NEW c \in Chats PROVE Shows(c) = {}
      OBVIOUS
    <2>1. TablesOk
      BY <1>1 DEF ChatTyped
    <2>2. Shows(c) = {table[c][i].msg : i \in 1..Len(table[c])}
      BY <2>1, ChatShows
    <2>3. Len(table[c]) = 0
      BY <1>3
    <2> QED BY <2>2, <2>3
  <1>5. \A c \in Chats : Knows(c) = {} /\ Keeps(c) = {} /\ PhaseOf(c) = "unused" /\ Forked[c] = {}
    <2> SUFFICES ASSUME NEW c \in Chats PROVE Knows(c) = {} /\ Keeps(c) = {} /\ PhaseOf(c) = "unused" /\ Forked[c] = {}
      OBVIOUS
    <2>1. c # NoChat
      BY Distinct
    <2>2. \A t \in Tasks : call[t].chat = NoChat /\ call[t].dest = NoChat
      BY DEF Init, Idle
    <2>3. \A s \in Snaps : snaps[s].chat = NoChat
      BY DEF Init, Absent
    <2>4. Knows(c) = {} /\ Keeps(c) = {}
      BY <2>1, <2>2, <2>3 DEF Knows, Keeps, Chat
    <2>5. Forked[c] = {}
      BY <2>1, <2>2, MappedNow
    <2>6. PhaseOf(c) = "unused"
      BY DEF Init, PhaseOf
    <2> QED BY <2>4, <2>5, <2>6
  <1>6. \A c \in Chats : ChatPhases[c] = "unused" /\ Shown[c] = {} /\ Held[c] = {} /\ Forked[c] = {}
    BY <1>4, <1>5, MappedNow
  <1>7. Flow!Init
    BY <1>6, MappedNow DEF Flow!Init
  <1> QED BY <1>2, <1>7

LEMMA FlowSteps == ASSUME FlowInv, Next PROVE [Flow!Next]_(Flow!flow)
  <1>1. PICK t \in Tasks :
          \/ \E c \in Chats :
               \/ CreateChat(t, c) \/ AddMessage(t, c) \/ DeleteChat(t, c)
               \/ \E i \in DOMAIN table[c] : DeleteMessage(t, c, i)
               \/ SnapshotBegin(t, c) \/ Ask(t, c)
               \/ \E d \in Chats : ForkBegin(t, c, d)
          \/ \E s \in Snaps : DeleteSnapshot(t, s) \/ RestoreBegin(t, s)
          \/ Step(t)
    BY DEF Next
  <1>2. ChatTyped
    BY DEF FlowInv
  <1>3. \/ UNCHANGED Flow!flow
        \/ \E c \in Chats :
             \/ Flow!Open(c) \/ Flow!Turn(c) \/ Flow!Close(c) \/ Flow!Begin(c)
             \/ \E m \in Messages : Flow!Say(c, m)
             \/ \E d \in Chats : Flow!Promise(d, c) \/ Flow!Copy(d, c) \/ Flow!EndFork(d, c)
    <2>1. ASSUME NEW c \in Chats,
                 \/ CreateChat(t, c) \/ AddMessage(t, c) \/ DeleteChat(t, c)
                 \/ \E i \in DOMAIN table[c] : DeleteMessage(t, c, i)
                 \/ SnapshotBegin(t, c) \/ Ask(t, c)
                 \/ \E d \in Chats : ForkBegin(t, c, d)
          PROVE \/ UNCHANGED Flow!flow \/ Flow!Open(c) \/ Flow!Turn(c) \/ Flow!Close(c)
                \/ (\E m \in Messages : Flow!Say(c, m)) \/ \E d \in Chats : Flow!Promise(d, c)
      BY <1>2, <2>1, CreateOpens, AddSays, DeleteCloses, DeleteTurns, SnapshotStutters, AskSays, ForkPromises
    <2>2. ASSUME NEW s \in Snaps, DeleteSnapshot(t, s) \/ RestoreBegin(t, s)
          PROVE UNCHANGED Flow!flow \/ \E c \in Chats : Flow!Turn(c)
      BY <1>2, <2>2, DropTurns, RestoreBeginTurns
    <2>3. ASSUME Step(t)
          PROVE \/ UNCHANGED Flow!flow
                \/ \E c \in Chats : \/ Flow!Turn(c) \/ Flow!Begin(c) \/ \E m \in Messages : Flow!Say(c, m)
                                    \/ \E d \in Chats : Flow!Copy(d, c) \/ Flow!EndFork(d, c)
      BY <1>2, <2>3, ReadTurns, KeepTurns, BranchBegins, CountStutters, CopyCopies, DoneEnds, RestoreTurns,
         ReplySays, NoReplyTurns DEF Step
    <2> QED BY <1>1, <2>1, <2>2, <2>3
  <1> QED BY <1>3 DEF Flow!Next

LEMMA FlowStutters == ASSUME UNCHANGED vars PROVE UNCHANGED Flow!flow
  <1>1. UNCHANGED <<ChatPhases, Forked>>
    BY DEF vars, ChatPhases, PhaseOf, Promised, Forked, Chat
  <1>2. UNCHANGED <<Shown, Held>>
    BY DEF vars, Shown, Held, Shows, Keeps, Knows, Listing, Chat
  <1> QED BY <1>1, <1>2 DEF Flow!flow

\* Whatever snapshots, restores, forks and exchanges overlap, a message gets from one chat
\* to another only by the fork that makes the other, and a deleted chat shows nothing again
\* (create_snapshot, restore_snapshot, fork_chat, delete_chat, _msg_stream).
THEOREM MessagesStayInChats == Spec => FlowSpec
  <1>1. Init => FlowInv /\ Flow!Init
    BY FlowInit
  <1>2. FlowInv /\ [Next]_vars => FlowInv'
    BY FlowInvStep
  <1>3. FlowInv /\ [Next]_vars => [Flow!Next]_(Flow!flow)
    BY FlowSteps, FlowStutters
  <1> QED BY <1>1, <1>2, <1>3, PTL DEF Spec, FlowSpec, Flow!Spec
===============================================================================
